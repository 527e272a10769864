-------------------------- MODULE OpportunityBoard --------------------------
(***************************************************************************)
(* The table opportunities as its writers share it: the mirror of the      *)
(* NowCerts opportunities (hermes/sync/opportunity_sync.py), the quote     *)
(* sync (quote_sync.py), the merge of duplicate pairs and the retirement   *)
(* (opportunity_dedupe.py), the repair (quote_board_repair.py) and the     *)
(* people of the CRM (hermes/api.py).  Every one of them reads, decides    *)
(* and writes by id in requests of their own, so each request is a step.   *)
(*                                                                         *)
(* A line is one client and one line of business; a type is "new" for      *)
(* everything worked on the new-business ladder and "renewal" for the      *)
(* other.  Premiums, dates, carriers and owners are left out: the writers  *)
(* copy them and decide nothing by them, except that a pair whose premiums *)
(* differ is skipped, a choice here.                                       *)
(***************************************************************************)
EXTENDS Naturals, FiniteSets

CONSTANTS
    Row,        \* ids of rows, numbered as they are inserted
    Line, Opp, Quote,
    Absent,     \* no row, no opportunity, no quote, nothing read
    LineOf,     \* LineOf[q]: the deal that quote q is for
    TypeOf,     \* TypeOf[q]: the AMS's businessType of it
    TermOf,     \* TermOf[q]: its effective date
    AmsLine,    \* AmsLine[o]: the deal that opportunity o stands for
    Start,      \* the boards to start from
    Cast,       \* the sets of jobs that may run side by side
    MaxMoves,   \* bound on what people do in the CRM and in NowCerts
    MaxFaults   \* bound on requests that fail

Type == {"new", "renewal"}
Job == {"mirror", "quotes", "dedupe", "retire", "repair"}
Source == {"none", "crm", "mirror", "quotes"}

ASSUME BoardAssumption ==
    /\ Row \subseteq Nat \ {0} /\ IsFiniteSet(Row)
    /\ LineOf \in [Quote -> Line] /\ TypeOf \in [Quote -> Type] /\ TermOf \in [Quote -> Nat]
    /\ AmsLine \in [Opp -> Line]
    /\ Absent \notin Row \cup Opp \cup Quote
    /\ Absent \notin {"prep", "quoted", "due", "requote", "bound"}
    /\ Cast \subseteq SUBSET Job
    /\ {MaxMoves, MaxFaults} \subseteq Nat

VARIABLES
    board,      \* board[r]: the row r of opportunities
    register,   \* the quotes NowCerts calls open
    ams,        \* ams[o]: type and stage of the opportunity o in NowCerts
    jobs,       \* the jobs that run in this behaviour
    job,        \* job[j]: where job j is and what it has read
    archive,    \* the rows written to a backup file
    born,       \* history: who inserted row r
    given,      \* history: the type and stage a person gave row r, while they stick
    stood,      \* history: the quotes open ever since the retirement asked for their deals
    moves, faults

vars == <<board, register, ams, jobs, job, archive, born, given, stood, moves, faults>>

-----------------------------------------------------------------------------
(* hermes_core/opportunities.py: types and stages                          *)

\* stages_for_type().  "prep" stands for the stages before a quote, "bound" for
\* the stage both ladders share.
Stages(type) == IF type = "renewal" THEN {"due", "requote", "bound"}
                                    ELSE {"prep", "quoted", "bound"}

\* default_stage_for_type()
FirstStage(type) == IF type = "renewal" THEN "due" ELSE "prep"

\* quote_sync._stage_for(): "we have a quote in hand" on the ladder of the type.
StageFor(type) == IF type = "renewal" THEN "requote" ELSE "quoted"

\* quote_sync._PRE_QUOTE_STAGES
PreQuote == {"prep"}

Deal == [line : Line, type : Type, stage : Stages("new") \cup Stages("renewal"),
         source : Source, opp : Opp \cup {Absent}, quote : Quote \cup {Absent}]

ASSUME StartAssumption == Start \subseteq [Row -> Deal \cup {Absent}]

\* What a person decides about a deal.
Standing(deal) == <<deal.type, deal.stage>>
Given == Type \X (Stages("new") \cup Stages("renewal"))

Held == {r \in Row : board[r] # Absent}
OnLine(line) == {r \in Held : board[r].line = line}
OfType(line, type) == {r \in OnLine(line) : board[r].type = type}

\* The unique indexes: one row per client, line and type, one per opportunity id.
Admits(r, deal) ==
    \A s \in Held \ {r} : /\ <<board[s].line, board[s].type>> # <<deal.line, deal.type>>
                          /\ deal.opp = Absent \/ board[s].opp # deal.opp

Fresh(r) == born[r] = "nobody" /\ \A s \in Row : s < r => born[s] # "nobody"

Insert(r, deal, who) ==
    /\ Fresh(r) /\ Admits(r, deal)
    /\ board' = [board EXCEPT ![r] = deal]
    /\ born' = [born EXCEPT ![r] = who]
    /\ UNCHANGED given

Nothing == [at |-> "rest", todo |-> {}, item |-> Absent, row |-> Absent, seen |-> Absent,
            created |-> FALSE, open |-> {}, lines |-> {}]

TypeOK ==
    /\ board \in [Row -> Deal \cup {Absent}]
    /\ register \subseteq Quote
    /\ ams \in [Opp -> [type : Type, stage : Stages("new") \cup Stages("renewal")]]
    /\ jobs \in Cast
    /\ archive \subseteq Row
    /\ born \in [Row -> Job \cup {"nobody", "people"}]
    /\ given \in [Row -> Given \cup {Absent}]
    /\ stood \subseteq Quote
    /\ \A j \in Job : job[j].row \in Row \cup {Absent} /\ job[j].seen \in Deal \cup {Absent}
    /\ moves \in 0..MaxMoves /\ faults \in 0..MaxFaults

Init ==
    /\ board \in Start /\ jobs \in Cast
    /\ register \in SUBSET Quote
    /\ ams \in [Opp -> [type : Type, stage : Stages("new") \cup Stages("renewal")]]
    /\ \A o \in Opp : ams[o].stage \in Stages(ams[o].type)
    /\ job = [j \in Job |-> Nothing]
    /\ born = [r \in Row |-> IF board[r] = Absent THEN "nobody" ELSE "people"]
    /\ given = [r \in Row |-> IF board[r] # Absent /\ board[r].source = "crm"
                               THEN Standing(board[r]) ELSE Absent]
    /\ stood = {}
    /\ archive = {} /\ moves = 0 /\ faults = 0

-----------------------------------------------------------------------------
(* The steps of a job                                                      *)

Goto(j, place) == job' = [job EXCEPT ![j].at = place]

\* The next item of the loop, or the end of the run.
Continue(j) == job' = [job EXCEPT ![j] = [Nothing EXCEPT
    !.at = IF job[j].todo = {} THEN "rest" ELSE "next",
    !.todo = job[j].todo, !.open = job[j].open, !.lines = job[j].lines]]

At(j, place) == j \in jobs /\ job[j].at = place
WorldIdle == UNCHANGED <<register, ams, jobs, stood, moves>>
TableIdle == UNCHANGED <<board, archive, born, given>>

\* Job j writes what it decided about row r: what a person gave no longer sticks.
Overrule(r) == given' = [given EXCEPT ![r] = Absent]

\* A request fails: the item is recorded as an error and the loop goes on.
Fault == faults < MaxFaults /\ faults' = faults + 1
Fail(j) ==
    /\ j \in jobs \ {"retire"} /\ job[j].at \notin {"rest", "next"}
    /\ Fault /\ Continue(j) /\ TableIdle /\ WorldIdle

\* Takes the next item off the list that was read at the start.
Take(j, item, place) ==
    /\ At(j, "next") /\ item \in job[j].todo
    /\ job' = [job EXCEPT ![j].at = place, ![j].item = item, ![j].todo = @ \ {item}]
    /\ TableIdle /\ WorldIdle /\ UNCHANGED faults

Begin(j, place, todo) ==
    /\ At(j, "rest") /\ todo # {}
    /\ job' = [job EXCEPT ![j] = [Nothing EXCEPT !.at = place, !.todo = todo]]
    /\ TableIdle /\ WorldIdle /\ UNCHANGED faults

\* An update by id; the row may be gone by now, and then nothing happens.
Update(r, deal) ==
    IF board[r] = Absent THEN UNCHANGED board
    ELSE Admits(r, deal) /\ board' = [board EXCEPT ![r] = deal]

\* The unique index refuses the write: an error like any other.
Refused(j, r, deal) ==
    /\ board[r] # Absent /\ ~Admits(r, deal)
    /\ Continue(j) /\ TableIdle

-----------------------------------------------------------------------------
(* opportunity_sync.run_opportunity_sync()                                 *)

Fetched == [id : Opp, type : Type, stage : Stages("new") \cup Stages("renewal")]

\* fetch_opportunities(): read once, before the loop.
StartMirror == Begin("mirror", "next",
    {[id |-> o, type |-> ams[o].type, stage |-> ams[o].stage] : o \in Opp})

NextOpportunity == \E o \in job["mirror"].todo : Take("mirror", o, "find")

\* _find_existing(): by the AMS's id, else by client, line and type.
Existing(o) ==
    LET byId == {r \in Held : board[r].opp = o.id}
    IN  IF byId # {} THEN byId ELSE OfType(AmsLine[o.id], o.type)

\* A faulty sync that overwrites whatever it finds.
ClaimedNever(deal) == FALSE

\* A deal that is worked in the CRM is left alone.
Claimed(deal) == deal.source = "crm"

FindOpportunity ==
    /\ At("mirror", "find")
    /\ LET o == job["mirror"].item IN
       \/ Existing(o) = {} /\ Goto("mirror", "insert")
       \/ \E r \in Existing(o) :
             IF Claimed(board[r]) THEN Continue("mirror")
             ELSE job' = [job EXCEPT !["mirror"].at = "write", !["mirror"].row = r,
                                     !["mirror"].seen = board[r]]
    /\ TableIdle /\ WorldIdle /\ UNCHANGED faults

\* _payload(): type and stage are the AMS's, taken verbatim.
Mirrored(deal, o) == [deal EXCEPT !.type = o.type, !.stage = o.stage, !.opp = o.id,
                                  !.source = "mirror"]

WriteOpportunity ==
    /\ At("mirror", "write")
    /\ LET r == job["mirror"].row
           deal == Mirrored(board[r], job["mirror"].item)
       IN  \/ Update(r, deal) /\ Overrule(r) /\ Continue("mirror") /\ UNCHANGED <<archive, born>>
           \/ Refused("mirror", r, deal)
    /\ WorldIdle /\ UNCHANGED faults

NewDeal(line, type, stage) ==
    [line |-> line, type |-> type, stage |-> stage, source |-> "none",
     opp |-> Absent, quote |-> Absent]

InsertOpportunity ==
    /\ At("mirror", "insert") /\ Continue("mirror")
    /\ LET o == job["mirror"].item
           deal == Mirrored(NewDeal(AmsLine[o.id], o.type, o.stage), o)
       IN  \/ \E r \in Row : Insert(r, deal, "mirror") /\ UNCHANGED archive
           \/ \E r \in Row : Fresh(r) /\ ~Admits(r, deal) /\ TableIdle
    /\ WorldIdle /\ UNCHANGED faults

Mirror == StartMirror \/ NextOpportunity \/ FindOpportunity \/ WriteOpportunity \/ InsertOpportunity

-----------------------------------------------------------------------------
(* quote_sync.run_quote_sync()                                             *)

\* _latest_term_per_deal(): of the open quotes of a line, the newest term.
LatestTerms == {q \in register : \A p \in register :
                   LineOf[p] = LineOf[q] => TermOf[p] <= TermOf[q]}

StartQuotes == Begin("quotes", "next", LatestTerms)

NextQuote == \E q \in job["quotes"].todo : Take("quotes", q, "find")

Adopt(r, created) == job' = [job EXCEPT !["quotes"].at = "write", !["quotes"].row = r,
                                        !["quotes"].seen = board[r], !["quotes"].created = created]

\* A faulty lookup by client, line and type, as an earlier version had it.
PriorByType(q) == OfType(LineOf[q], TypeOf[q])

\* Any deal of the client and the line counts, whatever its type.
Prior(q) == OnLine(LineOf[q])

FindPrior ==
    /\ At("quotes", "find")
    /\ LET q == job["quotes"].item IN
       \/ Prior(q) = {} /\ Goto("quotes", "lookup")
       \/ \E r \in Prior(q) : Adopt(r, FALSE)
    /\ TableIdle /\ WorldIdle /\ UNCHANGED faults

\* create_opportunity() looks once more, by type this time, ...
LookUp ==
    /\ At("quotes", "lookup")
    /\ LET q == job["quotes"].item IN
       \/ OfType(LineOf[q], TypeOf[q]) = {} /\ Goto("quotes", "insert")
       \/ \E r \in OfType(LineOf[q], TypeOf[q]) : Adopt(r, FALSE)
    /\ TableIdle /\ WorldIdle /\ UNCHANGED faults

\* ... and inserts.
Create ==
    /\ At("quotes", "insert")
    /\ LET q == job["quotes"].item
           deal == NewDeal(LineOf[q], TypeOf[q], StageFor(TypeOf[q]))
       IN  \/ \E r \in Row :
                 /\ Insert(r, deal, "quotes") /\ UNCHANGED archive
                 /\ job' = [job EXCEPT !["quotes"].at = "write", !["quotes"].row = r,
                                       !["quotes"].seen = deal, !["quotes"].created = TRUE]
           \/ \E r \in Row : Fresh(r) /\ ~Admits(r, deal) /\ TableIdle /\ Continue("quotes")
    /\ WorldIdle /\ UNCHANGED faults

\* Forward only, by the stage that was read.
Promotes == ~job["quotes"].created /\ job["quotes"].seen.stage \in PreQuote

\* _enrichment_payload() and the promotion: the deal is the sync's from now on,
\* also one that a person has worked.
Enriched(deal) ==
    [deal EXCEPT !.quote = job["quotes"].item, !.source = "quotes",
                 !.stage = IF Promotes THEN StageFor("new") ELSE @]

Enrich ==
    /\ At("quotes", "write") /\ Continue("quotes")
    /\ LET r == job["quotes"].row IN Update(r, Enriched(board[r])) /\ Overrule(r)
    /\ UNCHANGED <<archive, born>> /\ WorldIdle /\ UNCHANGED faults

Quotes == StartQuotes \/ NextQuote \/ FindPrior \/ LookUp \/ Create \/ Enrich

-----------------------------------------------------------------------------
(* opportunity_dedupe.run_dedupe()                                         *)

FromQuotes(r) == board[r].source = "quotes"

\* _prefer(): a line of exactly two rows, one of the quote sync and one not.
Prefer(keep, drop) ==
    /\ OnLine(board[keep].line) = {keep, drop} /\ keep # drop
    /\ FromQuotes(drop) /\ ~FromQuotes(keep)

\* A faulty merge that carries nothing across.
CarriedNothing(keep, drop) == [opp |-> Absent, quote |-> Absent]

\* CARRY_OVER: what the twin has and the survivor lacks.
Carried(keep, drop) ==
    [opp   |-> IF board[keep].opp = Absent THEN board[drop].opp ELSE Absent,
     quote |-> IF board[keep].quote = Absent THEN board[drop].quote ELSE Absent]

Pair(keep, drop) == [keep |-> keep, drop |-> drop, carried |-> Carried(keep, drop),
                     twin |-> board[drop]]
Pairs == {Pair(p[1], p[2]) : p \in {q \in Held \X Held : Prefer(q[1], q[2])}}

\* find_pairs(): the whole table, once; pairs whose premiums differ are skipped.
StartDedupe == \E same \in SUBSET Pairs : Begin("dedupe", "next", same)

NextPair == \E p \in job["dedupe"].todo : Take("dedupe", p, "merge")

Filled(old, new) == IF new = Absent THEN old ELSE new
Merged(deal, carried) == [deal EXCEPT !.opp = Filled(@, carried.opp),
                                      !.quote = Filled(@, carried.quote)]

MergePair ==
    /\ At("dedupe", "merge")
    /\ LET p == job["dedupe"].item
           deal == Merged(board[p.keep], p.carried)
       IN  \/ /\ Update(p.keep, deal) /\ Goto("dedupe", "drop")
              /\ UNCHANGED <<archive, born, given>>
           \/ Refused("dedupe", p.keep, deal)
    /\ WorldIdle /\ UNCHANGED faults

Delete(r) == board' = [board EXCEPT ![r] = Absent] /\ UNCHANGED <<archive, born, given>>

DropTwin ==
    /\ At("dedupe", "drop") /\ Delete(job["dedupe"].item.drop) /\ Continue("dedupe")
    /\ WorldIdle /\ UNCHANGED faults

Dedupe == StartDedupe \/ NextPair \/ MergePair \/ DropTwin

-----------------------------------------------------------------------------
(* opportunity_dedupe.run_retirement()                                     *)

\* open_quote_guids(), then open_quote_deals(): the register is fetched twice.
ReadGuids ==
    /\ At("retire", "rest")
    /\ job' = [job EXCEPT !["retire"].at = "deals", !["retire"].open = register]
    /\ TableIdle /\ WorldIdle /\ UNCHANGED faults

ReadDeals ==
    /\ At("retire", "deals")
    /\ job' = [job EXCEPT !["retire"].at = "plan",
                          !["retire"].lines = {LineOf[q] : q \in register}]
    /\ stood' = register
    /\ TableIdle /\ UNCHANGED <<register, ams, jobs, moves, faults>>

\* plan_retirement(): neither the quote of the row nor any of its line is open.
\* A row without a guid is not this sweep's business.
Retired(r) == /\ board[r].quote # Absent /\ board[r].quote \notin job["retire"].open
              /\ board[r].line \notin job["retire"].lines

PlanRetirement ==
    /\ At("retire", "plan")
    /\ LET gone == {r \in Held : Retired(r)} IN
       /\ job' = [job EXCEPT !["retire"].todo = gone,
                             !["retire"].at = IF gone = {} THEN "rest" ELSE "archive"]
    /\ TableIdle /\ WorldIdle /\ UNCHANGED faults

\* backup(): the rows, before anything goes.  The carrier quotes of a row are asked
\* of a table "quotes" that no migration makes, and the error is passed over: the
\* file has none of them, and they go with the row (opportunity_quotes, ON DELETE
\* CASCADE).
Archive ==
    /\ At("retire", "archive") /\ archive' = archive \cup job["retire"].todo
    /\ Goto("retire", "next") /\ UNCHANGED <<board, born, given>>
    /\ WorldIdle /\ UNCHANGED faults

RetireRow ==
    /\ At("retire", "next")
    /\ \E r \in job["retire"].todo :
          /\ Delete(r)
          /\ job' = [job EXCEPT !["retire"] = IF job["retire"].todo = {r} THEN Nothing
                                              ELSE [job["retire"] EXCEPT !.todo = @ \ {r}]]
    /\ WorldIdle /\ UNCHANGED faults

\* Only a failed delete is an error of one row; a failed read or backup ends the run.
FailRetirement ==
    /\ "retire" \in jobs /\ job["retire"].at # "rest" /\ Fault
    /\ \/ job["retire"].at # "next" /\ job' = [job EXCEPT !["retire"] = Nothing]
       \/ /\ job["retire"].at = "next"
          /\ \E r \in job["retire"].todo :
                job' = [job EXCEPT !["retire"] = IF job["retire"].todo = {r} THEN Nothing
                                                 ELSE [job["retire"] EXCEPT !.todo = @ \ {r}]]
    /\ TableIdle /\ WorldIdle

Retire == ReadGuids \/ ReadDeals \/ PlanRetirement \/ Archive \/ RetireRow \/ FailRetirement

-----------------------------------------------------------------------------
(* quote_board_repair.run_repair()                                         *)

Taken(line, type) == OfType(line, type) # {}

\* What plan() wants of a row: the register's type, on a stage of that ladder.
Fix(r) ==
    LET want == TypeOf[board[r].quote]
    IN  [row |-> r, type |-> want, seen |-> board[r],
         stage |-> IF board[r].stage \in Stages(want) THEN Absent ELSE StageFor(want)]

\* plan(): a row a person typed and a slot that is taken are left alone.
Fixes == {Fix(r) : r \in {s \in Held : /\ board[s].quote # Absent
                                       /\ TypeOf[board[s].quote] # board[s].type
                                       /\ board[s].source # "crm"
                                       /\ ~Taken(board[s].line, TypeOf[board[s].quote])}}

StartRepair ==
    /\ At("repair", "rest") /\ Fixes # {}
    /\ job' = [job EXCEPT !["repair"] = [Nothing EXCEPT !.at = "next", !.todo = Fixes]]
    /\ archive' = archive \cup Held
    /\ UNCHANGED <<board, born, given>> /\ WorldIdle /\ UNCHANGED faults

NextFix == \E f \in job["repair"].todo : Take("repair", f, "write")

Retyped(deal, f) == [deal EXCEPT !.type = f.type, !.stage = Filled(@, f.stage)]

\* A collision the plan missed leaves type and stage alone: the other fields go in.
ApplyFix ==
    /\ At("repair", "write") /\ Continue("repair")
    /\ LET f == job["repair"].item
           deal == Retyped(board[f.row], f)
       IN  \/ Update(f.row, deal) /\ Overrule(f.row) /\ UNCHANGED <<archive, born>>
           \/ board[f.row] # Absent /\ ~Admits(f.row, deal) /\ TableIdle
    /\ WorldIdle /\ UNCHANGED faults

Repair == StartRepair \/ NextFix \/ ApplyFix

-----------------------------------------------------------------------------
(* People                                                                  *)

Move == moves < MaxMoves /\ moves' = moves + 1
JobsIdle == UNCHANGED <<jobs, job, archive, faults>>

\* advance_stage() and update_opportunity_endpoint(): every edit claims the row.
\* A new type without a new stage may leave the row on the other ladder.
Work(r) ==
    /\ Move /\ r \in Held
    /\ \E type \in Type, stage \in Stages("new") \cup Stages("renewal") :
          LET deal == [board[r] EXCEPT !.type = type, !.stage = stage, !.source = "crm"]
          IN  /\ stage \in Stages(type) \/ stage = board[r].stage
              /\ Admits(r, deal) /\ board' = [board EXCEPT ![r] = deal]
              /\ given' = [given EXCEPT ![r] = Standing(deal)]
    /\ JobsIdle /\ UNCHANGED <<register, ams, born, stood>>

\* create_opportunity_endpoint(): an existing deal of the type is returned.
Open(line, type) ==
    /\ Move /\ ~Taken(line, type)
    /\ \E r \in Row : Insert(r, NewDeal(line, type, FirstStage(type)), "people")
    /\ JobsIdle /\ UNCHANGED <<register, ams, stood>>

\* delete_opportunity_endpoint()
Discard(r) ==
    /\ Move /\ r \in Held /\ board' = [board EXCEPT ![r] = Absent]
    /\ JobsIdle /\ UNCHANGED <<register, ams, born, given, stood>>

\* In NowCerts a quote is bound, declined or expires, ...
CloseQuote(q) ==
    /\ Move /\ q \in register
    /\ register' = register \ {q} /\ stood' = stood \ {q}
    /\ TableIdle /\ JobsIdle /\ UNCHANGED ams

\* ... or a carrier quotes, ...
OpenQuote(q) ==
    /\ Move /\ q \notin register /\ register' = register \cup {q}
    /\ TableIdle /\ JobsIdle /\ UNCHANGED <<ams, stood>>

\* ... and an opportunity moves on.
MoveInAms(o) ==
    /\ Move /\ \E stage \in Stages(ams[o].type) \ {ams[o].stage} :
          ams' = [ams EXCEPT ![o].stage = stage]
    /\ TableIdle /\ JobsIdle /\ UNCHANGED <<register, stood>>

Next ==
    \/ Mirror \/ Quotes \/ Dedupe \/ Retire \/ Repair
    \/ \E j \in Job : Fail(j)
    \/ \E r \in Row : Work(r) \/ Discard(r)
    \/ \E line \in Line, type \in Type : Open(line, type)
    \/ \E q \in Quote : CloseQuote(q) \/ OpenQuote(q)
    \/ \E o \in Opp : MoveInAms(o)

Spec == Init /\ [][Next]_vars

-----------------------------------------------------------------------------
(* Properties                                                              *)

\* A job writes row r by what it has read of it: seen.
Writes(r, seen) ==
    \/ WriteOpportunity /\ job["mirror"].row = r /\ job["mirror"].seen = seen
    \/ Enrich /\ job["quotes"].row = r /\ job["quotes"].seen = seen
    \/ ApplyFix /\ job["repair"].item.row = r /\ job["repair"].item.seen = seen

\* It writes by a reading that somebody has overtaken since.
Overtaken(r) ==
    \/ WriteOpportunity /\ job["mirror"].row = r /\ job["mirror"].seen # board[r]
    \/ Enrich /\ job["quotes"].row = r /\ job["quotes"].seen # board[r]
    \/ ApplyFix /\ job["repair"].item.row = r /\ job["repair"].item.seen # board[r]

\* The type and stage a person gave a deal stay until a person gives it others,
\* through the nights of all five jobs (opportunity_sync.py: once a deal is being
\* worked in the CRM the sync no longer overwrites it; quote_board_repair.py: a human
\* is not overruled by a register row).  Two things end that, and nothing else does.
\* The quote sync stamps its own source on the deal when a quote comes in, promoting
\* it if it stands before a quote, and from then on the mirror takes it for its own,
\* against what opportunity_sync.py and api.py say; and a job that has read the deal
\* before the person's edit may write after it.
\* Nor does a job that has read the deal as it is take it off the ladder of its type,
\* by a new type without a stage or a stage of the wrong ladder.
WorkedSpared ==
    [][\A r \in Held : board'[r] # Absent =>
          /\ given[r] # Absent =>
                \/ Standing(board'[r]) = given[r]
                \/ Work(r)
                \/ Enrich /\ board[r].stage \in PreQuote
                \/ Overtaken(r)
          /\ Writes(r, board[r]) /\ board[r].stage \in Stages(board[r].type)
                => board'[r].stage \in Stages(board'[r].type)]_vars

\* For every client and line the quote sync opens one deal, whatever the types
\* of the quotes it meets from night to night and whatever the others do to the
\* rows meanwhile (the duplicates it made earlier are what the merge clears).
OneQuoteDealPerLine ==
    \A r, s \in Held : born[r] = "quotes" /\ born[s] = "quotes" /\ board[r].line = board[s].line
        => r = s

BoardSafe == TypeOK /\ OneQuoteDealPerLine

\* A job that removes rows loses no quote the agency waits on.  When a merge drops a
\* twin, the survivor names a quote if the twin did (as it was read), however a failed
\* or refused update of the survivor and the deletion follow one another; and the
\* retirement takes no deal off the board with a quote that has been open ever since
\* it asked, though the row may name the quote of an earlier term, and the row it
\* takes is in the archive.  (A quote that opens after it asked is not seen, and the
\* row's own carrier quotes are not in the archive.)
NothingLost ==
    [][\A r \in Held :
          /\ DropTwin /\ r = job["dedupe"].item.keep /\ job["dedupe"].item.twin.quote # Absent
             => board[r].quote # Absent
          /\ RetireRow /\ board'[r] = Absent
             => r \in archive /\ ~\E q \in stood : LineOf[q] = board[r].line]_vars

=============================================================================
