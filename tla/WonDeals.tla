------------------------------ MODULE WonDeals ------------------------------
(***************************************************************************)
(* A deal that is decided goes to NowCerts: the stage move of the CRM      *)
(* (hermes/api.py, hermes_core/opportunities.py) stages two kinds of rows  *)
(* in outbound_sync_queue,                                                 *)
(*                                                                         *)
(*    back   the stage of an opportunity that came from NowCerts           *)
(*           (hermes/sync/opportunity_writeback.py), won or lost;          *)
(*    won    the insured and the policy of a won deal                      *)
(*           (hermes/sync/opportunity_won.py),                             *)
(*                                                                         *)
(* and an executor of each kind drains them later, while people go on      *)
(* moving, editing and deleting deals and working in NowCerts.             *)
(*                                                                         *)
(* Attempts, backoff and the lease are SyncScheduler's subject: here a row *)
(* that failed or was left behind may be requeued at any time, which the   *)
(* retry passes do for the kind back only.                                 *)
(***************************************************************************)
EXTENDS Naturals, FiniteSets

CONSTANTS
    Deals, Person,
    Executor,     \* processes that run the executors
    Entry,        \* ids of queue rows, numbered as they are inserted
    MaxStageMoves,     \* bound on stage moves and edits
    MaxAmsEdits,     \* bound on edits in NowCerts
    MaxWonFaults

ASSUME WonAssumption ==
    /\ Entry \subseteq Nat \ {0} /\ IsFiniteSet(Entry) /\ Deals # {}
    /\ {MaxStageMoves, MaxAmsEdits, MaxWonFaults} \subseteq Nat

VARIABLES
    deal,       \* deal[d]: the row of opportunities
    amsDeal,        \* amsDeal[d]: the opportunity in NowCerts: its stage and all its other fields
    insureds,   \* the deals whose client NowCerts has an insured for
    queue,      \* outbound_sync_queue
    person,     \* person[p]: the stage move that person p is in
    exec,       \* exec[e]: what executor e is doing
    policies,   \* policies[j]: how many policies NowCerts took from row j
    wonMoves, edits, wonFaults,
    everWon,    \* history: deals that were won, with a policy number, after some move or edit
    latest,     \* history: the last edit of the opportunity in NowCerts
    raced       \* history: deals whose last edit fell between an executor's read and its write

wonVars == <<deal, amsDeal, insureds, queue, person, exec, policies, wonMoves, edits, wonFaults, everWon, latest, raced>>

Status == {"open", "won", "lost"}
Kind == {"back", "won"}

\* A row of the queue: the snapshot of the deal it was staged from.
DealRow == [kind : Kind, deal : Deals, status : {"queued", "processing", "completed", "failed"},
        target : Status, insured : BOOLEAN, fields : 0..MaxAmsEdits]
Unused == [kind |-> "none"]

WonTypeOK ==
    /\ deal \in [Deals -> [there : BOOLEAN, status : Status, mirrored : BOOLEAN,
                          number : BOOLEAN, insured : BOOLEAN, policy : BOOLEAN]]
    /\ amsDeal \in [Deals -> [stage : Status, fields : 0..MaxAmsEdits]]
    /\ insureds \subseteq Deals /\ everWon \subseteq Deals /\ raced \subseteq Deals
    /\ queue \in [Entry -> DealRow \cup {Unused}]
    /\ person \in [Person -> [at : {"rest", "back", "won"}, deal : Deals,
                              status : Status, mirrored : BOOLEAN, number : BOOLEAN,
                              insured : BOOLEAN, policy : BOOLEAN]]
    /\ \A e \in Executor : /\ exec[e].at \in {"rest", "claim", "insured", "policy", "link", "close",
                                              "fresh", "write", "failed", "doubt"}
                           /\ exec[e].entry \in Entry \cup {0} /\ exec[e].fields \in 0..MaxAmsEdits
    /\ policies \in [Entry -> Nat] /\ latest \in [Deals -> 0..MaxAmsEdits]
    /\ wonMoves \in 0..MaxStageMoves /\ edits \in 0..MaxAmsEdits /\ wonFaults \in 0..MaxWonFaults

NotDraining == [at |-> "rest", entry |-> 0, fields |-> 0, guid |-> FALSE]

WonInit ==
    /\ deal \in [Deals -> [there : {TRUE}, status : {"open"}, mirrored : BOOLEAN,
                          number : BOOLEAN, insured : BOOLEAN, policy : {FALSE}]]
    /\ amsDeal = [d \in Deals |-> [stage |-> "open", fields |-> 0]]
    /\ insureds = {d \in Deals : deal[d].insured}
    /\ queue = [j \in Entry |-> Unused]
    /\ person \in [Person -> {[at |-> "rest", deal |-> CHOOSE d \in Deals : TRUE, status |-> "open",
                   mirrored |-> FALSE, number |-> FALSE, insured |-> FALSE, policy |-> FALSE]}]
    /\ exec = [e \in Executor |-> NotDraining]
    /\ policies = [j \in Entry |-> 0]
    /\ wonMoves = 0 /\ edits = 0 /\ wonFaults = 0 /\ everWon = {} /\ raced = {}
    /\ latest = [d \in Deals |-> 0]

WonFault == wonFaults < MaxWonFaults /\ wonFaults' = wonFaults + 1
NoWonFault == UNCHANGED wonFaults
Moved == wonMoves < MaxStageMoves /\ wonMoves' = wonMoves + 1
HistoryOf(d) == everWon' = IF deal'[d].status = "won" /\ deal'[d].number
                           THEN everWon \cup {d} ELSE everWon

-----------------------------------------------------------------------------
(* The queue                                                               *)

Used(j) == queue[j] # Unused
Queued(j) == Used(j) /\ queue[j].status = "queued"

\* uq_outbound_queue_open_work: one queued row per kind and deal.
Free(kind, d) == ~\E j \in Entry : Queued(j) /\ queue[j].kind = kind /\ queue[j].deal = d

Stage(kind, d, target, insured) ==
    /\ Free(kind, d)
    /\ \E j \in Entry :
          /\ ~Used(j) /\ \A i \in Entry : i < j => Used(i)
          /\ queue' = [queue EXCEPT ![j] =
                [kind |-> kind, deal |-> d, status |-> "queued", target |-> target,
                 insured |-> insured, fields |-> amsDeal[d].fields]]

Close(j, status) == queue' = [queue EXCEPT ![j].status = status]

-----------------------------------------------------------------------------
(* update_opportunity_stage()                                              *)

\* advance_stage(): the row that the update returns is what the rest goes by.
Drag(p, d, status) ==
    /\ person[p].at = "rest" /\ Moved /\ deal[d].there
    /\ deal' = [deal EXCEPT ![d].status = status] /\ HistoryOf(d)
    /\ person' = [person EXCEPT ![p] =
          [at |-> IF status = "open" THEN "rest" ELSE "back", deal |-> d, status |-> status,
           mirrored |-> deal[d].mirrored, number |-> deal[d].number,
           insured |-> deal[d].insured, policy |-> deal[d].policy]]
    /\ NoWonFault /\ UNCHANGED <<amsDeal, insureds, queue, exec, policies, edits, latest, raced>>

Done(p) == person' = [person EXCEPT ![p].at = "rest"]
PersonIdle == UNCHANGED <<deal, amsDeal, insureds, exec, policies, wonMoves, edits, everWon, latest, raced>>

\* stage_writeback(): best effort, and only for an opportunity NowCerts has.
StageBack(p) ==
    /\ person[p].at = "back"
    /\ person' = [person EXCEPT ![p].at = IF @ = "back" /\ person[p].status = "won" THEN "won" ELSE "rest"]
    /\ \/ ~person[p].mirrored /\ NoWonFault /\ UNCHANGED queue
       \/ /\ person[p].mirrored /\ NoWonFault
          /\ Stage("back", person[p].deal, person[p].status, person[p].insured)
       \/ person[p].mirrored /\ ~Free("back", person[p].deal) /\ NoWonFault /\ UNCHANGED queue
       \/ person[p].mirrored /\ WonFault /\ UNCHANGED queue
    /\ PersonIdle

\* A faulty check that does not ask for the policy number.
PushableUnnumbered(row) == row.status = "won" /\ ~row.policy

\* check_pushable()
Pushable(row) == row.status = "won" /\ ~row.policy /\ row.number

\* stage_won(): refused with a reason when the deal is not ready.
StageWon(p) ==
    /\ person[p].at = "won" /\ Done(p)
    /\ \/ ~Pushable(person[p]) /\ NoWonFault /\ UNCHANGED queue
       \/ Pushable(person[p]) /\ NoWonFault /\ Stage("won", person[p].deal, "won", person[p].insured)
       \/ Pushable(person[p]) /\ ~Free("won", person[p].deal) /\ NoWonFault /\ UNCHANGED queue
       \/ Pushable(person[p]) /\ WonFault /\ UNCHANGED queue
    /\ PersonIdle

\* update_opportunity_endpoint(): a policy number, or a stage that stages nothing.
EditDeal(d) ==
    /\ Moved /\ deal[d].there
    /\ \/ deal' = [deal EXCEPT ![d].number = ~@]
       \/ \E status \in Status \ {deal[d].status} : deal' = [deal EXCEPT ![d].status = status]
    /\ HistoryOf(d)
    /\ NoWonFault /\ UNCHANGED <<amsDeal, insureds, queue, person, exec, policies, edits, latest, raced>>

\* delete_opportunity_endpoint(): the rows of the queue stay.
DeleteDeal(d) ==
    /\ Moved /\ deal[d].there /\ deal' = [deal EXCEPT ![d].there = FALSE]
    /\ NoWonFault /\ UNCHANGED <<amsDeal, insureds, queue, person, exec, policies, edits, everWon, latest, raced>>

\* prime_new_opportunities(): an insured that NowCerts already has is linked.
Prime(d) ==
    /\ deal[d].there /\ ~deal[d].insured /\ d \in insureds
    /\ deal' = [deal EXCEPT ![d].insured = TRUE]
    /\ NoWonFault /\ UNCHANGED <<amsDeal, insureds, queue, person, exec, policies, wonMoves, edits, everWon, latest, raced>>

-----------------------------------------------------------------------------
(* The executors                                                           *)

ExecIdle == UNCHANGED <<person, wonMoves, edits>>
Entered(e) == queue[exec[e].entry]
DealOf(e) == Entered(e).deal
Go(e, place) == exec' = [exec EXCEPT ![e].at = place]

\* _eligible(): one row at a time.
Select(e) ==
    /\ exec[e].at = "rest"
    /\ \E j \in Entry : Queued(j) /\ exec' = [exec EXCEPT ![e] = [NotDraining EXCEPT !.at = "claim", !.entry = j]]
    /\ NoWonFault /\ ExecIdle /\ UNCHANGED <<deal, amsDeal, insureds, queue, policies, everWon, latest, raced>>

\* A faulty claim that does not look at the status any more.
ClaimableAlways(j) == TRUE

Claimable(j) == queue[j].status = "queued"

Claim(e) ==
    /\ exec[e].at = "claim"
    /\ IF Claimable(exec[e].entry)
       THEN /\ Close(exec[e].entry, "processing")
            /\ Go(e, IF Entered(e).kind = "won" THEN "insured" ELSE "fresh")
       ELSE exec' = [exec EXCEPT ![e] = NotDraining] /\ UNCHANGED queue
    /\ NoWonFault /\ ExecIdle /\ UNCHANGED <<deal, amsDeal, insureds, policies, everWon, latest, raced>>

\* _resolve_insured(): the id of the snapshot, else an upsert by name.
Mint(e) == insureds' = IF Entered(e).insured THEN insureds ELSE insureds \cup {DealOf(e)}

Resolve(e) ==
    /\ exec[e].at = "insured" /\ Mint(e) /\ Go(e, "policy")
    /\ NoWonFault /\ ExecIdle /\ UNCHANGED <<deal, amsDeal, queue, policies, everWon, latest, raced>>

\* insert_policy(): the answer may carry no id.
File(e) == policies' = [policies EXCEPT ![exec[e].entry] = @ + 1]

InsertPolicy(e) ==
    /\ exec[e].at = "policy" /\ File(e)
    /\ \E guid \in BOOLEAN : exec' = [exec EXCEPT ![e].at = "link", ![e].guid = guid]
    /\ NoWonFault /\ ExecIdle /\ UNCHANGED <<deal, amsDeal, insureds, queue, everWon, latest, raced>>

\* The deal is linked to what it became; a deleted deal takes the update silently.
Linked(row, guid) == [row EXCEPT !.insured = TRUE, !.policy = guid]

Tie(e) == deal' = [deal EXCEPT ![DealOf(e)] = IF @.there THEN Linked(@, exec[e].guid) ELSE @]

Link(e) ==
    /\ exec[e].at = "link" /\ Tie(e) /\ Go(e, "close")
    /\ NoWonFault /\ ExecIdle /\ UNCHANGED <<amsDeal, insureds, queue, policies, everWon, latest, raced>>

\* find_opportunity(): the fields as they are now.
ReadFresh(e) ==
    /\ exec[e].at = "fresh"
    /\ exec' = [exec EXCEPT ![e].at = "write", ![e].fields = amsDeal[DealOf(e)].fields]
    /\ NoWonFault /\ ExecIdle /\ UNCHANGED <<deal, amsDeal, insureds, queue, policies, everWon, latest, raced>>

\* _writeback_payload(): every field is sent back as it was read.
Fields(e) == exec[e].fields

\* insert_opportunity()
PutStage(e) == amsDeal' = [amsDeal EXCEPT ![DealOf(e)] = [stage |-> Entered(e).target, fields |-> Fields(e)]]

WriteStage(e) ==
    /\ exec[e].at = "write" /\ PutStage(e) /\ Go(e, "close")
    /\ NoWonFault /\ ExecIdle /\ UNCHANGED <<deal, insureds, queue, policies, everWon, latest, raced>>

\* Its end, as the executor knows it: where it doubts, the row says completed by now.
Finish(e) ==
    /\ exec[e].at \in {"close", "failed", "doubt"}
    /\ Close(exec[e].entry, IF exec[e].at = "close" THEN "completed" ELSE "failed")
    /\ exec' = [exec EXCEPT ![e] = NotDraining]
    /\ NoWonFault /\ ExecIdle /\ UNCHANGED <<deal, amsDeal, insureds, policies, everWon, latest, raced>>

\* A request fails, or is applied and its answer lost; the executor catches it.
Breaks(e) ==
    /\ exec[e].at \in {"insured", "policy", "link", "fresh", "write", "close"} /\ WonFault /\ Go(e, "failed")
    /\ \/ UNCHANGED <<deal, amsDeal, insureds, policies>>
       \/ exec[e].at = "insured" /\ Mint(e) /\ UNCHANGED <<deal, amsDeal, policies>>
       \/ exec[e].at = "policy" /\ File(e) /\ UNCHANGED <<deal, amsDeal, insureds>>
       \/ exec[e].at = "link" /\ Tie(e) /\ UNCHANGED <<amsDeal, insureds, policies>>
       \/ exec[e].at = "write" /\ PutStage(e) /\ UNCHANGED <<deal, insureds, policies>>
    /\ ExecIdle /\ UNCHANGED <<queue, everWon, latest, raced>>

\* The last request is one of them: the row is completed, and the executor, which
\* did not hear so, takes the row for failed.
CloseUnheard(e) ==
    /\ exec[e].at = "close" /\ WonFault /\ Close(exec[e].entry, "completed") /\ Go(e, "doubt")
    /\ ExecIdle /\ UNCHANGED <<deal, amsDeal, insureds, policies, everWon, latest, raced>>

\* The process dies; its row stays processing.
Crash(e) ==
    /\ exec[e].at # "rest" /\ WonFault /\ exec' = [exec EXCEPT ![e] = NotDraining]
    /\ ExecIdle /\ UNCHANGED <<deal, amsDeal, insureds, queue, policies, everWon, latest, raced>>

\* hermes/scheduler/retry.py, which knows the kind back only: a failed row, or one
\* whose executor is gone, is queued again, unless another one has taken its place.
Worked(j) == \E e \in Executor : exec[e].at # "rest" /\ exec[e].entry = j

Retried(j) == queue[j].kind = "back"

Requeue(j) ==
    /\ Used(j) /\ Retried(j) /\ Free(queue[j].kind, queue[j].deal) /\ ~Worked(j)
    /\ queue[j].status \in {"failed", "processing"} /\ Close(j, "queued")
    /\ NoWonFault /\ UNCHANGED <<deal, amsDeal, insureds, person, exec, policies, wonMoves, edits, everWon, latest, raced>>

-----------------------------------------------------------------------------
(* NowCerts                                                                *)

\* Somebody edits the opportunity in NowCerts.
EditAms(d) ==
    /\ deal[d].mirrored /\ edits < MaxAmsEdits /\ edits' = edits + 1
    /\ amsDeal' = [amsDeal EXCEPT ![d].fields = edits + 1] /\ latest' = [latest EXCEPT ![d] = edits + 1]
    /\ raced' = IF \E e \in Executor : exec[e].at = "write" /\ DealOf(e) = d
                THEN raced \cup {d} ELSE raced \ {d}
    /\ NoWonFault /\ UNCHANGED <<deal, insureds, queue, person, exec, policies, wonMoves, everWon>>

\* The client becomes an insured by another way.
Appear(d) ==
    /\ d \notin insureds /\ edits < MaxAmsEdits /\ edits' = edits + 1 /\ insureds' = insureds \cup {d}
    /\ NoWonFault /\ UNCHANGED <<deal, amsDeal, queue, person, exec, policies, wonMoves, everWon, latest, raced>>

WonNext ==
    \/ \E p \in Person : \/ \E d \in Deals, status \in Status : Drag(p, d, status)
                         \/ StageBack(p) \/ StageWon(p)
    \/ \E d \in Deals : EditDeal(d) \/ DeleteDeal(d) \/ Prime(d) \/ EditAms(d) \/ Appear(d)
    \/ \E e \in Executor : \/ Select(e) \/ Claim(e) \/ Resolve(e) \/ InsertPolicy(e) \/ Link(e)
                           \/ ReadFresh(e) \/ WriteStage(e) \/ Finish(e) \/ Breaks(e) \/ CloseUnheard(e)
                           \/ Crash(e)
    \/ \E j \in Entry : Requeue(j)

WonSpec == WonInit /\ [][WonNext]_wonVars

-----------------------------------------------------------------------------
(* Properties                                                              *)

\* The won rows as OneShot sees them; the rows of the other kind it does not see.
\* A row is doubted while its executor has missed that it is completed.
Doubted(j) == \E e \in Executor : exec[e].at = "doubt" /\ exec[e].entry = j

WonStatus == [j \in Entry |-> IF ~(Used(j) /\ queue[j].kind = "won") THEN "absent"
                              ELSE IF Doubted(j) THEN "doubted" ELSE queue[j].status]

Approval == INSTANCE OneShot WITH status <- WonStatus, effects <- policies

\* One approval is taken up once and files at most one policy, whatever fails,
\* dies or runs beside it, and says completed only if it filed it: NowCerts
\* inserts a policy per call, so that a row must never be worked twice.  A row
\* that says completed stays so, unless its own executor missed the answer to
\* that last request and calls it failed.
FiledOnce == Approval!Spec

\* No policy reaches NowCerts for a deal that never was won with a policy number
\* (opportunity_won.py: it invents no number), whatever was moved or edited
\* between the staging and the drain.
PolicyOnlyForWon == \A j \in Entry : policies[j] > 0 => queue[j].deal \in everWon

\* A completed row has left the deal with its insured, so that the client can be
\* cross-sold to next year; a deleted deal is the exception.
CompletedMeansLinked ==
    \A j \in Entry : (Used(j) /\ queue[j].kind = "won" /\ queue[j].status = "completed") =>
        (deal[queue[j].deal].there => deal[queue[j].deal].insured)

\* The writeback of a stage undoes nothing that people have edited in NowCerts,
\* unless they did it between its read and its write, however late the row is
\* drained or retried.
NowCertsEditsKept == \A d \in Deals \ raced : amsDeal[d].fields = latest[d]

\* A policy is filed for a won deal only, its row is closed only once the deal is
\* linked, and what people edit in NowCerts meanwhile stays.
WonSafe == WonTypeOK /\ PolicyOnlyForWon /\ CompletedMeansLinked /\ NowCertsEditsKept

=============================================================================
