---------------------------- MODULE AmsWriteback ----------------------------
(***************************************************************************)
(* hermes/ams/writeback.py and its endpoints: a correction made in the CRM *)
(* is pushed to NowCerts in one HTTP request,                              *)
(*                                                                         *)
(*    stage -> read before -> write -> read after -> close                 *)
(*                                                                         *)
(* where each arrow is a request to the database or to NowCerts that may   *)
(* fail, or be applied and fail, and the process may die between any two.  *)
(* Pushes of the same record run side by side, and people edit NowCerts    *)
(* meanwhile.  The rows of these pushes (object types client and policy)   *)
(* are no business of the executors and retry passes of SyncScheduler.     *)
(*                                                                         *)
(* A correction is one value of one field of one record.  The audit log    *)
(* (write_log, best effort) is left out.                                   *)
(***************************************************************************)
EXTENDS Naturals, FiniteSets

CONSTANTS
    Push,         \* requests, numbered as they arrive; also the ids of their rows
    Record,       \* GUIDs, of insureds and policies, that somebody may push against
    Known,        \* the GUIDs that NowCerts has a record of, to begin with
    Value,        \* values of the field
    Cleared,      \* the value of a field that is emptied
    NoRecord,     \* what NowCerts answers about a GUID it has no record of
    ListLimit,    \* limit of list_failed()
    MaxEdits,     \* bound on the changes made in NowCerts itself
    MaxHit        \* bound on the pushes that are hit by failures

ASSUME WritebackAssumption ==
    /\ Push \subseteq Nat
    /\ Known \subseteq Record /\ Record # {}
    /\ Cleared \notin Value /\ NoRecord \notin Value \cup {Cleared}
    /\ {ListLimit, MaxEdits, MaxHit} \subseteq Nat

VARIABLES
    ams,          \* ams[r]: the field of record r at NowCerts
    insured,      \* the records under which a policy was created
    queue,        \* queue[p]: the status of the row of push p in outbound_sync_queue
    newer,        \* newer[p]: the rows whose updated_at is later than that of p's, since p was closed
    push,         \* what each request is doing
    edits,
    hit,          \* history: the pushes that were hit by a failure
    held          \* history: the pushes whose value NowCerts carried while they ran

vars == <<ams, insured, queue, newer, push, edits, hit, held>>

Field == Value \cup {Cleared}
Idle == {"none", "done", "dead"}
Places == Idle \cup {"stage", "before", "write", "after", "close", "confirm", "create"}
Outcomes == {"none", "completed", "failed"}

TypeOK ==
    /\ ams \in [Record -> Field \cup {NoRecord}]
    /\ insured \subseteq Record
    /\ queue \in [Push -> {"absent", "queued", "completed", "failed"}]
    /\ newer \in [Push -> SUBSET Push]
    /\ push \in [Push -> [at : Places, record : Record, value : Field,
                          row : BOOLEAN, outcome : Outcomes]]
    /\ hit \subseteq Push /\ held \subseteq Push
    /\ edits \in 0..MaxEdits

Begun(place, record, value) ==
    [at |-> place, record |-> record, value |-> value, row |-> FALSE, outcome |-> "none"]

Init ==
    /\ ams \in [Record -> Field \cup {NoRecord}]
    /\ \A r \in Record : ams[r] = NoRecord <=> r \notin Known
    /\ queue = [p \in Push |-> "absent"] /\ newer = [p \in Push |-> {}]
    /\ push = [p \in Push |-> Begun("none", CHOOSE r \in Record : TRUE, Cleared)]
    /\ insured = {} /\ hit = {} /\ held = {} /\ edits = 0

\* Failures hit up to MaxHit pushes, each any number of times.
Fault(p) == hit' = hit \cup {p} /\ Cardinality(hit') <= MaxHit
Fine == UNCHANGED hit

Goto(p, place) == push' = [push EXCEPT ![p].at = place]
Outcome(p, outcome) == push' = [push EXCEPT ![p].at = "close", ![p].outcome = outcome]

Running(p) == push[p].at \notin Idle
Carries(p) == ams[push[p].record] = push[p].value
NowCertsIdle == UNCHANGED <<ams, insured, edits, held>>

-----------------------------------------------------------------------------
(* The requests                                                            *)

Begin(p, request) ==
    /\ push[p].at = "none" /\ \A q \in Push : q < p => push[q].at # "none"
    /\ push' = [push EXCEPT ![p] = request]
    /\ held' = IF ams[request.record] = request.value THEN held \cup {p} ELSE held
    /\ Fine /\ UNCHANGED <<ams, insured, queue, newer, edits>>

\* _ams_push(): the portal pushes a correction that was just confirmed.
Ask(p) == \E r \in Record, v \in Field : Begin(p, Begun("stage", r, v))

Failed(q) == queue[q] = "failed"

\* list_failed(): the failed rows by updated_at, the latest first, up to the limit.
Listed(q) == Failed(q) /\ Cardinality({p \in newer[q] : Failed(p)}) < ListLimit

\* retry() of a failed row, whether it is still on the list: what the row recorded is
\* pushed once more, by a push with a row of its own; the failed row stays as it is.
Retry(p) == \E q \in Push : Failed(q) /\ Begin(p, Begun("stage", push[q].record, push[q].value))

\* create_policy_endpoint(): a policy for an insured.  It stages no row.
AskPolicy(p) == \E r \in Record : Begin(p, Begun("confirm", r, Cleared))

-----------------------------------------------------------------------------
(* push()                                                                  *)

\* uq_outbound_queue_open_work: one queued row per record.
Insertable(p) == \A q \in Push : queue[q] = "queued" => push[q].record # push[p].record

\* _stage(): a row that cannot be written does not stop the push.
Stage(p) ==
    /\ push[p].at = "stage"
    /\ \/ /\ Insertable(p) /\ queue' = [queue EXCEPT ![p] = "queued"]
          /\ push' = [push EXCEPT ![p].at = "before", ![p].row = TRUE] /\ Fine
       \/ ~Insertable(p) /\ Goto(p, "before") /\ Fine /\ UNCHANGED queue
       \/ /\ queue' = queue \/ (Insertable(p) /\ queue' = [queue EXCEPT ![p] = "queued"])
          /\ Goto(p, "before") /\ Fault(p)
    /\ NowCertsIdle /\ UNCHANGED newer

\* What _read() returns: nothing when no attempt finds the record, or when they
\* all fail, which it cannot tell apart.
Answer(p, answer) == \/ answer = ams[push[p].record] /\ Fine
                     \/ answer = NoRecord /\ Fault(p)

Confirmed(answer) == answer # NoRecord

ReadBefore(p) ==
    /\ push[p].at = "before"
    /\ \E answer \in Field \cup {NoRecord} :
          /\ Answer(p, answer)
          /\ IF Confirmed(answer) THEN Goto(p, "write") ELSE Outcome(p, "failed")
    /\ NowCertsIdle /\ UNCHANGED <<queue, newer>>

\* The record carries the value, or is created with it.
Upsert(p) ==
    /\ ams' = [ams EXCEPT ![push[p].record] = push[p].value]
    /\ held' = held \cup {q \in Push : /\ Running(q) /\ push[q].record = push[p].record
                                       /\ push[q].value = push[p].value}

\* _write(): NowCerts may ignore what it accepts, and take what it then fails to
\* answer.
Write(p) ==
    /\ push[p].at = "write"
    /\ \/ Upsert(p) /\ Goto(p, "after") /\ Fine
       \/ Upsert(p) /\ Outcome(p, "failed") /\ Fault(p)
       \/ UNCHANGED <<ams, held>> /\ Goto(p, "after") /\ Fault(p)
       \/ UNCHANGED <<ams, held>> /\ Outcome(p, "failed") /\ Fault(p)
    /\ UNCHANGED <<insured, queue, newer, edits>>

\* A faulty comparison that has nothing to object to when nothing came back.
VerifiedBlind(p, answer) == answer \in {NoRecord, push[p].value}

\* _verify(): an emptied field is not compared.
Verified(p, answer) ==
    /\ Confirmed(answer)
    /\ push[p].value \in {Cleared, answer}

Result(p, answer) == IF Verified(p, answer) THEN "completed" ELSE "failed"

ReadAfter(p) ==
    /\ push[p].at = "after"
    /\ \E answer \in Field \cup {NoRecord} :
          /\ Answer(p, answer)
          /\ Outcome(p, Result(p, answer))
    /\ NowCertsIdle /\ UNCHANGED <<queue, newer>>

\* Faulty closes: one only ever records a success, one of any row.
ClosedOnSuccess(p) ==
    IF push[p].row /\ push[p].outcome = "completed"
    THEN [queue EXCEPT ![p] = "completed"] ELSE queue
ClosedAsPushed(p) ==
    IF push[p].row THEN [queue EXCEPT ![p] = "completed"] ELSE queue

\* _close(): the row that _stage() returned, if any.
Closed(p) == IF push[p].row THEN [queue EXCEPT ![p] = push[p].outcome] ELSE queue

Close(p) ==
    /\ push[p].at = "close" /\ Goto(p, "done")
    /\ \/ queue' = Closed(p) /\ Fine
       \/ queue' \in {queue, Closed(p)} /\ Fault(p)
    /\ newer' = IF queue' = queue THEN newer
                ELSE [q \in Push |-> IF q = p THEN {} ELSE newer[q] \cup {p}]
    /\ NowCertsIdle

-----------------------------------------------------------------------------
(* create_policy_endpoint()                                                *)

ConfirmInsured(p) ==
    /\ push[p].at = "confirm"
    /\ \E answer \in Field \cup {NoRecord} :
          Answer(p, answer) /\ Goto(p, IF Confirmed(answer) THEN "create" ELSE "done")
    /\ NowCertsIdle /\ UNCHANGED <<queue, newer>>

CreatePolicy(p) ==
    /\ push[p].at = "create"
    /\ \/ insured' = insured \cup {push[p].record} /\ Goto(p, "done") /\ Fine
       \/ /\ insured' \in {insured, insured \cup {push[p].record}}
          /\ Goto(p, "done") /\ Fault(p)
    /\ UNCHANGED <<ams, queue, newer, edits, held>>

-----------------------------------------------------------------------------
(* The world                                                               *)

\* The server is restarted, or the process is killed, in the middle of a push.
Die(p) ==
    /\ Running(p) /\ Goto(p, "dead") /\ Fault(p)
    /\ NowCertsIdle /\ UNCHANGED <<queue, newer>>

\* Somebody works in NowCerts: a record is changed, or merged into another one.
Edit ==
    /\ edits < MaxEdits /\ edits' = edits + 1
    /\ \E r \in Known, v \in Field \cup {NoRecord} :
          /\ ams[r] # NoRecord /\ ams' = [ams EXCEPT ![r] = v]
          /\ held' = held \cup {q \in Push : Running(q) /\ push[q].record = r /\ push[q].value = v}
    /\ Fine /\ UNCHANGED <<insured, queue, newer, push>>

Step(p) == \/ Stage(p) \/ ReadBefore(p) \/ Write(p) \/ ReadAfter(p) \/ Close(p)
           \/ ConfirmInsured(p) \/ CreatePolicy(p)

Next == \/ \E p \in Push : Ask(p) \/ Retry(p) \/ AskPolicy(p) \/ Step(p) \/ Die(p)
        \/ Edit

Spec == Init /\ [][Next]_vars

\* A request that runs goes on until it returns or its process dies.
FairSpec == Spec /\ \A p \in Push : WF_vars(Step(p))

-----------------------------------------------------------------------------
(* Properties                                                              *)

\* A row that says completed is a correction NowCerts really carried while the
\* push ran, whoever else wrote the record or edited it meanwhile: _verify()
\* never takes a lost answer for a success, and one push never closes the row of
\* another.  An emptied field is the exception: _verify() skips it.
CompletedMeansTaken ==
    \A p \in Push : queue[p] = "completed" => p \in held \/ push[p].value = Cleared

\* Nothing is ever created at NowCerts for a GUID it does not know, neither a
\* record by the upsert of a push nor a policy under a mistyped insured: the
\* duplicate guard of _read() and of create_policy_endpoint().
UnknownStaysUnknown ==
    \A r \in Record \ Known : ams[r] = NoRecord /\ r \notin insured

\* What the portal believes of NowCerts after a push, it carried; what nobody knew there,
\* nobody has made there.
WritebackSafe == TypeOK /\ CompletedMeansTaken /\ UnknownStaysUnknown

\* A push that staged its row and ended in failure is on the list of the portal, until
\* as many later pushes have failed as the list is long (list_failed(), limit 50); no
\* failure but those of its own requests keeps it off.
FailureListed ==
    \A p \in Push \ hit :
        push[p].at = "done" /\ push[p].row /\ push[p].outcome = "failed" =>
            Listed(p) \/ Cardinality({q \in newer[p] : push[q].outcome = "failed"}) >= ListLimit

\* A push no failure hits gives back the place of its record in
\* uq_outbound_queue_open_work, whatever happens to the pushes beside it.
PlaceIsFreed ==
    \A p \in Push : queue[p] = "queued" ~> (queue[p] # "queued" \/ p \in hit)

=============================================================================
