------------------------- MODULE RenewalCorrections -------------------------
(***************************************************************************)
(* Corrections and removals on the renewal desk, against the nightly       *)
(* rebuild (hermes/routers/renewals.py, hermes/renewals/corrections.py,    *)
(* hermes/renewals/candidate_refresh.py, hermes_core/overrides/store.py).  *)
(*                                                                         *)
(* One renewal is followed through the three places that describe it: the  *)
(* book, its event in renewal_candidates and its row on the desk in        *)
(* project_85_renewals.  People correct a field of the row, remove the     *)
(* renewal and undo both; every request is a sequence of reads and writes, *)
(* each an action here, and the refresh works between them.                *)
(*                                                                         *)
(* Slots of the overrides: "premium" and "dismissed" on the desk row,      *)
(* "event" for eligibility_state of the event.                             *)
(***************************************************************************)
EXTENDS Overrides

CONSTANTS
    Person,         \* people at the desk
    Value,          \* premiums
    Submitted,      \* what people submit: premiums, and NoValue to clear the field
    MaxOverrides,   \* bound on the rows of portal_overrides
    MaxMoves,       \* bound on changes of the book
    MaxPatches,     \* bound on plain edits of the desk row
    MaxFaults       \* bound on failed requests and deaths

State == {"eligible", "needs_verification", "excluded"}
Slot == {"premium", "dismissed", "event"}

ASSUME CorrectionsAssumption ==
    /\ Person # {} /\ Value # {} /\ NoValue \notin Value \cup State \cup {"true"}
    /\ Submitted \subseteq Value \cup {NoValue}
    /\ {MaxOverrides, MaxMoves, MaxPatches, MaxFaults} \subseteq Nat

VARIABLES
    book,        \* the policy's premium and what the eligibility rule says of it
    event,       \* the row of renewal_candidates: premium and eligibility_state
    desk,        \* the row of project_85_renewals: is it there, premium, worked on
    overrides,   \* portal_overrides
    asked,       \* asked[p]: the request person p is in; row: its desk row is still there
    refresh,     \* the refresh: where it is and what it has read
    crowded,     \* history: a request was begun while another was under way
    moves, patches, faults   \* what is used of the bounds

vars == <<book, event, desk, overrides, asked, refresh, crowded, moves, patches, faults>>

\* What a request carries: where it goes next, its slot and what it writes
\* there, the value it takes for the source's, the id of a row of overrides it
\* has read, and whether the desk row it addresses is still there.
Begun(at, slot, value, original, row) ==
    [at |-> at, slot |-> slot, value |-> value, original |-> original, id |-> 0, row |-> row]
Resting == Begun("rest", "premium", NoValue, NoValue, FALSE)
Asleep == [at |-> "rest", premium |-> NoValue, state |-> "excluded", shown |-> FALSE, protected |-> FALSE]

\* The values that an override may hold: a premium, an eligibility state, true.
AnyValue == Value \cup State \cup {"true", NoValue}

Places == {"rest", "find", "retire", "insert", "through", "events", "undo", "restore", "unexclude", "putback"}

TypeOK ==
    /\ book \in [premium : Value, state : State]
    /\ event \in [premium : Value, state : State]
    /\ desk \in [exists : BOOLEAN, premium : Value \cup {NoValue}, worked : BOOLEAN]
    /\ overrides \in Seq(OverrideRow(Slot, AnyValue))
    /\ asked \in [Person -> [at : Places, slot : Slot, value : AnyValue,
                             original : AnyValue, id : 0..MaxOverrides, row : BOOLEAN]]
    /\ refresh \in [at : {"rest", "overlay", "upsert", "project", "store", "protect", "prune"},
                    premium : Value \cup {NoValue}, state : State,
                    shown : BOOLEAN, protected : BOOLEAN]
    /\ crowded \in BOOLEAN
    /\ moves \in 0..MaxMoves /\ patches \in 0..MaxPatches /\ faults \in 0..MaxFaults

Init ==
    /\ \E premium \in Value :
          /\ book = [premium |-> premium, state |-> "eligible"]
          /\ event = [premium |-> premium, state |-> "eligible"]
          /\ desk = [exists |-> TRUE, premium |-> premium, worked |-> FALSE]
    /\ overrides = <<>>
    /\ asked = [p \in Person |-> Resting]
    /\ refresh = Asleep
    /\ crowded = FALSE
    /\ moves = 0 /\ patches = 0 /\ faults = 0

Fault == faults < MaxFaults /\ faults' = faults + 1
Fine == UNCHANGED faults
Bounds == <<moves, patches>>
Same == <<Bounds, crowded>>

-----------------------------------------------------------------------------
(* A person's request                                                      *)

Ask(p, request) == asked' = [asked EXCEPT ![p] = request]
Goto(p, place) == Ask(p, [asked[p] EXCEPT !.at = place])
Done(p) == Ask(p, Resting)

\* A request begins, beside those of other people.
Begin(p, request) ==
    /\ Ask(p, request)
    /\ crowded' = (crowded \/ \E q \in Person \ {p} : asked[q].at # "rest")

\* The request ends with an error; when it was about the event, the removal of
\* the row stands and there is nothing left to do.
Refused(p) == Done(p)

Desk(p) == /\ asked[p].at = "rest" /\ desk.exists
           /\ Fine /\ UNCHANGED <<book, event, desk, overrides, refresh, Bounds>>

\* correct_renewal_field() reads the row and takes what it says for the value
\* of the source.
Correct(p) ==
    /\ Desk(p)
    /\ \E value \in Submitted :
          Begin(p, Begun("find", "premium", value, desk.premium, TRUE))

\* dismiss_renewal()
Dismiss(p) ==
    /\ Desk(p)
    /\ Begin(p, Begun("find", "dismissed", "true", NoValue, TRUE))

\* A faulty request that treats a removal like any other correction.
NextAlways(slot) == "undo"

\* What follows a withdrawal: the event is restored, or the field of the row.
NextAfter(slot) == IF slot = "dismissed" THEN "restore" ELSE "undo"

\* withdraw_renewal_override() and withdraw() take any id, active or not.  Bound:
\* a row is withdrawn by hand once.
Withdraw(p) ==
    /\ asked[p].at = "rest"
    /\ \E i \in DOMAIN overrides :
          /\ overrides[i].slot # "event" /\ overrides[i].reason # "withdrawn"
          /\ \/ /\ overrides' = Retired(overrides, i, "withdrawn")
                /\ Begin(p, Begun(NextAfter(overrides[i].slot), overrides[i].slot,
                                  NoValue, overrides[i].original, FALSE))
                /\ Fine
             \/ /\ overrides' \in {overrides, Retired(overrides, i, "withdrawn")}
                /\ Done(p) /\ Fault /\ UNCHANGED crowded
    /\ UNCHANGED <<book, event, desk, refresh, Bounds>>

\* update_renewal_endpoint(): a plain edit of the row, nothing else.
Patch(p) ==
    /\ asked[p].at = "rest" /\ desk.exists
    /\ patches < MaxPatches /\ patches' = patches + 1
    /\ \E premium \in Value \cup {NoValue} : desk' = [desk EXCEPT !.premium = premium]
    /\ Fine /\ UNCHANGED <<book, event, overrides, asked, refresh, crowded, moves>>

-----------------------------------------------------------------------------
(* set_override(): find, retire, insert                                    *)

Find(p) ==
    /\ asked[p].at = "find"
    /\ \/ /\ ~Exists(overrides, asked[p].slot)
          /\ Goto(p, "insert") /\ Fine
       \/ /\ \E i \in ActiveRows(overrides, asked[p].slot) :
                Ask(p, [asked[p] EXCEPT !.at = "retire", !.id = i])
          /\ Fine
       \/ Refused(p) /\ Fault
    /\ UNCHANGED <<book, event, desk, overrides, refresh, Same>>

Supersede(p) ==
    LET retired == Retired(overrides, asked[p].id, "superseded")
    IN  /\ asked[p].at = "retire"
        /\ \/ overrides' = retired /\ Goto(p, "insert") /\ Fine
           \/ overrides' \in {overrides, retired} /\ Refused(p) /\ Fault
        /\ UNCHANGED <<book, event, desk, refresh, Same>>

\* What follows the insert: the row is written through, or the events follow.
Inserting(slot) == IF slot = "dismissed" THEN "events" ELSE "through"

Insert(p) ==
    LET r == asked[p]
        inserted == Inserted(overrides, r.slot, r.original, r.value)
    IN  /\ r.at = "insert" /\ Len(overrides) < MaxOverrides
        /\ \/ /\ Insertable(overrides, r.slot, r.value)
              /\ overrides' = inserted /\ Goto(p, Inserting(r.slot)) /\ Fine
           \/ /\ ~Insertable(overrides, r.slot, r.value)
              /\ Refused(p) /\ Fine /\ UNCHANGED overrides
           \/ /\ overrides' = overrides \/ (Insertable(overrides, r.slot, r.value) /\ overrides' = inserted)
              /\ Refused(p) /\ Fault
        /\ UNCHANGED <<book, event, desk, refresh, Same>>

\* _dismiss_candidates(): an event that is excluded already is left alone.
Events(p) ==
    /\ asked[p].at = "events"
    /\ \/ event.state = "excluded" /\ Done(p) /\ Fine
       \/ /\ event.state # "excluded"
          /\ Ask(p, Begun("find", "event", "excluded", event.state, FALSE))
          /\ Fine
       \/ Done(p) /\ Fault
    /\ UNCHANGED <<book, event, desk, overrides, refresh, Same>>

\* _write_through(): best effort, by the id of a row that may be gone.
WriteThrough(p) ==
    LET value == asked[p].value
        written == IF asked[p].slot = "event"
                   THEN event' = [event EXCEPT !.state = value] /\ UNCHANGED desk
                   ELSE /\ desk' = IF asked[p].row THEN [desk EXCEPT !.premium = value] ELSE desk
                        /\ UNCHANGED event
    IN  /\ asked[p].at = "through"
        /\ \/ written /\ Fine
           \/ UNCHANGED <<event, desk>> /\ Fault
        /\ Done(p) /\ UNCHANGED <<book, overrides, refresh, Same>>

-----------------------------------------------------------------------------
(* What follows a withdrawal                                               *)

\* The value the source is said to have had goes back on the row.
Undo(p) ==
    /\ asked[p].at = "undo"
    /\ \/ /\ desk' = IF desk.exists THEN [desk EXCEPT !.premium = asked[p].original] ELSE desk
          /\ Fine
       \/ UNCHANGED desk /\ Fault
    /\ Done(p) /\ UNCHANGED <<book, event, overrides, refresh, Same>>

\* _restore_candidates(): the exclusion of the event is looked up ...
Restore(p) ==
    /\ asked[p].at = "restore"
    /\ \/ ~Exists(overrides, "event") /\ Done(p) /\ Fine
       \/ /\ \E i \in ActiveRows(overrides, "event") :
                Ask(p, [asked[p] EXCEPT !.at = "unexclude", !.id = i])
          /\ Fine
       \/ Done(p) /\ Fault
    /\ UNCHANGED <<book, event, desk, overrides, refresh, Same>>

\* ... withdrawn ...
Unexclude(p) ==
    LET retired == Retired(overrides, asked[p].id, "withdrawn")
    IN  /\ asked[p].at = "unexclude"
        /\ \/ /\ overrides' = retired /\ Fine
              /\ Ask(p, [asked[p] EXCEPT !.at = "putback", !.original = overrides[asked[p].id].original])
           \/ overrides' \in {overrides, retired} /\ Done(p) /\ Fault
        /\ UNCHANGED <<book, event, desk, refresh, Same>>

\* ... and the state it had goes back on the event.
PutBack(p) ==
    /\ asked[p].at = "putback"
    /\ \/ event' = [event EXCEPT !.state = asked[p].original] /\ Fine
       \/ UNCHANGED event /\ Fault
    /\ Done(p) /\ UNCHANGED <<book, desk, overrides, refresh, Same>>

\* A request dies with its process.
Die(p) ==
    /\ asked[p].at # "rest" /\ Done(p) /\ Fault
    /\ UNCHANGED <<book, event, desk, overrides, refresh, Same>>

-----------------------------------------------------------------------------
(* run_refresh()                                                           *)

Sleep == refresh' = Asleep
Refresh(r) == refresh' = r
People == UNCHANGED <<asked, book, Same>>

\* build_candidates() on the book as it is now.
Build ==
    /\ refresh.at = "rest"
    /\ Refresh([Asleep EXCEPT !.at = "overlay", !.premium = book.premium, !.state = book.state])
    /\ Fine /\ People /\ UNCHANGED <<event, desk, overrides>>

\* corrections.apply() on the events; when the lookup fails they go uncorrected.
OverlayEvents ==
    /\ refresh.at = "overlay"
    /\ \/ /\ Refresh([refresh EXCEPT !.at = "upsert", !.state = Overlay(overrides, "event", @)])
          /\ Fine
       \/ Refresh([refresh EXCEPT !.at = "upsert"]) /\ Fault
    /\ People /\ UNCHANGED <<event, desk, overrides>>

UpsertEvent ==
    /\ refresh.at = "upsert"
    /\ \/ event' = [premium |-> refresh.premium, state |-> refresh.state] /\ Fine
       \/ UNCHANGED event /\ Fault
    /\ Refresh([refresh EXCEPT !.at = "project"])
    /\ People /\ UNCHANGED <<desk, overrides>>

\* A faulty projection that does not ask whether the renewal was removed.
RemovedForgotten == FALSE

\* is_dismissed()
Removed == Exists(overrides, "dismissed")

\* _project_eligible(): an eligible event is projected with the corrections of
\* the desk, unless a person removed it.
Project ==
    LET eligible == refresh.state = "eligible"
        projected(premium, dismissed) ==
            Refresh([refresh EXCEPT !.at = IF eligible /\ ~dismissed THEN "store" ELSE "protect",
                                    !.premium = premium, !.shown = eligible /\ ~dismissed])
    IN  /\ refresh.at = "project"
        /\ \/ /\ projected(Overlay(overrides, "premium", refresh.premium), Removed)
              /\ Fine
           \/ projected(refresh.premium, FALSE) /\ Fault
        /\ People /\ UNCHANGED <<event, desk, overrides>>

StoreRow ==
    /\ refresh.at = "store"
    /\ \/ desk' = [desk EXCEPT !.exists = TRUE, !.premium = refresh.premium] /\ Fine
       \/ UNCHANGED desk /\ Fault
    /\ Refresh([refresh EXCEPT !.at = "protect"])
    /\ People /\ UNCHANGED <<event, overrides>>

\* Rows with logged actions are read first and kept; without that list the
\* refresh ends here.
Protect ==
    /\ refresh.at = "protect"
    /\ \/ Refresh([refresh EXCEPT !.at = "prune", !.protected = desk.worked]) /\ Fine
       \/ Sleep /\ Fault
    /\ People /\ UNCHANGED <<event, desk, overrides>>

\* The deletion of a row cascades to its logged actions, and a request that
\* holds the id of the row writes to nothing.
Gone == /\ desk' = [desk EXCEPT !.exists = FALSE, !.worked = FALSE]
        /\ asked' = [p \in Person |-> [asked[p] EXCEPT !.row = FALSE]]

Prune ==
    /\ refresh.at = "prune"
    /\ \/ (refresh.shown \/ refresh.protected) /\ UNCHANGED <<desk, asked>> /\ Fine
       \/ ~refresh.shown /\ ~refresh.protected /\ Gone /\ Fine
       \/ UNCHANGED <<desk, asked>> /\ Fault
    /\ Sleep /\ UNCHANGED <<book, event, overrides, Same>>

\* The refresh dies with its process.
Break ==
    /\ refresh.at # "rest" /\ Sleep /\ Fault
    /\ People /\ UNCHANGED <<event, desk, overrides>>

-----------------------------------------------------------------------------
(* Around them                                                             *)

\* The AMS sync changes the policy, or the policy changes its eligibility.
Move ==
    /\ moves < MaxMoves /\ moves' = moves + 1
    /\ book' \in [premium : Value, state : State] /\ book' # book
    /\ Fine /\ UNCHANGED <<event, desk, overrides, asked, refresh, crowded, patches>>

\* log_renewal_action(): work on the renewal is recorded under its row.
Work ==
    /\ desk.exists /\ ~desk.worked
    /\ desk' = [desk EXCEPT !.worked = TRUE]
    /\ Fine /\ UNCHANGED <<book, event, overrides, asked, refresh, Same>>

Handle(p) ==
    \/ Find(p) \/ Supersede(p) \/ Insert(p) \/ Events(p) \/ WriteThrough(p)
    \/ Undo(p) \/ Restore(p) \/ Unexclude(p) \/ PutBack(p)

Rebuild ==
    \/ Build \/ OverlayEvents \/ UpsertEvent \/ Project \/ StoreRow \/ Protect \/ Prune

Next ==
    \/ \E p \in Person : Correct(p) \/ Dismiss(p) \/ Withdraw(p) \/ Patch(p) \/ Handle(p) \/ Die(p)
    \/ Rebuild \/ Break \/ Move \/ Work

Spec == Init /\ [][Next]_vars

\* The refresh runs every night, and a request that was begun goes on.
Fairness == WF_vars(Rebuild) /\ \A p \in Person : WF_vars(Handle(p))

FairSpec == Spec /\ Fairness

-----------------------------------------------------------------------------
(* What the corrections promise                                            *)

\* The rebuild and the corrections agree in the end: once people, the book and
\* the failures rest, the desk shows the book with the corrections on it, a
\* removed or ineligible renewal is off the desk unless work is recorded under
\* it, and the event carries its exclusion - whatever the refresh read before
\* a correction was made, and whatever a withdrawal wrote back
\* (corrections.py: the rebuild carries the correction forward).
Agreed ==
    LET state == Overlay(overrides, "event", book.state)
        shown == state = "eligible" /\ ~Exists(overrides, "dismissed")
    IN  /\ event = [premium |-> book.premium, state |-> state]
        /\ shown => desk.exists /\ desk.premium = Overlay(overrides, "premium", book.premium)
        /\ ~shown /\ desk.exists => desk.worked

WorklistConverges == <>[]Agreed

\* Without failures no correction is lost on the way to the next one: a row
\* that was superseded has a successor, or its successor is being inserted,
\* also when several people correct one field at the same time.  A cleared
\* field is the exception: the table refuses the row that says so.
SupersededReplaced ==
    faults = 0 /\ NoValue \notin Submitted =>
        \A i \in DOMAIN overrides : overrides[i].reason = "superseded" =>
            \/ \E j \in DOMAIN overrides : j > i /\ overrides[j].slot = overrides[i].slot
            \/ \E p \in Person : asked[p].at = "insert" /\ asked[p].slot = overrides[i].slot

\* Undoing a removal puts the event back too: as long as one request is made
\* after the other, by whomever, and nothing fails, no event stays excluded behind a removal that was undone,
\* where nobody could find it.
AtRest == \A p \in Person : asked[p].at = "rest"

RestoreComplete ==
    faults = 0 /\ ~crowded /\ AtRest /\ Exists(overrides, "event") =>
        Exists(overrides, "dismissed")
=============================================================================
