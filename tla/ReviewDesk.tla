----------------------------- MODULE ReviewDesk -----------------------------
(* The review gate of the Command Center (command_center/service.py, review.py, *)
(* store.py, api_routes.py): a submission is made in a lane, documents are      *)
(* uploaded and read, a person types what is missing, approves, and the         *)
(* deliverables may leave.                                                      *)
(*                                                                              *)
(* One submission.  The endpoints block the one event loop, so calls follow     *)
(* one another; each is a series of requests to Supabase, any of which may      *)
(* fail, before or after its effect, and end the call there.  Callers come      *)
(* back as often as they like.  A deliverable is what it was built from.        *)
EXTENDS Integers, FiniteSets, Sequences

CONSTANTS
    Entries, Extracted,      \* of the submission object; those a document can tell
    Required,               \* those whose lack is a blocking flag in the lane
    Kinds,                  \* the deliverables of the lane
    Readings,               \* what a document tells of each extracted field; Blank if nothing
    Typed,                  \* values a person may type
    Blank,
    MaxReviewCalls, MaxReviewFaults     \* bounds

ASSUME ReviewAssumption ==
    /\ Extracted \subseteq Entries /\ Required \subseteq Entries
    /\ MaxReviewCalls \in Nat /\ MaxReviewFaults \in Nat

VARIABLES
    standing,       \* cc_submissions.status
    facts, origin,  \* submission_object: the values, and where each came from
    flagged,        \* blocking flags, by field
    bundle,         \* cc_deliverables: [kind, of]
    told,           \* the last status in cc_review_events
    visit,          \* the call at work: [at, facts, origin, todo], at is "" if there is none
    halfway,        \* history: a call broke off and no upload or fix has gone through since
    reviewCalls, reviewFaults

submissionRow == <<standing, facts, origin, flagged>>
reviewVars == <<submissionRow, bundle, told, visit, halfway, reviewCalls, reviewFaults>>

NoFacts == [f \in Entries |-> Blank]
NoOrigin == [f \in Entries |-> "none"]
NoVisit == [at |-> "", facts |-> NoFacts, origin |-> NoOrigin, todo |-> <<>>]

\* create()
ReviewInit ==
    /\ standing = "draft" /\ facts = NoFacts /\ origin = NoOrigin /\ flagged = {}
    /\ bundle = {} /\ told = "draft" /\ visit = NoVisit /\ halfway = FALSE
    /\ reviewCalls = 0 /\ reviewFaults = 0

-----------------------------------------------------------------------------
(* What is computed                                                        *)

\* run_validators(): blocking flags; warnings hold nothing back.
Flags(values) == {f \in Required : values[f] = Blank}

\* apply_extraction() fills gaps and overwrites nothing.
Gaps(values) == {f \in Extracted : values[f] = Blank}

Extraction(reading, values) == {f \in Gaps(values) : reading[f] # Blank}

WithReading(v, reading) ==
    LET found == Extraction(reading, v.facts) IN
    [v EXCEPT !.facts = [f \in Entries |-> IF f \in found THEN reading[f] ELSE @[f]],
              !.origin = [f \in Entries |-> IF f \in found THEN "document" ELSE @[f]]]

\* build_all(): one deliverable of each kind of the lane.
Built(values) == {[kind |-> k, of |-> values] : k \in Kinds}

\* assert_can_download()
Released == standing \in {"approved", "delivered"}

-----------------------------------------------------------------------------
(* The calls                                                               *)

Calls == visit.at = "" /\ reviewCalls < MaxReviewCalls /\ reviewCalls' = reviewCalls + 1
Goes(v) == visit' = v /\ UNCHANGED <<halfway, reviewCalls, reviewFaults>>
BreaksOff ==
    /\ reviewFaults < MaxReviewFaults /\ reviewFaults' = reviewFaults + 1
    /\ visit' = NoVisit /\ halfway' = TRUE /\ UNCHANGED reviewCalls

\* A request that writes, after which the call is at v; or it fails.
Request(write, untouched, v) ==
    \/ write /\ Goes(v)
    \/ (write \/ untouched) /\ BreaksOff

\* upload_files(): the object is read before the first write.
Upload ==
    /\ Calls
    /\ \E readings \in Readings : visit' = [at |-> "extracting", facts |-> facts, origin |-> origin, todo |-> readings]
    /\ UNCHANGED <<submissionRow, bundle, told, halfway, reviewFaults>>

\* fix_fields(): the values typed, blank or not, become the person's.
Correct ==
    /\ Calls
    /\ \E f \in Entries, value \in Typed :
          visit' = [at |-> "fixed", facts |-> [facts EXCEPT ![f] = value],
                    origin |-> [origin EXCEPT ![f] = "human"], todo |-> <<>>]
    /\ UNCHANGED <<submissionRow, bundle, told, halfway, reviewFaults>>

\* assert_can_approve()
Approvable == standing = "in_review" /\ flagged = {}

\* approve(): the status, then the event.
Approve ==
    /\ Calls /\ Approvable
    /\ visit' = [NoVisit EXCEPT !.at = "approve"]
    /\ UNCHANGED <<submissionRow, bundle, told, halfway, reviewFaults>>

\* set_status()
SetStatus(from, status, next) ==
    /\ visit.at = from
    /\ Request(standing' = status, UNCHANGED standing, [visit EXCEPT !.at = next])
    /\ UNCHANGED <<facts, origin, flagged, bundle, told>>

LogStatus(from, next) ==
    /\ visit.at = from
    /\ Request(told' = standing, UNCHANGED told, next)
    /\ UNCHANGED <<submissionRow, bundle>>

MarkExtracting == SetStatus("extracting", "extracting", "log extracting")
LogExtracting == LogStatus("log extracting", [visit EXCEPT !.at = "files"])

\* ingest_files(): each file is listed, read and logged; files and other events are left out.
ReadFile ==
    /\ visit.at = "files" /\ visit.todo # <<>>
    /\ Request(TRUE, TRUE, [WithReading(visit, Head(visit.todo)) EXCEPT !.todo = Tail(visit.todo)])
    /\ UNCHANGED <<submissionRow, bundle, told>>

AllRead == (visit.at = "files" /\ visit.todo = <<>>) \/ visit.at = "fixed"

\* save_object_and_flags(): one update.
SaveObject ==
    /\ AllRead
    /\ Request(facts' = visit.facts /\ origin' = visit.origin /\ flagged' = Flags(visit.facts),
               UNCHANGED <<facts, origin, flagged>>, [visit EXCEPT !.at = "clear"])
    /\ UNCHANGED <<standing, bundle, told>>

\* A faulty replace_deliverables() that deletes nothing.
OutdatedNone(listed) == {}
Outdated(listed) == listed

\* replace_deliverables(): deleted one by one, then inserted one by one.
DeleteOld ==
    /\ visit.at = "clear"
    /\ \/ \E old \in Outdated(bundle) :
             Request(bundle' = bundle \ {old}, UNCHANGED bundle, visit)
       \/ Outdated(bundle) = {} /\ Goes([visit EXCEPT !.at = "build"]) /\ UNCHANGED bundle
    /\ UNCHANGED <<submissionRow, told>>

InsertNew ==
    /\ visit.at = "build"
    /\ LET missing == Built(visit.facts) \ bundle IN
       \/ \E new \in missing : Request(bundle' = bundle \cup {new}, UNCHANGED bundle, visit)
       \/ missing = {} /\ Goes([visit EXCEPT !.at = "review"]) /\ UNCHANGED bundle
    /\ UNCHANGED <<submissionRow, told>>

MarkInReview == SetStatus("review", "in_review", "log review")

LogInReview ==
    /\ visit.at = "log review"
    /\ \/ told' = standing /\ visit' = NoVisit /\ halfway' = FALSE /\ UNCHANGED <<reviewCalls, reviewFaults>>
       \/ (told' = standing \/ UNCHANGED told) /\ BreaksOff
    /\ UNCHANGED <<submissionRow, bundle>>

MarkApproved == SetStatus("approve", "approved", "log approved")
LogApproved == LogStatus("log approved", NoVisit)

ReviewNext ==
    \/ Upload \/ Correct \/ Approve
    \/ MarkExtracting \/ LogExtracting \/ ReadFile
    \/ SaveObject \/ DeleteOld \/ InsertNew \/ MarkInReview \/ LogInReview
    \/ MarkApproved \/ LogApproved

ReviewSpec == ReviewInit /\ [][ReviewNext]_reviewVars

-----------------------------------------------------------------------------
(* Properties                                                              *)

ReviewTypeOK ==
    /\ standing \in {"draft", "extracting", "in_review", "approved", "delivered"}
    /\ DOMAIN facts = Entries /\ origin \in [Entries -> {"none", "document", "human"}]
    /\ flagged \subseteq Required /\ halfway \in BOOLEAN
    /\ \A d \in bundle : d.kind \in Kinds

\* Whatever has been uploaded, typed and approved in whatever order, and whatever broke off
\* before the last upload or fix that went through: a submission that may leave
\* lacks nothing the lane requires, its deliverables are those of the object as it stands,
\* each once, and the trail says approved (service.py, store.replace_deliverables()).
ReleasedIsWhole ==
    Released /\ visit.at = "" /\ ~halfway =>
        Flags(facts) = {} /\ bundle = Built(facts) /\ told = "approved"

\* What a person typed is never replaced by what a document says, whatever calls broke off
\* between (extract.apply_extraction()).
TypedStays ==
    visit.at \in {"extracting", "log extracting", "files"} =>
        \A f \in Entries : origin[f] = "human" /\ facts[f] # Blank => visit.facts[f] = facts[f] /\ visit.origin[f] = "human"

\* What a reviewer of the lane relies on: what is released is whole, and what was typed
\* in is still there.
ReviewSafe == ReviewTypeOK /\ ReleasedIsWhole /\ TypedStays

\* What store.py says of replace_deliverables(), "Called after a fresh extraction/fix so
\* the artifacts reflect the current data": the deliverables of a released submission do,
\* also when a call has broken off.
ReleasedIsCurrent == Released /\ visit.at = "" => bundle = Built(facts)
=============================================================================
