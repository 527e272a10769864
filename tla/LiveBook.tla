------------------------------ MODULE LiveBook ------------------------------
(***************************************************************************)
(* The policy book, twice: the cache of hermes_core/book.py, which threads *)
(* refresh off the request path, by deltas and now and then in full, and   *)
(* the mirror canonical_policies, which the nightly job                    *)
(* hermes/sync/canonical_book_sync.py writes and which serves whenever     *)
(* the cache cannot.  Both read NowCerts page by page, newest change       *)
(* first, while people work in it.                                         *)
(*                                                                         *)
(* A change is numbered, which is its changeDate; the fields of a policy   *)
(* are that number.  Clients are cached the same way, without deltas.  The *)
(* caches and the mirror share nothing but what they read, so that a       *)
(* behaviour has one of the two caches at work or the nightly job.         *)
(***************************************************************************)
EXTENDS Naturals, FiniteSets

CONSTANTS
    Policy,         \* ids that NowCerts has, had or will have; numbered
    Thread,         \* threads named ams-book-refresh
    PageSize,
    MaxChanges,     \* bound on changes in NowCerts
    MaxFailures     \* bound on requests that fail after their retries

ASSUME BookAssumption ==
    /\ IsFiniteSet(Policy) /\ Policy = 1..Cardinality(Policy) /\ PageSize \in Nat \ {0}
    /\ "nightly" \notin Thread /\ {MaxChanges, MaxFailures} \subseteq Nat

VARIABLES
    momentum,   \* momentum[p]: the policy p in NowCerts
    book,       \* _cache, or _client_cache
    mirror,     \* canonical_policies
    fetcher,    \* fetcher[f]: what a refresh, or the nightly job, is doing
    changes, failures

bookVars == <<momentum, book, mirror, fetcher, changes, failures>>

Fetcher == Thread \cup {"nightly"}
NoBookRow == [there |-> FALSE]
BookRecord == [policy : Policy, kind : {"policy", "quote"}, date : Nat]

FirstChanges == Cardinality(Policy)
BookClock == FirstChanges + changes

NoFetch == [at |-> "rest", full |-> TRUE, since |-> 0, skip |-> 0, got |-> {}]
OffDuty == [NoFetch EXCEPT !.at = "off"]

BookTypeOK ==
    /\ \A p \in Policy : /\ momentum[p].kind \in {"policy", "quote", "none"}
                         /\ momentum[p].date \in 0..BookClock
                         /\ book.rows[p] # NoBookRow => book.rows[p].date \in 1..BookClock
                         /\ mirror[p] # NoBookRow => mirror[p].date \in 0..BookClock
    /\ book.at \in 0..BookClock /\ {book.warm, book.fresh, book.backoff, book.refreshing} \subseteq BOOLEAN
    /\ \A f \in Fetcher : fetcher[f].got \subseteq BookRecord

BookInit ==
    /\ momentum = [p \in Policy |-> [kind |-> "policy", date |-> p]]
    /\ \E of \in {"policies", "clients"} : book =
              [of |-> of, rows |-> [p \in Policy |-> NoBookRow], warm |-> FALSE, at |-> 0, fresh |-> FALSE,
               fullDue |-> TRUE, backoff |-> FALSE, refreshing |-> FALSE]
    /\ mirror \in [Policy -> {NoBookRow, [there |-> TRUE, date |-> 0]}]
    /\ \/ mirror = [p \in Policy |-> NoBookRow] /\ fetcher = [f \in Fetcher |-> IF f = "nightly" THEN OffDuty ELSE NoFetch]
       \/ book.of = "policies" /\ fetcher = [f \in Fetcher |-> IF f = "nightly" THEN NoFetch ELSE OffDuty]
    /\ changes = 0 /\ failures = 0

-----------------------------------------------------------------------------
(* hermes_integrations/nowcerts_client.py: fetch_policies()                *)

\* $filter=changeDate ge since
Listed(since) == {p \in Policy : momentum[p].kind # "none" /\ momentum[p].date > since}

\* $orderby=changeDate desc: how many come before p.
Rank(p, since) == Cardinality({q \in Listed(since) : momentum[q].date > momentum[p].date})

\* $skip and $top
Page(since, skip) == {p \in Listed(since) : Rank(p, since) \in skip..(skip + PageSize - 1)}

Records(policies) == {[policy |-> p, kind |-> momentum[p].kind, date |-> momentum[p].date] : p \in policies}

GoTo(f, place) == fetcher' = [fetcher EXCEPT ![f].at = place]

\* Each page is a request of its own; a short page is the last one.  Of a policy
\* that two pages bring, the later one counts; a full pull leaves the earlier one
\* beside it until the next pull, which is left out.
FetchPage(f, next) ==
    /\ fetcher[f].at = "page"
    /\ LET page == Page(fetcher[f].since, fetcher[f].skip) IN
       fetcher' = [fetcher EXCEPT ![f].got = {r \in @ : r.policy \notin page} \cup Records(page), ![f].skip = @ + PageSize,
                                  ![f].at = IF Cardinality(page) < PageSize THEN next ELSE "page"]
    /\ UNCHANGED <<momentum, book, mirror, changes, failures>>

BookFailure == failures < MaxFailures /\ failures' = failures + 1

-----------------------------------------------------------------------------
(* hermes_core/book.py                                                     *)

\* A faulty cache that starts a refresh for every request that finds it stale.
SpawnsAlways == ~book.fresh /\ ~book.backoff

\* fetch_book(), under the lock.
Spawns == ~book.fresh /\ ~book.backoff /\ ~book.refreshing

\* A request reads what there is, or the mirror, and may start a refresh.
RequestBook ==
    /\ Spawns
    /\ LET resting == {t \in Thread : fetcher[t].at = "rest"} IN
       resting # {} /\ GoTo(CHOOSE t \in resting : TRUE, "begin")
    /\ book' = [book EXCEPT !.refreshing = TRUE]
    /\ UNCHANGED <<momentum, mirror, changes, failures>>

LivePolicies == {p \in Policy : momentum[p].kind = "policy"}

\* A delta needs something to apply it to, and a full pull is due from time to
\* time; clients are always pulled in full.
Delta == book.warm /\ ~book.fullDue /\ book.of = "policies"

BeginPull(t) ==
    /\ fetcher[t].at = "begin"
    /\ fetcher' = [fetcher EXCEPT ![t] = [NoFetch EXCEPT
          !.at = "page", !.full = ~Delta, !.since = IF Delta THEN book.at ELSE 0]]
    /\ UNCHANGED <<momentum, book, mirror, changes, failures>>

\* _pull_book() raises: the attempt is stamped, and the thread ends.
PullFails(t) ==
    /\ fetcher[t].at = "page" /\ BookFailure
    /\ fetcher' = [fetcher EXCEPT ![t] = NoFetch]
    /\ book' = [book EXCEPT !.backoff = TRUE, !.refreshing = FALSE]
    /\ UNCHANGED <<momentum, mirror, changes>>

\* A quote is not a policy, and is skipped.
Pulled(t) == {r \in fetcher[t].got : r.kind = "policy"}

BookRow(r, lineage) == [there |-> TRUE, date |-> r.date, lineage |-> lineage]

\* The rows of a delta replace those they name; a full pull replaces the book.
MergedBook(t, lineage) ==
    [p \in Policy |->
        IF \E r \in Pulled(t) : r.policy = p
        THEN BookRow(CHOOSE r \in Pulled(t) : r.policy = p, lineage)
        ELSE IF fetcher[t].full THEN NoBookRow ELSE book.rows[p]]

\* _lineage_index(): losing the lineage does not cost the book.  The stamp is the
\* time of the store, not of the first page.
StoreBook(t) ==
    /\ fetcher[t].at = "store" /\ fetcher' = [fetcher EXCEPT ![t] = NoFetch]
    /\ \E lineage \in BOOLEAN :
          /\ IF lineage THEN UNCHANGED failures ELSE BookFailure
          /\ book' = [book EXCEPT !.rows = MergedBook(t, lineage), !.warm = TRUE, !.at = BookClock,
                                  !.fresh = TRUE, !.fullDue = @ /\ ~fetcher[t].full,
                                  !.backoff = FALSE, !.refreshing = FALSE]
    /\ UNCHANGED <<momentum, mirror, changes>>

\* HERMES_AMS_BOOK_TTL, _FAIL_BACKOFF_SECONDS and HERMES_AMS_FULL_REFRESH run out.
ExpireBook(changed) == book' = changed /\ UNCHANGED <<momentum, mirror, fetcher, changes, failures>>
TtlEnds == book.fresh /\ ExpireBook([book EXCEPT !.fresh = FALSE])
BackoffEnds == book.backoff /\ ExpireBook([book EXCEPT !.backoff = FALSE])
FullEnds == ~book.fullDue /\ ExpireBook([book EXCEPT !.fullDue = TRUE])

RefreshBook(t) == BeginPull(t) \/ FetchPage(t, "store") \/ PullFails(t) \/ StoreBook(t)

-----------------------------------------------------------------------------
(* hermes/sync/canonical_book_sync.py                                      *)

\* The book is fetched in full, quotes and all.
StartNightly ==
    /\ fetcher["nightly"].at = "rest" /\ GoTo("nightly", "page")
    /\ UNCHANGED <<momentum, book, mirror, changes, failures>>

\* A fetch that fails, or a select of the keys that fails, ends the run.
NightlyFails ==
    /\ fetcher["nightly"].at = "page" /\ BookFailure
    /\ fetcher' = [fetcher EXCEPT !["nightly"] = NoFetch]
    /\ UNCHANGED <<momentum, book, mirror, changes>>

\* One record: an update of a key the table has, an insert, or an error that is
\* recorded; the last one ends the run.
WriteRecord(r) ==
    /\ fetcher["nightly"].at = "write" /\ r \in fetcher["nightly"].got
    /\ fetcher' = IF fetcher["nightly"].got = {r} THEN [fetcher EXCEPT !["nightly"] = NoFetch]
                  ELSE [fetcher EXCEPT !["nightly"].got = @ \ {r}]
    /\ \/ mirror' = [mirror EXCEPT ![r.policy] = [there |-> TRUE, date |-> r.date]] /\ UNCHANGED failures
       \/ BookFailure /\ UNCHANGED mirror
    /\ UNCHANGED <<momentum, book, changes>>

WriteNothing ==
    /\ fetcher["nightly"].at = "write" /\ fetcher["nightly"].got = {}
    /\ fetcher' = [fetcher EXCEPT !["nightly"] = NoFetch]
    /\ UNCHANGED <<momentum, book, mirror, changes, failures>>

Nightly == \/ StartNightly \/ FetchPage("nightly", "write") \/ NightlyFails \/ WriteNothing
           \/ \E r \in fetcher["nightly"].got : WriteRecord(r)

-----------------------------------------------------------------------------
(* People in NowCerts                                                      *)

\* A policy is edited, turned into a quote or back, or deleted.
ChangePolicy(p) ==
    /\ changes < MaxChanges /\ changes' = changes + 1 /\ momentum[p].kind # "none"
    /\ \E kind \in {"policy", "none"} \cup (IF book.of = "policies" THEN {"quote"} ELSE {}) :
          momentum' = [momentum EXCEPT ![p] = [kind |-> kind, date |-> BookClock + 1]]
    /\ UNCHANGED <<fetcher, book, mirror, failures>>

BookNext ==
    \/ RequestBook \/ TtlEnds \/ BackoffEnds \/ FullEnds \/ Nightly
    \/ \E t \in Thread : RefreshBook(t)
    \/ \E p \in Policy : ChangePolicy(p)

\* Requests keep coming, threads and the nightly job go on, and time passes.
BookFairness ==
    /\ WF_bookVars(RequestBook) /\ WF_bookVars(Nightly) /\ \A t \in Thread : WF_bookVars(RefreshBook(t))
    /\ WF_bookVars(TtlEnds) /\ WF_bookVars(BackoffEnds) /\ WF_bookVars(FullEnds)

BookSpec == BookInit /\ [][BookNext]_bookVars
BookFairSpec == BookSpec /\ BookFairness

-----------------------------------------------------------------------------
(* Properties                                                              *)

\* Whatever a delta cannot say, whatever a page missed, a lineage that was lost
\* and a run that failed: when NowCerts rests, the cached book comes to be the
\* book, and the mirror to cover it.
BooksConverge ==
    <>[]( /\ fetcher["nightly"].at = "off" => \A p \in Policy :
                IF p \in LivePolicies  THEN /\ book.rows[p] # NoBookRow /\ book.rows[p].lineage
                                    /\ book.rows[p].date = momentum[p].date
                               ELSE book.rows[p] = NoBookRow
          /\ fetcher["nightly"].at # "off" => \A p \in Policy : momentum[p].kind # "none" =>
                mirror[p] # NoBookRow /\ mirror[p].date = momentum[p].date )

\* What the desk has seen of a policy it does not unsee: no refresh puts an older
\* state of a row into the cache, though refreshes take minutes.
NeverBack ==
    [][\A p \in Policy : book.rows[p] # NoBookRow /\ book'.rows[p] # NoBookRow
          => book'.rows[p].date >= book.rows[p].date]_bookVars
=============================================================================
