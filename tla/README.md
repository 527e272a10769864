# Hermes: a verification project

Hermes is the operations engine of an insurance agency. It sits between NowCerts (the agency
management system, "AMS", where insureds and policies live), Zoho CRM, and a Supabase database that
mirrors the book and holds the queues, the renewal desk, the deals, the commission ledger and the
intake. This directory models the parts of it where several processes share rows of that database or
write to one of the other systems, checks the models with TLC, and proves the most important of
their properties with TLAPS for every value of the constants.

Contents: [inventory](#inventory) · [modules](#modules) · [runs](#runs) · [bounds](#bounds) ·
[fairness](#fairness) · [proofs](#proofs) · [divergences](#divergences-from-the-documentation) ·
[not modelled](#what-is-not-modelled) · [plan](#plan)

Everything below names source files relative to `src/`; `PROJECT.json` maps every definition to the
lines it models.

## Inventory

| Component | State it keeps | Operations | Who interferes |
|---|---|---|---|
| Scheduler lease (`hermes/scheduler/locks.py`) | one row per lock: owner, expiry | acquire (update, then insert), renew, release | replicas of the scheduler; lost requests and answers; crashes |
| Scheduler cycles (`hermes/scheduler/runner.py`, `retry.py`) | none of its own | reclaim stalled rows, retry or dead-letter failed ones, run the executors | loops and requests that run executors outside the lease |
| Outbound queue (`outbound_sync_queue`) | status, attempts, approval, times of each job | staged, proposed and confirmed by producers; claimed, worked and closed by executors | everybody above |
| Intake submissions (`hermes/intake/submissions.py`, `hermes/operations/intake_worker.py`, `agency_intake_approval.py`) | status, history, approval token | submit, claim, synthesize, draft, approve, cancel, commit | several workers, several approvers, synchronous commits |
| Intake commit and Zoho mirror (`hermes/intake/commit.py`, `gateway_ams.py`, `zoho_writer.py`) and leads (`hermes/leads.py`) | opportunities, Zoho accounts and deals, leads | open, tie to the AMS, mirror, stamp; convert a lead | commits of one client side by side |
| Renewal corrections (`hermes/routers/renewals.py`, `hermes_core/overrides`, `hermes/renewals/candidate_refresh.py`) | `portal_overrides`, `renewal_events`, `project_85_renewals` | correct, remove, withdraw, edit; nightly rebuild with overlay, projection and pruning | people, the rebuild, the AMS sync |
| Renewal rules and events (`hermes/renewals/eligibility.py`, `lineage`, `candidate_refresh.py`) | `renewal_events` | which term is a renewal, which one has lapsed in silence | terms staged, bound, cancelled and re-dated in NowCerts |
| Renewal cases (`hermes/renewals/cases.py`, `hermes/jobs/casework_sentinel.py`) | cases and the link of an event to its case | ask for the case, open what slipped | commands and sentinel runs side by side |
| Renewal executor (`hermes/renewals/executor.py`) | receipts, trail | validate, revalidate, compare, write, verify | people in NowCerts; retries and reclaims |
| AMS writeback (`hermes/ams/writeback.py`) | a queue row per push | push, retry, list, create a policy | pushes of one record side by side, people in NowCerts, a restart |
| Opportunity pipeline (`hermes/sync/opportunity_*.py`, `hermes_core/opportunities.py`) | `opportunities` | inbound sync, quote sync, stage moves, won deals, merge of pairs, retirement, repair | people and jobs on one table |
| Quotes and proposals (`hermes/quotes`, `hermes/proposals`) | quotes, PDFs, proposals | create, attach, send, mark | sends of one quote side by side |
| Canonical book (`hermes/sync/canonical_book_sync.py`, `hermes_core/book.py`) | the cached book, the mirror | full and delta refresh, nightly upserts and sweep, fallback | threads, and people in NowCerts, whose list is ordered by last change |
| Book health (`hermes/book_sync/health.py`) | none | compare NowCerts with the mirror page by page | edits between the pages |
| Commissions (`hermes/commissions`, `hermes/sync/commission_sync.py`) | ledger, transactions, statements | stage, approve, match, roll up, classify, seed, poll, watch | approvals, the seed and the reconciliation, with no lock |
| Reports (`hermes/jobs/commission_dq.py`, `revenue_integrity.py`, `revenue_sentinel.py`) | state files | scan, post, remember | overlapping runs, posts and files that are lost |
| Snapshots and lists of the book (`hermes/jobs/agency_snapshot.py`, `_collapse_to_current_terms` in `hermes/api.py`) | `agency_snapshots` | figures and retention of the day, difference to the row before; which terms are current | terms renewed and closed in NowCerts, two runs of a day |
| Cases and tasks (`hermes_core/casestore.py`, `hermes/operations/team_queue.py`, `staleness.py`) | cases and what is filed under them, tasks | create by title, update, tick off, close over a checklist, delete with everything under it | people and agents on one case, lists loaded earlier |
| Review gate (`hermes/command_center`) | submission, flags, deliverables, trail | upload, extract, fix, approve, deliver | calls that break off |
| Shared desk (`deploy/mcp-bridge/app.py`, `nextcloud_*.py`, `hermes/documents`) | Deck cards, files, the library | make a card, a folder, store a PDF, save a document | the bridge gives up after 45 s while the call goes on |
| Clients (`hermes_integrations`) | tokens, a lock per client | request, authenticate, repeat | threads; timeouts, 401, 429, 5xx |
| Agent (`hermes/agent`, `hermes/commands/agency_intake.py`) | drafts | dispatch, ask, run a tool, stage a draft | the model, which may call anything |
| Scripts (`scripts/backfill_zoho_from_momentum.py`) | Zoho records | run, die, run again | edits between runs |

Interaction is by rows: no component calls another across a process, everything goes through a
table of Supabase or a request to NowCerts or Zoho. That is what makes the code hard. There are no
transactions: PostgREST gives one statement per request, so every operation of more than one
statement can be interleaved with every other, cut in two by a crash, or half fail. The database
helps in a few places only: the condition of a guarded `PATCH` (the claims, the lease), and unique
indexes (open queue rows, active overrides, the identity of an event, the hash of a statement). And
the HTTP client repeats a `PATCH` whose answer was lost (`supabase_client.py:50`), so an
unconditional update by id may land twice.

What makes each component correct:

* lease: one replica of a lock in a cycle; nobody but time ends the lease of a living owner; a
  lease whose holder died is taken over;
* queue: nothing is written to NowCerts before a human approved it; one executor per row; the
  retry budget bounds the writes; `completed` means written, and stays unless the executor itself loses the
  trail of its job; approved jobs settle;
* intake: the history is a walk along the state machine; nothing is written beyond the scope that
  was approved; a submission is committed once; `complete` means committed;
* deals: a won deal is filed once, only if it was won, and its row is closed only once the deal is
  linked; no job overrules the person who works a deal, but for two ways that are named; no job that
  removes rows loses a quote that is waited for; what a row says of Zoho belongs to its client;
* quotes and reviews: what reads sent was sent with its own terms; what may leave is whole and was
  approved, and no document replaces what a person typed;
* renewals: a term is followed up once and never silently dropped; everybody is told the same case;
  no correction is lost on the way to the next; an undone removal leaves nothing behind; rebuild and
  corrections agree in the end; a receipt says what NowCerts held;
* book and ledger: the cache comes to be the book, the mirror to cover it, the ledger to say what
  the statements add up to; money goes to the policy it names, once for each approval;
* reports: a run skips only what was posted; a report that finds nothing has read everything; a renewed
  term is not counted as lost, and the trend adds up;
* tasks: what somebody asks for is there, and there twice only if two requests overlapped; stamps tell when a task was
  done; a deletion that breaks off leaves nothing that points at a case that is gone;
* writeback, clients, desk, agent: `completed` means NowCerts carried the value; a write that is not
  safe to repeat lands once per call; a question writes nothing.

`PROJECT.json` lists 40 hazards with the line where each bites and the properties that watch it.

## Modules

| Module | Models | Composed in |
|---|---|---|
| `SchedulerLease` | `SchedulerLock` of `locks.py`, also the abstract lease the scheduler implements | `SyncScheduler` |
| `SyncScheduler` | the queue, its producers, scheduler cycles, retry passes, executors; extends `SchedulerLease` | `MCSyncScheduler` |
| `IntakeSubmission` | `submissions.py` and the three kinds of actors that move a submission | `MCIntakeSubmission` |
| `Overrides` | the table `portal_overrides` and `set_override` / `resolve`, as operators | `RenewalCorrections` |
| `RenewalCorrections` | the requests about a renewal and the nightly refresh; extends `Overrides` | `MCRenewalCorrections` |
| `AmsWriteback` | `push`, `retry`, `create_policy_endpoint` | `MCAmsWriteback` |
| `LiveBook`, `CommissionLedger`, `CaseTasks` | the cached book and its mirror; seed, statements and roll-up of the ledger; the tasks and the end of a case | `MCBackOffice` |
| `OneShot` | the abstract promise of a queue row that is never retried | `WonDeals` (`INSTANCE`) |
| `WonDeals`, `OpportunityBoard`, `NewDeals`, `QuoteDesk`, `ReviewDesk` | the life of a deal and of a commercial submission | `MCSalesDesk` |
| `CommissionScan`, `Briefings`, `RenewalEvents`, `RenewalCases`, `RenewalWrites`, `StatementInbox`, `ZohoBackfill`, `BookHealth`, `SharedDesk`, `ApiClients`, `AgentTurn`, `BookReports` | jobs and tools around the book | `MCOfficeDesk` |
| `MCStatementInbox`, `MCReviewDesk` | instances for the two counterexamples | - |
| `SchedulerLease_proofs`, `SyncScheduler_proofs`, `IntakeSubmission_proofs`, `AmsWriteback_proofs`, `RenewalCorrections_proofs` | theorems of the module of the same name | extend it and TLAPS |
| `OfficeDesk_proofs` | theorems of `RenewalWrites`, `RenewalCases`, `Briefings`, `ApiClients`, `AgentTurn`, `SharedDesk`, `BookReports`, `CommissionScan`, `RenewalEvents`, `StatementInbox`, `BookHealth`, `ZohoBackfill` | extends `MCOfficeDesk`, which names the conjunctions `ClientsSafe` and `CopiesSafe` |
| `BackOffice_proofs` | theorems of `CaseTasks`, `LiveBook`, `CommissionLedger` | extends `MCBackOffice`, which names `BackOfficeSafe` |
| `SalesDesk_proofs` | theorems of `WonDeals`, `OpportunityBoard`, `NewDeals`, `ReviewDesk`, `QuoteDesk`, and the lemmas about sums that the last rests on | extends the five and TLAPS |

Three conventions hold everywhere.

*A request is a step.* What a process read in one request is kept in its own record (`run`, `proc`,
`asked`, `refresh`, `push`, `job`, `fetcher`, `visit`, ...) and used in a later step, stale or not. A
guarded `PATCH` is one step, because the database evaluates its filter atomically. Pure Python between
two requests belongs to the step of the request before or after it.

*A request may fail.* Each step has disjuncts for the request that is lost, and for the one that is
applied although its caller sees an exception. Each failure uses up one unit of a named bound
(`MaxFaults`, `MaxHit`, `MaxWonFaults`, ...), and a death between two steps is a failure too. `Crash`,
`Die`, `Break` and their like reset the volatile record and leave the tables as they are.

*Data is abstract.* A payload, a premium, a name is a member of a small set; time is a distance
(`left`, `wait`, `age`) that a tick counts down, or a day that stops at a bound, so that no clock grows
without bound.

Definitions whose comment begins with "A faulty ..." or ends in "faulty" are not part of any
specification: they are plausible mistakes in one definition, which the mutants of `PROJECT.json` put
in its place to show that the property of that run would notice.

### SchedulerLease

`lease` is the table `scheduler_locks`, `pc` is where each replica is: `idle`, about to `insert`
(the update of `acquire` matched no row), or in a `cycle`. `AcquireUpdate` is the guarded update
that takes an expired or own row, `AcquireInsert` the insert that loses against an existing row,
`Renew` and `Release` the updates guarded by the owner. A crashed replica comes back with a new
owner id; the model keeps one identity per replica and makes its old row `NoOne`'s, which is
equivalent for everybody else. `Timely` says whether a deployment finishes its cycles within the
lease: the code has no fencing, so mutual exclusion is promised for timely deployments only.

### SyncScheduler

`queue` is the table, numbered in the order of `created_at`, `run` what each process is doing with
a batch it selected, `writes` and `reclaims` count what reached NowCerts and what was taken back.
Producers `Stage` (approved), `Propose` and `Confirm`; a cycle is `Acquire`, the two retry passes
(`ScanStalled`/`Reclaim`, `ScanFailed`/`Requeue`), the executors of its `Pipeline`
(`Select`/`Claim`/`Call`/`Close`/`EndExecutor`, with a `renew` between two of them) and
`EndCycle`, the `finally` clause. Members of `Loop` run executors without a lease: the renewal
worker loop, the kick after an intake, `POST /api/intake/run`. `Split` chooses between the unsplit
cycle, which an exception ends, and the per-service cycles, where it costs one executor. The five
executors differ in whether they want an approval (`Gated`) and whether they swallow an error
answer (`Tolerant`); their work at NowCerts is one action with all its outcomes. After the final status
the renewal executor has a `Trail` to write, and catches an error answer of that request but not a lost
connection (`_log_trail`): the crash handler then writes failed over the row it has just completed.
`CompletedStays` names this (`LostTrail`) as the one way out of completed. `Retried` keeps
the boundary of `MAX_ATTEMPTS` and the exponential backoff as they are coded.

The comment of the database on the queue says that the vocabulary gained `dead`; the enum of the
first migration lacks it (`20260507010000:33`) while the later one calls the column free text. The
model takes the later one's word.

### IntakeSubmission

`transition()` is a read, a check against `_FORWARD` and an unguarded write by id, so it is
`Fetch` and `Store`; the two claims are a select and a guarded write (`Poll`, `Claim`). `Decide` is
a person's approve, revise or cancel. The commit looks for the opportunities, opens them and
inserts the retrieval rows (`LookUp`, `Open`, `Index`), in the scope of the token column as it is
at that moment. `given` records what people really approved, `told` that somebody was told a
submission was canceled. Abstracted: one line of business, the retrieval rows as one insert, REVISE
like a cancel (both end in `failed` from the point of view of this machine), Slack posts as
failures of the step they are in.

### Overrides and RenewalCorrections

`overrides` is the table in the order of insertion, with the unique index on active rows
(`Insertable`), which a superseded row gives up and an insert takes. `asked` is the request of a
person: `Correct`, `Dismiss`, `Withdraw` begin one, `Find`, `Supersede`, `Insert`, `WriteThrough`,
`Events`, `Undo`, `Restore`, `Unexclude`, `PutBack` are its requests to the database. `refresh` is
the nightly rebuild: `Build`, `OverlayEvents`, `UpsertEvent`, `Project`, `StoreRow`, `Protect`,
`Prune`, each with what it read before. `book` moves by `Move`, work is logged by `Work`, which
protects a row from pruning but not from a prune that already read. One renewal, one editable field
("premium" stands for every projected field) and the removal; the exclusion of the event is the
third slot. What the eligibility rule says is a free choice of the book. `crowded` is history: two requests
have been at work at once. `MCRenewalCorrections` has two parts, one person beside what may
happen around the desk and two people beside the rebuild.

### AmsWriteback

`ams` is NowCerts, `queue` the rows of the pushes (row *p* is the row of push *p*, as a retry stages a row of its
own), `push` where each request is. `Answer` is `_read`: it swallows exceptions, so a failed read and a missing record
are the same answer. `Upsert` creates the record if it is not there, which is why the read before exists. `Verified`
does not compare an emptied field (`_verify` skips `None`). `hit` and `held` are history: which pushes a failure hit,
and whose value NowCerts carried while they ran. `newer[q]` are the rows whose `updated_at` is later than that of row
*q*; `Listed` is what the list of failures has room for (`ListLimit`, 50 in the code, 1 in the run). Creating a policy
is a request of two steps on the same record of NowCerts. These rows have the object types `client` and `policy`,
which no executor and no retry pass of `SyncScheduler` takes; that is why the two modules are not composed.

### LiveBook

`momentum` is NowCerts (the name of its API); a change is numbered and the number is its changeDate.
`book` is the cache of `book.py` with its flags (`warm`, `fresh`, `backoff`, `refreshing`), `mirror`
the table `canonical_policies`, `fetcher` what each thread, and the nightly job, has read so far.
`RequestBook` is a request that finds the cache cold or stale and may start a refresh, `RefreshBook`
the pages of a full or a delta refresh up to `StoreBook`, `Nightly` the pages, upserts and sweep of
the mirror; `TtlEnds`, `BackoffEnds`, `FullEnds` are the clocks of the cache. `ChangePolicy` moves
the list under its reader's page. A delta cannot say that a policy is gone; the full refresh that
follows can, which is what `BooksConverge` rests on.

### CommissionLedger

`batch`, `txns`, `statements` and `ledger` are the tables, `clerk` what the seed, the reconciliation
and each approver have read. An approval stages lines (`BeginCommit`, `InsertTxn`, `FinishCommit`),
relinks them (`Relink`, over the ladder `MatchLine`) and rolls up (`Rollup`); `Verdict` is the total
and the classification of `reconcile.py` on the half-open term [effective, expiration). Every one of
them reads its tables at its start and writes row by row; they overlap up to `MaxBusy`, and each may
stop anywhere. `LinksAgree` and `LedgerConverges` are what this promises.

### CaseTasks

`theCase` is the row of one case, `filed` the child tables that hold something of it, `tasks` the tasks
of the case and of the scopes outside it, `hands` the request of each person or agent. `StartTasks`,
`LookTitles` (or `LookFails`), `InsertTask`, `TasksMade` are `create_tasks`: a look for the titles that
count as taken, then one insert per title. `ListTasks` and `CompleteTask` tick a task off a list that
was loaded earlier; `UpdateTask` and `DeleteTask` are single requests; `Moved` is a write with its trigger
`Stamped`. `StartDelete` and `SweepTable` are `delete_case`, table by table, and `FileUnderCase` what
others file meanwhile. `TaskVerdict` is the rule of the health check. `late` and the
fields `done`, `cancelled`, `since`, `known` of a task are history; `known` is how many tasks there were when
the request that entered it looked.

### OpportunityBoard

`board` is the table `opportunities`, `ams` and `register` what NowCerts says of opportunities and
open quotes, `archive` where retirement puts rows, `job[j]` what each job has read. The jobs are
`Mirror` (the nightly sync of NowCerts opportunities), `Quotes` (the quote sync), `Dedupe`, `Repair`
and `Retire`; `Work`, `Open`, `Discard` are people in the CRM; `OpenQuote`, `CloseQuote` and `MoveInAms` are
NowCerts. `given` and `stood` are history: the type and stage a person last gave a deal, and the quotes
that have been open since the retirement asked for the register. `Stages` has the two ladders of
`hermes_core/opportunities.py`. Edits of a deal's line of business are left out, a pair whose
premiums differ is a choice of the merge, and NowCerts's own stages are taken to be on the ladder.

### WonDeals and OneShot

`deal` is the row of each deal, `amsDeal`, `insureds` and `policies` what NowCerts has of it, `queue`
the two kinds of rows, `person` and `exec` who is between two requests, `everWon`, `raced`, `latest`
history. A move (`Drag`) stages rows (`StageBack`, `StageWon`); an executor selects, claims, finds or
creates the insured (`Resolve`), inserts the policy, links the deal and finishes the row, and breaks
(`Breaks`, with the request applied or not) or crashes at any of these requests. The final status is one of
them: when it is applied and unanswered (`CloseUnheard`) the row is completed while its executor believes it
failed, and says so next. `OneShot` is what a reader of the queue expects of a row that the
retry passes leave alone: taken up once, at most one effect, completed only with it; completed is the last
word unless the executor doubts it. `Approval` is its
instance under the mapping of `WonDeals` (`WonStatus` for the rows, `policies` for the effects), and
`FiledOnce` says that `WonDeals` implements it.

### NewDeals

`desks` is each commit or conversion, `dealRows` the table under its unique index, `zohoAccounts` and
`zohoDeals` Zoho, `leads` the leads. The steps of a desk are those of `commit_intake`: open each line
(`FindDeal`, `InsertDeal`), adopt it for the insured, find or create the account, create the deals,
stamp the rows; or those of a lead's conversion (`StartConversion`, `Convert`). All that binds them is
the identifier made of a client's name.

### QuoteDesk

`quotes`, `amsQuotes`, the folder `cloud` and the rows `quoteJobs`; a request creates a quote, files
its PDF and attaches it; a send is `SendQuote`, `ClaimQuote`, `InsertQuote`, `StampQuote`,
`CloseQuoteJob`, with `RetryQuote`; `Propose` picks quotes, stars one per line (`Starred`) and totals
them (`PackageTotal`).

### ReviewDesk

One submission: `facts` with their `origin`, `flagged`, `bundle` of deliverables, `standing`, `told`
(the last entry of its trail), and `visit`, the call in progress. `Upload`, `Correct` and `Approve`
begin calls, each a series of requests that may break off; `halfway` remembers that one did, until an
upload or a fix goes through.

### The office desk

| Module | State and actions |
|---|---|
| `CommissionScan` | one policy, its ledger row and its rule: `SeedPolicy` writes what `commission_sync.py` would, `Scanned` is the scan of `commission_dq.py`, `AuditBlind` the weekly audit; the three restate one rule in their own words |
| `Briefings` | `reports` is a run between reading, deciding, posting and remembering; `sentFile` the state file, `messages` what the team saw; days go by |
| `RenewalEvents` | `terms` is the book, `events` the table; `Evaluate` is the eligibility rule with its lineage, `Refresh` the nightly rebuild, `LapseList` what is asked about |
| `RenewalCases` | `caseWork` is a command or a sentinel run between the look-up, the insert of the case and the insert of its identity, `told` what each answered |
| `RenewalWrites` | `renewalJob` in its run `jobRun`, `amsPolicy` as NowCerts has it, `jobReceipts`; the receipt, the status and the trail may each be lost or crash the job (`Crashes`), which ends it a second time, as failed; `held`, `livedOn`, `wroteDead` are history |
| `StatementInbox` | `folder`, `inbox` and `stager` (the poller, each uploader); `Readings` is what the readers make of a document, a misread column of a PDF included; `approver` an approval between its reads and its inserts, one line a request (`StartApproval`, `ReadStaged`, `CommitLine`, `FinishApproval`), `paid` what it committed; `approvals` is history; the watchdog's `verdict` |
| `ZohoBackfill` | `backfill` is the run, insured by insured and policy by policy; `zoho` the records; a search and its write are one step |
| `BookHealth` | `health` is the report between its pages of NowCerts and of the mirror; edits move policies between pages |
| `SharedDesk` | `asked` the calls of agents, `cards`, `folders`, `pdfs`, `library` what they leave; the bridge stops listening while the call goes on |
| `ApiClients` | `tokens`, `authLocks` and `apiCalls`: a thread between token, request, refusal, repetition; `landings` counts what took effect |
| `AgentTurn` | `turn` of each caller from its text to the reply, `drafts` what was staged; `Answer` says for each tool what it makes of requests that fail |
| `BookReports` | `shelf` the terms of one insured, `snapshots` the row of each day, `shots` a run between its reads and its write; `WasRetained` the rule of retention, `CurrentTerms` the list that is shown; `carriedOn` (what a person renewed) and `started` are history |

The modules of a desk share no state, so interleaving them would multiply states and show nothing. `MCOfficeDesk`,
`MCSalesDesk` and `MCBackOffice` choose at the start which `part` a behaviour is about; the others rest
in their initial state. A property whose name ends in `Safe` is the conjunction of the module's type
invariant, where it has one, and of named parts that are stated on their own above it.

## Runs

| Run | Instance | Shows |
|---|---|---|
| `queue_one_row` | 1 renewal job, 2 replicas, a loop, 2 failures, timely, fair | mutual exclusion and the refinement of the lease (`LeaseProtocol`); approval first and completed means written (`WrittenAsApproved`); one executor per row, writes within the attempts, dead means exhausted (`BudgetKept`); completed stays but for a lost trail (`CompletedStays`); a dead holder is replaced |
| `queue_split` | 2 services with locks of their own, 1 job each, fair | every approved job settles |
| `intake_people` | a worker, a synchronous commit, 2 people, 1 submission in its three kinds, 1 failure or repeated write | audit trail and scope (`SubmissionSafe`) |
| `intake_workers` | 2 workers, 2 submissions, 2 failures, fair | committed once; complete means committed; submissions settle |
| `intake_canceled` | 2 people, 1 draft | **violation**: "Nothing was written" |
| `corrections` | 1 person, two of a move of the book, an edit and a failure, 2 overrides; 2 people beside the rebuild, 3 overrides; fair | no correction lost; undone removals complete; desk, event and book converge |
| `ams_pushes` | 2 requests, 2 GUIDs (1 unknown), 2 edits, failures in both, fair | taken and not minted (`WritebackSafe`); failed rows stay, and the newest are listed (`FailureListed`); place given back |
| `back_office` | 2 policies on pages of one, 2 threads, 2 changes, a failure; 2 ledger rows, 2 statements, an approver, a stop; a case with 2 tasks, 2 hands, a failure | types and `LinksAgree` (`BackOfficeSafe`); the cache never goes back (`NeverBack`); cache, mirror and ledger converge (`BackOfficeConverges`); `TasksSafe` |
| `sales_desk` | a deal, 2 rows, 2 executors, a person; 3 board rows under every job, a person, and quotes that open and close; 2 commits of 2 lines and a lead; 2 quotes, 2 sends; 5 review calls | `WonSafe`, `FiledOnce`; `BoardSafe`, `WorkedSpared`, `NothingLost`; `NewDealsSafe`; `QuoteSafe`; `ReviewSafe` |
| `office_desk` | the twelve modules of the table above, each with two actors or two runs and a failure; two approvals of a batch of two lines | `ScanSafe`; `BriefingsSafe`; `RenewalFollowedOnce` and `SilentLapseListed`; `AnswersAgree`; `RenewalWritesSafe`; `InboxSafe`; backfill and health report (`CopiesSafe`); `DriveSafe`; API clients and agent (`ClientsSafe`); `SnapshotsSafe` |
| `inbox_limit` | 2 files, a poll of 1, fair | **violation**: "the rest will be picked up on the next poll" |
| `review_broken` | 4 calls, 1 failure | **violation**: deliverables "reflect the current data" |

## Bounds

A conflict in this code is between two actors about one row, or about one place in a unique index; a
third replica, worker, thread or person meets the same row in a state two of them already produce, and
the properties that are proved hold for any number. One failure is enough to leave any operation half
done, and the second, where there is one, allows a failure while the first is being repaired; a budget
of 3 attempts has a first, a middle and a last; a stall threshold and a TTL of 2 ticks have a tick
before, at and after the boundary. Pages hold one record, so that two records already make a list that
shifts under its reader. Calendars are short and keep the order of their thresholds: a window, a floor, a
term and the new year of `RenewalEvents`, two weekends in the week of `Briefings`, the half days of the
watchdog.

Some bounds go by part, because the interesting cases need different things: two approvals of a batch are checked
beside one file, which is uploaded, and none beside two (`MaxApprovals`, `MCApprovals`); three overrides with two
people, two with one, who meets two of a move of the book, an edit and a failure (`MaxAround`); the jobs of
`RenewalWrites` that write a note start from a linked renewal whose policy has the old value, which they do not read.

`MaxReclaims`, `MaxWrites`, `MaxOverrides`, `MaxMoves`, `MaxPatches`, `MaxEdits`, `MaxChanges` and
their like bound how often the environment acts; in the cases the properties are about they are not the
reason that something stops, and where they are (a finite number of requests) the configuration
switches the deadlock check off, since the real system then simply has nothing to do. `MaxBusy` of
`CommissionLedger` bounds the processes at work together with the stops used so far, and midnight comes
when no process is at work.

Some properties are stated for some deployments only, and say so in their text: `Orderly` (cycles and
jobs in time, no applied write repeated) for what the queue promises about executors and budgets,
`Exclusive` (one approver, no repeated write) for `CommittedOnce`, `~unanswered` and `~collided` for
records and cards that a lost answer or two calls in flight may double, `~halfway` for
`ReleasedIsWhole`. Without these conditions the code does not keep them: nothing fences a process that
is late, and a search followed by a create is not atomic.

## Fairness

* `LeaseFairSpec`, `Fairness` of `SyncScheduler`: each replica keeps taking its own requests and
  time passes. `run_scheduler_loop` runs a cycle every interval and always reaches its `finally`;
  the loops are `while` loops with a sleep. Nobody has to confirm a proposal or stage a job.
* `FairSpec` of `IntakeSubmission`: a worker polls for ever and a request that was begun goes on.
  `docker-compose.yml:75-86` runs `hermes --run-intake-worker` with `restart: unless-stopped`, which is
  `run_worker` (`intake_worker.py:634`); two comments say the contrary (see the divergences), and a
  deployment they describe would leave every submission that is not committed inline where it is.
  Nobody has to answer a draft, therefore waiting for approval counts as settled.
* `FairSpec` of `RenewalCorrections`: the refresh is a nightly cron job; a begun request goes on.
* `FairSpec` of `AmsWriteback`: a begun request goes on until it returns or dies.
* `BookFairness`: the desk asks for the book again and again, the nightly job runs, a refresh that
  began goes on, and the cache's clocks run out. NowCerts need not rest, it is only bounded.
* `MoneyFairness`: an approval that began goes on (weak); the seed, a nightly cron job, and the
  reconciliation get their turn (strong, because an approval may keep the bound `MaxBusy` exhausted
  whenever they look). The crontab has the seed; for the reconciliation (`jobs.py`) it has no line,
  so its fairness says that it is scheduled.
* `PolledSpec` of `StatementInbox`: the poller runs again and again and a poll goes on.

All of it is per process. No property relies on a race being won, on a failure not happening for ever
(failures are bounded by name), or on the order two processes get their turn.

## Proofs

| Theorem | Says, for every value of the constants |
|---|---|
| `LeaseTypeCorrect`, `LeaseInvariant`, `LeaseMutualExclusion`, `LeaseEndedByOwner` | types; who is in a cycle owns a live lease; mutual exclusion; only the owner's steps and time end a lease |
| `SchedulerImplementsLease`, `SchedulerMutualExclusion` | refinement: the scheduler with its queue implements the lease; mutual exclusion carries over |
| `SchedulerTypeCorrect`, `SchedulerApprovalFirst`, `SchedulerCompletesWritten`, `SchedulerWrites` | types, including attempts below `MaxAttempts`; nothing unapproved is written; completed means written; both (`WrittenAsApproved`) |
| `SchedulerQueueInvariant`, `SchedulerBudgetKept`, `SchedulerCompletedStays` | the queue's invariant; one executor per row, writes and dead letters within the attempt budget; a completed job is reopened by nobody but its own executor, by a lost trail |
| `IntakeTypeCorrect`, `IntakeAuditTrail`, `IntakeScopeRespected`, `IntakeSubmissionSafe`, `IntakeCompleteCommitted`, `IntakeCommittedOnce` | types; the history is a walk; nothing beyond what was approved; all three (`SubmissionSafe`); complete means committed; committed once under one approver |
| `CorrectionsTypeCorrect`, `NoCorrectionLost`, `RemovalsAreUndone` | types; superseded corrections have successors, for any number of people; while no two requests have overlapped, an event excluded by hand stands behind a removal whenever all are at rest |
| `WritebackTypeCorrect`, `CompletedWasTaken`, `NothingIsMinted`, `WritebackIsSafe`, `FailuresAreListed` | types; completed means taken; nothing is minted; all three (`WritebackSafe`); a failure stays failed, and is listed unless newer ones fill the list |
| `WonIsSafe`, `WonFiledOnce` | a policy only for a won deal, completed means linked, edits in NowCerts stay; refinement: the won rows implement `OneShot`, also where the final status is lost |
| `ReviewIsSafe` | what may leave the review desk is whole and approved, and no document replaces what a person typed |
| `NewDealsAreSafe` | a row names an account and deals of its own client, a commit that raised made nothing, a converted lead has its deal |
| `BoardIsSafe`, `WorkedAreSpared`, `NothingIsLost` | the board keeps its shape and the quote sync opens one deal per client and line; what a person gave a deal stays but for a quote's promotion and an overtaken reading; a merge keeps the quote, a retirement archives the rows it takes and takes none with a quote that was open all along |
| `BookNeverGoesBack` | no refresh puts an older state of a policy over a newer one |
| `LinksAlwaysAgree`, `BackOfficeIsSafe` | a line of a statement is linked to a row of its own policy; that and the types of the whole back office |
| `TasksAreSafe` | however hands create, list, complete and delete, the tasks of a case agree with what was done, and a title is there twice only through requests that did not see each other |
| `RenewalWritesAreSafe` | a renewal job writes to policies in force only, and its receipt is what the AMS held |
| `CasesAnswersAgree` | all who asked for the case of an event are told the same one |
| `BriefingsAreSafe` | a run skips only what was posted, and the health check passes only if the sentinel posted since the last working day began |
| `ApiIsSafe`, `AgentIsSafe`, `ClientsAreSafe` | no write that may not be repeated lands twice and one thread at a time logs in; no disabled tool runs, no question writes, nothing is denied unread; both |
| `ScanIsSafe` | the daily scan misses nothing the seed took, calls nothing wrong that it wrote, and agrees with the audit on blind spots |
| `RenewalIsFollowedOnce`, `SilentLapseIsListed` | a term that ends in the window is followed up, and never twice; a term in force after its end is on the lapse list |
| `InboxIsSafe` | what is paid is what the document says, once for each approval, and not again after one has ended; what is missing in a batch shows; committed means paid; a silent watchdog means that the seed ran |
| `QuotesAreSafe` | a quote marked as sent is in NowCerts at its premium, and the starred options of a proposal add up to the total it prints |
| `HealthyIsLive`, `BackfillIsSafe`, `CopiesAreSafe` | a mirror called healthy missed no live policy that nobody touched; a backfill that ends with 0 has left nothing out, and what answered requests made is there once; both |
| `DriveIsSafe` | one card of a title, and what an agent was told is done is there |
| `ReportsAreSafe` | a renewed term is not lost business and not shown beside its renewal; the daily change is the difference to the row before |

The assumptions are the named `ASSUME`s of the modules, which say what kind of values the constants
have and, in `ScopeAssumption`, that replicas under different locks own different object types (one
scheduler or one per service, as `run_scheduler_loop` documents); TLC evaluates them in every run of the module.
Others that say more than a kind: `BookAssumption` numbers the policies, `CommissionAssumption` has no
person named like a job, `BoardAssumption` and `StartAssumption` say that a quote has a line, a type and a
term and that the board starts with well-formed rows, `AsksAssumption` gives the endpoints' bodies their
shape and makes sameness of titles reflexive and symmetric, and `ReportsAssumption` says that the next
term begins at most `SUCCESSOR_GRACE_DAYS` before the end of the last, which are no more than the days of a term.
`RenewalAssumption` has its days in order and its floor above zero, and `StatementInboxAssumption` numbers the rows
of a document.

Some theorems have hypotheses of their own. `AgentIsSafe` and `ClientsAreSafe` are about a language model that keeps
to the enumeration of `run_report` (`KeepsToEnum`): `nl_agent.py` hands the enumeration to the API and does not check the
answer. `ReportsAreSafe` starts from a book whose terms all have one length and a number; `RenewalIsFollowedOnce` and
`SilentLapseIsListed` from one where a term that has begun has an end and a term of Medicare renews none
(`WholeBook`); `ScanIsSafe` from facts of the right kinds, among which `NoRow` is not.
`HealthyIsLive` starts from policies whose dates of change differ, which makes the pages of NowCerts one list.
`BackfillIsSafe` starts from insureds and policies of which no two have one GUID, from policies that have an
expiry (a field that is not there is not sent, so that an older date would stay), and from a Zoho that holds one record
per GUID and module, no number for a policy that has none in NowCerts, and no risk band on a policy
(`OneEach`, `OneRecordEach`, `KeysOK`): the empty Zoho is such a one, and so is what earlier
runs have left whose requests were all answered.

The shape of the arguments. None of the properties is inductive, because a process acts on what it
read some steps ago; each inductive invariant therefore says what such a process may still believe.

* *Lease.* `LeaseInv`: in a timely deployment a replica in a cycle owns its row and the row has time
  left. `Tick` keeps it because a timely cycle ends before its last tick, the guarded update because
  it takes expired and own rows only. Mutual exclusion follows, since a row has one owner.
* *Scheduler.* Every action is a lease action, a failure elsewhere, or leaves the lease alone: that
  is the refinement, one step per action. `ApprovedBeforeWritten` needs that a gated row that was
  ever out of `queued` is approved, and that a row in a process's hands was approved when it was
  selected and can lose its approval by no step. `CompletedMeansWritten` needs that a process which
  is about to close a row as completed already wrote it.
* *Budget.* Passes and closes write rows by id, on old reads. `BudgetInv` says what those reads are
  still worth in an orderly deployment: the rows a pass has read are as it read them (`Fresh`: mutual
  exclusion and the split of the scopes keep other passes off, and the next conjunct keeps the
  executors off), a row in hand is in `processing` and younger than the stall threshold, or completed by a process
  that has its trail to write or has lost it (`Late`), and in one hand only (`InHand`, kept by the
  guarded claim and by `JobsInTime`), and a row whose attempt has not written yet has one write to
  spare (`Paid`). `BudgetKept` follows, and `CompletedStays` too, since a write by id then meets a
  completed row only in the hand that lost the trail.
* *Intake.* Each process is on its way to a status with a token somebody gave, has read a row whose
  history was a walk, and has committed what the status it writes next claims (`ReadInv`,
  `TokenInv`, `CommitInv`). A stale `Store` writes back a history and a status that belong together,
  which is why the walk survives the lost update. That it commits once (`OnceInv`) is about roles: the
  worker of the first arc drives a row, a person answers it, the worker of the second arc commits it.
  A role is taken by a guarded write, or from a status only the holder before could leave, and is then
  only given up; the status tells which roles can still be held, and no stale store of a lower status
  is left once somebody commits.
* *Corrections.* The sequence of overrides is read in its order: an active row is the last of its
  slot, so a row that a request is about to retire is either the last or already retired, and
  whoever retired a row as superseded is at its insert or has a later row in the slot. The unique
  index is what makes the insert of the second of two people fail without losing the first.
* *Removals.* `RestoreInv`, while no failure happened and no two requests overlapped, for any number of people:
  only one of them is not at rest (`Alone`), and an excluded event stands behind a removal
  (`BehindRemoval`) except between the two halves of a removal or of its undoing, and the invariant names
  those places. A withdrawal goes through the slots in an order, and the event comes after the
  removal it belongs to.
* *Writeback.* `PushInv`: a push knows its result before it closes, has a row only once it staged
  one, is `held` while NowCerts carries its value, and is on its way to a write only for a record
  that was confirmed; a closed row says what the push found. The rows that are newer than a row are finitely
  many (`NewerFinite`), so that the list has a count to compare with its limit.
* *Won deals.* An executor's hands hold a row that is in `processing` once it claimed it, or completed while
  it doubts that (`HandInv`),
  no two executors work on one won row (`AloneInv`, since a claim is guarded by the status and a won
  row is never requeued), a policy is there exactly when the executor of its row is past the insert or
  the row is closed (`FiledInv`), a row or a staging person that speaks of a policy speaks of a deal
  that was won (`WonInv`), what is closed as completed left the deal tied to its insured (`TiedInv`),
  and the fields an executor read are the latest unless somebody raced it (`EditsInv`). The refinement
  maps a claim to taking a row up, the insert to its effect, a final status that went unheard to a doubt, and
  everything else to a stutter or to an end of the row.
* *Review desk.* `ReviewInv` says of each step of a call what it has done by then: the flags
  are those of the object from the first save on (`FlagsInv`), the deliverables are a part
  of, then all of, what is built from it (`BuildInv`), and between two calls none of which
  broke off they are whole and the trail agrees (`WholeInv`). A call that breaks off leaves
  only the flags to rely on, and that is what the release reads.
* *New deals.* Rows, accounts and deals only grow and their ids are counted, so what a commit read
  of them stays true; the lines a commit has opened are deals of the account in its hands; a
  conversion holds the deal it found or made before it marks the lead.
* *The board.* Each job has an invariant of what it holds: the quote sync past its lookup has no deal on its line or
  has it in hand, a merge still has a quote on the survivor or carries it across, the lines a retirement computed
  cover the open quotes, its batch is disjoint from the rest and archived before it is dropped, and the items of the
  mirror and the repair keep to the ladder and were not worked in the CRM when they were read. What a person gave
  stands on the row with the CRM as its source (`GivenInv`), so that a job which leaves such rows alone can only write
  to it by a reading that is older (`Overtaken`); the quote sync, which does not, ends it (`given`).
* *The book.* One thread refreshes at a time; what it has fetched is no older than the cache it will
  replace and no newer than NowCerts.
* *The ledger.* A row keeps its number and key for good; a clerk knows rows that exist only; what is
  made has a key. A link is then to a row with the line's key, however old the read it came from.
* *Tasks.* Nothing is done later than today; a hand that is about to insert a title knows every row that was
  there when it looked, and none of them has it; the tables that a
  deletion has cleared stay clear, unless somebody files late (`late` remembers it).
* *Renewal writes.* What a run has read is remembered as what the AMS held and as a policy that
  was in force then (`held`, `livedOn`); a receipt and a write follow from such a read.
* *Renewal cases.* An event has at most one row that names it, no row goes away, and who was told a
  case was told by that row.
* *Briefings.* A posted key is out, no key is ahead of today, and between the last working day and
  today lie week-end days only.
* *Clients and assistant.* A thread past its login holds the lock of its client; the landings of a
  call are told by where it is. A turn has the shape of its place: what is still to run was asked for,
  confirmed if it writes, and the tools that hope for the best are the named ones.
* *The drive.* The history of calls in flight about one thing tells two calls apart from one; the
  lists of cards, folders and files only grow; what a call believes free is free or its own.
* *Reports.* A run that is the day's only one finds no row of its day, so it inserts, and the
  difference it holds is to the last row; a renewed term has its renewal further down the list.
* *Book health.* What a check has read is a list of the places below the offset: a policy that nobody touched only
  moves down the list of NowCerts, so it is in what was read or still ahead (`ListedUpTo`, `AllListed`). A row of the
  mirror that is not read only makes the check report drift; one that was read was so at some time of the check
  (`RowsWereSo`), and a number of its
  own has one row to be compared with. That every place of a list is somebody's is counted
  (`PlacesAreTaken`).
* *Backfill.* Behind the run everything is in Zoho, and stays (`DoneSoFar`): a write for one policy or insured never
  lands on the record of another (`Spared`, `OthersSpared`), because a record is found by a GUID that nobody else has,
  or by a number that is nobody else's (`OwnRecord`), and a record whose policy has no number shows none (`KeysOK`).
  What is sent is whole (`SaysAll`), so what it is merged into afterwards says the same (`MirrorMade`). A record is
  doubled only by a request that got no answer (`OneRecordStays`).
* *The scan.* A row of a policy that the seed took is one that the seed wrote, from whatever row
  there was (`SeedWrote`); the rest is arithmetic of rates, one lemma for each rule of the scan.
* *Events.* The invariant is small (`EventsInv`); the weight is in the rule. Of the successors of a term the
  one that is evaluated is the first of some kind, and exists because a set of places has a least element.
* *The inbox.* What a reader of a document returns are rows of it or the reading says that some are missing, whatever
  reader it was (`GoodReading`, a lemma for each). One content has one batch, one stager fills it (`FillsAlone`), and
  what is paid is a staged line (`PaidIsStaged`). An approval has a number of its own and commits a line when it takes
  it off its list; it began on a batch that was waiting, and a batch with an approval that has ended waits no more
  (`ApprovalsInv`). The watchdog's verdict is no younger than the clock (`ClocksInv`).
* *Quotes.* The terms of a quote never change, and what a job, a stamp or NowCerts says of a quote is
  what the quote says (`QuoteInv`). The sum of a proposal is taken in one order and checked in
  another, so the proofs begin with lemmas on sums over a finite set: any element may be taken out
  first, and what counts zero may be left out. They are proved by taking a smallest set for which
  the claim fails, which needs the recursive equation of the sum and no induction theorem.


Only model-checked: everything about liveness (`DeadHolderReplaced`, `EveryJobSettles`,
`EverySubmissionSettles`, `WorklistConverges`, `PlaceIsFreed`, `BackOfficeConverges`), which this
prover does not do under fairness. Every safety and action property of the passing runs has a theorem.
The induction theorems of the library take an operator as a parameter, which the installed provers cannot
instantiate; where the proofs need an induction over data (sums, least elements) they take a smallest
counterexample instead. No module that has theorems uses a recursive operator. The provers know nothing of
`:>` and `@@`, of `SelectSeq` and `SortSeq`, of updates at a place within a place, or that a literal is a
`STRING`; where the models needed it, they say the same another way.

## Divergences from the documentation

Each of these has a run that ends in a counterexample; `PROJECT.json` quotes both sides.

1. A cancel answers "Nothing was written" although a concurrent approval was committed
   (`intake_canceled`).
2. The limit of a poll counts the files that are staged already, so that a statement behind as many of
   them in the folder's order is never picked up (`inbox_limit`).
3. A fix that breaks off between the saved facts and the rebuilt deliverables can be approved, and the
   bundle of the earlier data leaves (`review_broken`).

Met while reading or modelling, without a run of their own. Queue, writeback and corrections:

* `dead` is documented as terminal (`scheduler/retry.py`); an executor that is late overwrites it.
* `renewals/executor.py` completes a job and then writes its trail; `_log_trail` (line 752) lets only error
  answers pass, so that a lost connection is taken for a crash of the job: a second receipt and `failed` are
  written over the completed row, and the retry pass runs the job again.
* The executors of won deals and of stages write `completed` inside their `try` (`opportunity_won.py:251`,
  `opportunity_writeback.py:236`): where that request is applied and its answer lost, the row says failed for a
  policy that is filed, and a stage that was written back is written back again.
* `intake_worker.py:503-505` and `routers/intake.py:614-615` say that nothing in this deployment runs the worker
  loop; `docker-compose.yml:75-86` has a service that runs nothing else. The runs take the service's word.
* The list of failed pushes shows the 50 latest (`ams/writeback.py:294`), "because a correction the AMS never
  took is invisible otherwise"; the 51st is invisible. It is not lost: `retry` still takes it by its id.
* A push that dies is documented to leave a row that can be retried (`ams/writeback.py`); the row stays
  `queued`, which nothing lists, retries or reclaims, and it blocks the rows of later pushes of the
  same record.
* The original value of a correction is documented as the source's (`routers/renewals.py:304`); the
  second correction between two refreshes records the first one.
* `locks.py:3` says only the lease holder runs a cycle; the cycle ignores the answer of `renew()`.
* `retry.py:69` promises a retry; while another row holds the place of the same work in the unique
  index, a failed row is neither re-queued nor dead-lettered, and the refusal is swallowed.
* `api.py:1501` and `routers/renewals.py:132` say that an override retires itself when the source
  catches up; only commission-ledger overrides are reconciled (`commission_sync.py:349`).
* Clearing a corrected field retires the previous correction and then fails on
  `override_value not null`.
* `writeback.retry()` calls a repeat "safe by construction"; replaying an old failed push after a
  newer correction of the field went through puts the older value back, and a failed row stays
  listed after its retry succeeded.
* A removal is keyed by policy number, so it also hides the renewal of the next term; work logged
  between the reading of protected rows and the pruning is lost by cascade
  (`candidate_refresh.py:335`); a withdrawal between the removal of the row and the exclusion of its
  event leaves the event excluded (`routers/renewals.py:192`).

Book and money:

* The live book promises to hide no live policy (`book.py:3`); the pages are ordered by last change
  and read by offset, so that a policy edited between two pages is missed until the next full refresh
  (what converges in the end is `BooksConverge`). The other way round, a full pull keeps both rows of a policy
  that two pages bring (`book.py:320-357`), of which only a delta makes one; the model's `MergedBook` keeps
  the later, so nothing here speaks of doubled rows in the cache. A field cleared in NowCerts is not cleared in the
  mirror, because the projection drops empty values. Deletions are invisible to deltas.
* `book_sync/health.py:11` says that a book in agreement has no findings; two terms that share a policy
  number are reported as mismatched.
* Two processes that relink or seed at once may create two ledger rows for one policy
  (`commission_sync.py:18` says one); a policy's status never reaches the ledger, so that `CANCELED`
  is never derived; a batch whose staging broke off half way can be approved or blocks its own upload.
* `commit_statement` refuses a batch that is not pending, by a status it reads once (`statements.py:833`), inserts
  the lines one request each and closes the batch at the end (896). Two approvals at once, or a second one after
  one that broke off in between, commit lines twice; lines whose insert failed are named in the answer and
  nowhere else, in a batch that is then committed; the staged lines are not compared with the `row_count` of
  the batch; and the batch in which every line failed, which is not marked as committed lest that "block a
  retry" (893-894), is in `error`, from which it cannot be approved again either.
* "Posts at most once per calendar day" holds neither for two overlapping runs nor after a lost state
  file. A ledger that cannot be read makes the scan report every policy as missing
  (`commission_dq.py`), and the weekly audit report clean.
* The watchdog takes a ledger row that an approval created for a sign of life of the seed.
* `agency_snapshot.py` says that "a retry or a manual re-run never corrupts the trend"; the search for
  the row before includes the row of the day itself, so that a second run of a day reports its difference
  to the first. The rule of retention has no upper bound on the gap to the next term. The list of current
  terms looks one step back only: a third term under a third number is shown beside the second.

Cases and tasks:

* `casestore.py` says that moving to a closed status stamps a task; the trigger clears the stamp of a
  completed task that is then cancelled, and ticking off a task that was cancelled meanwhile leaves the
  day of the cancellation as the day it was completed.
* The docstring of `create_tasks` says that only open tasks count as taken; within a case every task does.
* The checklist holds at the moment a case is closed only: a task may be added, or taken up again, later.

Deals, quotes, reviews:

* `opportunity_won.py` says it pushes no lost deal; a deal that is lost between staging and drain is
  pushed. An executor that answers late may find its row requeued and send a quote twice
  (`quotes/executor.py:10`).
* `api.py:750-753` says that a manual correction sticks, and `opportunity_sync.py:279-281` that the inbound
  sync no longer overwrites a deal that is being worked on. The quote sync resets the source of such a deal when a
  quote comes in (`quote_sync.py:195`), and the next mirror overwrites it; and every job may overrule an edit made
  between its read and its write. `WorkedSpared` names both.
* `opportunity_dedupe.py:161-163` and 243 archive "the rows AND their quotes". They are read from a table
  `quotes` that no migration makes, and the error becomes an empty list; the quotes are in `opportunity_quotes`,
  which goes with the row (`ON DELETE CASCADE`). The model's archive has the rows only. A quote that opens
  between the reading of the register and the deletion is not seen.
* `leads.py` says that converting twice returns the same deal; after a rename, or with another line, it
  opens a second one. A lead's status can be typed `converted` without a deal.
* Zoho deals and accounts are POSTed again when an answer is lost, and then exist twice.
* Two documents of one name overwrite each other although `documents.py:6` keeps both; a proposal made
  twice a day for one client and type overwrites the first.
* `review.py` lists "the only legal moves", but `assert_transition` has no caller: facts may be typed
  into a draft, and an upload takes an approved submission back to `extracting`. Nothing sets
  `delivered`.

Renewals:

* Eligibility looks at the client's coverage as a whole; a bound successor without an expiration hides
  the renewal, two staged successors make two events. Two commands for one event may leave a case
  without its event behind, though both are told the same case.
* A transient error of the renewal executor reads as "blocked", and a retry of an update that was not
  answered may overwrite a newer edit.

Tools:

* The bridge's card call says it keeps a due date; a card that exists is skipped before its due date is
  set (`nextcloud_deck.py:156`). With `NEXTCLOUD_BASE_PATH` set every stored upload is answered with
  502 (`api.py:2511`). Three tools post to endpoints no route serves.
* The alias of the dispatch endpoint awaits a function that is not a coroutine (`api.py:343`): the
  request has run, and is answered with 500. Drafts of the agency intake can never be approved by
  token, because no handler returns the intent that a token looks for. Three tools of the agent take a
  failed read for an empty answer.
* The backfill lets two insureds of one name share an account, whose GUID then changes hands.

## What is not modelled

The audit log (`write_log`, best effort, read by nobody); alerts, metrics, Slack and mail other than the reports of
`Briefings`; OCR, language models and what they answer; forms, PDFs and layout; pages, routing and authentication. The
curator is one read and one upsert. The table of renewal touches has no caller that acts on it, `router.py` and
`synthesis.py` of the command center none at all. Worksheets and the renewal log; `opportunity` queries, analytics and
cross-sell, which only read; Microsoft 365 and retrieval, which are single requests. The review desk has one call at a
time: two people on one submission are not modelled. `RenewalCases` has no deletion of a case (`CaseTasks` has). Every
part of the system is listed in `PROJECT.json` under `components`, with its status and the reason.

## Plan

Done: the queue and its lease, intake, corrections and writeback with their proofs; deals from their
opening to the filed policy, with the refinement of `OneShot`; quotes, the review gate; the book and its
mirror; commissions from the statement to the ledger and the reports; renewal events, cases and the
executor's job; the agent, the bridge, the clients and the backfill.

Left, in this order:

1. Two calls on one submission of the review desk, and two people on one deal beside a commit.
2. The jobs of the two intake executors request by request, as `RenewalWrites` has those of renewals,
   and both as refinements of the one action `Call` of `SyncScheduler`.
3. Renewal worksheets, and the working queue that takes up events.
