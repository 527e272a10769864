----------------------------- MODULE Briefings ------------------------------
(***************************************************************************)
(* The reports that are posted to the team on a clock: the daily scan of   *)
(* the commission ledger (hermes/jobs/commission_dq.py), the weekly audit  *)
(* and the scorecard of the month (revenue_integrity.py), and the sentinel *)
(* (revenue_sentinel.py) with its health check.                            *)
(*                                                                         *)
(* A run reads its tables, writes its text, looks in a state file whether  *)
(* this day or month was reported, posts, and writes the file.  Cron and   *)
(* people at the command line start runs, so two may overlap.              *)
(***************************************************************************)
EXTENDS Integers, FiniteSets

CONSTANTS
    Runs,           \* processes
    ReportJobs,     \* the jobs on the clock
    LastReportDay, MonthDays,
    MaxLosses       \* bound on state files lost or damaged

VARIABLES
    day,            \* day 0 is a Monday
    anomalies,      \* what is wrong with the ledger
    reports,        \* the run of each process
    sentFile,       \* per job, the key in its state file, -1 for none
    messages,       \* what was posted
    losses

briefingVars == <<day, anomalies, reports, sentFile, messages, losses>>

-----------------------------------------------------------------------------

Jobs == {"dq", "audit", "eom", "sentinel"}
Idle == [step |-> "idle"]

ASSUME BriefingAssumption == ReportJobs \subseteq Jobs /\ LastReportDay \in Nat /\ MonthDays \in Nat \ {0}

TablesOf(job) == CASE job = "dq"    -> {"canonical_policies", "commission_rules", "profiles", "commission_ledger"}
                   [] job = "audit" -> {"commission_ledger"}
                   [] job = "eom"   -> {"canonical_policies"}
                   [] OTHER         -> {"opportunities", "renewal_candidates"}

\* What an anomaly is seen in.
SeenIn(a) == IF a = "blind" THEN {"commission_ledger"} ELSE {"canonical_policies", "commission_ledger"}

Month(d) == d \div MonthDays
KeyOf(job, d) == IF job = "eom" THEN Month(d) - 1 ELSE d

\* Only the sentinel says in its text what it could not read.
Findings(job, unread) ==
    CASE job = "dq"    -> {a \in anomalies : SeenIn(a) \cap unread = {}}
                             \cup (IF "commission_ledger" \in unread /\ "canonical_policies" \notin unread THEN {"missing"} ELSE {})
      [] job = "audit" -> {a \in anomalies \cap {"blind"} : unread = {}}
      [] OTHER         -> {}

Message(job, key, unread) ==
    [job |-> job, key |-> key, partial |-> unread # {} /\ job # "sentinel",
     clean |-> job \in {"dq", "audit"} /\ Findings(job, unread) = {}]

\* A run loads its tables: one that cannot be read counts as empty.
ReadTables(r, job) ==
    /\ reports[r] = Idle
    /\ \E unread \in SUBSET TablesOf(job), forced \in BOOLEAN :
          reports' = [reports EXCEPT ![r] = [step |-> "check", job |-> job, key |-> KeyOf(job, day),
                                             forced |-> forced, said |-> Message(job, KeyOf(job, day), unread)]]
    /\ UNCHANGED <<day, anomalies, sentFile, messages, losses>>

\* Already sent: the duplicate is skipped.
AlreadySent(job, key) == sentFile[job] = key

Skip(r) ==
    /\ reports[r].step = "check" /\ ~reports[r].forced
    /\ AlreadySent(reports[r].job, reports[r].key)
    /\ reports' = [reports EXCEPT ![r] = Idle]
    /\ UNCHANGED <<day, anomalies, sentFile, messages, losses>>

Post(r) ==
    /\ reports[r].step = "check"
    /\ reports[r].forced \/ ~AlreadySent(reports[r].job, reports[r].key)
    /\ messages' = messages \cup {reports[r].said}
    /\ reports' = [reports EXCEPT ![r].step = "posted"]
    /\ UNCHANGED <<day, anomalies, sentFile, losses>>

\* A faulty failed post that is remembered as sent.
AfterFailedPostSent(r) == [sentFile EXCEPT ![reports[r].job] = reports[r].key]

AfterFailedPost(r) == sentFile

PostFails(r) ==
    /\ reports[r].step = "check"
    /\ reports[r].forced \/ ~AlreadySent(reports[r].job, reports[r].key)
    /\ reports' = [reports EXCEPT ![r] = Idle]
    /\ sentFile' = AfterFailedPost(r)
    /\ UNCHANGED <<day, anomalies, messages, losses>>

WriteState(r) ==
    /\ reports[r].step = "posted"
    /\ sentFile' = [sentFile EXCEPT ![reports[r].job] = reports[r].key]
    /\ reports' = [reports EXCEPT ![r] = Idle]
    /\ UNCHANGED <<day, anomalies, messages, losses>>

\* The write fails and is swallowed, or the run dies after its post.
StateUnwritten(r) ==
    /\ reports[r].step = "posted" /\ losses < MaxLosses
    /\ losses' = losses + 1
    /\ reports' = [reports EXCEPT ![r] = Idle]
    /\ UNCHANGED <<day, anomalies, sentFile, messages>>

\* A file that is gone or does not parse reads as "nothing sent".
LoseState(job) ==
    /\ losses < MaxLosses /\ sentFile[job] # -1
    /\ losses' = losses + 1
    /\ sentFile' = [sentFile EXCEPT ![job] = -1]
    /\ UNCHANGED <<day, anomalies, reports, messages>>

Midnight ==
    /\ day < LastReportDay
    /\ day' = day + 1
    /\ UNCHANGED <<anomalies, reports, sentFile, messages, losses>>

-----------------------------------------------------------------------------
(* health_status()                                                         *)

Weekday(d) == d % 7

LatestBusinessDay(d) == IF Weekday(d) <= 4 THEN d ELSE IF Weekday(d) = 5 THEN d - 1 ELSE d - 2

Healthy == sentFile["sentinel"] # -1 /\ sentFile["sentinel"] >= LatestBusinessDay(day)

-----------------------------------------------------------------------------

BriefingInit(found) ==
    /\ day = MonthDays /\ anomalies = found /\ losses = 0 /\ messages = {}
    /\ reports = [r \in Runs |-> Idle]
    /\ sentFile = [j \in Jobs |-> -1]

BriefingNext ==
    \/ \E r \in Runs : \/ \E j \in ReportJobs : ReadTables(r, j)
                       \/ Skip(r) \/ Post(r) \/ PostFails(r) \/ WriteState(r) \/ StateUnwritten(r)
    \/ \E j \in ReportJobs : LoseState(j)
    \/ Midnight

BriefingSpec(found) == BriefingInit(found) /\ [][BriefingNext]_briefingVars

\* A run skips a day or a month only when it was posted: a post that failed is
\* never taken for sent, whatever overlaps, dies or is lost.
SkipMeansPosted == \A j \in Jobs : sentFile[j] # -1 => \E m \in messages : m.job = j /\ m.key = sentFile[j]

\* The health check passes only when the sentinel has posted since the last
\* working day began.
HealthyMeansPosted ==
    Healthy => \E m \in messages : /\ m.job = "sentinel" /\ m.key <= day
                                   /\ \A d \in 0..day : d > m.key => Weekday(d) > 4

\* Neither a run that skips nor a health check that passes is mistaken about what was
\* posted.
BriefingsSafe == SkipMeansPosted /\ HealthyMeansPosted

=============================================================================
