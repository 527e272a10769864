---------------------------- MODULE ZohoBackfill ----------------------------
(* scripts/backfill_zoho_from_momentum.py: insureds and policies of NowCerts go *)
(* to Zoho as Accounts, Policies and Renewals, each matched to the record that   *)
(* an earlier run has left (zoho_client.py: upsert_by_field,                     *)
(* create_or_update_account).  Runs fail in parts, die and are started again.    *)
(*                                                                              *)
(* A search and the write it leads to are one step: what comes between them is   *)
(* only the death of the run.  Nobody else writes to Zoho.  What a record says   *)
(* beside its keys is abstracted to a version and an expiry.                     *)
EXTENDS Integers, Sequences, FiniteSets, SequencesExt

CONSTANTS
    Names, Numbers,         \* "" is among neither
    BackfillDay, RenewalDays, UrgentDays, RiskDays,  \* today; --renewal-days, 30 and 60
    FlagSets,               \* the flags runs are started with
    MaxBackfills, MaxBackfillFaults, MaxMomentumEdits    \* bounds

ASSUME BackfillAssumption ==
    /\ {BackfillDay, RenewalDays, UrgentDays, RiskDays, MaxBackfills, MaxBackfillFaults, MaxMomentumEdits} \subseteq Nat
    /\ "" \notin Names \cup Numbers

VARIABLES
    momentumInsureds,   \* in the order NowCerts lists them
    momentumPolicies,
    zoho,               \* the records of Zoho; a record's place is its id
    backfill,           \* the run
    backfills, backfillFaults, momentumEdits,
    unanswered          \* history: a record was created by a request that got no answer

backfillVars == <<momentumInsureds, momentumPolicies, zoho, backfill, backfills, backfillFaults, momentumEdits, unanswered>>

NoDate == -1

\* The fields of NowCerts under any of their spellings; "" is a field that is not there;
\* every policy has an expiry.
InsuredRecord == [guid : STRING, name : Names]
PolicyRecord == [owner : STRING, guid : STRING, number : Numbers \cup {""}, exp : Nat, version : Nat \ {0}]

Ended(flags, exit) == [at |-> "over", flags |-> flags, insured |-> 0, left |-> {}, account |-> 0, errors |-> FALSE, exit |-> exit]

BackfillInit(insureds, policies, records) ==
    /\ momentumInsureds \in insureds /\ momentumPolicies \in policies /\ zoho \in records
    /\ backfill = Ended({}, -1)
    /\ backfills = 0 /\ backfillFaults = 0 /\ momentumEdits = 0 /\ unanswered = FALSE

-----------------------------------------------------------------------------
(* zoho_client.py                                                          *)

\* _find_first(): equals, on one field.
Matches(r, payload, by) == r.module = payload.module /\ r[by] = payload[by]

Found(payload, by) == SelectInSeq(zoho, LAMBDA r : Matches(r, payload, by))

\* create_or_update_account() looks for the GUID, then for the name; upsert_by_field()
\* for the GUID, or for the number of a record that has none.
Existing(payload) ==
    IF payload.guid # "" /\ (Found(payload, "guid") > 0 \/ payload.module # "Accounts")
    THEN Found(payload, "guid") ELSE Found(payload, "key")

\* What is not present is not sent, and stays.
BlankRecord == [module |-> "", guid |-> "", key |-> "", account |-> 0, exp |-> NoDate, version |-> 0, risk |-> ""]
Kept(old, new) == [f \in DOMAIN new |-> IF new[f] = BlankRecord[f] THEN old[f] ELSE new[f]]

NoId == 0
Ids == NoId..(Len(zoho) + 2)

Upserted(payload) ==
    IF Existing(payload) > 0 THEN [zoho EXCEPT ![Existing(payload)] = Kept(@, payload)] ELSE Append(zoho, payload)

\* The request is answered with the record's id, fails without effect, or times out
\* after its effect (no id); what creates a record and is sent again after a timeout
\* creates two.
Upsert(payload, id) ==
    \/ /\ zoho' = Upserted(payload) /\ UNCHANGED <<backfillFaults, unanswered>>
       /\ id = IF Existing(payload) > 0 THEN Existing(payload) ELSE Len(zoho) + 1
    \/ /\ backfillFaults < MaxBackfillFaults /\ backfillFaults' = backfillFaults + 1
       /\ \/ id = NoId /\ UNCHANGED <<zoho, unanswered>>
          \/ id = NoId /\ zoho' = Upserted(payload) /\ unanswered' = (unanswered \/ Existing(payload) = 0)
          \/ /\ Existing(payload) = 0 /\ zoho' = zoho \o <<payload, payload>> /\ unanswered' = TRUE
             /\ id = Len(zoho) + 2

-----------------------------------------------------------------------------
(* run_backfill()                                                          *)

Momentum == <<momentumInsureds, momentumPolicies, momentumEdits>>
Run(b) == backfill' = b
Insured == momentumInsureds[backfill.insured]
Pol == momentumPolicies[Min(backfill.left)]
Flag(f) == f \in backfill.flags

StartBackfill(flags) ==
    /\ backfill.at = "over" /\ backfills < MaxBackfills /\ backfills' = backfills + 1
    /\ Run([Ended(flags, -1) EXCEPT !.at = "insured"])
    /\ UNCHANGED <<Momentum, zoho, backfillFaults, unanswered>>

\* NowCerts or Zoho cannot be reached.
CannotStart ==
    /\ backfill.at = "over" /\ backfills < MaxBackfills /\ backfills' = backfills + 1
    /\ backfillFaults < MaxBackfillFaults /\ backfillFaults' = backfillFaults + 1
    /\ Run(Ended({}, 2))
    /\ UNCHANGED <<Momentum, zoho, unanswered>>

BackfillIdle == UNCHANGED <<Momentum, backfills>>

\* A faulty handler that skips what failed without counting an error.
WithErrorSkipped(b) == b

\* Except, per record: count and go on.
WithError(b) == [b EXCEPT !.errors = TRUE]

\* An insured without a GUID is an error; the exit code says whether there were any.
\* --limit takes the first.
NextInsured ==
    /\ backfill.at = "insured"
    /\ IF backfill.insured = Len(momentumInsureds) \/ (Flag("limit") /\ backfill.insured = 1)
       THEN Run(Ended(backfill.flags, IF backfill.errors THEN 1 ELSE 0))
       ELSE LET b == [backfill EXCEPT !.insured = @ + 1, !.account = 0]
            IN  Run(IF momentumInsureds[b.insured].guid = "" THEN WithError(b) ELSE [b EXCEPT !.at = "account"])
    /\ BackfillIdle /\ UNCHANGED <<zoho, backfillFaults, unanswered>>

\* map_insured_to_account(), with the folder if Nextcloud made one.
AccountOf(i, filed) ==
    [BlankRecord EXCEPT !.module = "Accounts", !.guid = i.guid, !.key = i.name, !.version = IF filed THEN 1 ELSE 0]

\* _policies_for_insured()
PoliciesOf(guid) == {k \in DOMAIN momentumPolicies : momentumPolicies[k].owner = guid}

\* The policies and renewals of an insured whose account failed are not tried.
UpsertAccount ==
    /\ backfill.at = "account"
    /\ LET onward == [backfill EXCEPT !.at = "policy", !.left = PoliciesOf(Insured.guid)] IN
       IF Flag("dry_run")
       THEN Run(onward) /\ UNCHANGED <<zoho, backfillFaults, unanswered>>
       ELSE \E filed \in {FALSE} \cup ({TRUE} \ {Flag("skip_nextcloud")}) :
           \E id \in Ids :
              /\ Upsert(AccountOf(Insured, filed), id)
              /\ Run(IF id = NoId THEN WithError([backfill EXCEPT !.at = "insured"]) ELSE [onward EXCEPT !.account = id])
    /\ BackfillIdle

\* map_policy_to_zoho()
PolicyOf(p, account) ==
    [module |-> "Policies", guid |-> p.guid, key |-> p.number, account |-> account, exp |-> p.exp, version |-> p.version, risk |-> ""]

RiskOf(p) == CASE p.exp - BackfillDay <= UrgentDays -> "Urgent" [] p.exp - BackfillDay \in (UrgentDays + 1)..RiskDays -> "At Risk"
               [] OTHER -> "Upcoming"

\* map_renewal_to_zoho()
RenewalOf(p, account) == [PolicyOf(p, account) EXCEPT !.module = "Renewals", !.risk = RiskOf(p)]

\* Neither a number nor a GUID: skipped, and no error.
Keyed(p) == p.guid # "" \/ p.number # ""

UpsertPolicy ==
    /\ backfill.at = "policy"
    /\ LET onward == [backfill EXCEPT !.at = "renewal"] IN
       IF backfill.left = {}
       THEN Run([backfill EXCEPT !.at = "insured"]) /\ UNCHANGED <<zoho, backfillFaults, unanswered>>
       ELSE IF Flag("skip_policies") \/ Flag("dry_run") \/ ~Keyed(Pol)
       THEN Run(onward) /\ UNCHANGED <<zoho, backfillFaults, unanswered>>
       ELSE \E id \in Ids : /\ Upsert(PolicyOf(Pol, backfill.account), id)
                             /\ Run(IF id = NoId THEN WithError(onward) ELSE onward)
    /\ BackfillIdle

\* Expiring from today to the end of the window, whatever its status.
Expiring(p) == p.exp \in BackfillDay..(BackfillDay + RenewalDays)

UpsertRenewal ==
    /\ backfill.at = "renewal"
    /\ LET onward == [backfill EXCEPT !.at = "policy", !.left = @ \ {Min(@)}] IN
       IF Flag("skip_renewals") \/ Flag("dry_run") \/ ~Expiring(Pol) \/ ~Keyed(Pol)
       THEN Run(onward) /\ UNCHANGED <<zoho, backfillFaults, unanswered>>
       ELSE \E id \in Ids : /\ Upsert(RenewalOf(Pol, backfill.account), id)
                             /\ Run(IF id = NoId THEN WithError(onward) ELSE onward)
    /\ BackfillIdle

\* Interrupted, or dead.
BackfillDies ==
    /\ backfill.at # "over" /\ backfillFaults < MaxBackfillFaults /\ backfillFaults' = backfillFaults + 1
    /\ Run(Ended({}, 130))
    /\ BackfillIdle /\ UNCHANGED <<zoho, unanswered>>

\* In NowCerts a policy is renumbered, endorsed or redated.  A run reads everything at
\* its start, so that an edit during it is one after it.
EditMomentum ==
    /\ backfill.at = "over" /\ Run(Ended({}, -1)) /\ momentumEdits < MaxMomentumEdits /\ momentumEdits' = momentumEdits + 1
    /\ \E k \in DOMAIN momentumPolicies :
          \/ \E n \in Numbers : momentumPolicies' = [momentumPolicies EXCEPT ![k].number = n]
          \/ momentumPolicies' = [momentumPolicies EXCEPT ![k].version = @ + 1]
          \/ \E d \in 1..2 : momentumPolicies' = [momentumPolicies EXCEPT ![k].exp = @ + d]
    /\ UNCHANGED <<momentumInsureds, zoho, backfills, backfillFaults, unanswered>>

BackfillNext ==
    \/ \E flags \in FlagSets : StartBackfill(flags)
    \/ CannotStart \/ NextInsured \/ UpsertAccount \/ UpsertPolicy \/ UpsertRenewal \/ BackfillDies \/ EditMomentum

BackfillSpec(insureds, policies, records) ==
    BackfillInit(insureds, policies, records) /\ [][BackfillNext]_backfillVars

-----------------------------------------------------------------------------
(* Properties                                                              *)

\* p is matched by its GUID, and nothing in the run is matched by p's number.
OwnRecord(p) == p.guid # "" /\ \A q \in ToSet(momentumPolicies) : q.guid = "" => q.number # p.number

Mirrored(r, payload) == r = [payload EXCEPT !.key = r.key] /\ payload.key \in {"", r.key}

\* A run that ends with 0 has brought Zoho to what it read: every insured and, under
\* that insured's account, every policy and every renewal in the window at its risk
\* band, whatever earlier runs have left half done.  Namesakes, who share an account,
\* and numbers that policies without a GUID are matched by are left out.
ZeroMeansMirrored ==
    (backfill.exit = 0 /\ backfill.flags = {}) => \A i \in ToSet(momentumInsureds) :
        (\A j \in ToSet(momentumInsureds) \ {i} : j.name # i.name) =>
        \E a \in DOMAIN zoho :
            /\ zoho[a].module = "Accounts" /\ zoho[a].guid = i.guid /\ zoho[a].key = i.name
            /\ \A k \in PoliciesOf(i.guid) : LET p == momentumPolicies[k] IN OwnRecord(p) =>
                  /\ \E r \in ToSet(zoho) : Mirrored(r, PolicyOf(p, a))
                  /\ Expiring(p) => \E r \in ToSet(zoho) : Mirrored(r, RenewalOf(p, a))

\* A policy has one record in each module, however often it was run, as long as every
\* request that made a record was answered.
OneRecordPerPolicy ==
    ~unanswered => \A r, s \in DOMAIN zoho :
        (zoho[r].module = zoho[s].module /\ zoho[r].guid # "" /\ zoho[r].guid = zoho[s].guid) => r = s

\* The mirror in Zoho is neither short of what a run reports nor does it hold it twice.
BackfillSafe == ZeroMeansMirrored /\ OneRecordPerPolicy

=============================================================================
