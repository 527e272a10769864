--------------------------- MODULE CommissionScan --------------------------
(***************************************************************************)
(* The anomaly scan of the commission ledger (hermes/jobs/commission_dq.py)*)
(* and the seed that it looks over (hermes/sync/commission_sync.py), for   *)
(* one policy, its ledger row and the rule of its carrier and line: two    *)
(* jobs that decide, each in its own words, what a row ought to hold.      *)
(*                                                                         *)
(* Money is per hundred of premium, 0 stands for an empty amount and NoRow *)
(* for no row; dates are days, 0 is none.  The live book and the mirror    *)
(* agree here; where they part is in LiveBook.                             *)
(***************************************************************************)
EXTENDS Integers, FiniteSets

CONSTANTS
    SeedSince, ScanDay,     \* HERMES_COMMISSION_SINCE, today
    Drift,                  \* _RATE_ABS_THRESHOLD, in units of money
    NoRow

VARIABLES
    policyFacts,    \* the policy in the book
    rowFacts,       \* its row in commission_ledger, or NoRow
    ruleFacts,      \* the rule and the carrier's profile
    seeded          \* has the seed run

scanVars == <<policyFacts, rowFacts, ruleFacts, seeded>>

-----------------------------------------------------------------------------
(* run_commission_sync(), one policy                                       *)

RenewalStatus == {"Renewed", "Renewing"}
LedgerStatus == {"Active", "Renewed"}

Worth(p) == p.premium > 0 \/ p.direct > 0

Rate(rule, renewal) ==
    LET own == IF renewal THEN rule.renewal ELSE rule.nb
    IN  IF own # 0 THEN own ELSE IF rule.nb # 0 THEN rule.nb ELSE rule.renewal

\* A faulty expectation that trusts the rulebook first.
ExpectationByRule(p, rule, renewal) ==
    IF p.premium > 0 /\ Rate(rule, renewal) > 0 THEN p.premium * Rate(rule, renewal) ELSE p.direct

\* What the AMS says it pays comes before what the rule would pay.
Expectation(p, rule, renewal) ==
    IF p.direct > 0 THEN p.direct
    ELSE IF p.premium > 0 THEN p.premium * Rate(rule, renewal) ELSE 0

\* Cancelled, pending, worthless, undated, old and future policies are not seeded.
ToSeed(p) == /\ p.number /\ p.status \in LedgerStatus /\ Worth(p)
             /\ p.eff # 0 /\ p.eff >= SeedSince /\ p.eff <= ScanDay

\* An empty value overwrites nothing.
KeptAmount(new, old) == IF new = 0 THEN old ELSE new
KeptText(new, old) == IF new = "" THEN old ELSE new

FreshRow == [renewal |-> "", expected |-> 0, premium |-> 0, billing |-> "", fee |-> 0, recon |-> "pending", timing |-> ""]

SeededRow(p, row, rule) ==
    LET renewal == p.status \in RenewalStatus
        old == IF row = NoRow THEN FreshRow ELSE row
    IN  [old EXCEPT !.renewal = IF renewal THEN "renewal" ELSE "new",
                    !.premium = p.premium,
                    !.expected = KeptAmount(Expectation(p, rule, renewal), @),
                    !.billing = KeptText(p.billing, @),
                    !.fee = KeptAmount(p.fee, @),
                    !.timing = KeptText(rule.timing, @)]

SeedPolicyFacts ==
    /\ ~seeded /\ seeded' = TRUE
    /\ rowFacts' = IF ToSeed(policyFacts) THEN SeededRow(policyFacts, rowFacts, ruleFacts) ELSE rowFacts
    /\ UNCHANGED <<policyFacts, ruleFacts>>

-----------------------------------------------------------------------------
(* scan_commission_dq(), one policy                                        *)

AmsRenewal(p) == p.from \/ p.status \in RenewalStatus \/ p.marked

Apart(a, b) == IF a > b THEN a - b ELSE b - a
RateDrift(ams, expected) == ams # expected /\ (Apart(ams, expected) > Drift \/ Apart(ams, expected) * 20 > ams)

\* DQ-RATE2: a rule with one side only, or an amount that is exactly the other side's.
WrongSide(row, p, rule) ==
    LET renewal == IF row.renewal = "" THEN AmsRenewal(p) ELSE row.renewal = "renewal"
        own   == IF renewal THEN rule.renewal ELSE rule.nb
        other == IF renewal THEN rule.nb ELSE rule.renewal
    IN  \/ other # 0 /\ own = 0
        \/ /\ own # 0 /\ other # 0 /\ own # other /\ row.premium > 0 /\ row.expected # 0
           /\ row.expected = row.premium * other

TimingOf(row, rule) == IF row.timing # "" THEN row.timing ELSE rule.timing

RowFindings(p, row, rule) ==
    {f \in {"BLIND", "NB1", "RATE1", "BILL1", "RATE2", "TIME1", "BILL2"} :
        CASE f = "BLIND" -> row.recon # "chargeback" /\ row.expected <= 0
          [] f = "NB1"   -> row.renewal # "" /\ (row.renewal = "renewal") # AmsRenewal(p)
          [] f = "RATE1" -> p.direct > 0 /\ row.expected # 0 /\ RateDrift(p.direct, row.expected)
          [] f = "BILL1" -> p.billing # "" /\ row.billing = ""
          [] f = "RATE2" -> WrongSide(row, p, rule)
          [] f = "TIME1" -> rule.profile # "" /\ TimingOf(row, rule) # "" /\ TimingOf(row, rule) # rule.profile
          [] f = "BILL2" -> KeptText(row.billing, p.billing) = "agency" /\ row.fee = 0}

\* DQ-NB2: the ledger lacks a policy that the seed's window contains.
MissingRow(p) == /\ p.number /\ p.status \in LedgerStatus /\ Worth(p)
                 /\ p.eff # 0 /\ p.eff >= SeedSince /\ p.eff <= ScanDay

Scanned(p, row, rule) ==
    IF row = NoRow THEN IF MissingRow(p) THEN {"NB2"} ELSE {} ELSE RowFindings(p, row, rule)

\* run_commission_audit(): the blind spots of revenue_integrity.py.
AuditBlind(row) == row # NoRow /\ row.recon # "chargeback" /\ ~(row.expected > 0)

-----------------------------------------------------------------------------

ScanInit(policyDomain, rowDomain, ruleDomain) ==
    /\ policyFacts \in policyDomain /\ rowFacts \in rowDomain \cup {NoRow} /\ ruleFacts \in ruleDomain
    /\ seeded = FALSE

ScanNext == SeedPolicyFacts

ScanSpec(policyDomain, rowDomain, ruleDomain) ==
    ScanInit(policyDomain, rowDomain, ruleDomain) /\ [][ScanNext]_scanVars

\* The scan has no quarrel with what the seed just wrote: nothing it calls missing
\* is left unseeded, and no amount, side or billing type it seeds is called wrong,
\* unless the rulebook has one side only or the AMS itself pays the other side's
\* rate.  (commission_dq.py: "Missing expected ledger rows (seed-window aware)")
SeedSatisfiesScan ==
    seeded => LET found == Scanned(policyFacts, rowFacts, ruleFacts) IN
        /\ "NB2" \notin found
        /\ ToSeed(policyFacts) =>
              /\ found \cap {"RATE1", "BILL1"} = {}
              /\ "RATE2" \in found => policyFacts.direct > 0 \/ ruleFacts.nb = 0 \/ ruleFacts.renewal = 0

\* The daily scan and the weekly audit call the same rows blind spots.
BlindSpotsAgree == rowFacts # NoRow => ("BLIND" \in Scanned(policyFacts, rowFacts, ruleFacts) <=> AuditBlind(rowFacts))

\* The seed, the daily scan and the weekly audit, each with its own rules, agree.
ScanSafe == SeedSatisfiesScan /\ BlindSpotsAgree

=============================================================================
