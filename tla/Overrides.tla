----------------------------- MODULE Overrides -----------------------------
(***************************************************************************)
(* The rows of portal_overrides: human corrections that outrank a synced   *)
(* source until the source catches up (hermes_core/overrides/core.py and   *)
(* store.py, and the table's migration 20260726120000).                    *)
(*                                                                         *)
(* A table is the sequence of its rows in the order of their creation; the *)
(* index of a row is its id.  A slot is the triple (entity_type,           *)
(* entity_key, field_name) that a correction is about.                     *)
(***************************************************************************)
EXTENDS Integers, Sequences

CONSTANT NoValue    \* an absent value: None in the program, NULL in the table

\* Only the reconciliation of the commission ledger writes "conflicted" and
\* retires a row as "ams_matched"; nothing here does.
Statuses == {"active", "retired"}
Reasons == {"none", "superseded", "withdrawn"}

OverrideRow(Slots, Values) ==
    [slot : Slots, original : Values, value : Values,
     status : Statuses, reason : Reasons]

\* _find_active() and active_overrides() select by this filter.
ActiveRows(table, slot) ==
    {i \in DOMAIN table : table[i].slot = slot /\ table[i].status = "active"}

Exists(table, slot) == ActiveRows(table, slot) # {}

\* A faulty index that forgets its condition on the status.
InsertableOnce(table, slot, value) ==
    value # NoValue /\ \A i \in DOMAIN table : table[i].slot # slot

\* The insert of set_override().  The table has one active row per slot and no
\* row without a value.
Insertable(table, slot, value) == ~Exists(table, slot) /\ value # NoValue

Inserted(table, slot, original, value) ==
    Append(table, [slot |-> slot, original |-> original, value |-> value,
                   status |-> "active", reason |-> "none"])

\* Every other write is an update by id, whatever the row is by then.
Retired(table, i, reason) ==
    [table EXCEPT ![i].status = "retired", ![i].reason = reason]

\* resolve() and apply_overrides(): an active correction outranks the source.
Overlay(table, slot, source) ==
    IF Exists(table, slot)
    THEN table[CHOOSE i \in ActiveRows(table, slot) : TRUE].value
    ELSE source
=============================================================================
