\* Two requests about two GUIDs, one of them mistyped, with edits in NowCerts and
\* failures that may hit both.
SPECIFICATION FairSpec
CONSTANTS
    Push = {1, 2}
    acme = acme
    typo = typo
    Record = {acme, typo}
    Known = {acme}
    new = new
    Value = {new}
    Cleared = Cleared
    NoRecord = NoRecord
    ListLimit = 1
    MaxEdits = 2
    MaxHit = 2
CHECK_DEADLOCK FALSE
INVARIANTS
    WritebackSafe
    FailureListed
PROPERTIES
    PlaceIsFreed
