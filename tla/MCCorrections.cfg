\* One person beside two of a move of the book, an edit and a failure; two people beside the rebuild.
SPECIFICATION MCSpec
CONSTANTS
    ann = ann
    ben = ben
    NoValue = NoValue
    Person = {ann, ben}
    low = low
    high = high
    Value = {low, high}
    Submitted = {high}
    MaxOverrides = 3
    MaxMoves = 1
    MaxPatches = 1
    MaxFaults = 1
    MaxAround = 2
CHECK_DEADLOCK FALSE
INVARIANTS
    SupersededReplaced
    RestoreComplete
PROPERTIES
    WorklistConverges
