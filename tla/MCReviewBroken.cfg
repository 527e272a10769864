SPECIFICATION ReviewSpec
CONSTANTS
    Entries = {"xdate", "address"}
    Extracted = {"xdate"}
    Required = {"xdate", "address"}
    Kinds = {"acord_data", "carrier_shortlist"}
    Readings <- MCUploads
    Typed = {"may", ""}
    Blank = ""
    MaxReviewCalls = 4
    MaxReviewFaults = 1
CHECK_DEADLOCK FALSE
INVARIANTS
    ReleasedIsCurrent
