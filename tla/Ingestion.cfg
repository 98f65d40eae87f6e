SPECIFICATION IngestionSpec
CONSTANTS
    None = None
    other = other
    RecordOf <- MCRecordOf
    RecordIds = {1, 2}
    IdempotencyKeys = {k1, k2}
    Inputs = {a1, a2, other}
    Invalid = {other}
    Slots = {s1, s2}
    MaxCrashes = 1
    MaxFailedWrites = 1
PROPERTIES
    ReceiptsAreSafe
    PendingEnds
CHECK_DEADLOCK FALSE
