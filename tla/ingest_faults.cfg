\* The daily sync next to an operation of an administrator; batches of one.
SPECIFICATION Spec
CONSTANTS
    Docs = {d, e}
    Ops = {daily, admin}
    Daily = {daily}
    Batch = 1
    BadText = {}
    BadRow = {}
    Expiring = {d}
    Setups <- Pipelines
    MaxFaults = 1
INVARIANTS
    OnePinPerDocument
    DocumentsAreKept
CHECK_DEADLOCK FALSE
