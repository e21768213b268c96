\* A document that the database refuses keeps another one company.
SPECIFICATION FairSpec
CONSTANTS
    Docs = {d, e}
    Ops = {daily, admin}
    Daily = {daily}
    Batch = 2
    BadText = {}
    BadRow = {e}
    Expiring = {}
    Setups <- MergingPipelines
    MaxFaults = 1
PROPERTIES
    FetchedIsImported
    DailySyncEnds
CHECK_DEADLOCK FALSE
