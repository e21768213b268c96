\* No fault beyond failing stages and failing edits: every edit is answered.
SPECIFICATION FairSpec
CONSTANTS
    post = post
    edit1 = edit1
    edit2 = edit2
    None = None
    Requests <- MCRequests
    Creator = post
    Stores = {"redis"}
    Dispatches = {"background", "task"}
    Faults = {}
    EditKinds <- ImageEdits
    MaxInFlight = 2
INVARIANTS
    PendingHasOwner
    CurrentJobReadCurrentImages
PROPERTY PendingIsResolved
CHECK_DEADLOCK FALSE
