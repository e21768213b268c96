\* One request at a time, no fault: a superseded job still lands its result.
SPECIFICATION Spec
CONSTANTS
    post = post
    edit1 = edit1
    edit2 = edit2
    None = None
    Requests <- MCRequests
    Creator = post
    Stores = {"redis"}
    Dispatches = {"background"}
    Faults = {}
    EditKinds <- WholeEdits
    MaxInFlight = 1
PROPERTY SupersededResultIsBlocked
CHECK_DEADLOCK FALSE
