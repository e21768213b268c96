\* Safety under every fault, in every deployment: both generation stores, both
\* ways of starting jobs, two requests handled at once.
SPECIFICATION Spec
CONSTANTS
    post = post
    edit1 = edit1
    edit2 = edit2
    None = None
    Requests <- MCRequests
    Creator = post
    Stores = {"redis", "local"}
    Dispatches = {"background", "task"}
    Faults = {"store", "commit", "response", "db", "crash"}
    EditKinds <- ImageEdits
    MaxInFlight = 2
SYMMETRY EditSymmetry
INVARIANTS
    GenerationsIdentifyJobs
    LiveJobsAreCounted
PROPERTY SupersededNeverPersists
CHECK_DEADLOCK FALSE
