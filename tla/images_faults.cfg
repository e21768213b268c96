\* Three edits, two at once, every fault.
SPECIFICATION Spec
CONSTANTS
    img1 = img1
    img2 = img2
    Initial <- MCInitial
    InitialMain = img1
    Requests = {edit1, edit2, edit3}
    None = None
    MaxImages = 2
    MaxInFlight = 2
    Faults = {"s3", "commit", "crash"}
SYMMETRY EditSymmetry
INVARIANTS
    RowsHaveObjects
    SerialEditsKeepImagesValid
    
    SerialEditsLeaveNoOrphans
CHECK_DEADLOCK FALSE
