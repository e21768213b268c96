\* Safety with two petitions, two requests, two days, every fault.
SPECIFICATION Spec
CONSTANTS
    Creates = {c1, c2}
    Sends = {s1, s2}
    None = None
    MaxDay = 2
    MaxCopies = 2
    Faults = {"mail", "raise", "db", "commit", "crash"}
SYMMETRY OperationSymmetry
INVARIANTS
    TypeOK
    SentWasMailed
    OnePerDate
    SerialOneActive
    SerialStatusTellsMail
CHECK_DEADLOCK FALSE
