\* Two requests for two petitions, every fault.
SPECIFICATION FairSpec
CONSTANTS
    Creates = {c1, c2}
    Sends = {s1, s2}
    None = None
    MaxDay = 2
    MaxCopies = 1
    Faults = {"mail", "raise", "db", "commit", "crash"}
PROPERTIES BulkSendsEnd
CHECK_DEADLOCK FALSE
