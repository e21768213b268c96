\* Any sequence of requests of an administrator next to imports, searches and resets of another.
SPECIFICATION Spec
CONSTANTS
    expo = expo
    parade = parade
    admin = admin
    other = other
    Festivals = {expo, parade}
    PageOf <- Pages
    LastPage = 2
    AreaOf <- Areas
    Unplaced = {parade}
    Requests = {admin, other}
    Kinds <- Roles
    Size = 2
    None = None
    Patchy = {expo}
    Faults = {"api", "llm", "row", "commit", "unknown", "redis", "crash"}
INVARIANTS
    ImagesAreOfTheText
    SerialCacheIsCurrent
PROPERTIES
    FetchKeepsDocuments
CHECK_DEADLOCK FALSE
