SPECIFICATION Spec
CONSTANTS
    Files = {"f1"}
    Contents <- Bytes
    Callers = {"c1", "c2", "c3"}
    HashVerifyMax = 1
    None = None
    Settings <- Everyday
INVARIANTS
    TypeOK
    DownloadsAreVerified
    StatusIsTrue
PROPERTIES
    LifecycleHolds
CHECK_DEADLOCK FALSE
