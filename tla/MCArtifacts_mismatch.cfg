SPECIFICATION Spec
CONSTANTS
    Files = {"f1"}
    Contents <- Bytes
    Callers = {"c1", "c2"}
    HashVerifyMax = 1
    None = None
    Settings <- Reused
PROPERTIES
    MismatchIsNeverAvailable
CHECK_DEADLOCK FALSE
