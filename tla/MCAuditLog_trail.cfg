SPECIFICATION FairSpec
CONSTANTS
    MaxEntries = 3
    Runs = {"r", "q"}
    AgentIds = {"a", "b"}
    Appenders = {"p1", "p2"}
    Drainers = {"d1", "d2"}
    RetryMax = 2
    Troubles <- Storms
INVARIANTS
    TypeOK
    StepsAreContiguous
    OutageLosesNothing
    ClocksOrderTheRun
    DiffFindsFirst
PROPERTIES
    OutageIsDrained
CHECK_DEADLOCK FALSE
