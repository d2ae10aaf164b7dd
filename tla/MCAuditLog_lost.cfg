SPECIFICATION FairSpec
CONSTANTS
    MaxEntries = 2
    Runs = {"r"}
    AgentIds = {"a"}
    Appenders = {"p1", "p2"}
    Drainers = {"d1"}
    RetryMax = 2
    Troubles <- LostAnswer
PROPERTIES
    EverythingIsDrained
CHECK_DEADLOCK FALSE
