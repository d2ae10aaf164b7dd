SPECIFICATION Spec
CONSTANTS
    Ids = {"s1", "s2"}
    Agents = {"a", "b", "c"}
    Callers = {"c1", "c2"}
    Cleaners = {"j1", "j2"}
    DefaultTtl = 1
    MaxTime = 2
    Settings <- Everyday
INVARIANTS
    TypeOK
    RosterHolds
    UnlistedIsExplained
PROPERTIES
    ExpiredLeavesIndex
CHECK_DEADLOCK FALSE
