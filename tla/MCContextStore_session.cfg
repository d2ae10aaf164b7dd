SPECIFICATION Spec
CONSTANTS
    FullKeys = {"k1", "k2", "k3"}
    Callers = {"c1", "c2"}
    OperationIds = {"o1", "o2", "o3"}
    Waiters = {"w1", "w2"}
    Sockets = {"s1", "s2", "s3"}
    BufferSize = 1
    Awaited = "k1"
    Settings <- Everyday
INVARIANTS
    TypeOK
    CapHolds
    CommitsAreFollowedUp
    WakeupIsNotLost
    ListenersAreServed
    GapIsRecovered
CHECK_DEADLOCK FALSE
