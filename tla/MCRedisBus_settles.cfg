SPECIFICATION FairSpec
CONSTANTS
    m1 = m1
    m2 = m2
    m3 = m3
    none = none
    c1 = c1
    c2 = c2
    w1 = w1
    w2 = w2
    NoMessage = none
    Messages = {m1}
    Agents = {"a"}
    Senders = {"s1"}
    Consumers = {c1, c2}
    Sweepers = {w1, w2}
    TopPriority = 1
    Settings <- Deadlines
    StreamMaxLen = 9
    MaxEntries = 4
INVARIANTS
    DeliveryBudget
PROPERTIES
    EverythingSettles
CHECK_DEADLOCK FALSE
