SPECIFICATION Spec
CONSTANTS
    m1 = m1
    m2 = m2
    m3 = m3
    none = none
    c1 = c1
    c2 = c2
    w1 = w1
    w2 = w2
    NoMessage = none
    Messages = {m1, m2, m3}
    Agents = {"a", "b"}
    Senders = {"s1"}
    Consumers = {c1, c2}
    Sweepers = {w1, w2}
    TopPriority = 2
    Settings <- Conversations
    StreamMaxLen = 9
    MaxEntries = 3
SYMMETRY Symmetry
INVARIANTS
    TypeOK
    NothingIsLost
    ClaimTakesHighest
    RecordedReplyAnswers
PROPERTIES
    ImplementsDelivery
CHECK_DEADLOCK FALSE
