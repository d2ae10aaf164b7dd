SPECIFICATION Spec
CONSTANTS
    Calls = {"x1", "x2", "x3", "x4"}
    MaxRetries = 1
    Keys = {"k1", "k2"}
    Tokens = {"u1", "u2"}
    Tenants = {"t1", "t2"}
    Emails = {"ann", "bob"}
    TokenTtl = 1
    CacheTtl = 1
    TicketTtl = 1
    RateLimit = 2
    MaxTime = 2
    None = None
    Settings <- Everyday
INVARIANTS
    TypeOK
    EndedIsRefused
    GatesHold
    AppliedAsAnswered
CHECK_DEADLOCK FALSE
