SPECIFICATION Spec
CONSTANTS
    t1 = t1
    t2 = t2
    f1 = f1
    f2 = f2
    x1 = x1
    x2 = x2
    op1 = op1
    op2 = op2
    op3 = op3
    d1 = d1
    d2 = d2
    Texts = {t1, t2}
    Fields = {f1, f2}
    Items = {op1, op2, op3, x1, x2}
    OperationIds = {op1, op2, op3}
    FullKeys = {"k"}
    Deleters = {d1, d2}
    Listers = {"l1"}
    CasClients = {"c1", "c2"}
    Workloads <- Everyday
    OpsTtl = 2
    MaxTime = 3
    MaxCommits = 3
SYMMETRY Symmetry
INVARIANTS
    TypeOK
    HistoryEndsAtEntry
    OncePerOpsTtl
    ReplayIsOwnCommit
    UpdatesAreKept
PROPERTIES
    ImplementsRegister
    WritesDoNotResurrect
    CasExclusive
    ActsOnWhatItRead
CHECK_DEADLOCK FALSE
