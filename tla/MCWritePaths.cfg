SPECIFICATION FairSpec
CONSTANTS
    s1 = s1  o1 = o1  o2 = o2  g1 = g1  w1 = w1  w2 = w2  i1 = i1  u1 = u1  u2 = u2
    DefaultGraph = DefaultGraph
    Subjects = {s1}
    Objects = {o1, o2}
    GraphNames = {g1}
    ServiceClients = {w1}
    IngestClients = {i1}
    UpdateClients = {u1}
    Batches <- MCBatches
    Requests <- MCRequests
    UpdateOffset = 10
    MaxActive = 2
    Retention = 2
    WalMayFail = FALSE
    MaxTxns = 2
    MaxRejected = 1
    MaxUpdates = 1
    MaxVersion = 3
    MaxWal = 8
    MaxStaged = 8
\* Clients may stop calling.
CHECK_DEADLOCK FALSE
INVARIANTS
    StagedIntact
    NothingLeftStaged
    SlotsAccounted
    OutcomesAgree
PROPERTIES
    CallsReturn
