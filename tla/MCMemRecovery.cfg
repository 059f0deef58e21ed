SPECIFICATION MCSpec
CONSTANTS
    s1 = s1  s2 = s2  o1 = o1  g1 = g1  t1 = t1  t2 = t2  r1 = r1  c1 = c1  c2 = c2
    DefaultGraph = DefaultGraph
    Subjects = {s1, s2}
    Objects = {o1}
    GraphNames = {g1}
    Txns = {t1, t2}
    Batches <- RecoveryBatches
    Readers = {r1}
    Checkpointers = {c1}
    Retentions = {1}
    Tails = {0}
    Retention = 1
    WalMayFail = FALSE
    KeyDeletes = FALSE
    MaxVersion = 4
    MaxWal = 5
    MaxStaged = 3
INVARIANTS
    UncutLogDescribesState
    CheckpointKeepsLog
