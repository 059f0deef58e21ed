SPECIFICATION MCSpec
CONSTANTS
    s1 = s1  s2 = s2  o1 = o1  g1 = g1  t1 = t1  t2 = t2  r1 = r1  c1 = c1  c2 = c2
    DefaultGraph = DefaultGraph
    Subjects = {s1, s2}
    Objects = {o1}
    GraphNames = {g1}
    Txns = {t1, t2}
    Batches <- SmallBatches
    Readers = {r1}
    Checkpointers = {c1, c2}
    Retentions = {1}
    Tails = {0}
    Retention = 2
    WalMayFail = FALSE
    KeyDeletes = FALSE
    MaxVersion = 3
    MaxWal = 6
    MaxStaged = 4
INVARIANTS
    PendingTailKept
