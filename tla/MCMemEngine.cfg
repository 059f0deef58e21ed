SPECIFICATION EngineSpec
CONSTANTS
    s1 = s1  s2 = s2  o1 = o1  g1 = g1  t1 = t1  t2 = t2  r1 = r1  c1 = c1  c2 = c2
    DefaultGraph = DefaultGraph
    Subjects = {s1, s2}
    Objects = {o1}
    GraphNames = {g1}
    Txns = {t1, t2}
    Batches <- EngineBatches
    Readers = {r1}
    Checkpointers = {}
    Retentions = {0, 2}
    Tails = {0}
    Retention = 2
    WalMayFail = TRUE
    KeyDeletes = TRUE
    MaxVersion = 3
    MaxWal = 0
    MaxStaged = 2
INVARIANTS
    TypeOK
    ReadYourWrites
PROPERTIES
    VersionsImmutable
    PinnedKept
    RetentionBounded
    ImplementsStore
