SPECIFICATION MCSpec
CONSTANTS
    s1 = s1  s2 = s2  o1 = o1  g1 = g1  t1 = t1  t2 = t2  r1 = r1
    DefaultGraph = DefaultGraph
    NoWrite = NoWrite
    Subjects = {s1, s2}
    Objects = {o1}
    GraphNames = {g1}
    Txns = {t1}
    Batches <- MCBatches
    Readers = {r1}
    Retentions = {1}
    Retention = 1
    Modes = {"Sync", "Async"}
    ModeMayChange = FALSE
    WriteMayFail = TRUE
    LegacyGraphs <- MCLegacy
    MaxVersion = 3
    MaxStaged = 2
    MaxCrashes = 1
    Values = {v, w}
    Encoders = {e1, e2}
    MaxId = 2
    MaxReopens = 1
    MaxMishaps = 1
INVARIANTS
    ReadsAgree
    VersionsSound
    DictionarySound
PROPERTIES
    VersionsKept
    BacklogDrains
    ImplementsStore
CHECK_DEADLOCK FALSE
