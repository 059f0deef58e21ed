SPECIFICATION MCSpec
CONSTANTS
    AuditEvents <- SomeEvents
    LegacyEvents <- OldFiles
    Cuts = {3, 9}
    MaxAppends = 3
    MaxRestarts = 2
    Tenants = {"acme", "other"}
    Callers = {c1, c2}
    MaxKeys = 2
    MaxCalls = 3
    MaxBoots = 2
    Radix = 4
    ByteBits = 4
    DigitBits = 3
    MinModulus = 2
    InfoLength = 1
    DigestLength = 1
    Leeway = 1
    Ttl = 2
    MaxNow = 4
    KeySets <- PublishedSets
    Threads = {t1, t2}
    Traffic <- SomeTraffic
    Cap = 4
    MaxRequests = 3
    MaxStarts = 2
    Admins = {a1, a2}
    Intervals = {1, 2}
    HistoryCap = 1
    MaxAge = 2
INVARIANTS
    RecordsSafe
    RequestsSafe
    SamplesExact
PROPERTIES
    BackupsRecur
CHECK_DEADLOCK FALSE
