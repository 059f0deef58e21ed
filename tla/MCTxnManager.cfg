CONSTANTS
    MaxActive = 2
    Timeouts = {0, 1, 3}
    ClockMax = 3
    MaxTxns = 4
    MaxRejected = 1
SPECIFICATION Spec
INVARIANTS
    TypeOK
    DeadlinesOnlyActive
    MetricsAgree
PROPERTIES
    OutcomeFinal
    NoDeadlineNoTimeout
