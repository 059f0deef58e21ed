SPECIFICATION MCSpec
CONSTANTS
    Nodes = {n1, n2, n3}
    Sessions = {s1}
    None = None
    Configs <- Layouts
    SuspectAfter = 1
    DeadAfter = 2
    MaxEventualLag = 0
    MaxTick = 2
    MaxLog = 3
    MaxSyncs = 2
    MaxIdx = 3
    MaxTerm = 2
    MaxCrashes = 1
    Absent = Absent
    Members = {p1, p2}
    Nobody = Nobody
    MaxElections = 1
    MaxTransfers = 3
    MaxCalls = 3
SYMMETRY NodeSymmetry
INVARIANTS
    SimulatorSafe
    StoreSafe
    RegistrySafe
PROPERTIES
    SimulatorSteps
CHECK_DEADLOCK FALSE
