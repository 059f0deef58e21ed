SPECIFICATION QuerySpec
CONSTANTS
    Iris = {1, 2, 3, 4, 5, 6, 9, 10}
    Blanks = {7, 8}
    Remote <- MCRemote
    RuleBased = RuleBased
    NoAnswer = NoAnswer
    Requests <- MCRequests
    Stores <- MCStores
    Statistics <- MCStatistics
\* A query ends.
CHECK_DEADLOCK FALSE
INVARIANTS
    AnswersExact
    OptimizerSafe
    TenantIsolated
