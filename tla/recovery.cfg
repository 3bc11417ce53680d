CONSTANTS
    None = None
    NaN = NaN
    Lower <- MCLower
    Within <- MCWithin
    e1 = e1
    e2 = e2
    r1 = r1
    r2 = r2
    r3 = r3
    Events = {e1, e2}
    Rules = {r1, r2, r3}
    RuleDoc <- MCRuleDoc
    EventDoc <- MCEventDoc
    RuleId <- AsWritten
    Matches <- Matched
    Orders <- SortedOrders
    SchemaRejects <- Rejected
    Outcomes <- Results
    Workers = {w1}
    MaxAttempts = 2
    MaxStalled = 1
    Budget <- RecoveryMishaps
    Requests = {q1, q2}
    EventOf <- OneDeliveryEach
    Replays = {}
CHECK_DEADLOCK FALSE
SPECIFICATION FairSpec
INVARIANTS
    RulesRunAsWritten
PROPERTIES
    QueuedIsCompleted
    EveryJobSettles
    EventLeavesProcessing
    ExecutionLeavesProcessing
