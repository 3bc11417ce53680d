CONSTANTS
    None = None
    Events = {e1}
    Rules = {r1, r2}
    RuleId <- Versions
    Matches <- MCMatches
    Orders <- EditedActions
    SchemaRejects = {}
    Outcomes <- AnyOutcome
    Workers = {w1, w2}
    MaxAttempts = 2
    MaxStalled = 1
    Budget <- FaultMishaps
    Requests = {q1}
    EventOf <- MCEventOf
    Replays = {p1}
CHECK_DEADLOCK FALSE
SPECIFICATION Spec
SYMMETRY Slots
INVARIANTS
    TypeOK
    CompletedMeansPerformed
    NoActionRepeated
    OneExecutionPerRule
    QueuedIsInHand
PROPERTIES
    CompletedExecutionIsFinal
    ImplementsLedger
