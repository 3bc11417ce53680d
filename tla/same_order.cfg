CONSTANTS
    None = None
    Events = {e1}
    Rules = {r1}
    RuleId <- AsWritten
    Matches <- MCMatches
    Orders <- SameOrder
    SchemaRejects = {}
    Outcomes <- AnyOutcome
    Workers = {w1}
    MaxAttempts = 5
    MaxStalled = 2
    Budget <- NoMishaps
    Requests = {q1}
    EventOf <- MCEventOf
    Replays = {}
CHECK_DEADLOCK FALSE
SPECIFICATION Spec
INVARIANT EveryActionPerformed
