CONSTANTS
    None = None
    Events = {e1}
    Rules = {r1}
    RuleId <- AsWritten
    Matches <- MCMatches
    Orders <- OneAction
    SchemaRejects = {}
    Outcomes <- AnyOutcome
    Workers = {w1}
    MaxAttempts = 2
    MaxStalled = 1
    Budget <- DeliveryMishaps
    Requests = {q1, q2, q3}
    EventOf <- MCEventOf
    Replays = {}
CHECK_DEADLOCK FALSE
SPECIFICATION Spec
SYMMETRY Slots
INVARIANTS
    OneIngestJob
    AcknowledgedIsQueued
