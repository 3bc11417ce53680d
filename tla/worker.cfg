CONSTANTS
    None = None
    Events = {e1}
    Rules = {r1, r2}
    RuleId <- AsWritten
    Matches <- MCMatches
    Orders <- MixedActions
    SchemaRejects = {}
    Outcomes <- AnyOutcome
    Workers = {w1, w2}
    MaxAttempts = 2
    MaxStalled = 1
    Budget <- WorkerMishaps
    Requests = {q1}
    EventOf <- MCEventOf
    Replays = {}
CHECK_DEADLOCK FALSE
SPECIFICATION Spec
SYMMETRY Slots
INVARIANTS
    CompletedMeansPerformed
    ExclusiveProcessing
    CompletedEventIsSettled
    FailedHaltsRetries
    EventIsInHand
    ProcessingIsInHand
