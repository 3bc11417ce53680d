\* The executions page after DELETE /rules/:id.
CONSTANTS
    t1 = t1
    t2 = t2
    t3 = t3
    Tenants = {t1, t2, t3}
    Demo <- MCDemo
    Defaults = {t1}
    Namesakes = {t3}
    RulesPer = 2
    PairsPer = 1
    SinglesPer = 1
    ReplaysPer = 2
    Draws = {{2}}
    StatusMix <- MCMix
    Nobody = Nobody
    AnyStatus = AnyStatus
    Limit = 1
    Stock <- MCStock
    Scenarios <- RuleRemoval
CHECK_DEADLOCK FALSE
SPECIFICATION Spec
INVARIANTS
    ExecutionRowsRender
