\* The console, the API, the engine's writes and the seed script, in the scenarios of MCPlatform.
CONSTANTS
    t1 = t1
    t2 = t2
    t3 = t3
    Tenants = {t1, t2, t3}
    Demo <- MCDemo
    Defaults = {t1}
    Namesakes = {t3}
    RulesPer = 2
    PairsPer = 1
    SinglesPer = 1
    ReplaysPer = 2
    Draws = {{2}}
    StatusMix <- MCMix
    Nobody = Nobody
    AnyStatus = AnyStatus
    Limit = 1
    Stock <- MCStock
    Scenarios <- AllScenarios
CHECK_DEADLOCK FALSE
SPECIFICATION FairSpec
INVARIANTS
    PlatformTypeOK
    RowsOfTenant
    OwnRulesListed
    CreatedOnce
    ConsoleOrdersDistinct
    SeedClosed
    SeedIsIdempotent
    SeededTenantsServe
PROPERTIES
    ScreenCatchesUp
