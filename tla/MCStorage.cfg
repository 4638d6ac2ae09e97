SPECIFICATION Spec
CONSTANTS
    Items = {i1}
    Policies = {p1, p2}
    Requests = {r1, r2}
    LiveRebuild = FALSE
    Plans <- MCPlans
    Names = {1, 2, 3}
    Legacy = 1
    Keys = {"a", "b", "c"}
    Domain <- MCDomain
    Contents <- MCContents
    Calls = {c1, c2}
    Fetches = {g1}
    Room = 2
    Budgets <- MCBudgets
    Workers = {"w1", "w2"}
    Apis = {"api"}
    Tools = {"tool"}
    HeadRevision = 1
    AutoMigrate = {"w1", "api"}
    ScratchOf <- MCScratchOf
    Pushed <- MCPushed
    Brings <- MCBrings
    AttemptsMax = 2
    FaultsMax = 1
    MishapsMax = 1
    StartsMax = 4
CHECK_DEADLOCK FALSE
INVARIANTS EveryChangeExported AssetsKept StartsInOrder
PROPERTIES RebuildRestores JarKept
