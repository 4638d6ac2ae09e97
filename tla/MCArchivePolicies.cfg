SPECIFICATION Spec
CONSTANTS
    Items = {1, 2}
    Jobs = {play1, a2, ref, prune}
    Modes = {"all", "rolling", "automatic"}
    KindOf   <- MCKindOf
    ItemOf   <- MCItemOf
    OnDemand <- MCOnDemand
    Scenarios <- MCPolicies
    RefreshKey = RefreshKey
    PruneKey = PruneKey
    Window = 1
    MaxAttempts = 1
    Feed = Feed
    NoFeed = NoFeed
    NoItem = NoItem
    NoJob = NoJob
    a1 = a1
    b1 = b1
    play1 = play1
    a2 = a2
    ref = ref
    prune = prune
CHECK_DEADLOCK FALSE
PROPERTIES LockSeenIsKept
