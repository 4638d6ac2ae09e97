SPECIFICATION FairSpec
CONSTANTS
    Items = {1}
    Jobs = {a1, b1}
    Modes = {"all"}
    KindOf   <- MCKindOf
    ItemOf   <- MCItemOf
    OnDemand <- MCOnDemand
    Scenarios <- MCDownloads
    RefreshKey = RefreshKey
    PruneKey = PruneKey
    Window = 1
    MaxAttempts = 2
    Feed = Feed
    NoFeed = NoFeed
    NoItem = NoItem
    NoJob = NoJob
    a1 = a1
    b1 = b1
    play1 = play1
    a2 = a2
    ref = ref
    prune = prune
CHECK_DEADLOCK FALSE
INVARIANTS RowFollowsJob
PROPERTIES ArchivingEnds ServedKeepsObject
