SPECIFICATION Spec
CONSTANTS
    Jobs = {refreshA, backfillA, playB}
    FeedOf   <- MCFeedOf
    ItemOf   <- MCItemOf
    KeyOf    <- MCKeyOf
    OnDemand <- MCOnDemand
    Archive  <- MCArchive
    Scenarios <- MCSafety
    MaxAttempts <- MCTwice
    Concurrency = 2
    Execs = {e1, e2}
    NoFeed = NoFeed
    NoItem = NoItem
    NoJob  = NoJob
    NoExec = NoExec
    refreshA = refreshA
    playA = playA
    backfillA = backfillA
    refreshB = refreshB
    playB = playB
    backfillC = backfillC
    feedA = feedA
    feedB = feedB
    feedC = feedC
SYMMETRY SymmetricExecs
INVARIANTS ExecutionsOwn ThreadsSuffice
PROPERTIES QueueSpec EndsHaveCause
