SPECIFICATION LiveSpec
CONSTANTS
    Jobs = {refreshA, backfillA}
    FeedOf   <- MCFeedOf
    ItemOf   <- MCItemOf
    KeyOf    <- MCKeyOf
    OnDemand <- MCOnDemand
    Archive  <- MCArchive
    Scenarios <- MCLiveness
    MaxAttempts <- MCOnce
    Concurrency = 1
    Execs = {e1, e2}
    NoFeed = NoFeed
    NoItem = NoItem
    NoJob  = NoJob
    NoExec = NoExec
    refreshA = refreshA
    playA = playA
    backfillA = backfillA
    refreshB = refreshB
    playB = playB
    backfillC = backfillC
    feedA = feedA
    feedB = feedB
    feedC = feedC
PROPERTIES JobsEnd CancelHonoured
