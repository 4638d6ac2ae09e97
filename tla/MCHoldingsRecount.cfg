SPECIFICATION Spec
CONSTANTS
    i1 = i1
    i2 = i2
    r1 = r1
    r2 = r2
    Items = {i1, i2}
    Kinds = {"rss", "channel", "playlist", "bucket"}
    Modes = {"all", "automatic"}
    SyncDeletions = TRUE
    Follow = TRUE
    Versions = 2
    First <- MCFirst
    Rest <- MCRest
    Streams <- MCStreams
    Calls = {c1, c2}
    Requests = {r1, r2}
    Wants <- MCWants
    MaxAttempts = 2
    Overlap = FALSE
    Budget = 2
    Episodes = {"large", "small", "enclosure"}
    Feeds = {"f", "g"}
    FeedOf <- MCFeedOf
    Bytes <- MCBytes
    Announced <- MCAnnounced
    Rank <- MCRank
    Slots = 2
    RELEASE_PER_TICK = 1
    Quotas = {2, 4}
    Overlapping = TRUE
    QuotaBudgets <- MCQuotaBudgets
INVARIANTS UsageIsTheSum
CHECK_DEADLOCK FALSE
