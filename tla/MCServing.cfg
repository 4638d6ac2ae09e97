SPECIFICATION FairSpec
CONSTANTS
    Replicas = {p1, p2}
    Clients = {c1, c2}
    DatesOnly = {c2}
    Writers = {w1}
    Changes = 1
    Fetches = 3
    Misfortunes = 1
    Moves = 1
    FormatSince = 1
    Apps = {a1}
    Ranges = {r1, r2}
    Archives = 2
    Deletions = 2
    Asks = 3
    Items = {1, 2}
    Languages = {"en", "EN", "de"}
    TagOf <- MCTagOf
    Claim <- MCClaim
    Streams = {2}
    Tracks <- MCTracks
    Modes = {TRUE}
    Budgets <- MCBudgets
    None = None
    Owners = {o1}
    All = All
    NoOwner = NoOwner
    Streamers = {c1}
    Watched = {o1, All}
    BufferSize = 2
    QueueSize = 2
    EventBudgets <- MCEventBudgets
CHECK_DEADLOCK FALSE
INVARIANTS FreshServed OneEpisodeServed WhatIsListedOpens NoSilentGap OwnNumbers
PROPERTIES Answered IdentityStands StreamsSettle
