SPECIFICATION Spec
CONSTANTS
    Users = {"ann", "bob"}
    LegacyOwner = "ann"
    Feeds = {"f"}
    KeyIds = {"k"}
    Calls = {c1, c2}
    None = None
    MaxPair = 2
    MaxRestarts = 1
    MaxRequests = 3
    Hosts = {"h1", "h2"}
    ProxyHost = "proxy"
    Addresses = {"public", "private", "mapped", "link"}
    Internal = {"private", "link"}
    Carried <- MCCarried
    Compatible = {}
    Policies <- MCPolicies
    Fetches = {"f1"}
    MaxRedirects = 1
    Names = {u1}
    Browsers = {b1, b2}
    Secret <- SecretKept
    AdminOnHttps = TRUE
    HASH_SLOTS = 1
    HASH_QUEUE_MAX = 1
    LOCK_THRESHOLD = 2
    LOCK_BASE_SECONDS = 1
    LOCK_MAX_SECONDS = 2
    PRUNE_AFTER = 2
    WINDOW = 1
    SESSION = 2
    SESSION_TOUCH_SECONDS = 1
    Scenarios <- SignIns
    OptionKeys = {"format","retries","netrc_cmd","cookiefile","ratelimit","po_token"}
    Owned = {"format"}
    Base = {"format","retries"}
    FeedOptions = {"retries","ratelimit"}
    Configs <- MCConfigs
    Stored <- MCStored
    Sizes = {0,1,2}
    QuotaLeft = 1
    EngineCallsMax = 1
    Stale = 2
    SchedulerStale = 3
    Far = 5
    Never = 99
    TroublesMax = 2
    Links = {"l1", "l1/", "l2"}
    Normal <- MCNormal
    VERIFY_LIMIT = 2
    Pages = {"p1", "p2", "p3"}
    SourceKeys = {"a", "b", "c"}
    PageItems = 2
    MAX_PAGES = 3
    Owners = {"ann", "bob"}
    Admins = {"ann"}
    Sources = {"s", "t"}
    Kept = {"defaults"}
    Salted = TRUE
    Asks = {"a1"}
    TurnsMax = 3
    Videos = {"v1", "v2", "v3"}
    TrueDate <- MCTrueDate
    Unrecorded = {"v3"}
    SourceKinds = {"rss", "channel", "playlist"}
    Guesses <- MCGuesses
    Episode <- MCEpisode
    FEED_ENTRIES = 1
    MAX_SELECTION_SIZE = 3
    Selectable <- MCSelectable
    Efforts <- MCEfforts
SYMMETRY AnyCall
CHECK_DEADLOCK FALSE
INVARIANTS EffectsByRight NothingInsideReached RefusalIsFinal LoginsAreBounded
    NobodyKeepsASession CallTruthful ProbeTruthful StatusTellsTheTruth
PROPERTIES OwnersApart SelectionsTrue
