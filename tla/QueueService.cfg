SPECIFICATION Spec
CONSTANTS
    PRs = {p1, p2}
    NoPR = NoPR
    CooldownBase = 1
    CooldownCap = 2
    CooldownFactor = 2
    MaxCooldownLevel = 1
    MaxFailures = 2
    MaxNoticePosts = 2
    BackoffBase = 1
    BackoffCap = 1
    MaxJitter = 0
    MinRetryAfter = 1
    NoticeBatch = 1
    UnconfiguredWait = 1
    RetryAfters = {0, 2}
    CapWaits = {1}
    Troubles = {"limited", "capped", "tuning", "deleted"}
    MaxTroubles = 1
    MaxEvents = 4
    Closable = {p1, p2}
    Horizon = 2
SYMMETRY Symmetry
INVARIANT NoLostPush
PROPERTY ImplementsService
