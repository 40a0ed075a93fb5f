SPECIFICATION Spec
CONSTANTS
    PRs = {p1}
    NoPR = NoPR
    CooldownBase = 1
    CooldownCap = 2
    CooldownFactor = 2
    MaxCooldownLevel = 1
    MaxFailures = 2
    MaxNoticePosts = 2
    BackoffBase = 1
    BackoffCap = 1
    MaxJitter = 0
    MinRetryAfter = 0
    NoticeBatch = 1
    UnconfiguredWait = 1
    RetryAfters = {1}
    CapWaits = {1}
    Troubles = {"failed"}
    MaxTroubles = 2
    MaxEvents = 2
    Closable = {}
    Horizon = 2
INVARIANT NoLostPush
