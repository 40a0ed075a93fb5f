SPECIFICATION Spec
CONSTANTS
    PRs = {p1}
    NoPR = NoPR
    CooldownBase = 1
    CooldownCap = 2
    CooldownFactor = 2
    MaxCooldownLevel = 1
    MaxFailures = 2
    MaxNoticePosts = 1
    BackoffBase = 1
    BackoffCap = 1
    MaxJitter = 0
    MinRetryAfter = 0
    NoticeBatch = 1
    UnconfiguredWait = 1
    RetryAfters = {1}
    CapWaits = {1}
    Troubles = {"limited", "failed", "skipped", "capped", "cooldown", "github", "database", "crash"}
    MaxTroubles = 4
    MaxEvents = 3
    Closable = {p1}
    Horizon = 2
INVARIANT WorkIsRunning
INVARIANT CooldownRespected
INVARIANT NoSpuriousReview
INVARIANT AttemptsBounded
