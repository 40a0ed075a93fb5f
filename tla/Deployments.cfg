SPECIFICATION DeploymentsSpec
CONSTANTS
    a = a
    b = b
    c = c
    groq = groq
    vertex = vertex
    groq_70b = groq_70b
    groq_8b = groq_8b
    flash = flash
    Selections <- MCSelections
    NoSelection = NoSelection
    Amounts = {1}
    Tickets = {t1}
    NoTicket = NoTicket
    Armable = {groq_8b, flash}
    TokenCap = 4
    DayLength = 2
    ResetTime = 1
    LastDay = 1
    CapTroubles = {"database", "github", "invalid", "raises", "limited"}
    MaxCapTroubles = 1
    MaxPushes = 3
    Sessions = {a, b, c}
    NoSession = NoSession
    PRNumber <- MCPRNumber
    DemoProviders = {groq, vertex}
    ProviderOf <- MCProviderOf
    Priced <- MCPriced
    DefaultProvider = groq
    Nobody = Nobody
    Visits <- MCVisits
    MaxVisits = 2
    MaxTickets = 1
    MaxRows = 1
    DedupCapacity = 1
    f = f
    g = g
    Files = {f, g}
    ReadAs <- MCReadAs
    FirstLines = {1, 5}
    NoLabel = NoLabel
    MaxDiff = 6
INVARIANTS
    CapTypeOK
    UsageBounded
    CapLifts
    StoreBounded
    RunsAsAsked
    SweptIsGone
    LabelsAreReal
PROPERTY
    VisitorServed
CHECK_DEADLOCK FALSE
