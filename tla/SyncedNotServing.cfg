SPECIFICATION OpsSpec
CONSTANTS
    gemini = gemini
    vertex = vertex
    valid = valid
    stale = stale
    good = good
    bad = bad
    eu = eu
    us = us
    Providers <- MCProviders
    MaxSlots = 2
    Creds <- MCCreds
    NoCred = NoCred
    Vertex <- MCVertex
    Probed <- MCProviders
    Models <- MCModels
    NoModel = NoModel
    Places = {eu, us}
    NoPlace = NoPlace
    Entitled <- MCEntitled
    NoProvider = NoProvider
    NoIndex = NoIndex
    NoRow = NoRow
    Absent = Absent
    Unread = Unread
    Groups <- MCGroups
    MaxValue = 2
    Null = Null
    Requests = {r1}
    ConfigPatches = {}
    SlotPatches = {}
    Applies = {}
    Deletes = {}
    RenderPatches = {}
    Troubles = {"database", "render", "probe", "cut"}
    MaxTroubles = 1
    Commands = {}
    Local <- MCLocal
    Shell <- MCLocal
    LocalGroups <- MCLocalGroups
    LocalRow <- MCLocalRow
    Starts <- GeminiStarts
    MaxOps = 2
INVARIANT SyncMeansServing
CHECK_DEADLOCK FALSE
