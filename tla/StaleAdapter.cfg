SPECIFICATION ReviewerSpec
CONSTANTS
    gemini = gemini
    vertex = vertex
    valid = valid
    stale = stale
    good = good
    bad = bad
    eu = eu
    us = us
    Providers <- MCProviders
    MaxSlots = 2
    Creds <- MCCreds
    NoCred = NoCred
    Vertex <- MCVertex
    Probed <- MCProviders
    Models <- MCModels
    NoModel = NoModel
    Places = {eu, us}
    NoPlace = NoPlace
    Entitled <- MCEntitled
    NoProvider = NoProvider
    NoIndex = NoIndex
    NoRow = NoRow
    Absent = Absent
    Unread = Unread
    NoAdapter = NoAdapter
    Groups <- MCGroups
    MaxValue = 2
    Null = Null
    Requests = {r1}
    ConfigPatches = {}
    SlotPatches <- MovePlace
    Applies = {}
    Deletes = {}
    RenderPatches = {}
    Troubles = {"database", "render", "probe", "cut"}
    MaxTroubles = 0
    Commands = {}
    Local <- MCLocal
    Shell <- MCLocal
    LocalGroups <- MCLocalGroups
    LocalRow <- MCLocalRow
    MaxReviews = 2
    Starts <- VertexStarts
    MaxOps = 1
INVARIANT AdapterIsCurrent
CHECK_DEADLOCK FALSE
