SPECIFICATION OpsSpec
CONSTANTS
    gemini = gemini
    vertex = vertex
    valid = valid
    stale = stale
    good = good
    bad = bad
    eu = eu
    us = us
    Providers <- MCProviders
    MaxSlots = 2
    Creds <- MCCreds
    NoCred = NoCred
    Vertex <- MCVertex
    Probed <- MCProviders
    Models <- MCModels
    NoModel = NoModel
    Places = {eu, us}
    NoPlace = NoPlace
    Entitled <- MCEntitled
    NoProvider = NoProvider
    NoIndex = NoIndex
    NoRow = NoRow
    Absent = Absent
    Unread = Unread
    Groups <- MCGroups
    MaxValue = 2
    Null = Null
    Requests = {r1, r2}
    ConfigPatches <- MCConfigPatches
    SlotPatches <- MCSlotPatches
    Applies <- MCApplies
    Deletes <- MCDeletes
    RenderPatches <- MCRenderPatches
    Troubles = {"database", "render", "probe", "cut"}
    MaxTroubles = 2
    Commands <- MCCommands
    Local <- MCLocal
    Shell <- MCLocal
    LocalGroups <- MCLocalGroups
    LocalRow <- MCLocalRow
    Starts <- MCStarts
    MaxOps = 2
INVARIANTS
    OpsTypeOK
    ArmedIsProbed
    ReportedLiveServes
    GroupsUsable
CHECK_DEADLOCK FALSE
