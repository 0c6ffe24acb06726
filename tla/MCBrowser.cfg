SPECIFICATION BrowserSpec
CONSTANTS
    r1 = r1  r2 = r2  r3 = r3  Requests = {r1, r2, r3}  MaxStorageFaults = 1
    f1 = f1  f2 = f2  f3 = f3  Files = {f1, f2, f3}
    MaxOpenings = 2  MaxMerges = 2  MaxWork = 4
    MaxCalls = 3  MaxPads = 2  MaxPadTroubles = 1
    MaxExports = 2  MaxDocuments = 2  MaxTicks = 2
    Views = {1, 2, 3}  LastPage = 2  MaxZoom = 2
    Tools = {"go_to_page", "zoom", "other"}  MissingTool = "missing"
    MaxSaved = 3  MaxCards = 2  MaxAsides = 1
INVARIANTS BrowserTypeOK FormFollowsLogin DialogsAnswerOnce MergedAsListed KeepsOldPair StoredIsUsed SignedAsAsked PageSettles RunsAtMostOnce DockAtRest LeavesAsAsked
CHECK_DEADLOCK FALSE
