SPECIFICATION FairSpec
CONSTANTS
    d1 = d1  d2 = d2  a1 = a1  a2 = a2  a3 = a3
    Docs = {d1, d2}
    NumPages <- TwoPages
    Ids = {a1}
    Kind <- CheckboxLight
    MaxDepth = 1
    Versions = {v0, v1}
    Version0 = v0
    NoDoc = NoDoc
    NoSession = NoSession
    NoTimer = NoTimer
    NoCallback = NoCallback
    Nothing = Nothing
    PopupText = TRUE
    Touch = FALSE
    MaxLoads = 1
    MaxWrites = 2
    MaxFaults = 0
    MaxCrashes = 1
    MaxEdits = 1
PROPERTY LastChangeIsSaved
