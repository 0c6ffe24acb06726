SPECIFICATION Spec
CONSTANTS
    d1 = d1  d2 = d2  a1 = a1  a2 = a2  a3 = a3
    Docs = {d1, d2}
    NumPages <- OnePage
    Ids = {a1, a2}
    Kind <- SignatureLight
    MaxDepth = 1
    Versions = {v0}
    Version0 = v0
    NoDoc = NoDoc
    NoSession = NoSession
    NoTimer = NoTimer
    NoCallback = NoCallback
    Nothing = Nothing
    PopupText = TRUE
    Touch = TRUE
    MaxLoads = 2
    MaxWrites = 1
    MaxFaults = 1
    MaxCrashes = 0
    MaxEdits = 1
INVARIANTS OneDocument VaultUnmixed 
