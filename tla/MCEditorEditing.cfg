SPECIFICATION Spec
CONSTANTS
    d1 = d1  d2 = d2  a1 = a1  a2 = a2  a3 = a3
    Docs = {d1}
    NumPages <- OnePage
    Ids = {a1, a2, a3}
    Kind <- TextImage
    MaxDepth = 1
    Versions = {v0, v1}
    Version0 = v0
    NoDoc = NoDoc
    NoSession = NoSession
    NoTimer = NoTimer
    NoCallback = NoCallback
    Nothing = Nothing
    PopupText = TRUE
    Touch = FALSE
    MaxLoads = 1
    MaxWrites = 1
    MaxFaults = 0
    MaxCrashes = 0
    MaxEdits = 1
INVARIANTS SelectionCurrent AutosaveArmed
PROPERTIES EditorIsHistory Recoverable
