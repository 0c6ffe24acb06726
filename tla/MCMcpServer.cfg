SPECIFICATION FairSpec
CONSTANTS
    r1 = r1  r2 = r2  r3 = r3  bad = bad  note = note
    Messages = {r1, r2, r3, bad, note}
    Calls = {r1, r2, r3}
    Malformed = {bad}
    MaxConcurrentActions = 2
    Nobody = Nobody
INVARIANTS FramesWhole ReturnsLast
PROPERTIES ServiceImplemented EveryCallAnswered
CHECK_DEADLOCK FALSE
