SPECIFICATION Spec
CONSTANTS
    g1 = g1  g2 = g2  t1 = t1  t2 = t2  t3 = t3  t4 = t4
    Tokens = {t1, t2, t3, t4}
    Requests = {g1, g2}
    None = None
    MaxFaults = 1
    MaxEpochs = 1
SYMMETRY Symmetric
INVARIANTS RotationBounded OnlyStraysSurvive LoginContinues
CHECK_DEADLOCK FALSE
