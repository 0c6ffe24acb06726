SPECIFICATION Spec
CONSTANTS
    q1 = q1  q2 = q2
    Requests = {q1, q2}
    MaxAttempts = 2
    None = None
    MaxCodes = 3
    MaxFaults = 1
INVARIANTS ActiveBounded AttemptsBounded AcceptedBounded
CHECK_DEADLOCK FALSE
