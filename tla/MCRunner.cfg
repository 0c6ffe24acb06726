SPECIFICATION FairSpec
CONSTANTS
    Jobs = {1, 2, 3, 4}
    Callers = {1, 2, 3, 4}
    Size = 2
    MaxQueue = 1
    None = None
    MaxDeaths = 1
    Capacity = 1
    Rate = 1
    Cost = 1
INVARIANTS JobsConserved RightAnswer ClosedAfterAll
PROPERTIES LimiterIsBucket Finishes
CHECK_DEADLOCK FALSE
