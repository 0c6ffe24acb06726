SPECIFICATION Spec
CONSTANTS
    MaxDepth = 3
    States = {s0, s1, s2}
    Start = s0
PROPERTY IsTimeline
