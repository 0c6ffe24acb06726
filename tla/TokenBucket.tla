----------------------------- MODULE TokenBucket -----------------------------
(* What a rate limiter promises, as an ideal bucket: it fills continuously,  *)
(* up to its capacity, and a caller may pass when it holds what a pass costs.*)
(* In any interval of t ticks at most Capacity + t * Rate units are taken.   *)
EXTENDS Integers

CONSTANTS Callers, Capacity, Rate, Cost

VARIABLES level, passed

Init == level = Capacity /\ passed = {}

Fill ==
    /\ level' = IF level + Rate > Capacity THEN Capacity ELSE level + Rate
    /\ UNCHANGED passed

Pass(c) ==
    /\ c \notin passed /\ level >= Cost
    /\ level' = level - Cost
    /\ passed' = passed \cup {c}

Next == Fill \/ \E c \in Callers : Pass(c)

Spec == Init /\ [][Next]_<<level, passed>>
=============================================================================
