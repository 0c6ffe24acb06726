----------------------------- MODULE RpcService -----------------------------
(* What a JSON-RPC server promises its peer: every response answers a        *)
(* request that was received and was not answered before, in any order.  A   *)
(* notification is never answered.                                           *)
CONSTANTS Calls

VARIABLES received, answered

Init == received = {} /\ answered = {}

Receive(r) == r \notin received /\ received' = received \cup {r} /\ UNCHANGED answered

Answer(r) ==
    /\ r \in received \ answered
    /\ answered' = answered \cup {r}
    /\ UNCHANGED received

Next == \E r \in Calls : Receive(r) \/ Answer(r)

Spec == Init /\ [][Next]_<<received, answered>>
=============================================================================
