----------------------------- MODULE MCHistory ------------------------------
(* Finite instance of History for TLC: stacks stay below MaxDepth by        *)
(* themselves, so no state constraint is needed.                            *)
EXTENDS History
=============================================================================
