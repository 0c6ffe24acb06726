--------------------------- MODULE MCOneTimeCodes ---------------------------
(* Two overlapping requests, a limit of two attempts, one failing statement. *)
EXTENDS OneTimeCodes

CONSTANTS q1, q2
=============================================================================
