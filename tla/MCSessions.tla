----------------------------- MODULE MCSessions -----------------------------
(* Two overlapping requests, up to four tokens, one failing statement and    *)
(* one revocation of everything.                                             *)
EXTENDS Sessions, TLC

CONSTANTS g1, g2, t1, t2, t3, t4

Symmetric == Permutations({g1, g2}) \cup Permutations({t1, t2, t3, t4})
=============================================================================
