------------------------------ MODULE MCBrowser ------------------------------
(* Each part of the page with two or three of whatever it juggles.           *)
EXTENDS Browser

CONSTANTS f1, f2, f3, r1, r2, r3
=============================================================================
