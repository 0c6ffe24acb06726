------------------------------ MODULE MCRunner ------------------------------
(* Two workers of which one may die, a queue for one job, and a bucket that  *)
(* holds one token and regains it in a tick.                                 *)
EXTENDS Runner
=============================================================================
