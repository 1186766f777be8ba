------------------------- MODULE MCSessionLifecycle -------------------------
(* Instances of SessionLifecycle for TLC.  The contexts of the pool are      *)
(* interchangeable; a session needs at most two (one request of each kind)   *)
(* and a worker one more while it handles a completion.                      *)
EXTENDS SessionLifecycle, TLC

PoolSymmetry == Permutations(Contexts)
=============================================================================
