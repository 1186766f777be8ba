---------------------------- MODULE MCLanClient ----------------------------
(* LanClient for model checking.                                            *)
EXTENDS LanClient, TLC

WorkerSymmetry == Permutations(Workers)
============================================================================
