----------------------------- MODULE MCSendPath -----------------------------
(* Instances of SendPath for TLC: the size of each packet.                   *)
EXTENDS SendPath, TLC

CONSTANTS p1, p2, p3, p4

(* Everything fits in a buffer of 12, with room for memcpy_s's double count. *)
SmallSizes == [p \in Packets |-> IF p = p2 THEN 2 ELSE 1]

(* In a buffer of 8: p1 and p2 overflow it together, p3 never fits.          *)
LargeSizes == [p \in Packets |-> CASE p = p1 -> 7 [] p = p2 -> 6 [] p = p3 -> 8 [] p = p4 -> 1]

(* In a buffer of 12: a packet of 5 is valid and counted twice leaves 2.     *)
MiddleSizes == [p \in Packets |-> 5]

CallerSymmetry == Permutations(Callers)
=============================================================================
