------------------------------ MODULE MCPickup ------------------------------
(* Instances of Pickup for TLC. *)
EXTENDS Pickup, TLC

CONSTANTS b1, f1, f2

OneBatch == [f \in Files |-> b1]

CodeSymmetry == Permutations(Codes) \cup Permutations(Requests) \cup Permutations(Shares)
=============================================================================
