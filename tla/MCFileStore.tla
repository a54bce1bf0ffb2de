---------------------------- MODULE MCFileStore ----------------------------
(* Instances of FileStore for TLC. *)
EXTENDS FileStore, TLC

CONSTANTS older, newer

\* Two uploads of the same name, one after the other.
SameName == [f \in Files |-> "photo"]
Arrival == [f \in Files |-> IF f = older THEN 1 ELSE 2]

JobSymmetry == Permutations(Jobs)
=============================================================================
