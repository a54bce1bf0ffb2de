-------------------------- MODULE MCFileLifecycle --------------------------
(* Instances of FileLifecycle for TLC. *)
EXTENDS FileLifecycle, TLC

CONSTANTS u1, small, large

OneSmall == u1 :> <<small>>
OneLarge == u1 :> <<large>>
Both == u1 :> <<small, large>>

NameOf == [f \in Files |-> "file"]
RankOf == [f \in Files |-> IF f = small THEN 1 ELSE 2]

SlotSymmetry == Permutations(Requests)
=============================================================================
