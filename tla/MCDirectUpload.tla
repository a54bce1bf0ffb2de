--------------------------- MODULE MCDirectUpload ---------------------------
(* Instances of DirectUpload for TLC. *)
EXTENDS DirectUpload, TLC

CONSTANTS u1, u2, small, small2, large

\* One session with a small and a large file.
OneSession == u1 :> <<small, large>>
\* One session with two small files.
TwoSmall == u1 :> <<small, small2>>

SlotSymmetry == Permutations(Requests)
=============================================================================
