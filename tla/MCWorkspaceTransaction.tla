---------------------- MODULE MCWorkspaceTransaction ----------------------
(* Small instances of WorkspaceTransaction for TLC. *)
EXTENDS WorkspaceTransaction, TLC

CONSTANTS o1, o2, none

TwoOps == {o1, o2}
TwoPaths == {1, 2}
OnePath == {1}
Vals == {"a", "b"}

OpSymmetry == Permutations(TwoOps)
=============================================================================
