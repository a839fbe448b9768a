------------------------ MODULE MCOperationJournal ------------------------
(* Small instances of OperationJournal for TLC. *)
EXTENDS OperationJournal, TLC

CONSTANTS p1, p2, none

TwoProcs == {p1, p2}
TwoIds == {1, 2}

ProcSymmetry == Permutations(TwoProcs)
=============================================================================
