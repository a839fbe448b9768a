-------------------------- MODULE MCCoreAuthority --------------------------
(* Small instances of CoreAuthority for TLC. *)
EXTENDS CoreAuthority

\* Two operations: one that stages an effect, one process tool.
TwoOps == {1, 2}
\* ... and a read-only one.
ThreeOps == {1, 2, 3}
DirectOp == {2}
ReadOnlyOp == {3}
NoOps == {}
=============================================================================
