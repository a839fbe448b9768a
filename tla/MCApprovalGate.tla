--------------------------- MODULE MCApprovalGate ---------------------------
(* Two calls that start a process and a poll; a grant of one run that      *)
(* covers both calls.                                                      *)
EXTENDS ApprovalGate

CONSTANTS c1, c2, c3, g1

Calls  == {c1, c2, c3}
Execs  == {c1, c2}
Poll   == {c3}
Grants == {g1}
Scope  == {<<g1, c1>>, <<g1, c2>>}
Caps   == [g \in Grants |-> 1]
=============================================================================
