------------------------ MODULE MCProcessSupervision ------------------------
(* Instances of ProcessSupervision: which tool each invocation uses.       *)
EXTENDS ProcessSupervision, TLC

CONSTANTS r1, r2, r3

AllKinds == (r1 :> "session") @@ (r2 :> "exec") @@ (r3 :> "proof")
Shells == (r1 :> "shell") @@ (r2 :> "shell")
=============================================================================
