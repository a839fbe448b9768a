--------------------------- MODULE MCEffectBroker ---------------------------
(* Small instances of EffectBroker for TLC. *)
EXTENDS EffectBroker, TLC

CONSTANTS e1, e2

TwoEffects == {e1, e2}
FirstManaged == {e1}
=============================================================================
