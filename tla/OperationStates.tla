-------------------------- MODULE OperationStates --------------------------
(***************************************************************************)
(* The durable truth Core keeps about one tool operation                   *)
(* (agent-contracts/src/operation.rs) and the transitions the operation    *)
(* journal's reader accepts (agent-storage/src/lib.rs).                    *)
(*                                                                         *)
(* A snapshot is a record of                                               *)
(*   tag - the OperationState variant, with the variants of                *)
(*         OperationTerminal flattened into it (Applied is split by its    *)
(*         durability);                                                    *)
(*   eff - whether the state carries Some(effect_id).  Executing is        *)
(*         entered at most once per operation id and mints the only        *)
(*         effect id of the operation, so presence is all the comparisons  *)
(*         of effect ids can tell apart;                                   *)
(*   gen - identity.generation, the authority epoch of the admission.      *)
(***************************************************************************)
EXTENDS Integers

OpenTags == {"Accepted", "Executing", "Prepared", "CommitStarted"}

TerminalTags == {"CompletedValue", "Refused", "NotApplied", "Applied",
                 "DurabilityFailed", "OutcomeUnknown", "Cancelled"}

OpStates == [tag : {"Absent"} \cup OpenTags \cup TerminalTags,
             eff : BOOLEAN, gen : Nat]

\* No record under this operation id.
Absent == [tag |-> "Absent", eff |-> FALSE, gen |-> 0]

IsPresent(s) == s.tag # "Absent"
IsOpen(s) == s.tag \in OpenTags
IsTerminal(s) == s.tag \in TerminalTags

Accepted(gen) == [tag |-> "Accepted", eff |-> FALSE, gen |-> gen]

\* The successors the registry proposes: identity kept, state replaced.
Executing(s, eff) == [tag |-> "Executing", eff |-> eff, gen |-> s.gen]
Prepared(s) == [tag |-> "Prepared", eff |-> s.eff, gen |-> s.gen]
CommitStarted(s) == [tag |-> "CommitStarted", eff |-> s.eff, gen |-> s.gen]
Terminal(s, eff, tag) == [tag |-> tag, eff |-> eff, gen |-> s.gen]

(***************************************************************************)
(* fold_operation_record / valid_recovered_transition: what a reopening    *)
(* journal accepts as the next record of an operation.  Any other pair     *)
(* makes the whole journal corrupt at the next start.                      *)
(***************************************************************************)
FirstRecord(s) == s.tag \in {"Accepted", "Cancelled"}

MonotonicRecord(p, s) ==
    \/ p.tag = "Accepted" /\ s.tag = "Executing"
    \/ p.tag = "Accepted" /\ IsTerminal(s) /\ ~s.eff
    \/ p.tag = "Executing" /\ p.eff /\ s.tag = "Prepared" /\ s.eff
    \/ p.tag = "Executing" /\ IsTerminal(s)
         /\ (p.eff = s.eff \/ (p.eff /\ s.tag = "CompletedValue"))
    \/ p.tag = "Prepared" /\ s.tag = "CommitStarted" /\ s.eff
    \/ p.tag \in {"Prepared", "CommitStarted"} /\ IsTerminal(s) /\ s.eff
    \/ p = s

ValidRecoveredTransition(p, s) ==
    IF IsPresent(p) THEN p.gen = s.gen /\ MonotonicRecord(p, s)
                    ELSE FirstRecord(s)
=============================================================================
