-------------------------- MODULE AtMostOnceEffect --------------------------
(***************************************************************************)
(* What Core promises about an effect, whatever happens to the processes   *)
(* that carry it: the durable truth about it moves forward only, it        *)
(* reaches the world at most once, only after the right to commit it was   *)
(* durably claimed, and a truth that says it was withheld or applied is    *)
(* final and right.                                                        *)
(***************************************************************************)
EXTENDS Integers

CONSTANT Ids

VARIABLES truth, applied

vars == <<truth, applied>>

\* "uncertain" promises nothing about the world: it is the truth that asks
\* for an operator.
Truths == {"unseen", "open", "claimed", "withheld", "applied", "uncertain"}

Moves(o, from, to) == truth[o] = from /\ truth' = [truth EXCEPT ![o] = to] /\ UNCHANGED applied

Open(o) == Moves(o, "unseen", "open")

Claim(o) == Moves(o, "open", "claimed")

Apply(o) ==
    /\ truth[o] = "claimed" /\ applied[o] = 0
    /\ applied' = [applied EXCEPT ![o] = 1]
    /\ UNCHANGED truth

Withhold(o) ==
    /\ applied[o] = 0
    /\ \E from \in {"unseen", "open", "claimed"} : Moves(o, from, "withheld")

Confirm(o) == applied[o] = 1 /\ Moves(o, "claimed", "applied")

Doubt(o) == \E from \in {"open", "claimed"} : Moves(o, from, "uncertain")

Init ==
    /\ truth = [o \in Ids |-> "unseen"]
    /\ applied = [o \in Ids |-> 0]

Next ==
    \E o \in Ids :
        Open(o) \/ Claim(o) \/ Apply(o) \/ Withhold(o) \/ Confirm(o) \/ Doubt(o)

Spec == Init /\ [][Next]_vars
=============================================================================
