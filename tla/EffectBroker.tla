---------------------------- MODULE EffectBroker ----------------------------
(***************************************************************************)
(* The broker between Core's commit and the effect: reserve, dispatch and  *)
(* acknowledge, each a frame of the reservation journal (broker.rs), the   *)
(* acknowledgement debt that a failed third step leaves behind (port.rs,   *)
(* tools.rs), and how checkpoints carry that debt across restores and      *)
(* restarts (safepoint.rs, restore.rs, kernel/mod.rs).                     *)
(*                                                                         *)
(* Two brokers share the journal: JournaledEffectBroker appends to it in   *)
(* process, ProcessEffectBroker asks a coordinator process to, over an RPC *)
(* that may time out.  One effect is in flight at a time: the actor runs   *)
(* one tool at a time.                                                     *)
(***************************************************************************)
EXTENDS Naturals, FiniteSets, FiniteSetsExt

CONSTANTS
    Effect,         \* the effects the runs commit, one operation each
    Managed,        \* those the workspace's reconciler has evidence about
    Kinds,          \* the brokers to explore: "journaled", "process"
    MaxRecords,     \* MAX_RESERVATIONS, the journal's record limit
    MaxCheckpoints, \* bound: distinct checkpoints that are retained
    MaxCrashes      \* bound: process deaths

ASSUME EffectsAssumption == Managed \subseteq Effect
ASSUME KindsAssumption   == Kinds \subseteq {"journaled", "process"}
ASSUME BoundsAssumption  == {MaxRecords, MaxCheckpoints, MaxCrashes} \subseteq Nat

VARIABLES
    kind,           \* which broker Core was composed with
    disk,           \* the journal's frames, folded: what the next open recovers
    mem,            \* the fold of the process that holds the journal
    broken,         \* the journal failed for good, or the coordinator is poisoned
    world,          \* what happened to the effect's target
    core,           \* Core's durable record of the operation
    coreFenced,     \* Core requires recovery
    pc, cur,        \* the commit in flight: its step and its effect
    rpc,            \* the broker call of that step
    receipt,        \* what the dispatch reported
    turn,           \* a turn is active in the runtime actor
    debts,          \* ActorState.unresolved_ack_debts
    fence,          \* ActorState.recovery_required
    pending,        \* ActorState.pending_restore
    ckpts,          \* the checkpoints that are retained
    phase, todo,    \* process life; operations startup still has to reconcile
    crashes,
    owed,           \* history: debts surfaced and never reconciled
    known           \* history: debts of the lineage the actor's state stems from

journalVars == <<disk, mem, broken>>
coreVars    == <<world, core, coreFenced>>
commitVars  == <<pc, cur, rpc, receipt>>
actorVars   == <<turn, debts, fence, pending>>
lifeVars    == <<phase, todo, crashes>>
vars == <<kind, journalVars, coreVars, commitVars, actorVars, ckpts, lifeVars,
          owed, known>>

-----------------------------------------------------------------------------
(* The reservation journal.                                                *)

Settlements == {"durable", "durabilityFailed", "notApplied", "unknown"}
Entries     == {"none", "reserved", "dispatched"} \cup Settlements
Rank(x)     == IF x = "none" THEN 0 ELSE IF x = "reserved" THEN 1
               ELSE IF x = "dispatched" THEN 2 ELSE 3
LastSeq(f)  == MapThenSumSet(LAMBDA e : Rank(f[e]), Effect)

\* Mutant: a dispatch without an acknowledgement counts as not applied.
Answer_Unacked(x) == IF x \in {"reserved", "dispatched"} THEN "notApplied" ELSE x

\* reconcile, reconcile_effect_id: "none" where the journal has no entry
Answer(x) == CASE x = "reserved" -> "notApplied"
               [] x \in {"dispatched", "unknown"} -> "ambiguous"
               [] OTHER -> x

\* Mutant: every answer but a missing one settles the effect.
Definite_Any(a) == a # "none"

\* Applied or NotApplied: what retires a debt or becomes a terminal
Definite(a) == a \in Settlements \ {"unknown"}

\* The frame each step of a commit wants to append, and validate_fold
Frame == CASE pc = "reserve"  -> "reserved"
           [] pc = "dispatch" -> "dispatched"
           [] OTHER           -> receipt
ValidFold == mem[cur] = CASE pc = "reserve"  -> "none"
                          [] pc = "dispatch" -> "reserved"
                          [] OTHER           -> "dispatched"
Appendable == ~broken /\ ValidFold /\ LastSeq(mem) < MaxRecords

\* What is true of a target: a settlement or an answer of a reconciler
\* against the world.  A volatile change landed but was not made durable.
Truth(a, w) == CASE a = "durable"          -> w = "durable"
                 [] a = "durabilityFailed" -> w # "untouched"
                 [] a = "notApplied"       -> w = "untouched"
                 [] OTHER                  -> TRUE

-----------------------------------------------------------------------------
Init ==
    /\ kind \in Kinds
    /\ disk = [e \in Effect |-> "none"] /\ mem = disk /\ broken = FALSE
    /\ world = [e \in Effect |-> "untouched"]
    /\ core = [e \in Effect |-> "none"] /\ coreFenced = FALSE
    /\ pc = "idle" /\ cur \in Effect /\ rpc = "none" /\ receipt = "unknown"
    /\ turn = FALSE /\ debts = {} /\ fence = FALSE /\ pending = FALSE
    /\ ckpts = {}
    /\ phase = "ready" /\ todo = {} /\ crashes = 0
    /\ owed = {} /\ known = {}

\* A turn's tool reached its commit, and CommitStarted is durable
Begin(e) ==
    /\ phase = "ready" /\ pc = "idle" /\ ~fence /\ ~coreFenced /\ core[e] = "none"
    /\ core' = [core EXCEPT ![e] = "open"]
    /\ pc' = "reserve" /\ cur' = e /\ rpc' = "none" /\ receipt' = "unknown"
    /\ turn' = TRUE
    /\ UNCHANGED <<kind, journalVars, world, coreFenced, debts, fence, pending,
                   ckpts, lifeVars, owed, known>>

-----------------------------------------------------------------------------
(* One call of the broker: sent, handled by whoever holds the journal,     *)
(* answered.                                                               *)

Calling == pc \in {"reserve", "dispatch", "ack"}

Call ==
    /\ Calling /\ rpc = "none" /\ ~broken
    /\ rpc' = "sent"
    /\ UNCHANGED <<kind, journalVars, coreVars, pc, cur, receipt, actorVars, ckpts,
                   lifeVars, owed, known>>

Written == [disk EXCEPT ![cur] = Frame]

\* ReservationJournal::append: a failed write or sync may have left the frame
Handle ==
    /\ rpc = "sent"
    /\ \/ /\ Appendable
          /\ disk' = Written /\ mem' = [mem EXCEPT ![cur] = Frame]
          /\ rpc' = "ok" /\ UNCHANGED broken
       \/ /\ Appendable
          /\ disk' \in {disk, Written} /\ broken' = TRUE
          /\ rpc' = "err" /\ UNCHANGED mem
       \/ /\ ~Appendable
          /\ rpc' = "err" /\ UNCHANGED journalVars
    /\ UNCHANGED <<kind, coreVars, pc, cur, receipt, actorVars, ckpts, lifeVars,
                   owed, known>>

\* Mutant: the RPC waits for its reply without a limit.
Timeout_Never == FALSE /\ UNCHANGED vars

\* The RPC timed out or its stream broke: the session is poisoned and the
\* coordinator killed, with the frame already written or not
Timeout ==
    /\ kind = "process" /\ rpc \in {"sent", "ok", "err"}
    /\ disk' \in {disk} \cup (IF rpc = "sent" /\ Appendable THEN {Written} ELSE {})
    /\ broken' = TRUE /\ rpc' = "err"
    /\ UNCHANGED <<kind, mem, coreVars, pc, cur, receipt, actorVars, ckpts, lifeVars,
                   owed, known>>

Succeeded == rpc = "ok"
Failed    == rpc = "err" \/ (rpc = "none" /\ broken)

\* A refused reservation rolls the staged effect back and leaves the
\* operation as it is; an unconfirmed rollback fences Core and the actor
ReserveReturns ==
    /\ pc = "reserve"
    /\ \/ Succeeded /\ pc' = "dispatch" /\ UNCHANGED <<coreFenced, fence>>
       \/ /\ Failed /\ pc' = "idle"
          /\ \/ UNCHANGED <<coreFenced, fence>>
             \/ coreFenced' = TRUE /\ fence' = TRUE
    /\ rpc' = "none"
    /\ UNCHANGED <<kind, journalVars, world, core, cur, receipt, turn, debts, pending,
                   ckpts, lifeVars, owed, known>>

\* Mutant: a refused dispatch frame does not stop the effect.
DispatchReturns_Unjournaled ==
    /\ pc = "dispatch" /\ (Succeeded \/ Failed)
    /\ pc' = "apply" /\ rpc' = "none"
    /\ UNCHANGED <<kind, journalVars, coreVars, cur, receipt, actorVars, ckpts, lifeVars,
                   owed, known>>

\* The frame comes first: a refused dispatch never applies the effect
DispatchReturns ==
    /\ pc = "dispatch"
    /\ \/ Succeeded /\ pc' = "apply" /\ UNCHANGED receipt
       \/ Failed /\ pc' = "ack" /\ receipt' = "notApplied"
    /\ rpc' = "none"
    /\ UNCHANGED <<kind, journalVars, coreVars, cur, actorVars, ckpts, lifeVars, owed,
                   known>>

\* Effect::commit: the receipt is true of what it did to the target
Apply ==
    /\ pc = "apply" /\ pc' = "ack"
    /\ \E w \in {"untouched", "volatile", "durable"}, r \in Settlements :
          /\ Truth(r, w)
          /\ world' = [world EXCEPT ![cur] = w] /\ receipt' = r
    /\ UNCHANGED <<kind, journalVars, core, coreFenced, cur, rpc, actorVars, ckpts,
                   lifeVars, owed, known>>

AckReturns ==
    /\ pc = "ack"
    /\ \/ Succeeded /\ pc' = "finish"
       \/ Failed /\ pc' = "finishOwing"
    /\ rpc' = "none"
    /\ UNCHANGED <<kind, journalVars, coreVars, cur, receipt, actorVars, ckpts,
                   lifeVars, owed, known>>

\* The terminal is durable; the actor records the debt behind its fence.  That
\* only the newest MAX_LIVE_ACK_DEBTS are kept is left out: a debt fences the
\* effects that could add more
FinishRecorded ==
    /\ pc \in {"finish", "finishOwing"} /\ pc' = "idle"
    /\ core' = [core EXCEPT ![cur] = receipt]
    /\ LET debt == IF pc = "finishOwing" THEN {cur} ELSE {}
       IN  /\ fence' = (fence \/ debt # {} \/ receipt \in {"unknown", "durabilityFailed"})
           /\ debts' = debts \cup debt
           /\ owed' = owed \cup debt /\ known' = known \cup debt
    /\ UNCHANGED <<kind, journalVars, world, coreFenced, cur, rpc, receipt, turn,
                   pending, ckpts, lifeVars>>

\* The terminal's append failed, on disk or not: AuthorityRecordFailed fences
\* both sides and carries no debt
FinishFailed ==
    /\ pc \in {"finish", "finishOwing"} /\ pc' = "idle"
    /\ core' \in {core, [core EXCEPT ![cur] = receipt]}
    /\ coreFenced' = TRUE /\ fence' = TRUE
    /\ UNCHANGED <<kind, journalVars, world, cur, rpc, receipt, turn, debts, pending,
                   ckpts, lifeVars, owed, known>>

-----------------------------------------------------------------------------
(* Checkpoints and restore.                                                *)

EndTurn ==
    /\ turn /\ pc = "idle" /\ turn' = FALSE
    /\ UNCHANGED <<kind, journalVars, coreVars, commitVars, debts, fence, pending,
                   ckpts, lifeVars, owed, known>>

\* Mutant: the capture leaves the debts to the live actor.
Checkpoint_NoDebts == [debts |-> {}, known |-> known]

\* assemble_checkpoint, as far as the debts go
Checkpoint == [debts |-> debts, known |-> known]

\* A safe point of the turn, fenced or not, or a request to an idle actor
Capture ==
    /\ phase = "ready" /\ pc = "idle" /\ (turn \/ ~fence)
    /\ Cardinality(ckpts) < MaxCheckpoints
    /\ ckpts' = ckpts \cup {Checkpoint}
    /\ UNCHANGED <<kind, journalVars, coreVars, commitVars, actorVars, lifeVars, owed,
                   known>>

Restorable == phase = "ready" /\ ~turn /\ pc = "idle" /\ ~coreFenced

PrepareRestore(c) ==
    /\ Restorable
    /\ debts' = c.debts /\ known' = c.known
    /\ fence' = TRUE /\ pending' = TRUE
    /\ UNCHANGED <<kind, journalVars, coreVars, commitVars, turn, ckpts, lifeVars, owed>>

\* The debts are installed before the steps that can fail: the epoch's
\* append, the context engine's refusal, the rollback after that refusal
PrepareRestoreFails(c) ==
    /\ Restorable
    /\ debts' = c.debts /\ known' = known \cap c.known
    /\ \/ coreFenced' = TRUE /\ fence' = TRUE
       \/ UNCHANGED <<coreFenced, fence>>
       \/ fence' = TRUE /\ UNCHANGED coreFenced
    /\ UNCHANGED <<kind, journalVars, world, core, commitVars, turn, pending, ckpts,
                   lifeVars, owed>>

\* Core::reconcile_effect: ProcessEffectBroker keeps the trait's None
Resolves(e) == kind = "journaled" /\ ~broken /\ Definite(Answer(mem[e]))

\* The durable RuntimeRestored event; while it fails everything stays fenced
FinalizeRestore ==
    /\ phase = "ready" /\ ~turn /\ pending /\ pending' = FALSE
    /\ debts' = {e \in debts : ~Resolves(e)}
    /\ fence' = (coreFenced \/ debts' # {})
    /\ owed' = owed \ {e \in debts : Definite(Answer(disk[e]))}
    /\ UNCHANGED <<kind, journalVars, coreVars, commitVars, turn, ckpts, lifeVars, known>>

-----------------------------------------------------------------------------
(* Process death and startup.                                              *)

Crash ==
    /\ phase # "down" /\ crashes < MaxCrashes
    /\ phase' = "down" /\ crashes' = crashes + 1 /\ todo' = {}
    /\ pc' = "idle" /\ rpc' = "none" /\ receipt' = "unknown"
    /\ turn' = FALSE /\ debts' = {} /\ fence' = FALSE /\ pending' = FALSE
    /\ known' = {} /\ mem' = disk /\ broken' = FALSE /\ coreFenced' = FALSE
    /\ UNCHANGED <<kind, disk, world, core, cur, ckpts, owed>>

\* The journals are opened and recovered; settled terminals whose truth still
\* requires recovery fence at once
Restart ==
    /\ phase = "down" /\ phase' = "starting"
    /\ mem' = disk
    /\ todo' = {e \in Effect : core[e] = "open"}
    /\ coreFenced' = \E e \in Effect : core[e] \in {"unknown", "durabilityFailed"}
    /\ UNCHANGED <<kind, disk, broken, world, core, commitVars, actorVars, ckpts,
                   crashes, owed, known>>

\* What reconcile_recovered_effect learns: the workspace's reconciler first,
\* the broker's journal for what that one does not manage
Evidence(e) ==
    IF e \in Managed
    THEN {"ambiguous"} \cup {a \in Settlements \ {"unknown"} : Truth(a, world[e])}
    ELSE IF broken THEN {"none"} ELSE {Answer(mem[e])}

ReconcileEffect(e) ==
    /\ phase = "starting" /\ e \in todo
    /\ \E a \in Evidence(e) :
          \/ /\ Definite(a) /\ todo' = todo \ {e}
             /\ core' = [core EXCEPT ![e] = a]
             /\ coreFenced' = (coreFenced \/ a = "durabilityFailed")
          \/ /\ Definite(a) /\ todo' = {}
             /\ core' \in {core, [core EXCEPT ![e] = a]} /\ coreFenced' = TRUE
          \/ /\ ~Definite(a) /\ todo' = todo \ {e}
             /\ coreFenced' = TRUE /\ UNCHANGED core
    /\ UNCHANGED <<kind, journalVars, world, commitVars, actorVars, ckpts, phase,
                   crashes, owed, known>>

\* The coordinator does not answer the startup query in time
ReconcileTimeout(e) ==
    /\ phase = "starting" /\ e \in todo \ Managed /\ kind = "process" /\ ~broken
    /\ broken' = TRUE /\ coreFenced' = TRUE /\ todo' = todo \ {e}
    /\ UNCHANGED <<kind, disk, mem, world, core, commitVars, actorVars, ckpts, phase,
                   crashes, owed, known>>

StartActor ==
    /\ phase = "starting" /\ todo = {} /\ phase' = "ready"
    /\ fence' = coreFenced
    /\ UNCHANGED <<kind, journalVars, coreVars, commitVars, turn, debts, pending, ckpts,
                   todo, crashes, owed, known>>

-----------------------------------------------------------------------------
Next ==
    \/ \E e \in Effect : Begin(e) \/ ReconcileEffect(e) \/ ReconcileTimeout(e)
    \/ Call \/ Handle \/ Timeout
    \/ ReserveReturns \/ DispatchReturns \/ Apply \/ AckReturns
    \/ FinishRecorded \/ FinishFailed
    \/ EndTurn \/ Capture \/ FinalizeRestore
    \/ \E c \in ckpts : PrepareRestore(c) \/ PrepareRestoreFails(c)
    \/ Crash \/ Restart \/ StartActor

Spec == Init /\ [][Next]_vars

\* The actor drives a commit to its end and startup is a loop; the in-process
\* journal answers, a coordinator need not, but the RPC's clock runs
Fairness ==
    /\ WF_vars(Call) /\ WF_vars(kind = "journaled" /\ Handle) /\ WF_vars(Timeout)
    /\ WF_vars(ReserveReturns \/ DispatchReturns \/ AckReturns)
    /\ WF_vars(Apply) /\ WF_vars(FinishRecorded \/ FinishFailed)
    /\ WF_vars(\E e \in Effect : ReconcileTimeout(e)
                  \/ ((kind = "journaled" \/ broken \/ e \in Managed) /\ ReconcileEffect(e)))
    /\ WF_vars(StartActor)

FairSpec == Spec /\ Fairness

-----------------------------------------------------------------------------
(* Properties.                                                             *)

\* The values of the variables; a durable record of Core is an operation not
\* started, one inside its commit, or a settled terminal, never an answer
\* that settles nothing (reconcile_recovered_effect's Ambiguous arm).
TypeOK ==
    /\ kind \in Kinds
    /\ disk \in [Effect -> Entries] /\ mem \in [Effect -> Entries] /\ broken \in BOOLEAN
    /\ world \in [Effect -> {"untouched", "volatile", "durable"}]
    /\ core \in [Effect -> {"none", "open"} \cup Settlements] /\ coreFenced \in BOOLEAN
    /\ pc \in {"idle", "reserve", "dispatch", "apply", "ack", "finish", "finishOwing"}
    /\ cur \in Effect /\ rpc \in {"none", "sent", "ok", "err"} /\ receipt \in Settlements
    /\ turn \in BOOLEAN /\ fence \in BOOLEAN /\ pending \in BOOLEAN
    /\ debts \subseteq Effect /\ owed \subseteq Effect /\ known \subseteq Effect
    /\ ckpts \subseteq [debts : SUBSET Effect, known : SUBSET Effect]
    /\ phase \in {"down", "starting", "ready"} /\ todo \subseteq Effect
    /\ crashes \in 0..MaxCrashes

\* Whatever the reservation journal would answer after a crash at this very
\* moment is true of the target: a lost reply, a frame that landed although
\* its append failed, or the record limit between two steps never turn into
\* a false Applied or NotApplied (ReservationJournal::reconcile).
BrokerEvidenceIsTrue ==
    \A e \in Effect : Definite(Answer(disk[e])) => Truth(Answer(disk[e]), world[e])

\* A durable terminal of Core is true of the target, whether commit_effect
\* wrote it from the receipt or startup wrote it from the journals' evidence
\* in a later process.
TerminalIsTrue ==
    \A e \in Effect : core[e] \in Settlements => Truth(core[e], world[e])

\* The actor accepts no mutation while a debt is unreconciled, across
\* checkpoints, restarts and restores, unless a checkpoint from before the
\* debt was installed in between (restore.rs:79 replaces the live debts, and
\* a restart without a restore starts with none).
DebtHoldsFence ==
    phase = "ready" /\ known \cap owed # {} => fence \/ coreFenced

\* restore.rs:77 installs a checkpoint's debts before the restore is certain,
\* because "any restore failure path fences mutation anyway": an actor with
\* debts is fenced.
DebtsAreFenced == phase = "ready" /\ debts # {} => fence \/ coreFenced

\* A commit returns to the actor and a startup reaches the actor, although
\* the coordinator may never answer (ProcessEffectBroker::rpc).
CallsReturn ==
    /\ pc # "idle" ~> pc = "idle"
    /\ phase = "starting" ~> phase # "starting"
=============================================================================
