--------------------------- MODULE CoreAuthority ---------------------------
(***************************************************************************)
(* The Trusted Core of the agent: the operation registry                   *)
(* (agent-core/src/operation.rs), the authority epoch and the admission,   *)
(* publication, execution and startup paths (kernel/mod.rs), and the       *)
(* commit and rollback of prepared effects (port.rs), over a write-ahead   *)
(* operation journal seen through what a reopening process would fold      *)
(* from it.                                                                *)
(*                                                                         *)
(* Every registry transition holds `transition_gate` (and the epoch checks *)
(* hold `authority_gate`), so it is one atomic step; an await between two  *)
(* of them is a point where every other action may run, and a crash may    *)
(* come between any two steps.                                             *)
(***************************************************************************)
EXTENDS Integers, Sequences, FiniteSets, OperationStates

CONSTANTS
    OpId,             \* operation ids, ordered as the journal sorts them
    ReadOnly,         \* ids whose tool is ToolRisk::ReadOnly
    Direct,           \* ids whose tool acts while it runs (process, remote)
    Capacity,         \* OperationRegistry.capacity
    MaxEpoch,         \* bound on authority epochs, so on restarts
    BrokerMayRefuse   \* whether EffectBroker::reserve may fail

ASSUME OpIdAssumption == OpId \subseteq Int /\ IsFiniteSet(OpId)
ASSUME KindAssumption == ReadOnly \subseteq OpId /\ Direct \subseteq OpId \ ReadOnly
ASSUME CapacityAssumption == Capacity \in Nat \ {0}
ASSUME MaxEpochAssumption == MaxEpoch \in Nat \ {0}
ASSUME BrokerAssumption == BrokerMayRefuse \in BOOLEAN

\* The ids that can reach the world only through an effect Core commits.
Transactional == OpId \ Direct

VARIABLES
    wal,        \* the journal folded: what a reopening process would recover
    walEpoch,   \* the authority epoch folded from the journal
    walFailed,  \* an append was refused or could not be confirmed
    phase,      \* the Core process: "down", "reconciling" or "up"
    epoch,      \* CoreAuthority.authority_epoch
    records,    \* RegistryState.records
    order,      \* RegistryState.terminal_order
    seen,       \* RegistryState.seen
    leases,     \* RegistryState.leases: ids holding an issued lease
    fenced,     \* RegistryState.recovery_required is set
    todo,       \* recovered snapshots the startup pass has not reached
    pc,         \* where the calls that carry an operation's permit stand
    applied     \* how often the operation's effect reached the world

journalVars == <<wal, walEpoch, walFailed>>
registryVars == <<records, order, seen, leases>>
processVars == <<phase, epoch, todo>>
vars == <<journalVars, registryVars, processVars, fenced, pc, applied>>

ReceiptTags == {"NotApplied", "Applied", "DurabilityFailed", "OutcomeUnknown"}

\* A receipt tag as a pc: dispatch returned it, the terminal is not recorded.
PCs == {"idle", "admitted", "published", "approved", "leased", "running",
        "acted", "returned", "unstaging", "value", "held", "committing", "begun",
        "reserved", "settling", "aborting", "rejected", "done"} \cup ReceiptTags

-----------------------------------------------------------------------------
(* The registry *)

\* Mutant: a restart reuses the recovered epoch.
NextEpoch_Reused(e) == e

\* checked_add(1) on the authority epoch.
NextEpoch(e) == e + 1

Live == {o \in OpId : IsPresent(records[o])}

\* evict_terminal_until_fit: ids popped off terminal_order, oldest first,
\* until a slot is free or the queue is empty.
Popped(recs, ord, k) == {ord[i] : i \in 1..k} \cap {o \in OpId : IsTerminal(recs[o])}

\* The loop's exit after k pops: the queue is empty or a slot is free.
FitsAfter(recs, ord, k) ==
    \/ k = Len(ord)
    \/ Cardinality({o \in OpId : IsPresent(recs[o])} \ Popped(recs, ord, k)) < Capacity

\* The (one) number of ids the loop pops.
EvictCounts(recs, ord) ==
    {k \in 0..Len(ord) : FitsAfter(recs, ord, k) /\ \A j \in 0..(k - 1) : ~FitsAfter(recs, ord, j)}

EvictRecords(recs, ord, k) ==
    [o \in OpId |-> IF o \in Popped(recs, ord, k) THEN Absent ELSE recs[o]]

EvictOrder(ord, k) == SubSeq(ord, k + 1, Len(ord))

\* has_capacity_or_evictable_terminal
HasCapacity ==
    \/ Cardinality(Live) < Capacity
    \/ \E i \in 1..Len(order) : IsTerminal(records[order[i]])

\* Neither known nor seen: the tombstone filter outlives eviction.  (A
\* filter collision only refuses more.)
Unadmitted(o) == ~IsPresent(records[o]) /\ o \notin seen

\* Mutant: the map is replaced without the append.
Publish_MapOnly(o, s) ==
    /\ records' = [records EXCEPT ![o] = s]
    /\ UNCHANGED <<journalVars, order, seen, leases, fenced>>

\* append_and_sync returned Ok, then the map is replaced (transition).
Publish(o, s) ==
    /\ wal' = [wal EXCEPT ![o] = s]
    /\ records' = [records EXCEPT ![o] = s]
    /\ UNCHANGED <<walEpoch, walFailed, order, seen, leases, fenced>>

\* finish_terminal and recover_terminal.
PublishTerminal(o, s) ==
    /\ wal' = [wal EXCEPT ![o] = s]
    /\ records' = [records EXCEPT ![o] = s]
    /\ leases' = leases \ {o}
    /\ order' = Append(order, o)
    /\ UNCHANGED <<walEpoch, walFailed, seen>>

\* The insertion that ends accept and cancel: append, make room for one
\* record, insert it.
Insert(o, s, queued, unleased) ==
    /\ wal' = [wal EXCEPT ![o] = s]
    /\ \E k \in EvictCounts(records, order) :
          /\ records' = [EvictRecords(records, order, k) EXCEPT ![o] = s]
          /\ order' = EvictOrder(order, k) \o queued
          /\ leases' = (leases \ Popped(records, order, k)) \ unleased
    /\ seen' = seen \cup {o}
    /\ UNCHANGED <<walFailed, fenced>>

\* Mutant: the error is returned but Core is not fenced.
AppendFails_NoFence(o, s) ==
    /\ wal' \in {wal, [wal EXCEPT ![o] = s]}
    /\ walFailed' = TRUE
    /\ UNCHANGED <<walEpoch, registryVars, fenced>>

\* append_and_sync returned an error (append_transition): the registry is
\* fenced and keeps its map.  Whether the record reached the disk is unknown.
AppendFails(o, s) ==
    /\ wal' \in {wal, [wal EXCEPT ![o] = s]}
    /\ walFailed' = TRUE
    /\ fenced' = TRUE
    /\ UNCHANGED <<walEpoch, registryVars>>

\* A call that returns an error before it appends anything.
NoWrite == UNCHANGED <<journalVars, registryVars, fenced>>

\* Mutant: the append's error is not propagated.
Transition_IgnoresError(o, s, ok, err) ==
    (Publish(o, s) \/ AppendFails(o, s)) /\ pc' = [pc EXCEPT ![o] = ok]

\* A transition to s under the gates, ending at pc `ok`, or at `err` when
\* the append fails.
Transition(o, s, ok, err) ==
    \/ Publish(o, s) /\ pc' = [pc EXCEPT ![o] = ok]
    \/ AppendFails(o, s) /\ pc' = [pc EXCEPT ![o] = err]

\* The same for a terminal state.
Finish(o, s, ok, err) ==
    \/ PublishTerminal(o, s) /\ UNCHANGED fenced /\ pc' = [pc EXCEPT ![o] = ok]
    \/ AppendFails(o, s) /\ pc' = [pc EXCEPT ![o] = err]

\* Mutant: the terminal forgets the reserved effect id.
CancelledBeforeCommit_NoEffect(o) ==
    IF IsPresent(records[o])
    THEN Terminal(records[o], FALSE, "Cancelled")
    ELSE Terminal(Accepted(epoch), FALSE, "Cancelled")

\* The terminal that cancel writes: of an unknown id it is a reservation.
CancelledBeforeCommit(o) ==
    IF IsPresent(records[o])
    THEN Terminal(records[o], records[o].eff, "Cancelled")
    ELSE Terminal(Accepted(epoch), FALSE, "Cancelled")

\* Mutant: a claimed commit slot can still be cancelled.
Cancellable_AfterCommit(o) ==
    /\ ~fenced
    /\ \/ records[o].tag \in {"Accepted", "Executing", "Prepared", "CommitStarted"}
       \/ Unadmitted(o) /\ HasCapacity

\* cancel writes only before the commit slot is claimed.
Cancellable(o) ==
    /\ ~fenced
    /\ \/ records[o].tag \in {"Accepted", "Executing", "Prepared"}
       \/ Unadmitted(o) /\ HasCapacity

CancelWrites(o) == Insert(o, CancelledBeforeCommit(o), <<o>>, {o})

\* Mutant: the error path returns without cancelling.
TryCancel_Skipped(o) == NoWrite

\* A cancel whose result the caller ignores.
TryCancel(o) ==
    \/ Cancellable(o) /\ CancelWrites(o) /\ UNCHANGED walEpoch
    \/ Cancellable(o) /\ AppendFails(o, CancelledBeforeCommit(o))
    \/ ~Cancellable(o) /\ NoWrite

\* A cancel whose error makes the caller require recovery.
MustCancel(o) ==
    \/ Cancellable(o) /\ CancelWrites(o) /\ UNCHANGED walEpoch
    \/ Cancellable(o) /\ AppendFails(o, CancelledBeforeCommit(o))
    \/ records[o].tag = "Cancelled" /\ NoWrite
    \/ /\ ~Cancellable(o)
       /\ records[o].tag # "Cancelled"
       /\ fenced' = TRUE
       /\ UNCHANGED <<journalVars, registryVars>>

\* abort_prepared_operation: cancel, but only the exact prepared effect.
AbortPrepared(o) ==
    \/ records[o].tag \in {"Prepared", "Cancelled"} /\ records[o].eff /\ MustCancel(o)
    \/ /\ ~(records[o].tag \in {"Prepared", "Cancelled"} /\ records[o].eff)
       /\ fenced' = TRUE
       /\ UNCHANGED <<journalVars, registryVars>>

-----------------------------------------------------------------------------
(* Admission and publication *)

\* admit_tool_operation and accept.  A known or seen id, a stale generation
\* and a full registry return without a state change.
Admit(o) ==
    /\ phase = "up" /\ ~fenced
    /\ Unadmitted(o) /\ HasCapacity
    /\ \/ /\ Insert(o, Accepted(epoch), <<>>, {})
          /\ pc' = [pc EXCEPT ![o] = "admitted"]
          /\ UNCHANGED walEpoch
       \/ AppendFails(o, Accepted(epoch)) /\ UNCHANGED pc
    /\ UNCHANGED <<processVars, applied>>

\* publish_tool_operation: both lifecycle events went out, or an event
\* failed and the undispatched operation is cancelled, or the operation is
\* no longer exactly Accepted and the permit is dropped.
PublishOperation(o) ==
    /\ phase = "up" /\ pc[o] = "admitted"
    /\ \/ /\ records[o].tag = "Accepted"
          /\ pc' = [pc EXCEPT ![o] = "published"] /\ NoWrite
       \/ /\ records[o].tag = "Accepted"
          /\ pc' = [pc EXCEPT ![o] = "done"] /\ TryCancel(o)
       \/ /\ records[o].tag # "Accepted"
          /\ pc' = [pc EXCEPT ![o] = "done"] /\ NoWrite
    /\ UNCHANGED <<processVars, applied>>

\* Runtime drops an admitted or published permit without dispatching it
\* (abort_admitted_tool_before_dispatch).
AbandonPermit(o) ==
    /\ phase = "up" /\ pc[o] \in {"admitted", "published"}
    /\ TryCancel(o)
    /\ pc' = [pc EXCEPT ![o] = "done"]
    /\ UNCHANGED <<processVars, applied>>

-----------------------------------------------------------------------------
(* execute_published_tool *)

\* The wait in the approval gate ends here: surface, schema, approval and
\* shadow verdicts are the environment's choice.  A refusal is recorded from
\* Accepted only; a stale epoch or the cancellation token cancels.
Authorize(o) ==
    /\ phase = "up" /\ pc[o] = "published"
    /\ \/ ~fenced /\ wal[o].gen = epoch
          /\ pc' = [pc EXCEPT ![o] = "approved"] /\ NoWrite
       \/ ~fenced /\ records[o].tag = "Accepted"
          /\ Finish(o, Terminal(records[o], FALSE, "Refused"), "done", "done")
       \/ ~fenced /\ TryCancel(o) /\ pc' = [pc EXCEPT ![o] = "done"]
       \/ fenced /\ NoWrite /\ pc' = [pc EXCEPT ![o] = "done"]
    /\ UNCHANGED <<processVars, applied>>

\* Mint and record the authority lease of a side-effecting call.
RecordLease(o) ==
    /\ phase = "up" /\ pc[o] = "approved"
    /\ \/ /\ o \in ReadOnly
          /\ pc' = [pc EXCEPT ![o] = "leased"] /\ UNCHANGED leases
       \/ /\ o \notin ReadOnly /\ ~fenced /\ records[o].tag = "Accepted"
          /\ pc' = [pc EXCEPT ![o] = "leased"] /\ leases' = leases \cup {o}
       \/ /\ o \notin ReadOnly /\ (fenced \/ records[o].tag # "Accepted")
          /\ pc' = [pc EXCEPT ![o] = "done"] /\ UNCHANGED leases
    /\ UNCHANGED <<journalVars, records, order, seen, fenced, processVars, applied>>

\* mark_operation_executing_if_current: the last epoch check before the tool
\* body, which also reserves the effect id of a side-effecting call.
MarkExecuting(o) ==
    /\ phase = "up" /\ pc[o] = "leased"
    /\ \/ /\ ~fenced /\ wal[o].gen = epoch /\ records[o].tag = "Accepted"
          /\ Transition(o, Executing(records[o], o \notin ReadOnly), "running", "done")
       \/ /\ fenced \/ wal[o].gen # epoch \/ records[o].tag # "Accepted"
          /\ TryCancel(o) /\ pc' = [pc EXCEPT ![o] = "done"]
    /\ UNCHANGED <<processVars, applied>>

\* ToolExecutionRequest::validate refuses the request it was just built
\* from: the executing operation is cancelled before its tool starts.
RejectRequest(o) ==
    /\ phase = "up" /\ pc[o] = "running"
    /\ TryCancel(o)
    /\ pc' = [pc EXCEPT ![o] = "done"]
    /\ UNCHANGED <<processVars, applied>>

\* A direct tool's body acts on the world while it runs.
DirectEffect(o) ==
    /\ phase = "up" /\ pc[o] = "running" /\ o \in Direct
    /\ applied' = [applied EXCEPT ![o] = @ + 1]
    /\ pc' = [pc EXCEPT ![o] = "acted"]
    /\ UNCHANGED <<journalVars, registryVars, processVars, fenced>>

\* tools.execute returns: a value or an ordinary error, a RecoveryRequired
\* error (which fences), or a prepared effect.
ToolReturns(o) ==
    /\ phase = "up" /\ pc[o] \in {"running", "acted"}
    /\ \/ pc' = [pc EXCEPT ![o] = "value"] /\ UNCHANGED fenced
       \/ pc' = [pc EXCEPT ![o] = "value"] /\ fenced' = TRUE
       \/ /\ o \notin Direct
          /\ pc' = [pc EXCEPT ![o] = "returned"] /\ UNCHANGED fenced
    /\ UNCHANGED <<journalVars, registryVars, processVars, applied>>

\* mark_prepared.  A cancelled, evicted or read-only operation refuses it
\* and the staged effect has to be unstaged.
MarkPrepared(o) ==
    /\ phase = "up" /\ pc[o] = "returned"
    /\ \/ /\ ~fenced /\ records[o].tag = "Executing" /\ records[o].eff
          /\ Transition(o, Prepared(records[o]), "held", "unstaging")
       \/ /\ fenced \/ records[o].tag # "Executing" \/ ~records[o].eff
          /\ pc' = [pc EXCEPT ![o] = "unstaging"] /\ NoWrite
    /\ UNCHANGED <<processVars, applied>>

\* The rollback after a refused preparation: its failure, or a cancel that
\* fails after it, fences.
Unstage(o) ==
    /\ phase = "up" /\ pc[o] = "unstaging"
    /\ \/ MustCancel(o)
       \/ fenced' = TRUE /\ UNCHANGED <<journalVars, registryVars>>
    /\ pc' = [pc EXCEPT ![o] = "done"]
    /\ UNCHANGED <<processVars, applied>>

\* finish_value_operation_if_current; Runtime cancels a stale completion
\* instead (actor/tools.rs).
FinishValue(o) ==
    /\ phase = "up" /\ pc[o] = "value"
    /\ \/ /\ ~fenced /\ wal[o].gen = epoch /\ records[o].tag = "Executing"
          /\ Finish(o, Terminal(records[o], FALSE, "CompletedValue"), "done", "done")
       \/ /\ wal[o].gen = epoch /\ (fenced \/ records[o].tag # "Executing")
          /\ pc' = [pc EXCEPT ![o] = "done"] /\ NoWrite
       \/ wal[o].gen # epoch /\ TryCancel(o) /\ pc' = [pc EXCEPT ![o] = "done"]
    /\ UNCHANGED <<processVars, applied>>

-----------------------------------------------------------------------------
(* commit_effect and rollback_effect *)

\* operation_needs_rollback_terminal, read before the rollback is awaited.
NeedsRollbackTerminal(o) == records[o].tag \in {"Prepared", "Cancelled"} /\ records[o].eff

\* Into settle_rejected_effect.
Reject(o) ==
    /\ pc' = [pc EXCEPT ![o] = IF NeedsRollbackTerminal(o) THEN "aborting" ELSE "settling"]
    /\ NoWrite

\* The checks that precede the commit slot.  Behind the fence the effect is
\* rolled back and nothing is recorded; a lease that is gone, expired or
\* revoked, or writes outside the approved intent, reject the commit.
CommitEffect(o) ==
    /\ phase = "up" /\ pc[o] = "held"
    /\ \/ fenced /\ NoWrite /\ pc' = [pc EXCEPT ![o] = "done"]
       \/ ~fenced /\ o \in leases /\ NoWrite /\ pc' = [pc EXCEPT ![o] = "committing"]
       \/ ~fenced /\ Reject(o)
    /\ UNCHANGED <<processVars, applied>>

\* begin_operation_commit_if_current: claim the only commit slot.
BeginCommit(o) ==
    /\ phase = "up" /\ pc[o] = "committing"
    /\ \/ /\ ~fenced /\ wal[o].gen = epoch /\ records[o].tag = "Prepared"
          /\ Transition(o, CommitStarted(records[o]), "begun", "aborting")
       \/ /\ fenced \/ wal[o].gen # epoch \/ records[o].tag # "Prepared"
          /\ Reject(o)
    /\ UNCHANGED <<processVars, applied>>

\* EffectBroker::reserve.
Reserve(o) ==
    /\ phase = "up" /\ pc[o] = "begun"
    /\ \/ pc' = [pc EXCEPT ![o] = "reserved"] /\ NoWrite
       \/ BrokerMayRefuse /\ Reject(o)
    /\ UNCHANGED <<processVars, applied>>

\* EffectBroker::dispatch: the effect body commits and answers a receipt.
\* The acknowledgement to the broker changes no state of Core.
Dispatch(o) ==
    /\ phase = "up" /\ pc[o] = "reserved"
    /\ \/ /\ applied' = [applied EXCEPT ![o] = @ + 1]
          /\ \E r \in ReceiptTags \ {"NotApplied"} : pc' = [pc EXCEPT ![o] = r]
       \/ /\ UNCHANGED applied
          /\ \E r \in {"NotApplied", "OutcomeUnknown"} : pc' = [pc EXCEPT ![o] = r]
    /\ UNCHANGED <<journalVars, registryVars, processVars, fenced>>

\* finish_operation_effect: the terminal record that carries the receipt.
FinishEffect(o) ==
    /\ phase = "up" /\ pc[o] \in ReceiptTags
    /\ \/ /\ ~fenced /\ records[o].tag = "CommitStarted"
          /\ Finish(o, Terminal(records[o], TRUE, pc[o]), "done", "done")
       \/ /\ fenced \/ records[o].tag # "CommitStarted"
          /\ pc' = [pc EXCEPT ![o] = "done"] /\ NoWrite
    /\ UNCHANGED <<processVars, applied>>

\* The rest of settle_rejected_effect: the rollback fails and fences, or it
\* succeeds and the terminal found necessary before it is recorded.
SettleRejected(o) ==
    /\ phase = "up" /\ pc[o] \in {"settling", "aborting"}
    /\ \/ fenced' = TRUE /\ UNCHANGED <<journalVars, registryVars>>
       \/ pc[o] = "settling" /\ NoWrite
       \/ pc[o] = "aborting" /\ AbortPrepared(o)
    /\ pc' = [pc EXCEPT ![o] = "rejected"]
    /\ UNCHANGED <<processVars, applied>>

\* rollback_effect: Runtime found the completion stale.
RollbackEffect(o) ==
    /\ phase = "up" /\ pc[o] = "held"
    /\ \/ fenced' = TRUE /\ UNCHANGED <<journalVars, registryVars>>
       \/ AbortPrepared(o)
    /\ pc' = [pc EXCEPT ![o] = "done"]
    /\ UNCHANGED <<processVars, applied>>

-----------------------------------------------------------------------------
(* Cancellation and the epoch fence *)

\* cancel_operation, at any moment of the operation's life; of an id that
\* was never admitted it leaves a reservation.
CancelOperation(o) ==
    /\ phase = "up" /\ Cancellable(o)
    /\ TryCancel(o)
    /\ UNCHANGED <<processVars, pc, applied>>

\* cancel_operation_and_advance: two appends under one pair of gates.  The
\* process publishes neither unless both succeed.
CancelAndAdvance(o) ==
    /\ phase = "up" /\ epoch < MaxEpoch /\ Cancellable(o)
    /\ \/ /\ CancelWrites(o)
          /\ walEpoch' = NextEpoch(epoch) /\ epoch' = NextEpoch(epoch)
       \/ /\ \/ walEpoch' \in {walEpoch, NextEpoch(epoch)} /\ wal' = wal
             \/ walEpoch' = NextEpoch(epoch) /\ wal' = [wal EXCEPT ![o] = CancelledBeforeCommit(o)]
          /\ walFailed' = TRUE /\ fenced' = TRUE
          /\ UNCHANGED <<registryVars, epoch>>
    /\ UNCHANGED <<phase, todo, pc, applied>>

\* advance_authority_epoch
AdvanceEpoch ==
    /\ phase = "up" /\ ~fenced /\ epoch < MaxEpoch
    /\ \/ /\ walEpoch' = NextEpoch(epoch) /\ epoch' = NextEpoch(epoch)
          /\ UNCHANGED <<walFailed, fenced>>
       \/ /\ walEpoch' \in {walEpoch, NextEpoch(epoch)}
          /\ walFailed' = TRUE /\ fenced' = TRUE /\ UNCHANGED epoch
    /\ UNCHANGED <<wal, registryVars, phase, todo, pc, applied>>

-----------------------------------------------------------------------------
(* Crash and startup *)

\* The process dies: the journal and the world are what is left.
Crash ==
    /\ phase # "down"
    /\ phase' = "down" /\ epoch' = 0 /\ todo' = {}
    /\ records' = [o \in OpId |-> Absent] /\ order' = <<>>
    /\ seen' = {} /\ leases' = {} /\ fenced' = FALSE /\ walFailed' = FALSE
    /\ pc' = [o \in OpId |-> "idle"]
    /\ UNCHANGED <<wal, walEpoch, applied>>

Unresolved == {o \in OpId : IsOpen(wal[o])}
Settled == {o \in OpId : IsTerminal(wal[o])}

\* The recovered terminals in the order the journal reports them.
SortedById(S) ==
    {s \in [1..Cardinality(S) -> S] : \A i, j \in DOMAIN s : i < j => s[i] < s[j]}

\* try_new up to the durable epoch advance: fold the journal, evict down to
\* capacity, fence every actor of the dead process.
Restart ==
    /\ phase = "down" /\ walEpoch < MaxEpoch
    /\ Cardinality(Unresolved) <= Capacity
    /\ walEpoch' = NextEpoch(walEpoch) /\ epoch' = NextEpoch(walEpoch)
    /\ \E ord \in SortedById(Settled) : \E k \in EvictCounts(wal, ord) :
          /\ records' = EvictRecords(wal, ord, k)
          /\ order' = EvictOrder(ord, k)
          /\ todo' = {o \in OpId : IsPresent(wal[o])} \ Popped(wal, ord, k)
    /\ seen' = {o \in OpId : IsPresent(wal[o])}
    /\ phase' = "reconciling"
    /\ UNCHANGED <<wal, walFailed, leases, fenced, pc, applied>>

\* The epoch advance of a starting process is refused after it was written.
RestartFails ==
    /\ phase = "down" /\ walEpoch < MaxEpoch
    /\ walEpoch' = NextEpoch(walEpoch)
    /\ UNCHANGED <<wal, walFailed, registryVars, processVars, fenced, pc, applied>>

\* What the recovery adapters may answer about an open effect.  A direct
\* tool's journal and a committed transaction's journal answer truthfully or
\* not at all; before CommitStarted an adapter may also claim Applied.
Evidence(o) ==
    {"Ambiguous", "CompletedValue"}
      \cup (IF applied[o] = 0 THEN {"NotApplied"} ELSE {})
      \cup (IF o \notin Direct /\ (applied[o] > 0 \/ records[o].tag # "CommitStarted")
            THEN {"Applied", "DurabilityFailed"} ELSE {})

\* Mutant: the adapter's answer is recorded verbatim.
ReconciledTag_Verbatim(s, ev) == ev

\* Mutant: no early_application check.
ReconciledTag_KeepsDurability(s, ev) ==
    CASE ev \in {"NotApplied", "Applied", "DurabilityFailed"} -> ev
      [] ev = "CompletedValue" /\ s.tag = "Executing" -> ev
      [] OTHER -> "none"

\* reconcile_recovered_effect: the terminal that evidence ev proves, or
\* "none" when the operation stays open behind the fence.
ReconciledTag(s, ev) ==
    CASE ev = "NotApplied" -> "NotApplied"
      [] ev \in {"Applied", "DurabilityFailed"} ->
            IF s.tag = "CommitStarted" THEN ev ELSE "DurabilityFailed"
      [] ev = "CompletedValue" ->
            IF s.tag = "Executing" THEN "CompletedValue" ELSE "none"
      [] OTHER -> "none"

\* Mutant: only unknown outcomes fence.
RequiresRecovery_UnknownOnly(tag) == tag = "OutcomeUnknown"

\* Recovered terminals that keep Core fenced until an operator resolves them.
RequiresRecovery(tag) == tag \in {"OutcomeUnknown", "DurabilityFailed"}

\* recover_terminal, which passes a fence that is already installed; an
\* append failure fences and ends the pass.
RecoverTerminal(o, s, fence) ==
    \/ PublishTerminal(o, s) /\ fenced' = (fenced \/ fence) /\ todo' = todo \ {o}
    \/ AppendFails(o, s) /\ todo' = {}

\* One turn of reconcile_recovered_operations, in operation id order.
Reconcile(o) ==
    /\ phase = "reconciling" /\ o \in todo /\ \A q \in todo : o <= q
    /\ \/ /\ IsTerminal(records[o])
          /\ fenced' = (fenced \/ RequiresRecovery(records[o].tag))
          /\ todo' = todo \ {o} /\ UNCHANGED <<journalVars, registryVars>>
       \/ /\ records[o].tag \in {"Accepted", "Executing"} /\ ~records[o].eff
          /\ RecoverTerminal(o, Terminal(records[o], FALSE, "Cancelled"), FALSE)
       \/ /\ IsOpen(records[o]) /\ records[o].eff
          /\ \E ev \in Evidence(o) :
                LET tag == ReconciledTag(records[o], ev) IN
                \/ /\ tag # "none"
                   /\ RecoverTerminal(o, Terminal(records[o], TRUE, tag), tag = "DurabilityFailed")
                \/ /\ tag = "none" /\ fenced' = TRUE
                   /\ todo' = todo \ {o} /\ UNCHANGED <<journalVars, registryVars>>
    /\ UNCHANGED <<phase, epoch, pc, applied>>

\* recover_orphans, then Core is published to Runtime.
FinishStartup ==
    /\ phase = "reconciling" /\ todo = {}
    /\ phase' = "up"
    /\ fenced' \in {fenced, TRUE}
    /\ UNCHANGED <<journalVars, registryVars, epoch, todo, pc, applied>>

-----------------------------------------------------------------------------
\* A new journal: recovery defaults, no process yet.
Init ==
    /\ wal = [o \in OpId |-> Absent] /\ walEpoch = 1 /\ walFailed = FALSE
    /\ phase = "down" /\ epoch = 0 /\ todo = {}
    /\ records = [o \in OpId |-> Absent] /\ order = <<>>
    /\ seen = {} /\ leases = {} /\ fenced = FALSE
    /\ pc = [o \in OpId |-> "idle"]
    /\ applied = [o \in OpId |-> 0]

CallStep(o) ==
    \/ Admit(o) \/ PublishOperation(o) \/ AbandonPermit(o) \/ Authorize(o)
    \/ RecordLease(o) \/ MarkExecuting(o) \/ DirectEffect(o) \/ ToolReturns(o)
    \/ MarkPrepared(o) \/ Unstage(o) \/ FinishValue(o) \/ RejectRequest(o)

CommitStep(o) ==
    \/ CommitEffect(o) \/ BeginCommit(o) \/ Reserve(o) \/ Dispatch(o)
    \/ FinishEffect(o) \/ SettleRejected(o) \/ RollbackEffect(o)

Next ==
    \/ \E o \in OpId : \/ CallStep(o) \/ CommitStep(o)
                       \/ CancelOperation(o) \/ CancelAndAdvance(o) \/ Reconcile(o)
    \/ AdvanceEpoch \/ Crash \/ Restart \/ RestartFails \/ FinishStartup

Spec == Init /\ [][Next]_vars

\* The broker, the effect body and Core's own bookkeeping run to an answer
\* once a commit slot is claimed, and the startup pass is a finite loop.
FairSpec ==
    /\ Spec
    /\ \A o \in OpId : WF_vars(Reserve(o)) /\ WF_vars(Dispatch(o)) /\ WF_vars(FinishEffect(o))
    /\ WF_vars(\E o \in OpId : Reconcile(o)) /\ WF_vars(FinishStartup)

-----------------------------------------------------------------------------
(* Properties *)

\* Every variable has the shape the code gives it.
TypeOK ==
    /\ wal \in [OpId -> OpStates] /\ records \in [OpId -> OpStates]
    /\ walEpoch \in 1..MaxEpoch /\ epoch \in 0..MaxEpoch
    /\ walFailed \in BOOLEAN /\ fenced \in BOOLEAN
    /\ phase \in {"down", "reconciling", "up"}
    /\ order \in Seq(OpId) /\ seen \subseteq OpId /\ leases \subseteq OpId
    /\ todo \subseteq OpId
    /\ pc \in [OpId -> PCs] /\ applied \in [OpId -> Nat]

\* WAL-first (append_transition): while no append has failed, a running Core
\* answers from exactly what a restart would recover - each retained record
\* equals the durable one, and an id it no longer holds is durably settled
\* and still refused by the tombstone filter.  A failed append leaves Core
\* fenced, so nothing is built on the difference.
JournalFirst ==
    phase # "down" =>
        IF walFailed THEN fenced
        ELSE /\ epoch = walEpoch
             /\ \A o \in OpId :
                   IF IsPresent(records[o]) THEN records[o] = wal[o]
                   ELSE ~IsOpen(wal[o]) /\ (IsPresent(wal[o]) => o \in seen)

\* "never dispatches twice" (accept): no sequence of retries, evictions,
\* cancellations, crashes and restarts applies an operation's effect twice.
AtMostOnce == \A o \in OpId : applied[o] <= 1

\* The commit barrier of commit_effect: an effect in the world has a durable
\* CommitStarted behind it, so no later record may say it was cancelled,
\* refused or not applied.
NoEffectBeforeCommit ==
    \A o \in Transactional :
        applied[o] > 0 =>
            wal[o].tag \in {"CommitStarted", "Applied", "DurabilityFailed", "OutcomeUnknown"}

\* A clean Applied terminal, written by finish_effect or by startup
\* reconciliation, is never recorded for an effect that did not happen.
AppliedIsTrue == \A o \in OpId : wal[o].tag = "Applied" => applied[o] = 1

\* An unfenced Core holds no open operation that no live call will settle,
\* whether left by an earlier process (reconcile_recovered_operations) or by
\* a call of this one that already returned (the cancel on every early exit
\* of execute_published_tool).
OpenIsOwned ==
    phase = "up" /\ ~fenced =>
        \A o \in OpId : IsOpen(wal[o]) => pc[o] \notin {"idle", "done", "rejected"}

\* try_new fences old actors first: an open operation of a dead process
\* carries a generation below the epoch every commit is checked against.
DeadGenerationIsStale ==
    phase # "down" =>
        \A o \in OpId : IsOpen(wal[o]) /\ pc[o] = "idle" => walFailed \/ wal[o].gen < epoch

\* reconcile_recovered_operations: a Core that starts over a journal holding
\* an unknown or not durably applied outcome is fenced.
UnknownOutcomeFences ==
    phase = "up" /\ ~fenced =>
        \A o \in OpId : pc[o] = "idle" => wal[o].tag \notin {"OutcomeUnknown", "DurabilityFailed"}

\* Whatever Core appends, the journal's reader accepts at the next start
\* (fold_operation_record): identity kept, state monotonic.
JournalStaysReadable ==
    [][\A o \in OpId : wal'[o] # wal[o] => ValidRecoveredTransition(wal[o], wal'[o])]_vars

-----------------------------------------------------------------------------
(* The inductive invariant behind the safety properties *)

\* A dead process holds nothing, calls exist only after startup, and a
\* failed append ends the startup pass.
PhaseInv ==
    /\ phase = "down" => ~walFailed
    /\ phase # "up" => \A o \in OpId : pc[o] = "idle"
    /\ phase = "reconciling" /\ walFailed => todo = {}

\* The tombstone filter covers every retained record.
SeenInv == phase # "down" => \A o \in OpId : IsPresent(records[o]) => o \in seen

\* What the position of an operation's calls says about its durable record
\* and the world.
CallInv(o) ==
    /\ pc[o] # "idle" \/ applied[o] > 0 => IsPresent(wal[o])
    /\ pc[o] \in {"admitted", "published", "approved", "leased", "running"} => applied[o] = 0
    /\ o \in Direct =>
          pc[o] \in {"idle", "admitted", "published", "approved", "leased", "running",
                    "acted", "value", "done"}
    /\ pc[o] \in {"begun", "reserved"} \cup ReceiptTags =>
          wal[o].tag = "CommitStarted" /\ records[o].tag = "CommitStarted"
    /\ pc[o] \in {"begun", "reserved", "NotApplied"} => applied[o] = 0
    /\ pc[o] \in {"Applied", "DurabilityFailed"} => applied[o] = 1

\* The effect id appears with Executing and stays.
ShapeInv(o) ==
    /\ wal[o].tag = "Accepted" => ~wal[o].eff
    /\ wal[o].tag \in {"Prepared", "CommitStarted"} => wal[o].eff

EffectInv ==
    /\ PhaseInv /\ SeenInv /\ JournalFirst
    /\ AtMostOnce /\ NoEffectBeforeCommit /\ AppliedIsTrue
    /\ \A o \in OpId : CallInv(o) /\ ShapeInv(o)

\* The durable truth about an effect, for AtMostOnceEffect.
Truth(s) ==
    CASE s.tag = "Absent" -> "unseen"
      [] s.tag \in {"Accepted", "Executing", "Prepared"} -> "open"
      [] s.tag = "CommitStarted" -> "claimed"
      [] s.tag = "Applied" -> "applied"
      [] s.tag \in {"DurabilityFailed", "OutcomeUnknown"} -> "uncertain"
      [] OTHER -> "withheld"

Effects == INSTANCE AtMostOnceEffect WITH
               Ids <- Transactional,
               truth <- [o \in Transactional |-> Truth(wal[o])],
               applied <- [o \in Transactional |-> applied[o]]

\* Core's durable records and the world implement AtMostOnceEffect: claims,
\* applications and settlements happen in its order, across crashes.
ImplementsAtMostOnce == Effects!Spec

\* A claimed commit slot does not stay open: unless Core is fenced or dies,
\* the receipt becomes a durable terminal (commit_effect).
CommitSettles ==
    \A o \in OpId :
        pc[o] = "begun" ~> (IsTerminal(wal[o]) \/ fenced \/ phase = "down")

\* A process that passed its epoch advance finishes its startup pass or
\* dies (reconcile_recovered_operations is finite).
StartupFinishes == phase = "reconciling" ~> phase # "reconciling"

\* Core does not hang with a claimed slot or in its startup pass.
CoreProgress == CommitSettles /\ StartupFinishes
=============================================================================
