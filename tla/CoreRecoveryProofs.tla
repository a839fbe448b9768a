------------------------- MODULE CoreRecoveryProofs -------------------------
(***************************************************************************)
(* What Core's fence and its startup pass guarantee about the operations   *)
(* that a process leaves behind, for any set of operations, capacity and   *)
(* epoch bound.                                                            *)
(***************************************************************************)
EXTENDS CoreAuthorityProofs

-----------------------------------------------------------------------------
(* The inductive invariant, on top of EffectInv *)

\* No process is ahead of the journal's epoch, no record is, and the open
\* records without a live call are behind the process.
GenerationInv ==
    /\ epoch <= walEpoch
    /\ \A o \in OpId : IsPresent(wal[o]) => wal[o].gen <= walEpoch
    /\ DeadGenerationIsStale

\* The calls that will settle an operation with the open tag t.
Owns(p, t) ==
    \/ t = "Accepted" /\ p \in {"admitted", "published", "approved", "leased"}
    \/ t = "Executing" /\ p \in {"running", "acted", "value", "returned", "unstaging"}
    \/ t = "Prepared" /\ p \in {"held", "committing", "aborting"}
    \/ t = "CommitStarted" /\ p \in {"begun", "reserved"} \cup ReceiptTags

OwnedBy(o) == IsOpen(wal[o]) => Owns(pc[o], wal[o].tag)

\* An unfenced Core has a live call behind every open operation; while it
\* starts, the open operations are those the startup pass has still to reach.
\* (A broker that refuses after the commit slot was claimed breaks this.)
OwnerInv ==
    ~BrokerMayRefuse =>
        /\ phase = "up" /\ ~fenced => \A o \in OpId : OwnedBy(o)
        /\ phase = "reconciling" /\ ~fenced => \A o \in OpId : IsOpen(wal[o]) => o \in todo

\* The same for recovered outcomes that need an operator, unless startup had
\* to evict them.
KnownInv ==
    Cardinality(OpId) < Capacity =>
        /\ UnknownOutcomeFences
        /\ phase = "reconciling" /\ ~fenced =>
              \A o \in OpId : RequiresRecovery(wal[o].tag) => o \in todo

RecoveryInv == GenerationInv /\ OwnerInv /\ KnownInv

-----------------------------------------------------------------------------
(* What the registry's helpers do to the fence and to the journal *)

\* A step about o that leaves the phase, the epochs and the other operations
\* alone, and lowers neither the fence nor the journal's failure.
Acts(o) ==
    /\ UNCHANGED <<phase, epoch, todo, walEpoch>>
    /\ (fenced => fenced') /\ (walFailed => walFailed')
    /\ \A q \in OpId \ {o} : wal'[q] = wal[q] /\ pc'[q] = pc[q]

\* Behind no fence, the registry's record is the durable one.
LEMMA OpenExact ==
    ASSUME Running, ~fenced, NEW o \in OpId
    PROVE  /\ ~walFailed /\ epoch = walEpoch
           /\ IsPresent(records[o]) => records[o] = wal[o]
           /\ IsOpen(wal[o]) => records[o] = wal[o]
BY DEF Running, EffectInv, JournalFirst

\* An operation that a call is about has a durable record.
LEMMA CalledIsPresent ==
    ASSUME EffectInv, NEW o \in OpId, pc[o] # "idle"
    PROVE  IsPresent(wal[o])
BY DEF EffectInv, CallInv

\* A call that writes nothing, fencing or not.
LEMMA QuietOutcome ==
    ASSUME NoWrite \/ (fenced' = TRUE /\ UNCHANGED <<journalVars, registryVars>>)
    PROVE  UNCHANGED <<wal, walEpoch, walFailed>> /\ (fenced => fenced')
BY DEF NoWrite, journalVars

\* A transition is recorded, or Core is fenced.
LEMMA TransitionOutcome ==
    ASSUME TypeOK, NEW o \in OpId, NEW s, NEW ok, NEW err,
           Transition(o, s, ok, err) \/ Finish(o, s, ok, err)
    PROVE  /\ walEpoch' = walEpoch /\ (fenced => fenced') /\ (walFailed => walFailed')
           /\ \A q \in OpId \ {o} : wal'[q] = wal[q] /\ pc'[q] = pc[q]
           /\ \/ wal'[o] = s /\ pc'[o] = ok
              \/ fenced' /\ wal'[o] \in {wal[o], s} /\ pc'[o] = err
<1>1. CASE (Publish(o, s) \/ (PublishTerminal(o, s) /\ UNCHANGED fenced)) /\ pc' = [pc EXCEPT ![o] = ok]
  BY <1>1 DEF Publish, PublishTerminal, TypeOK
<1>2. CASE AppendFails(o, s) /\ pc' = [pc EXCEPT ![o] = err]
  BY <1>2 DEF AppendFails, TypeOK
<1> QED BY <1>1, <1>2 DEF Transition, Finish

\* A cancel writes Cancelled or nothing; if it does not fence, the operation
\* is settled or its commit slot was claimed before.
LEMMA CancelOutcome ==
    ASSUME Running, NEW o \in OpId, TryCancel(o) \/ MustCancel(o) \/ AbortPrepared(o)
    PROVE  /\ walEpoch' = walEpoch /\ (fenced => fenced') /\ (walFailed => walFailed')
           /\ \A q \in OpId \ {o} : wal'[q] = wal[q]
           /\ wal'[o] \in {wal[o], CancelledBeforeCommit(o)}
           /\ ~fenced' /\ IsOpen(wal'[o]) => wal'[o] = wal[o] /\ wal[o].tag = "CommitStarted"
<1>0. ~IsOpen(CancelledBeforeCommit(o))
  BY CancelledPresent DEF IsOpen, OpenTags
<1>1. CASE Cancellable(o) /\ CancelWrites(o) /\ UNCHANGED walEpoch
  BY <1>0, <1>1 DEF CancelWrites, Insert, Running, TypeOK
<1>2. CASE AppendFails(o, CancelledBeforeCommit(o))
  BY <1>2 DEF AppendFails, Running, TypeOK
<1>3. CASE fenced' = TRUE /\ UNCHANGED <<journalVars, registryVars>>
  BY <1>3, QuietOutcome
<1>4. CASE NoWrite /\ ~Cancellable(o)
  <2>1. wal' = wal /\ fenced' = fenced /\ UNCHANGED <<walEpoch, walFailed>>
    BY <1>4 DEF NoWrite, journalVars
  <2>2. ~fenced /\ IsOpen(wal[o]) => wal[o].tag = "CommitStarted"
    BY <1>4, OpenExact DEF Cancellable, IsOpen, OpenTags
  <2> QED BY <2>1, <2>2
<1>5. CASE NoWrite /\ records[o].tag = "Cancelled"
  <2>1. wal' = wal /\ fenced' = fenced /\ UNCHANGED <<walEpoch, walFailed>>
    BY <1>5 DEF NoWrite, journalVars
  <2>2. ~fenced => ~IsOpen(wal[o])
    BY <1>5, OpenExact DEF IsOpen, OpenTags
  <2> QED BY <2>1, <2>2
<1> QED BY <1>1, <1>2, <1>3, <1>4, <1>5 DEF TryCancel, MustCancel, AbortPrepared

\* A step of a call keeps the invariant if the operation it is about stays
\* owned.
LEMMA ActsKept ==
    ASSUME Running, RecoveryInv, TypeOK', EffectInv', NEW o \in OpId, phase = "up", Acts(o),
           pc[o] # "idle", pc'[o] # "idle",
           wal'[o] # wal[o] => ValidRecoveredTransition(wal[o], wal'[o]),
           ~BrokerMayRefuse /\ ~fenced' => OwnedBy(o)'
    PROVE  RecoveryInv'
<1>1. IsPresent(wal[o]) /\ wal'[o].gen = wal[o].gen
  BY CalledIsPresent DEF Running, ValidRecoveredTransition
<1>2. GenerationInv'
  <2>1. DeadGenerationIsStale'
    BY DEF Acts, RecoveryInv, GenerationInv, DeadGenerationIsStale
  <2> QED BY <1>1, <2>1 DEF Acts, RecoveryInv, GenerationInv
<1>3. OwnerInv'
  BY DEF Acts, RecoveryInv, OwnerInv, OwnedBy
<1>4. KnownInv'
  BY DEF Acts, RecoveryInv, KnownInv, UnknownOutcomeFences
<1> QED BY <1>2, <1>3, <1>4 DEF RecoveryInv

\* A call cancels its operation and returns.
LEMMA CancelActs ==
    ASSUME Running, RecoveryInv, NEW o \in OpId, phase = "up", UNCHANGED <<phase, epoch, todo>>,
           TryCancel(o) \/ MustCancel(o) \/ AbortPrepared(o),
           pc[o] \notin {"begun", "reserved"} \cup ReceiptTags,
           NEW p, pc' = [pc EXCEPT ![o] = p]
    PROVE  Acts(o) /\ pc'[o] = p /\ (~BrokerMayRefuse /\ ~fenced' => OwnedBy(o)')
<1>1. /\ walEpoch' = walEpoch /\ (fenced => fenced') /\ (walFailed => walFailed')
      /\ \A q \in OpId \ {o} : wal'[q] = wal[q]
      /\ ~fenced' /\ IsOpen(wal'[o]) => wal'[o] = wal[o] /\ wal[o].tag = "CommitStarted"
  BY CancelOutcome
<1>2. pc'[o] = p /\ \A q \in OpId \ {o} : pc'[q] = pc[q]
  BY DEF Running, TypeOK
<1>3. ~BrokerMayRefuse /\ ~fenced => OwnedBy(o)
  BY DEF RecoveryInv, OwnerInv
<1>4. ~BrokerMayRefuse /\ ~fenced' => OwnedBy(o)'
  <2> SUFFICES ASSUME ~BrokerMayRefuse, ~fenced', IsOpen(wal'[o]) PROVE FALSE
    BY DEF OwnedBy
  <2>1. IsOpen(wal[o]) /\ wal[o].tag = "CommitStarted" /\ ~fenced
    BY <1>1
  <2> QED BY <1>3, <2>1 DEF OwnedBy, Owns
<1> QED BY <1>1, <1>2, <1>4 DEF Acts

\* A call moves on and records nothing: the next position owns the same tag.
LEMMA MoveActs ==
    ASSUME Running, RecoveryInv, NEW o \in OpId, phase = "up", UNCHANGED <<phase, epoch, todo>>,
           UNCHANGED <<wal, walEpoch, walFailed>>, fenced => fenced',
           NEW p, pc' = [pc EXCEPT ![o] = p],
           ~BrokerMayRefuse /\ ~fenced' /\ IsOpen(wal[o]) /\ Owns(pc[o], wal[o].tag) => Owns(p, wal[o].tag)
    PROVE  Acts(o) /\ pc'[o] = p /\ (~BrokerMayRefuse /\ ~fenced' => OwnedBy(o)')
<1>1. pc'[o] = p /\ \A q \in OpId \ {o} : pc'[q] = pc[q]
  BY DEF Running, TypeOK
<1>2. ~BrokerMayRefuse /\ ~fenced => OwnedBy(o)
  BY DEF RecoveryInv, OwnerInv
<1> QED BY <1>1, <1>2 DEF Acts, OwnedBy

\* A call records s: its next position owns s, or s is terminal.
LEMMA RecordActs ==
    ASSUME Running, RecoveryInv, NEW o \in OpId, phase = "up", UNCHANGED <<phase, epoch, todo>>,
           NEW s, NEW ok, NEW err, Transition(o, s, ok, err) \/ Finish(o, s, ok, err),
           IsOpen(s) => Owns(ok, s.tag)
    PROVE  Acts(o) /\ pc'[o] \in {ok, err} /\ (~BrokerMayRefuse /\ ~fenced' => OwnedBy(o)')
<1>1. TypeOK
  BY DEF Running
<1> QED BY <1>1, TransitionOutcome DEF Acts, OwnedBy

-----------------------------------------------------------------------------
(* The steps *)

\* Every step is one that EffectInv already allows.
Allowed ==
    /\ TypeOK' /\ EffectInv'
    /\ \A o \in OpId : wal'[o] # wal[o] => ValidRecoveredTransition(wal[o], wal'[o])

\* The steps of a call after its admission.
LEMMA CallRecovery ==
    ASSUME TypeOK, EffectInv, RecoveryInv, Allowed, NEW o \in OpId, CallStep(o), ~Admit(o)
    PROVE  RecoveryInv'
<1> DEFINE Good == /\ Acts(o) /\ pc'[o] # "idle"
                   /\ (~BrokerMayRefuse /\ ~fenced' => OwnedBy(o)')
<1>0. /\ phase = "up" /\ UNCHANGED <<phase, epoch, todo>> /\ pc[o] # "idle"
      /\ pc[o] \in {"admitted", "published", "approved", "leased", "running", "acted", "returned",
                    "unstaging", "value"}
  BY DEF CallStep, PublishOperation, AbandonPermit, Authorize, RecordLease, MarkExecuting,
         RejectRequest, DirectEffect, ToolReturns, MarkPrepared, Unstage, FinishValue, processVars
<1>a. Running /\ (~fenced /\ IsOpen(wal[o]) => records[o] = wal[o])
  BY <1>0, OpenExact DEF Running
<1>b. pc[o] \notin {"begun", "reserved"} \cup ReceiptTags
  BY <1>0 DEF ReceiptTags
<1>c. ASSUME NEW p, p # "idle", TryCancel(o) \/ MustCancel(o), pc' = [pc EXCEPT ![o] = p] PROVE Good
  BY <1>0, <1>a, <1>b, <1>c, CancelActs
<1>d. ASSUME NEW p, p # "idle", UNCHANGED <<wal, walEpoch, walFailed>>, fenced => fenced',
             pc' = [pc EXCEPT ![o] = p],
             ~fenced' /\ IsOpen(wal[o]) /\ Owns(pc[o], wal[o].tag) => Owns(p, wal[o].tag)
      PROVE  Good
  BY <1>0, <1>a, <1>d, MoveActs
<1>e. ASSUME NEW s, NEW ok, NEW err, Transition(o, s, ok, err) \/ Finish(o, s, ok, err),
             ok # "idle", err # "idle", IsOpen(s) => Owns(ok, s.tag)
      PROVE  Good
  BY <1>0, <1>a, <1>e, RecordActs
<1>f. ASSUME NEW tag \in TerminalTags, NEW e, NEW q PROVE ~IsOpen(Terminal(q, e, tag))
  BY <1>f DEF IsOpen, OpenTags, TerminalTags, Terminal
<1> SUFFICES Good
  BY <1>0, <1>a, ActsKept DEF Allowed
<1> HIDE DEF Good
<1>1. CASE PublishOperation(o)
  <2>1. CASE records[o].tag = "Accepted" /\ pc' = [pc EXCEPT ![o] = "published"] /\ NoWrite
    <3>1. pc[o] = "admitted"
      BY <1>1 DEF PublishOperation
    <3> QED BY <1>d, <2>1, <3>1, QuietOutcome DEF Owns, ReceiptTags
  <2>2. CASE pc' = [pc EXCEPT ![o] = "done"] /\ TryCancel(o)
    BY <1>c, <2>2
  <2>3. CASE records[o].tag # "Accepted" /\ pc' = [pc EXCEPT ![o] = "done"] /\ NoWrite
    <3>1. fenced' = fenced /\ pc[o] = "admitted"
      BY <1>1, <2>3 DEF NoWrite, PublishOperation
    <3> QED BY <1>a, <1>d, <2>3, <3>1, QuietOutcome DEF Owns, ReceiptTags
  <2> QED BY <1>1, <2>1, <2>2, <2>3 DEF PublishOperation
<1>2. CASE AbandonPermit(o) \/ RejectRequest(o)
  BY <1>2, <1>c DEF AbandonPermit, RejectRequest
<1>3. CASE Authorize(o)
  <2>0. pc[o] = "published"
    BY <1>3 DEF Authorize
  <2>1. CASE pc' = [pc EXCEPT ![o] = "approved"] /\ NoWrite
    BY <1>d, <2>0, <2>1, QuietOutcome DEF Owns, ReceiptTags
  <2>2. CASE Finish(o, Terminal(records[o], FALSE, "Refused"), "done", "done")
    BY <1>e, <1>f, <2>2 DEF TerminalTags
  <2>3. CASE TryCancel(o) /\ pc' = [pc EXCEPT ![o] = "done"]
    BY <1>c, <2>3
  <2>4. CASE fenced /\ NoWrite /\ pc' = [pc EXCEPT ![o] = "done"]
    BY <1>d, <2>4, QuietOutcome
  <2> QED BY <1>3, <2>1, <2>2, <2>3, <2>4 DEF Authorize
<1>4. CASE RecordLease(o)
  <2>0. pc[o] = "approved" /\ UNCHANGED <<wal, walEpoch, walFailed, fenced>>
    BY <1>4 DEF RecordLease, journalVars
  <2>1. CASE pc' = [pc EXCEPT ![o] = "leased"]
    BY <1>d, <2>0, <2>1 DEF Owns, ReceiptTags
  <2>2. CASE (fenced \/ records[o].tag # "Accepted") /\ pc' = [pc EXCEPT ![o] = "done"]
    BY <1>a, <1>d, <2>0, <2>2 DEF Owns, ReceiptTags
  <2> QED BY <1>4, <2>1, <2>2 DEF RecordLease
<1>5. CASE MarkExecuting(o)
  <2>1. CASE Transition(o, Executing(records[o], o \notin ReadOnly), "running", "done")
    BY <1>e, <2>1 DEF Owns, Executing
  <2>2. CASE TryCancel(o) /\ pc' = [pc EXCEPT ![o] = "done"]
    BY <1>c, <2>2
  <2> QED BY <1>5, <2>1, <2>2 DEF MarkExecuting
<1>6. CASE DirectEffect(o) \/ ToolReturns(o)
  <2>0. pc[o] \in {"running", "acted"} /\ UNCHANGED <<wal, walEpoch, walFailed>> /\ (fenced => fenced')
    BY <1>6 DEF DirectEffect, ToolReturns, journalVars
  <2>1. PICK p \in {"acted", "value", "returned"} : pc' = [pc EXCEPT ![o] = p]
    BY <1>6 DEF DirectEffect, ToolReturns
  <2> QED BY <1>d, <2>0, <2>1 DEF Owns, ReceiptTags
<1>7. CASE MarkPrepared(o)
  <2>0. pc[o] = "returned"
    BY <1>7 DEF MarkPrepared
  <2>1. CASE Transition(o, Prepared(records[o]), "held", "unstaging")
    BY <1>e, <2>1 DEF Owns, Prepared
  <2>2. CASE pc' = [pc EXCEPT ![o] = "unstaging"] /\ NoWrite
    BY <1>d, <2>0, <2>2, QuietOutcome DEF Owns, ReceiptTags
  <2> QED BY <1>7, <2>1, <2>2 DEF MarkPrepared
<1>8. CASE Unstage(o)
  <2>0. pc[o] = "unstaging" /\ pc' = [pc EXCEPT ![o] = "done"]
    BY <1>8 DEF Unstage
  <2>1. CASE MustCancel(o)
    BY <1>c, <2>0, <2>1
  <2>2. CASE fenced' = TRUE /\ UNCHANGED <<journalVars, registryVars>>
    BY <1>d, <2>0, <2>2, QuietOutcome
  <2> QED BY <1>8, <2>1, <2>2 DEF Unstage
<1>9. CASE FinishValue(o)
  <2>0. pc[o] = "value"
    BY <1>9 DEF FinishValue
  <2>1. CASE Finish(o, Terminal(records[o], FALSE, "CompletedValue"), "done", "done")
    BY <1>e, <1>f, <2>1 DEF TerminalTags
  <2>2. CASE (fenced \/ records[o].tag # "Executing") /\ pc' = [pc EXCEPT ![o] = "done"] /\ NoWrite
    <3>1. fenced' = fenced
      BY <2>2 DEF NoWrite
    <3> QED BY <1>a, <1>d, <2>0, <2>2, <3>1, QuietOutcome DEF Owns, ReceiptTags
  <2>3. CASE TryCancel(o) /\ pc' = [pc EXCEPT ![o] = "done"]
    BY <1>c, <2>3
  <2> QED BY <1>9, <2>1, <2>2, <2>3 DEF FinishValue
<1> QED BY <1>1, <1>2, <1>3, <1>4, <1>5, <1>6, <1>7, <1>8, <1>9 DEF CallStep

\* The commit and the rollback of a prepared effect.
LEMMA CommitRecovery ==
    ASSUME TypeOK, EffectInv, RecoveryInv, Allowed, NEW o \in OpId, CommitStep(o)
    PROVE  RecoveryInv'
<1> DEFINE Good == /\ Acts(o) /\ pc'[o] # "idle"
                   /\ (~BrokerMayRefuse /\ ~fenced' => OwnedBy(o)')
<1>0. /\ phase = "up" /\ UNCHANGED <<phase, epoch, todo>> /\ pc[o] # "idle"
  BY DEF CommitStep, CommitEffect, BeginCommit, Reserve, Dispatch, FinishEffect, SettleRejected,
         RollbackEffect, processVars, ReceiptTags
<1>a. Running /\ (~fenced /\ IsOpen(wal[o]) => records[o] = wal[o])
  BY <1>0, OpenExact DEF Running
<1>c. ASSUME NEW p, p # "idle", AbortPrepared(o), pc[o] \notin {"begun", "reserved"} \cup ReceiptTags,
             pc' = [pc EXCEPT ![o] = p]
      PROVE  Good
  BY <1>0, <1>a, <1>c, CancelActs
<1>d. ASSUME NEW p, p # "idle", UNCHANGED <<wal, walEpoch, walFailed>>, fenced => fenced',
             pc' = [pc EXCEPT ![o] = p],
             ~BrokerMayRefuse /\ ~fenced' /\ IsOpen(wal[o]) /\ Owns(pc[o], wal[o].tag) => Owns(p, wal[o].tag)
      PROVE  Good
  BY <1>0, <1>a, <1>d, MoveActs
<1>e. ASSUME NEW s, NEW ok, NEW err, Transition(o, s, ok, err) \/ Finish(o, s, ok, err),
             ok # "idle", err # "idle", IsOpen(s) => Owns(ok, s.tag)
      PROVE  Good
  BY <1>0, <1>a, <1>e, RecordActs
<1>r. ASSUME Reject(o), pc[o] \in {"held", "committing"} \/ BrokerMayRefuse PROVE Good
  <2>1. wal[o].tag = "Prepared" /\ ~fenced => wal[o].eff /\ (IsOpen(wal[o]) => records[o] = wal[o])
    BY <1>a DEF EffectInv, ShapeInv
  <2>2. PICK p \in {"aborting", "settling"} :
           /\ pc' = [pc EXCEPT ![o] = p] /\ NoWrite
           /\ p = "settling" => ~NeedsRollbackTerminal(o)
    BY <1>r DEF Reject
  <2>3. UNCHANGED <<wal, walEpoch, walFailed>> /\ fenced' = fenced
    BY <2>2 DEF NoWrite, journalVars
  <2>4. ~BrokerMayRefuse /\ ~fenced' /\ IsOpen(wal[o]) /\ Owns(pc[o], wal[o].tag) => Owns(p, wal[o].tag)
    BY <1>r, <2>1, <2>2, <2>3 DEF Owns, NeedsRollbackTerminal, ReceiptTags
  <2> QED BY <1>d, <2>2, <2>3, <2>4
<1> SUFFICES Good
  BY <1>0, <1>a, ActsKept DEF Allowed
<1> HIDE DEF Good
<1>1. CASE CommitEffect(o)
  <2>0. pc[o] = "held"
    BY <1>1 DEF CommitEffect
  <2>1. CASE fenced /\ NoWrite /\ pc' = [pc EXCEPT ![o] = "done"]
    BY <1>d, <2>1, QuietOutcome
  <2>2. CASE NoWrite /\ pc' = [pc EXCEPT ![o] = "committing"]
    BY <1>d, <2>0, <2>2, QuietOutcome DEF Owns, ReceiptTags
  <2> QED BY <1>1, <1>r, <2>0, <2>1, <2>2 DEF CommitEffect
<1>2. CASE BeginCommit(o)
  <2>1. CASE Transition(o, CommitStarted(records[o]), "begun", "aborting")
    BY <1>e, <2>1 DEF Owns, CommitStarted
  <2> QED BY <1>2, <1>r, <2>1 DEF BeginCommit
<1>3. CASE Reserve(o)
  <2>0. pc[o] = "begun"
    BY <1>3 DEF Reserve
  <2>1. CASE pc' = [pc EXCEPT ![o] = "reserved"] /\ NoWrite
    BY <1>d, <2>0, <2>1, QuietOutcome DEF Owns, ReceiptTags
  <2> QED BY <1>3, <1>r, <2>1 DEF Reserve
<1>4. CASE Dispatch(o)
  <2>0. pc[o] = "reserved" /\ UNCHANGED <<wal, walEpoch, walFailed, fenced>>
    BY <1>4 DEF Dispatch, journalVars
  <2>1. PICK r \in ReceiptTags : pc' = [pc EXCEPT ![o] = r]
    BY <1>4 DEF Dispatch, ReceiptTags
  <2>2. r # "idle" /\ (Owns("reserved", wal[o].tag) => Owns(r, wal[o].tag))
    BY <2>1 DEF Owns, ReceiptTags
  <2> QED BY <1>d, <2>0, <2>1, <2>2
<1>5. CASE FinishEffect(o)
  <2>0. pc[o] \in ReceiptTags /\ records[o].tag = "CommitStarted"
    BY <1>5 DEF FinishEffect, EffectInv, CallInv
  <2>1. CASE Finish(o, Terminal(records[o], TRUE, pc[o]), "done", "done")
    <3>1. ~IsOpen(Terminal(records[o], TRUE, pc[o]))
      BY <2>0 DEF ReceiptTags, Terminal, IsOpen, OpenTags
    <3> QED BY <1>e, <2>1, <3>1
  <2>2. CASE fenced /\ pc' = [pc EXCEPT ![o] = "done"] /\ NoWrite
    BY <1>d, <2>2, QuietOutcome
  <2> QED BY <1>5, <2>0, <2>1, <2>2 DEF FinishEffect
<1>6. CASE SettleRejected(o)
  <2>0. pc[o] \in {"settling", "aborting"} /\ pc' = [pc EXCEPT ![o] = "rejected"]
    BY <1>6 DEF SettleRejected
  <2>1. CASE fenced' = TRUE /\ UNCHANGED <<journalVars, registryVars>>
    BY <1>d, <2>0, <2>1, QuietOutcome
  <2>2. CASE pc[o] = "settling" /\ NoWrite
    BY <1>d, <2>0, <2>2, QuietOutcome DEF Owns, ReceiptTags
  <2>3. CASE AbortPrepared(o)
    <3>1. pc[o] \notin {"begun", "reserved"} \cup ReceiptTags
      BY <2>0 DEF ReceiptTags
    <3> QED BY <1>c, <2>0, <2>3, <3>1
  <2> QED BY <1>6, <2>1, <2>2, <2>3 DEF SettleRejected
<1>7. CASE RollbackEffect(o)
  <2>0. pc[o] = "held" /\ pc' = [pc EXCEPT ![o] = "done"]
    BY <1>7 DEF RollbackEffect
  <2>1. CASE fenced' = TRUE /\ UNCHANGED <<journalVars, registryVars>>
    BY <1>d, <2>0, <2>1, QuietOutcome
  <2>2. CASE AbortPrepared(o)
    <3>1. pc[o] \notin {"begun", "reserved"} \cup ReceiptTags
      BY <2>0 DEF ReceiptTags
    <3> QED BY <1>c, <2>0, <2>2, <3>1
  <2> QED BY <1>7, <2>1, <2>2 DEF RollbackEffect
<1> QED BY <1>1, <1>2, <1>3, <1>4, <1>5, <1>6, <1>7 DEF CommitStep

\* A new operation is owned by its admitted call, or Core is fenced.
LEMMA AdmitRecovery ==
    ASSUME TypeOK, EffectInv, RecoveryInv, Allowed, NEW o \in OpId, Admit(o)
    PROVE  RecoveryInv'
<1>0. phase = "up" /\ UNCHANGED <<phase, epoch, todo>> /\ ~fenced
  BY DEF Admit, processVars
<1>1. ~walFailed /\ epoch = walEpoch /\ ~IsPresent(wal[o])
  BY <1>0, UnfencedExact DEF Admit, Running
<1>2. /\ walEpoch' = walEpoch
      /\ \A q \in OpId \ {o} : wal'[q] = wal[q] /\ pc'[q] = pc[q]
      /\ \/ wal'[o] = Accepted(epoch) /\ pc'[o] = "admitted" /\ walFailed' = walFailed
         \/ wal'[o] \in {wal[o], Accepted(epoch)} /\ fenced' /\ walFailed'
  BY DEF Admit, Insert, AppendFails, TypeOK
<1>3. Accepted(epoch).tag = "Accepted" /\ Accepted(epoch).gen = epoch
  BY DEF Accepted
<1>4. epoch \in Nat /\ ~IsOpen(wal[o])
  BY <1>1 DEF TypeOK, IsOpen, OpenTags, IsPresent
<1>5. GenerationInv'
  BY <1>0, <1>1, <1>2, <1>3, <1>4 DEF RecoveryInv, GenerationInv, DeadGenerationIsStale
<1>6. OwnerInv'
  BY <1>0, <1>2, <1>3 DEF RecoveryInv, OwnerInv, OwnedBy, Owns
<1>7. KnownInv'
  BY <1>0, <1>2, <1>3 DEF RecoveryInv, KnownInv, UnknownOutcomeFences
<1> QED BY <1>5, <1>6, <1>7 DEF RecoveryInv

\* The epoch only grows, and a cancelled operation needs no owner.
LEMMA FencedKept ==
    ASSUME TypeOK, TypeOK', RecoveryInv, phase = "up", UNCHANGED <<phase, pc>>,
           fenced => fenced', walFailed => walFailed',
           epoch <= epoch', epoch' <= walEpoch', walEpoch <= walEpoch',
           \A q \in OpId : \/ wal'[q] = wal[q]
                           \/ wal'[q].tag = "Cancelled" /\ wal'[q].gen <= walEpoch
    PROVE  RecoveryInv'
<1>0. /\ epoch \in Nat /\ walEpoch \in Nat /\ epoch' \in Nat /\ walEpoch' \in Nat
      /\ \A q \in OpId : wal[q].gen \in Nat /\ wal'[q].gen \in Nat
  BY DEF TypeOK, OpStates
<1>1. \A q \in OpId : IsOpen(wal'[q]) => wal'[q] = wal[q]
  BY DEF IsOpen, OpenTags
<1>2. GenerationInv'
  <2>1. DeadGenerationIsStale'
    BY <1>0, <1>1 DEF RecoveryInv, GenerationInv, DeadGenerationIsStale
  <2> QED BY <1>0, <2>1 DEF RecoveryInv, GenerationInv
<1>3. OwnerInv'
  BY <1>1 DEF RecoveryInv, OwnerInv, OwnedBy
<1>4. KnownInv'
  BY DEF RecoveryInv, KnownInv, UnknownOutcomeFences
<1> QED BY <1>2, <1>3, <1>4 DEF RecoveryInv

\* The terminal that cancel writes is not ahead of the journal's epoch.
LEMMA CancelledGeneration ==
    ASSUME Running, RecoveryInv, NEW o \in OpId, Cancellable(o)
    PROVE  CancelledBeforeCommit(o).tag = "Cancelled" /\ CancelledBeforeCommit(o).gen <= walEpoch
<1>1. ~fenced
  BY DEF Cancellable
<1>2. epoch = walEpoch /\ epoch \in Nat /\ (IsPresent(records[o]) => records[o] = wal[o])
  BY <1>1, OpenExact DEF Running, TypeOK
<1> QED BY <1>2 DEF CancelledBeforeCommit, Terminal, Accepted, RecoveryInv, GenerationInv

\* Cancellation and the epoch fence.
LEMMA FenceRecovery ==
    ASSUME TypeOK, EffectInv, RecoveryInv, Allowed,
           AdvanceEpoch \/ \E o \in OpId : CancelOperation(o) \/ CancelAndAdvance(o)
    PROVE  RecoveryInv'
<1>0. epoch \in Nat /\ walEpoch \in Nat /\ epoch <= walEpoch /\ TypeOK'
  BY DEF TypeOK, RecoveryInv, GenerationInv, Allowed
<1>1. CASE AdvanceEpoch
  <2>1. Running /\ ~fenced /\ epoch = walEpoch
    BY <1>1 DEF AdvanceEpoch, Running, EffectInv, JournalFirst
  <2>2. epoch <= epoch' /\ epoch' <= walEpoch' /\ walEpoch <= walEpoch' /\ (walFailed => walFailed')
    BY <1>0, <1>1, <2>1 DEF AdvanceEpoch, NextEpoch
  <2>3. phase = "up" /\ UNCHANGED <<phase, pc, wal>>
    BY <1>1 DEF AdvanceEpoch
  <2> QED BY <1>0, <2>1, <2>2, <2>3, FencedKept
<1>2. ASSUME NEW o \in OpId, CancelOperation(o)
      PROVE  RecoveryInv'
  <2>1. Running /\ phase = "up" /\ UNCHANGED <<phase, pc, epoch>> /\ TryCancel(o) /\ Cancellable(o)
    BY <1>2 DEF CancelOperation, Running, processVars
  <2>2. /\ walEpoch' = walEpoch /\ (fenced => fenced') /\ (walFailed => walFailed')
        /\ \A q \in OpId \ {o} : wal'[q] = wal[q]
        /\ wal'[o] \in {wal[o], CancelledBeforeCommit(o)}
    BY <2>1, CancelOutcome
  <2> QED BY <1>0, <2>1, <2>2, FencedKept, CancelledGeneration
<1>3. ASSUME NEW o \in OpId, CancelAndAdvance(o)
      PROVE  RecoveryInv'
  <2>1. Running /\ phase = "up" /\ UNCHANGED <<phase, pc>> /\ Cancellable(o)
    BY <1>3 DEF CancelAndAdvance, Running
  <2>2. ~fenced /\ ~walFailed /\ epoch = walEpoch
    BY <2>1, OpenExact DEF Cancellable
  <2>3. /\ \A q \in OpId \ {o} : wal'[q] = wal[q]
        /\ wal'[o] \in {wal[o], CancelledBeforeCommit(o)}
    BY <1>3 DEF CancelAndAdvance, CancelWrites, Insert, TypeOK
  <2>4. epoch <= epoch' /\ epoch' <= walEpoch' /\ walEpoch <= walEpoch'
    BY <1>0, <1>3, <2>2 DEF CancelAndAdvance, NextEpoch
  <2> QED BY <1>0, <2>1, <2>2, <2>3, <2>4, FencedKept, CancelledGeneration
<1> QED BY <1>1, <1>2, <1>3

\* A start takes up every open operation, and, with room for them all, every
\* other record too.
LEMMA RestartTakesUp ==
    ASSUME TypeOK, Restart
    PROVE  /\ \A q \in OpId : IsOpen(wal[q]) => q \in todo'
           /\ Cardinality(OpId) < Capacity => \A q \in OpId : IsPresent(wal[q]) => q \in todo'
<1>0. PICK ord \in SortedById(Settled) : \E k \in EvictCounts(wal, ord) :
          todo' = {o \in OpId : IsPresent(wal[o])} \ Popped(wal, ord, k)
  BY DEF Restart
<1>1. PICK k \in EvictCounts(wal, ord) :
          todo' = {o \in OpId : IsPresent(wal[o])} \ Popped(wal, ord, k)
  BY <1>0
<1>2. \A q \in OpId : IsOpen(wal[q]) => q \in todo'
  BY <1>1 DEF Popped, IsOpen, IsTerminal, IsPresent, OpenTags, TerminalTags
<1>3. ASSUME Cardinality(OpId) < Capacity PROVE \A q \in OpId : IsPresent(wal[q]) => q \in todo'
  <2> DEFINE S == {o \in OpId : IsPresent(wal[o])} \ Popped(wal, ord, 0)
  <2>1. S \subseteq OpId
    OBVIOUS
  <2>2. Cardinality(S) <= Cardinality(OpId) /\ Cardinality(S) \in Nat /\ Cardinality(OpId) \in Nat
    BY <2>1, OpIdAssumption, FS_Subset, FS_CardinalityType
  <2>3. FitsAfter(wal, ord, 0)
    BY <1>3, <2>2, CapacityAssumption DEF FitsAfter
  <2>4. k \in 0..Len(ord) /\ \A j \in 0..(k - 1) : ~FitsAfter(wal, ord, j)
    BY <1>1 DEF EvictCounts
  <2>5. k = 0
    <3> HIDE DEF S
    <3>1. Len(ord) \in Nat
      <4>1. Settled \subseteq OpId
        BY DEF Settled
      <4>2. Cardinality(Settled) \in Nat
        BY <4>1, OpIdAssumption, FS_Subset, FS_CardinalityType
      <4> QED BY <1>1, <4>2 DEF SortedById
    <3> QED BY <2>3, <2>4, <3>1
  <2>6. Popped(wal, ord, 0) = {}
    BY DEF Popped
  <2> QED BY <1>1, <2>5, <2>6
<1> QED BY <1>2, <1>3

\* One turn of the startup pass settles its operation or fences Core.
LEMMA ReconcileRecovery ==
    ASSUME TypeOK, EffectInv, RecoveryInv, Allowed, NEW o \in OpId, Reconcile(o)
    PROVE  RecoveryInv'
<1>0. phase = "reconciling" /\ UNCHANGED <<phase, epoch, pc>> /\ o \in todo /\ ~walFailed
  BY DEF Reconcile, EffectInv, PhaseInv
<1>1. epoch = walEpoch /\ (IsPresent(records[o]) => wal[o] = records[o])
  BY <1>0 DEF EffectInv, JournalFirst
<1> DEFINE Settles(s) ==
               /\ wal' = [wal EXCEPT ![o] = s] /\ todo' = todo \ {o}
               /\ (fenced => fenced') /\ ~walFailed' /\ ~IsOpen(s)
               /\ RequiresRecovery(s.tag) => fenced'
           Fails(s) == wal' \in {wal, [wal EXCEPT ![o] = s]} /\ fenced' /\ walFailed'
           Fences == wal' = wal /\ fenced' /\ walFailed' = walFailed
<1>2. walEpoch' = walEpoch /\ \E s \in OpStates : Settles(s) \/ Fails(s) \/ Fences
  <2>1. ASSUME NEW s \in OpStates, NEW fence \in BOOLEAN, RecoverTerminal(o, s, fence),
               ~IsOpen(s), RequiresRecovery(s.tag) => fence
        PROVE  walEpoch' = walEpoch /\ (Settles(s) \/ Fails(s))
    <3>1. CASE PublishTerminal(o, s) /\ fenced' = (fenced \/ fence) /\ todo' = todo \ {o}
      <4>1. (fenced => fenced') /\ (RequiresRecovery(s.tag) => fenced')
        BY <2>1, <3>1
      <4>2. wal' = [wal EXCEPT ![o] = s] /\ UNCHANGED <<walEpoch, walFailed>>
        BY <3>1 DEF PublishTerminal
      <4> QED BY <1>0, <2>1, <3>1, <4>1, <4>2
    <3>2. CASE AppendFails(o, s)
      BY <3>2 DEF AppendFails
    <3> QED BY <2>1, <3>1, <3>2 DEF RecoverTerminal
  <2>2. records[o] \in OpStates /\ wal[o] \in OpStates
    BY DEF TypeOK
  <2>3. CASE /\ IsTerminal(records[o])
             /\ fenced' = (fenced \/ RequiresRecovery(records[o].tag))
             /\ todo' = todo \ {o} /\ UNCHANGED <<journalVars, registryVars>>
    <3>1. wal[o] = records[o] /\ ~IsOpen(wal[o])
      BY <1>1, <2>3 DEF IsTerminal, IsPresent, IsOpen, TerminalTags, OpenTags
    <3>2. wal' = [wal EXCEPT ![o] = wal[o]] /\ walEpoch' = walEpoch /\ walFailed' = walFailed
      BY <2>3 DEF TypeOK, journalVars
    <3>3. Settles(wal[o])
      BY <1>0, <2>3, <3>1, <3>2
    <3> HIDE DEF Settles, Fails, Fences
    <3> QED BY <2>2, <3>2, <3>3
  <2>4. CASE /\ records[o].tag \in {"Accepted", "Executing"} /\ ~records[o].eff
             /\ RecoverTerminal(o, Terminal(records[o], FALSE, "Cancelled"), FALSE)
    <3> DEFINE s == Terminal(records[o], FALSE, "Cancelled")
    <3>1. s \in OpStates /\ ~IsOpen(s) /\ ~RequiresRecovery(s.tag)
      BY <2>2, StatesTyped DEF TerminalTags, Terminal, IsOpen, OpenTags, RequiresRecovery
    <3> HIDE DEF s
    <3>2. walEpoch' = walEpoch /\ (Settles(s) \/ Fails(s))
      BY <2>1, <2>4, <3>1 DEF s
    <3> HIDE DEF Settles, Fails, Fences
    <3> QED BY <3>1, <3>2
  <2>5. ASSUME NEW ev \in Evidence(o), IsOpen(records[o]), records[o].eff,
               ReconciledTag(records[o], ev) # "none",
               RecoverTerminal(o, Terminal(records[o], TRUE, ReconciledTag(records[o], ev)),
                               ReconciledTag(records[o], ev) = "DurabilityFailed")
        PROVE  walEpoch' = walEpoch /\ \E s \in OpStates : Settles(s) \/ Fails(s) \/ Fences
    <3> DEFINE tag == ReconciledTag(records[o], ev)
               s == Terminal(records[o], TRUE, tag)
               fence == tag = "DurabilityFailed"
    <3>1. tag \in {"NotApplied", "Applied", "DurabilityFailed", "CompletedValue"}
      BY <2>5 DEF ReconciledTag, Evidence
    <3> HIDE DEF tag
    <3>2. s \in OpStates /\ ~IsOpen(s) /\ s.tag = tag
      BY <2>2, <3>1, StatesTyped DEF TerminalTags, Terminal, IsOpen, OpenTags
    <3>3. fence \in BOOLEAN /\ (RequiresRecovery(s.tag) => fence)
      BY <3>1, <3>2 DEF RequiresRecovery
    <3>4. RecoverTerminal(o, s, fence)
      BY <2>5 DEF tag
    <3> HIDE DEF s, fence
    <3>5. walEpoch' = walEpoch /\ (Settles(s) \/ Fails(s))
      BY <2>1, <3>2, <3>3, <3>4
    <3> HIDE DEF Settles, Fails, Fences
    <3> QED BY <3>2, <3>3, <3>5
  <2>6. CASE fenced' = TRUE /\ UNCHANGED <<journalVars, registryVars>>
    <3>1. Fences /\ walEpoch' = walEpoch
      BY <2>6 DEF journalVars
    <3> HIDE DEF Settles, Fails, Fences
    <3> QED BY <2>2, <3>1
  <2> HIDE DEF Settles, Fails, Fences
  <2> QED BY <2>3, <2>4, <2>5, <2>6 DEF Reconcile
<1>3. PICK s \in OpStates : Settles(s) \/ Fails(s) \/ Fences
  BY <1>2
<1>4. /\ \A q \in OpId \ {o} : wal'[q] = wal[q]
      /\ IsPresent(wal'[o]) => IsPresent(wal[o]) /\ wal'[o].gen = wal[o].gen
  <2>1. \A q \in OpId \ {o} : wal'[q] = wal[q]
    BY <1>3 DEF TypeOK
  <2>2. IsPresent(records[o])
    BY DEF Reconcile, IsTerminal, IsOpen, IsPresent, TerminalTags, OpenTags
  <2> QED BY <1>1, <2>1, <2>2 DEF Allowed, ValidRecoveredTransition
<1>5. walFailed' \/ (~IsOpen(wal'[o]) \/ wal'[o] = wal[o])
  BY <1>3 DEF TypeOK
<1>6. GenerationInv'
  <2>1. DeadGenerationIsStale'
    BY <1>0, <1>2, <1>4, <1>5 DEF RecoveryInv, GenerationInv, DeadGenerationIsStale
  <2> QED BY <1>0, <1>2, <1>4, <2>1 DEF RecoveryInv, GenerationInv
<1>7. ASSUME ~fenced'
      PROVE  ~fenced /\ todo' = todo \ {o} /\ ~IsOpen(wal'[o]) /\ ~RequiresRecovery(wal'[o].tag)
  BY <1>3, <1>7 DEF TypeOK
<1> HIDE DEF Settles, Fails, Fences
<1>8. OwnerInv'
  BY <1>0, <1>4, <1>7 DEF RecoveryInv, OwnerInv
<1>9. KnownInv'
  BY <1>0, <1>4, <1>7 DEF RecoveryInv, KnownInv, UnknownOutcomeFences
<1> QED BY <1>6, <1>8, <1>9 DEF RecoveryInv

\* Crash and startup.
LEMMA StartupRecovery ==
    ASSUME TypeOK, EffectInv, RecoveryInv, Allowed,
           Crash \/ Restart \/ RestartFails \/ FinishStartup
    PROVE  RecoveryInv'
<1>0. /\ epoch \in Nat /\ walEpoch \in Nat /\ epoch <= walEpoch
      /\ \A q \in OpId : wal[q].gen \in Nat /\ (IsPresent(wal[q]) => wal[q].gen <= walEpoch)
  BY DEF TypeOK, OpStates, RecoveryInv, GenerationInv
<1>1. CASE Crash
  <2>1. phase' = "down" /\ epoch' = 0 /\ UNCHANGED <<wal, walEpoch>>
    BY <1>1 DEF Crash
  <2> QED BY <1>0, <2>1 DEF RecoveryInv, GenerationInv, DeadGenerationIsStale, OwnerInv, KnownInv,
             UnknownOutcomeFences
<1>2. CASE Restart
  <2>1. phase' = "reconciling" /\ epoch' = walEpoch + 1 /\ walEpoch' = walEpoch + 1 /\ wal' = wal
    BY <1>2 DEF Restart, NextEpoch
  <2>2. /\ \A q \in OpId : IsOpen(wal[q]) => q \in todo'
        /\ Cardinality(OpId) < Capacity => \A q \in OpId : IsPresent(wal[q]) => q \in todo'
    BY <1>2, RestartTakesUp
  <2>3. \A q \in OpId : RequiresRecovery(wal[q].tag) \/ IsOpen(wal[q]) => IsPresent(wal[q])
    BY DEF RequiresRecovery, IsOpen, OpenTags, IsPresent
  <2>4. GenerationInv'
    BY <1>0, <2>1, <2>3 DEF GenerationInv, DeadGenerationIsStale
  <2>5. OwnerInv' /\ KnownInv'
    BY <2>1, <2>2, <2>3 DEF OwnerInv, KnownInv, UnknownOutcomeFences
  <2> QED BY <2>4, <2>5 DEF RecoveryInv
<1>3. CASE RestartFails
  <2>1. phase' = "down" /\ walEpoch' = walEpoch + 1 /\ UNCHANGED <<wal, epoch>>
    BY <1>3 DEF RestartFails, NextEpoch, processVars
  <2> QED BY <1>0, <2>1 DEF RecoveryInv, GenerationInv, DeadGenerationIsStale, OwnerInv, KnownInv,
             UnknownOutcomeFences
<1>4. CASE FinishStartup
  <2>1. /\ phase = "reconciling" /\ phase' = "up" /\ todo = {} /\ (fenced => fenced')
        /\ UNCHANGED <<wal, walEpoch, walFailed, epoch, pc>>
    BY <1>4 DEF FinishStartup, journalVars, TypeOK
  <2>2. GenerationInv'
    BY <2>1 DEF RecoveryInv, GenerationInv, DeadGenerationIsStale
  <2>3. OwnerInv'
    BY <2>1 DEF RecoveryInv, OwnerInv, OwnedBy
  <2>4. KnownInv'
    BY <2>1 DEF RecoveryInv, KnownInv, UnknownOutcomeFences, RequiresRecovery
  <2> QED BY <2>2, <2>3, <2>4 DEF RecoveryInv
<1> QED BY <1>1, <1>2, <1>3, <1>4

-----------------------------------------------------------------------------
(* The theorems *)

\* Startup, the fence and every early exit of a call together keep the
\* recovery invariant, whatever crashes in between.
THEOREM RecoveryInvariant == Spec => []RecoveryInv
<1>1. Init => EffectInv
  BY EffectInductive
<1>2. Init => RecoveryInv
  <2> SUFFICES ASSUME Init PROVE RecoveryInv
    OBVIOUS
  <2>1. GenerationInv
    BY DEF Init, GenerationInv, DeadGenerationIsStale, Absent, IsPresent
  <2> QED BY <2>1 DEF Init, RecoveryInv, OwnerInv, KnownInv, UnknownOutcomeFences
<1>3. TypeOK /\ EffectInv /\ [Next]_vars => EffectInv'
  BY EffectInductive DEF Kept
<1>4. TypeOK /\ TypeOK' /\ EffectInv /\ RecoveryInv /\ [Next]_vars => RecoveryInv'
  <2> SUFFICES ASSUME TypeOK, TypeOK', EffectInv, RecoveryInv, [Next]_vars
               PROVE  RecoveryInv'
    OBVIOUS
  <2>1. Allowed
    BY EffectInductive DEF Allowed, Kept, Change
  <2>2. CASE UNCHANGED vars
    <3>1. UNCHANGED <<wal, walEpoch, walFailed, phase, epoch, fenced, todo, pc>>
      BY <2>2 DEF vars, journalVars, processVars
    <3>2. GenerationInv'
      BY <3>1 DEF RecoveryInv, GenerationInv, DeadGenerationIsStale
    <3>3. OwnerInv'
      BY <3>1 DEF RecoveryInv, OwnerInv, OwnedBy
    <3>4. KnownInv'
      BY <3>1 DEF RecoveryInv, KnownInv, UnknownOutcomeFences
    <3> QED BY <3>2, <3>3, <3>4 DEF RecoveryInv
  <2>3. CASE Next
    BY <2>1, <2>3, AdmitRecovery, CallRecovery, CommitRecovery, FenceRecovery, ReconcileRecovery,
       StartupRecovery DEF Next
  <2> QED BY <2>2, <2>3
<1> QED BY <1>1, <1>2, <1>3, <1>4, TypeCorrect, PTL DEF Spec

\* An open operation of a dead process is behind the epoch that every commit
\* is checked against (try_new advances the epoch before anything runs).
THEOREM DeadGenerationFenced == Spec => []DeadGenerationIsStale
<1>1. RecoveryInv => DeadGenerationIsStale
  BY DEF RecoveryInv, GenerationInv
<1> QED BY <1>1, RecoveryInvariant, PTL

\* Unless the broker refuses a claimed slot, an unfenced Core has a live call
\* behind every open operation (the cancel on every early exit of
\* execute_published_tool, reconcile_recovered_operations).
THEOREM OpenOperationsOwned ==
    ASSUME ~BrokerMayRefuse
    PROVE  Spec => []OpenIsOwned
<1>1. RecoveryInv => OpenIsOwned
  <2> SUFFICES ASSUME RecoveryInv, phase = "up", ~fenced, NEW o \in OpId, IsOpen(wal[o])
               PROVE  pc[o] \notin {"idle", "done", "rejected"}
    BY DEF OpenIsOwned
  <2>1. Owns(pc[o], wal[o].tag)
    BY DEF RecoveryInv, OwnerInv, OwnedBy
  <2> QED BY <2>1 DEF Owns, ReceiptTags
<1> QED BY <1>1, RecoveryInvariant, PTL

\* With room for every record, a Core that starts over an unknown or not
\* durably applied outcome is fenced (reconcile_recovered_operations).
THEOREM UnknownOutcomesFence ==
    ASSUME Cardinality(OpId) < Capacity
    PROVE  Spec => []UnknownOutcomeFences
<1>1. RecoveryInv => UnknownOutcomeFences
  BY DEF RecoveryInv, KnownInv
<1> QED BY <1>1, RecoveryInvariant, PTL
=============================================================================
