------------------------ MODULE CoreAuthorityProofs ------------------------
(***************************************************************************)
(* Proofs about CoreAuthority for any set of operations, capacity and      *)
(* epoch bound.                                                            *)
(***************************************************************************)
EXTENDS CoreAuthority, FiniteSetTheorems, TLAPS

-----------------------------------------------------------------------------
(* Types *)

\* The part of TypeOK that the registry's helpers write.
DataTyped ==
    /\ wal \in [OpId -> OpStates] /\ records \in [OpId -> OpStates]
    /\ walFailed \in BOOLEAN /\ fenced \in BOOLEAN
    /\ order \in Seq(OpId) /\ seen \subseteq OpId /\ leases \subseteq OpId

\* Every successor state the registry proposes is an operation state.
LEMMA StatesTyped ==
    /\ Absent \in OpStates
    /\ \A n \in Nat : Accepted(n) \in OpStates
    /\ \A s \in OpStates :
          /\ Prepared(s) \in OpStates /\ CommitStarted(s) \in OpStates
          /\ \A e \in BOOLEAN : Executing(s, e) \in OpStates
          /\ \A e \in BOOLEAN, t \in TerminalTags : Terminal(s, e, t) \in OpStates
BY DEF OpStates, Absent, Accepted, Prepared, CommitStarted, Executing, Terminal,
       OpenTags, TerminalTags

\* Making room keeps the shape of the map and of the queue.
LEMMA EvictTyped ==
    ASSUME NEW recs \in [OpId -> OpStates], NEW ord \in Seq(OpId),
           NEW k \in EvictCounts(recs, ord)
    PROVE  /\ EvictRecords(recs, ord, k) \in [OpId -> OpStates]
           /\ EvictOrder(ord, k) \in Seq(OpId)
<1>1. k \in 0..Len(ord)
  BY DEF EvictCounts
<1>2. EvictRecords(recs, ord, k) \in [OpId -> OpStates]
  BY StatesTyped DEF EvictRecords
<1>3. SubSeq(ord, k + 1, Len(ord)) \in Seq(OpId)
  <2>1. Len(ord) \in Nat /\ k + 1 \in 1..(Len(ord) + 1)
    BY <1>1
  <2>2. CASE k = Len(ord)
    BY <2>1, <2>2
  <2>3. CASE k # Len(ord)
    BY <1>1, <2>1, <2>3
  <2> QED BY <2>2, <2>3
<1> QED BY <1>2, <1>3 DEF EvictOrder

\* Admission and cancellation insert a typed record.
LEMMA InsertTyped ==
    ASSUME DataTyped, NEW o \in OpId, NEW s \in OpStates, NEW queued \in Seq(OpId),
           NEW unleased, Insert(o, s, queued, unleased)
    PROVE  DataTyped'
<1>1. PICK k \in EvictCounts(records, order) :
          /\ records' = [EvictRecords(records, order, k) EXCEPT ![o] = s]
          /\ order' = EvictOrder(order, k) \o queued
          /\ leases' = (leases \ Popped(records, order, k)) \ unleased
  BY DEF Insert
<1>2. /\ EvictRecords(records, order, k) \in [OpId -> OpStates]
      /\ EvictOrder(order, k) \in Seq(OpId)
  BY EvictTyped DEF DataTyped
<1>3. order' \in Seq(OpId)
  BY <1>1, <1>2
<1>4. records' \in [OpId -> OpStates] /\ leases' \subseteq OpId
  BY <1>1, <1>2 DEF DataTyped
<1> QED BY <1>3, <1>4 DEF Insert, DataTyped

\* The registry's write helpers keep the data typed and the folded epoch.
LEMMA PublishTyped ==
    ASSUME DataTyped, NEW o \in OpId, NEW s \in OpStates,
           \/ Publish(o, s)
           \/ PublishTerminal(o, s) /\ fenced' \in BOOLEAN
           \/ AppendFails(o, s)
    PROVE  DataTyped' /\ walEpoch' = walEpoch
<1>1. CASE Publish(o, s)
  BY <1>1 DEF Publish, DataTyped
<1>2. CASE PublishTerminal(o, s) /\ fenced' \in BOOLEAN
  <2>1. order' \in Seq(OpId)
    BY <1>2 DEF PublishTerminal, DataTyped
  <2> QED BY <1>2, <2>1 DEF PublishTerminal, DataTyped
<1>3. CASE AppendFails(o, s)
  BY <1>3 DEF AppendFails, DataTyped, registryVars
<1> QED BY <1>1, <1>2, <1>3

\* A call that writes nothing, fencing or not, keeps the types.
LEMMA NoWriteTyped ==
    ASSUME DataTyped,
           \/ NoWrite
           \/ fenced' \in BOOLEAN /\ UNCHANGED <<journalVars, registryVars>>
    PROVE  DataTyped' /\ walEpoch' = walEpoch
BY DEF NoWrite, DataTyped, journalVars, registryVars

\* A transition or a terminal of a registry record keeps the types.
LEMMA TransitionTyped ==
    ASSUME DataTyped, NEW o \in OpId, NEW s \in OpStates, NEW ok, NEW err,
           Transition(o, s, ok, err) \/ Finish(o, s, ok, err)
    PROVE  DataTyped' /\ walEpoch' = walEpoch
<1>1. fenced \in BOOLEAN
  BY DEF DataTyped
<1> QED BY <1>1, PublishTyped DEF Transition, Finish

\* The terminal that cancel writes is a snapshot.
LEMMA CancelledTyped ==
    ASSUME DataTyped, epoch \in Nat, NEW o \in OpId
    PROVE  CancelledBeforeCommit(o) \in OpStates
BY DEF CancelledBeforeCommit, DataTyped, OpStates, Terminal, Accepted, OpenTags, TerminalTags

\* The insertion of that terminal keeps the types.
LEMMA CancelWritesTyped ==
    ASSUME DataTyped, epoch \in Nat, NEW o \in OpId, CancelWrites(o)
    PROVE  DataTyped'
<1>1. CancelledBeforeCommit(o) \in OpStates
  BY CancelledTyped
<1>2. <<o>> \in Seq(OpId)
  OBVIOUS
<1>3. Insert(o, CancelledBeforeCommit(o), <<o>>, {o})
  BY DEF CancelWrites
<1> QED BY ONLY DataTyped, o \in OpId, <1>1, <1>2, <1>3, InsertTyped

\* Each of the three ways a caller cancels keeps the types and the epoch.
LEMMA CancelTyped ==
    ASSUME DataTyped, epoch \in Nat, NEW o \in OpId,
           TryCancel(o) \/ MustCancel(o) \/ AbortPrepared(o)
    PROVE  DataTyped' /\ walEpoch' = walEpoch
<1>1. CASE CancelWrites(o) /\ UNCHANGED walEpoch
  BY <1>1, CancelWritesTyped
<1>2. CASE AppendFails(o, CancelledBeforeCommit(o))
  BY <1>2, CancelledTyped, PublishTyped
<1>3. CASE NoWrite \/ (fenced' = TRUE /\ UNCHANGED <<journalVars, registryVars>>)
  BY <1>3, NoWriteTyped
<1> QED BY <1>1, <1>2, <1>3 DEF TryCancel, MustCancel, AbortPrepared

\* The steps of one operation's calls, up to the prepared effect or value.
LEMMA CallStepTyped ==
    ASSUME TypeOK, NEW o \in OpId, CallStep(o)
    PROVE  TypeOK'
<1> DEFINE Data == DataTyped' /\ walEpoch' = walEpoch
           Rest == /\ pc' \in [OpId -> PCs] /\ applied' \in [OpId -> Nat]
                   /\ UNCHANGED <<phase, epoch, todo>>
<1>0. /\ DataTyped /\ epoch \in Nat /\ records[o] \in OpStates
      /\ pc \in [OpId -> PCs] /\ applied \in [OpId -> Nat]
  BY DEF TypeOK, DataTyped
<1>a. Data /\ Rest => TypeOK'
  BY DEF TypeOK, DataTyped
<1>b. \A e \in BOOLEAN, t \in TerminalTags : Terminal(records[o], e, t) \in OpStates
  BY <1>0, StatesTyped
<1>1. CASE Admit(o)
  <2>1. Accepted(epoch) \in OpStates /\ <<>> \in Seq(OpId)
    BY <1>0, StatesTyped
  <2>2. Data
    <3>1. CASE Insert(o, Accepted(epoch), <<>>, {}) /\ UNCHANGED walEpoch
      BY ONLY o \in OpId, <1>0, <2>1, <3>1, InsertTyped
    <3>2. CASE AppendFails(o, Accepted(epoch))
      BY <1>0, <2>1, <3>2, PublishTyped
    <3> QED BY <1>1, <3>1, <3>2 DEF Admit
  <2>3. Rest
    BY <1>0, <1>1 DEF Admit, PCs, processVars
  <2> QED BY <1>a, <2>2, <2>3
<1>2. CASE PublishOperation(o)
  <2>1. Data
    BY <1>0, <1>2, CancelTyped, NoWriteTyped DEF PublishOperation
  <2>2. Rest
    BY <1>0, <1>2 DEF PublishOperation, PCs, processVars
  <2> QED BY <1>a, <2>1, <2>2
<1>3. CASE AbandonPermit(o)
  <2>1. Data
    BY <1>0, <1>3, CancelTyped DEF AbandonPermit
  <2>2. Rest
    BY <1>0, <1>3 DEF AbandonPermit, PCs, processVars
  <2> QED BY <1>a, <2>1, <2>2
<1>4. CASE Authorize(o)
  <2>1. Terminal(records[o], FALSE, "Refused") \in OpStates
    BY <1>b DEF TerminalTags
  <2>2. Data
    BY <1>0, <1>4, <2>1, CancelTyped, NoWriteTyped, TransitionTyped DEF Authorize
  <2>3. Rest
    BY <1>0, <1>4 DEF Authorize, Finish, PCs, processVars
  <2> QED BY <1>a, <2>2, <2>3
<1>5. CASE RecordLease(o)
  <2>1. Data
    BY <1>0, <1>5 DEF RecordLease, DataTyped, journalVars
  <2>2. Rest
    BY <1>0, <1>5 DEF RecordLease, PCs, processVars
  <2> QED BY <1>a, <2>1, <2>2
<1>6. CASE MarkExecuting(o)
  <2>1. Executing(records[o], o \notin ReadOnly) \in OpStates
    BY <1>0, StatesTyped
  <2>2. Data
    BY <1>0, <1>6, <2>1, CancelTyped, TransitionTyped DEF MarkExecuting
  <2>3. Rest
    BY <1>0, <1>6 DEF MarkExecuting, Transition, PCs, processVars
  <2> QED BY <1>a, <2>2, <2>3
<1>7. CASE DirectEffect(o)
  <2>1. Data
    BY <1>0, <1>7 DEF DirectEffect, DataTyped, journalVars, registryVars
  <2>2. Rest
    BY <1>0, <1>7 DEF DirectEffect, PCs, processVars
  <2> QED BY <1>a, <2>1, <2>2
<1>8. CASE ToolReturns(o)
  <2>1. Data
    BY <1>0, <1>8 DEF ToolReturns, DataTyped, journalVars, registryVars
  <2>2. Rest
    BY <1>0, <1>8 DEF ToolReturns, PCs, processVars
  <2> QED BY <1>a, <2>1, <2>2
<1>9. CASE MarkPrepared(o)
  <2>1. Prepared(records[o]) \in OpStates
    BY <1>0, StatesTyped
  <2>2. Data
    BY <1>0, <1>9, <2>1, NoWriteTyped, TransitionTyped DEF MarkPrepared
  <2>3. Rest
    BY <1>0, <1>9 DEF MarkPrepared, Transition, PCs, processVars
  <2> QED BY <1>a, <2>2, <2>3
<1>10. CASE Unstage(o)
  <2>1. Data
    BY <1>0, <1>10, CancelTyped, NoWriteTyped DEF Unstage
  <2>2. Rest
    BY <1>0, <1>10 DEF Unstage, PCs, processVars
  <2> QED BY <1>a, <2>1, <2>2
<1>11. CASE FinishValue(o)
  <2>1. Terminal(records[o], FALSE, "CompletedValue") \in OpStates
    BY <1>b DEF TerminalTags
  <2>2. Data
    BY <1>0, <1>11, <2>1, CancelTyped, NoWriteTyped, TransitionTyped DEF FinishValue
  <2>3. Rest
    BY <1>0, <1>11 DEF FinishValue, Finish, PCs, processVars
  <2> QED BY <1>a, <2>2, <2>3
<1>12. CASE RejectRequest(o)
  <2>1. Data
    BY <1>0, <1>12, CancelTyped DEF RejectRequest
  <2>2. Rest
    BY <1>0, <1>12 DEF RejectRequest, PCs, processVars
  <2> QED BY <1>a, <2>1, <2>2
<1> QED BY <1>1, <1>2, <1>3, <1>4, <1>5, <1>6, <1>7, <1>8, <1>9, <1>10, <1>11, <1>12 DEF CallStep

\* The steps of commit_effect and rollback_effect.
LEMMA CommitStepTyped ==
    ASSUME TypeOK, NEW o \in OpId, CommitStep(o)
    PROVE  TypeOK'
<1> DEFINE Data == DataTyped' /\ walEpoch' = walEpoch
           Rest == /\ pc' \in [OpId -> PCs] /\ applied' \in [OpId -> Nat]
                   /\ UNCHANGED <<phase, epoch, todo>>
<1>0. /\ DataTyped /\ epoch \in Nat /\ records[o] \in OpStates
      /\ pc \in [OpId -> PCs] /\ applied \in [OpId -> Nat]
  BY DEF TypeOK, DataTyped
<1>a. Data /\ Rest => TypeOK'
  BY DEF TypeOK, DataTyped
<1>b. Reject(o) => NoWrite /\ pc' \in [OpId -> PCs]
  BY <1>0 DEF Reject, PCs
<1>1. CASE CommitEffect(o)
  <2>1. Data
    BY <1>0, <1>1, <1>b, NoWriteTyped DEF CommitEffect
  <2>2. Rest
    BY <1>0, <1>1, <1>b DEF CommitEffect, PCs, processVars
  <2> QED BY <1>a, <2>1, <2>2
<1>2. CASE BeginCommit(o)
  <2>1. CommitStarted(records[o]) \in OpStates
    BY <1>0, StatesTyped
  <2>2. Data
    BY <1>0, <1>2, <1>b, <2>1, NoWriteTyped, TransitionTyped DEF BeginCommit
  <2>3. Rest
    BY <1>0, <1>2, <1>b DEF BeginCommit, Transition, PCs, processVars
  <2> QED BY <1>a, <2>2, <2>3
<1>3. CASE Reserve(o)
  <2>1. Data
    BY <1>0, <1>3, <1>b, NoWriteTyped DEF Reserve
  <2>2. Rest
    BY <1>0, <1>3, <1>b DEF Reserve, PCs, processVars
  <2> QED BY <1>a, <2>1, <2>2
<1>4. CASE Dispatch(o)
  <2>1. Data
    BY <1>0, <1>4 DEF Dispatch, DataTyped, journalVars, registryVars
  <2>2. Rest
    BY <1>0, <1>4 DEF Dispatch, PCs, ReceiptTags, processVars
  <2> QED BY <1>a, <2>1, <2>2
<1>5. CASE FinishEffect(o)
  <2>1. Terminal(records[o], TRUE, pc[o]) \in OpStates
    BY <1>0, <1>5, StatesTyped DEF FinishEffect, ReceiptTags, TerminalTags
  <2>2. Data
    BY <1>0, <1>5, <2>1, NoWriteTyped, TransitionTyped DEF FinishEffect
  <2>3. Rest
    BY <1>0, <1>5 DEF FinishEffect, Finish, PCs, processVars
  <2> QED BY <1>a, <2>2, <2>3
<1>6. CASE SettleRejected(o)
  <2>1. Data
    BY <1>0, <1>6, CancelTyped, NoWriteTyped DEF SettleRejected
  <2>2. Rest
    BY <1>0, <1>6 DEF SettleRejected, PCs, processVars
  <2> QED BY <1>a, <2>1, <2>2
<1>7. CASE RollbackEffect(o)
  <2>1. Data
    BY <1>0, <1>7, CancelTyped, NoWriteTyped DEF RollbackEffect
  <2>2. Rest
    BY <1>0, <1>7 DEF RollbackEffect, PCs, processVars
  <2> QED BY <1>a, <2>1, <2>2
<1> QED BY <1>1, <1>2, <1>3, <1>4, <1>5, <1>6, <1>7 DEF CommitStep

\* Cancellation and the epoch fence.
LEMMA FenceStepTyped ==
    ASSUME TypeOK,
           AdvanceEpoch \/ \E o \in OpId : CancelOperation(o) \/ CancelAndAdvance(o)
    PROVE  TypeOK'
<1>0. DataTyped /\ epoch \in Nat
  BY DEF TypeOK, DataTyped
<1>1. CASE AdvanceEpoch
  <2>1. walEpoch' \in 1..MaxEpoch /\ epoch' \in 0..MaxEpoch
    BY <1>1, MaxEpochAssumption DEF AdvanceEpoch, TypeOK, NextEpoch
  <2>2. DataTyped'
    BY <1>0, <1>1 DEF AdvanceEpoch, DataTyped, registryVars
  <2> QED BY <1>1, <2>1, <2>2 DEF AdvanceEpoch, TypeOK, DataTyped
<1>2. ASSUME NEW o \in OpId, CancelOperation(o)
      PROVE  TypeOK'
  <2>1. DataTyped' /\ walEpoch' = walEpoch
    BY <1>0, <1>2, CancelTyped DEF CancelOperation
  <2> QED BY <1>2, <2>1 DEF CancelOperation, processVars, TypeOK, DataTyped
<1>3. ASSUME NEW o \in OpId, CancelAndAdvance(o)
      PROVE  TypeOK'
  <2>1. CancelledBeforeCommit(o) \in OpStates
    BY <1>0, CancelledTyped
  <2>2. DataTyped'
    BY <1>0, <1>3, <2>1, CancelWritesTyped DEF CancelAndAdvance, DataTyped, registryVars
  <2>3. walEpoch' \in 1..MaxEpoch /\ epoch' \in 0..MaxEpoch
    BY <1>3, MaxEpochAssumption DEF CancelAndAdvance, TypeOK, NextEpoch
  <2> QED BY <1>3, <2>2, <2>3 DEF CancelAndAdvance, TypeOK, DataTyped
<1> QED BY <1>1, <1>2, <1>3

\* Crash and startup.
LEMMA StartupStepTyped ==
    ASSUME TypeOK,
           Crash \/ Restart \/ RestartFails \/ FinishStartup \/ \E o \in OpId : Reconcile(o)
    PROVE  TypeOK'
<1>0. DataTyped /\ epoch \in Nat
  BY DEF TypeOK, DataTyped
<1>1. CASE Crash
  <2>1. Absent \in OpStates /\ "idle" \in PCs /\ <<>> \in Seq(OpId) /\ 0 \in 0..MaxEpoch
    BY StatesTyped, MaxEpochAssumption DEF PCs
  <2> QED BY <1>1, <2>1 DEF Crash, TypeOK
<1>2. CASE Restart
  <2>0. PICK ord \in SortedById(Settled) : \E k \in EvictCounts(wal, ord) :
            /\ records' = EvictRecords(wal, ord, k)
            /\ order' = EvictOrder(ord, k)
            /\ todo' = {o \in OpId : IsPresent(wal[o])} \ Popped(wal, ord, k)
    BY <1>2 DEF Restart
  <2>1. PICK k \in EvictCounts(wal, ord) :
            /\ records' = EvictRecords(wal, ord, k)
            /\ order' = EvictOrder(ord, k)
            /\ todo' = {o \in OpId : IsPresent(wal[o])} \ Popped(wal, ord, k)
    BY <2>0
  <2>2. ord \in Seq(OpId)
    <3>1. Settled \subseteq OpId
      BY DEF Settled
    <3>2. Cardinality(Settled) \in Nat
      BY <3>1, OpIdAssumption, FS_Subset, FS_CardinalityType
    <3> QED BY <2>1, <3>1, <3>2 DEF SortedById
  <2>3. records' \in [OpId -> OpStates] /\ order' \in Seq(OpId)
    BY <1>0, <2>1, <2>2, EvictTyped DEF DataTyped
  <2>4. walEpoch' \in 1..MaxEpoch /\ epoch' \in 0..MaxEpoch
    BY <1>2, MaxEpochAssumption DEF Restart, TypeOK, NextEpoch
  <2> QED BY <1>2, <2>1, <2>3, <2>4 DEF Restart, TypeOK
<1>3. CASE RestartFails
  BY <1>3, MaxEpochAssumption DEF RestartFails, TypeOK, NextEpoch, registryVars, processVars
<1>4. CASE FinishStartup
  BY <1>4 DEF FinishStartup, TypeOK, journalVars, registryVars
<1>5. ASSUME NEW o \in OpId, Reconcile(o)
      PROVE  TypeOK'
  <2>1. records[o] \in OpStates
    BY DEF TypeOK
  <2>2. ASSUME NEW s \in OpStates, NEW fence \in BOOLEAN, RecoverTerminal(o, s, fence)
        PROVE  DataTyped' /\ walEpoch' = walEpoch /\ todo' \subseteq OpId
    <3>1. fenced \in BOOLEAN /\ todo \subseteq OpId
      BY DEF TypeOK
    <3> QED BY <1>0, <2>2, <3>1, PublishTyped DEF RecoverTerminal
  <2>3. DataTyped' /\ walEpoch' = walEpoch /\ todo' \subseteq OpId
    <3>1. CASE RecoverTerminal(o, Terminal(records[o], FALSE, "Cancelled"), FALSE)
      BY <2>1, <2>2, <3>1, StatesTyped DEF TerminalTags
    <3>2. ASSUME NEW ev \in Evidence(o),
                 ReconciledTag(records[o], ev) # "none",
                 RecoverTerminal(o, Terminal(records[o], TRUE, ReconciledTag(records[o], ev)),
                                 ReconciledTag(records[o], ev) = "DurabilityFailed")
          PROVE  DataTyped' /\ walEpoch' = walEpoch /\ todo' \subseteq OpId
      <4>1. ReconciledTag(records[o], ev) \in TerminalTags
        BY <3>2 DEF ReconciledTag, Evidence, TerminalTags
      <4>2. Terminal(records[o], TRUE, ReconciledTag(records[o], ev)) \in OpStates
        BY <2>1, <4>1, StatesTyped
      <4> QED BY <2>2, <3>2, <4>2
    <3>3. CASE /\ fenced' \in BOOLEAN /\ todo' = todo \ {o}
               /\ UNCHANGED <<journalVars, registryVars>>
      BY <1>0, <3>3, NoWriteTyped DEF TypeOK
    <3>4. fenced \in BOOLEAN
      BY DEF TypeOK
    <3> QED BY <1>5, <3>1, <3>2, <3>3, <3>4 DEF Reconcile
  <2> QED BY <1>5, <2>3 DEF Reconcile, TypeOK, DataTyped
<1> QED BY <1>1, <1>2, <1>3, <1>4, <1>5

\* Every reachable state of Core, its journal and its calls is well typed.
THEOREM TypeCorrect == Spec => []TypeOK
<1>1. Init => TypeOK
  <2>1. /\ Absent \in OpStates /\ "idle" \in PCs /\ <<>> \in Seq(OpId)
        /\ 0 \in 0..MaxEpoch /\ 1 \in 1..MaxEpoch
    BY StatesTyped, MaxEpochAssumption DEF PCs
  <2> SUFFICES ASSUME Init PROVE TypeOK
    OBVIOUS
  <2>2. /\ wal \in [OpId -> OpStates] /\ records \in [OpId -> OpStates]
        /\ pc \in [OpId -> PCs] /\ applied \in [OpId -> Nat] /\ order \in Seq(OpId)
    BY <2>1 DEF Init
  <2>3. /\ walFailed \in BOOLEAN /\ fenced \in BOOLEAN
        /\ seen \subseteq OpId /\ leases \subseteq OpId /\ todo \subseteq OpId
        /\ phase \in {"down", "reconciling", "up"}
    BY DEF Init
  <2>4. walEpoch \in 1..MaxEpoch /\ epoch \in 0..MaxEpoch
    BY <2>1 DEF Init
  <2> QED BY <2>2, <2>3, <2>4 DEF TypeOK
<1>2. TypeOK /\ [Next]_vars => TypeOK'
  <2> SUFFICES ASSUME TypeOK, [Next]_vars PROVE TypeOK'
    OBVIOUS
  <2>1. CASE UNCHANGED vars
    BY <2>1 DEF vars, journalVars, registryVars, processVars, TypeOK
  <2>2. CASE Next
    BY <2>2, CallStepTyped, CommitStepTyped, FenceStepTyped, StartupStepTyped DEF Next
  <2> QED BY <2>1, <2>2
<1> QED BY <1>1, <1>2, PTL DEF Spec

-----------------------------------------------------------------------------
(* At most one application, behind the commit barrier *)

\* EffectInv, operation by operation.
OpInv(o) ==
    /\ CallInv(o) /\ ShapeInv(o)
    /\ applied[o] <= 1
    /\ o \in Transactional /\ applied[o] > 0 =>
          wal[o].tag \in {"CommitStarted", "Applied", "DurabilityFailed", "OutcomeUnknown"}
    /\ wal[o].tag = "Applied" => applied[o] = 1

\* The invariant taken apart: a part per operation and three global parts.
LEMMA EffectInvByOp ==
    EffectInv <=> PhaseInv /\ SeenInv /\ JournalFirst /\ \A o \in OpId : OpInv(o)
BY DEF EffectInv, OpInv, AtMostOnce, NoEffectBeforeCommit, AppliedIsTrue, Transactional

\* A step on o leaves the records of the others alone, up to the eviction
\* of settled ones.
OthersKept(o) ==
    \A q \in OpId \ {o} :
        /\ wal'[q] = wal[q]
        /\ records'[q] = records[q] \/ (IsTerminal(records[q]) /\ records'[q] = Absent)

\* What an attempt to record s for o leaves behind.
Written(o, s) ==
    /\ SeenInv' /\ JournalFirst' /\ OthersKept(o)
    /\ wal'[o] \in {wal[o], s} /\ records'[o] \in {records[o], s}

\* What a step of a process that stays in its phase can rely on.
Running == TypeOK /\ EffectInv /\ phase # "down" /\ phase' = phase

\* A successful append of a retained record is one write of it.
LEMMA PublishWritten ==
    ASSUME Running, ~walFailed, UNCHANGED epoch, NEW o \in OpId, NEW s \in OpStates,
           IsPresent(records[o]), IsPresent(s), Publish(o, s) \/ PublishTerminal(o, s)
    PROVE  Written(o, s) /\ wal'[o] = s /\ records'[o] = s
<1> USE DEF Running, TypeOK, EffectInv
<1>1. /\ wal' = [wal EXCEPT ![o] = s] /\ records' = [records EXCEPT ![o] = s]
      /\ UNCHANGED <<walEpoch, walFailed, seen>>
  BY DEF Publish, PublishTerminal
<1>2. SeenInv'
  BY <1>1 DEF SeenInv
<1>3. JournalFirst'
  BY <1>1 DEF JournalFirst
<1> QED BY <1>1, <1>2, <1>3 DEF Written, OthersKept

\* A failed append may have written, and fences.
LEMMA AppendFailsWritten ==
    ASSUME Running, NEW o \in OpId, NEW s \in OpStates, AppendFails(o, s)
    PROVE  Written(o, s) /\ records' = records
<1> USE DEF Running, TypeOK, EffectInv
<1>1. SeenInv'
  BY DEF AppendFails, SeenInv, registryVars
<1>2. JournalFirst'
  BY DEF AppendFails, JournalFirst
<1> QED BY <1>1, <1>2 DEF Written, OthersKept, AppendFails, registryVars

\* A call that writes nothing is a write of anything that happened not to occur.
LEMMA NoWriteWritten ==
    ASSUME Running, UNCHANGED epoch, NEW o \in OpId, NEW s,
           \/ NoWrite
           \/ fenced' = TRUE /\ UNCHANGED <<journalVars, registryVars>>
    PROVE  Written(o, s) /\ wal' = wal /\ records' = records
<1> USE DEF Running, TypeOK, EffectInv
<1>1. wal' = wal /\ records' = records /\ UNCHANGED <<walEpoch, walFailed, seen>>
      /\ (fenced' = fenced \/ fenced' = TRUE)
  BY DEF NoWrite, journalVars, registryVars
<1>2. SeenInv'
  BY <1>1 DEF SeenInv
<1>3. JournalFirst'
  BY <1>1 DEF JournalFirst
<1> QED BY <1>1, <1>2, <1>3 DEF Written, OthersKept

\* accept and cancel write their record; what they evict is settled and seen.
LEMMA InsertWritten ==
    ASSUME Running, ~walFailed, epoch' = walEpoch', NEW o \in OpId, NEW s \in OpStates,
           IsPresent(s), NEW queued, NEW unleased, Insert(o, s, queued, unleased)
    PROVE  Written(o, s) /\ wal'[o] = s /\ records'[o] = s
<1> USE DEF Running, TypeOK, EffectInv
<1>1. PICK k \in EvictCounts(records, order) :
          records' = [EvictRecords(records, order, k) EXCEPT ![o] = s]
  BY DEF Insert
<1>2. /\ wal' = [wal EXCEPT ![o] = s] /\ seen' = seen \cup {o} /\ walFailed' = walFailed
      /\ records'[o] = s
      /\ \A q \in OpId \ {o} :
            records'[q] = records[q] \/ (IsTerminal(records[q]) /\ records'[q] = Absent)
  BY <1>1 DEF Insert, EvictRecords, Popped
<1>3. SeenInv'
  <2>1. ASSUME NEW q \in OpId, q # o, IsPresent(records'[q]) PROVE IsPresent(records[q])
    <3>1. ~IsPresent(Absent)
      BY DEF IsPresent, Absent
    <3>2. records'[q] = records[q]
      BY <1>2, <2>1, <3>1
    <3> QED BY <2>1, <3>2
  <2>2. phase # "down" /\ \A q \in OpId : IsPresent(records[q]) => q \in seen
    BY DEF SeenInv
  <2> HIDE DEF Running, TypeOK, EffectInv
  <2> QED BY <1>2, <2>1, <2>2 DEF SeenInv
<1>4. JournalFirst'
  <2> SUFFICES ASSUME NEW q \in OpId
               PROVE  IF IsPresent(records'[q]) THEN records'[q] = wal'[q]
                      ELSE ~IsOpen(wal'[q]) /\ (IsPresent(wal'[q]) => q \in seen')
    BY <1>2 DEF JournalFirst
  <2>1. CASE q = o
    BY <1>2, <2>1
  <2>2. CASE q # o /\ records'[q] = records[q]
    BY <1>2, <2>2 DEF JournalFirst
  <2>3. CASE q # o /\ IsTerminal(records[q]) /\ records'[q] = Absent
    <3>1. IsPresent(records[q]) /\ ~IsOpen(records[q]) /\ ~IsPresent(records'[q])
      BY <2>3 DEF IsPresent, IsOpen, IsTerminal, TerminalTags, OpenTags, Absent
    <3>2. wal[q] = records[q] /\ q \in seen /\ wal'[q] = wal[q]
      BY <1>2, <2>3, <3>1 DEF JournalFirst, SeenInv
    <3> QED BY <1>2, <3>1, <3>2
  <2> QED BY <1>2, <2>1, <2>2, <2>3
<1> QED BY <1>2, <1>3, <1>4 DEF Written, OthersKept

\* The one operation a step is about: the others keep their durable record
\* and their effect; its own record moves as the journal's reader demands;
\* and only a claimed effect is applied.
Change(o) ==
    /\ \A q \in OpId \ {o} : wal'[q] = wal[q] /\ applied'[q] = applied[q]
    /\ wal'[o] # wal[o] => ValidRecoveredTransition(wal[o], wal'[o]) /\ applied'[o] = applied[o]
    /\ applied'[o] # applied[o] /\ o \in Transactional =>
          wal[o].tag = "CommitStarted" /\ applied[o] = 0

\* What every step keeps and does.
Kept == EffectInv' /\ (UNCHANGED <<wal, applied>> \/ \E o \in OpId : Change(o))

\* A step that is about o and leaves the calls and the effects of the others
\* alone is good if it is good for o.
LEMMA StepKept ==
    ASSUME Running, PhaseInv', NEW o \in OpId, NEW s, Written(o, s),
           \A q \in OpId \ {o} : pc'[q] = pc[q] /\ applied'[q] = applied[q],
           OpInv(o)',
           wal'[o] # wal[o] =>
              ValidRecoveredTransition(wal[o], wal'[o]) /\ applied'[o] = applied[o],
           applied'[o] # applied[o] /\ o \in Transactional =>
          wal[o].tag = "CommitStarted" /\ applied[o] = 0
    PROVE  Kept
<1>1. \A q \in OpId : OpInv(q)
  BY EffectInvByOp DEF Running
<1>2. ASSUME NEW q \in OpId \ {o} PROVE OpInv(q)'
  <2>1. wal'[q] = wal[q] /\ pc'[q] = pc[q] /\ applied'[q] = applied[q] /\ OpInv(q)
    BY <1>1 DEF Written, OthersKept
  <2>2. records[q].tag = "CommitStarted" => records'[q] = records[q]
    BY DEF Written, OthersKept, IsTerminal, TerminalTags
  <2> QED BY <2>1, <2>2 DEF OpInv, CallInv, ShapeInv
<1>3. \A q \in OpId : OpInv(q)'
  BY <1>2
<1>4. EffectInv'
  <2>1. PhaseInv' /\ SeenInv' /\ JournalFirst'
    BY DEF Written
  <2>2. AtMostOnce' /\ NoEffectBeforeCommit' /\ AppliedIsTrue'
    BY <1>3 DEF OpInv, AtMostOnce, NoEffectBeforeCommit, AppliedIsTrue, Transactional
  <2>3. \A q \in OpId : CallInv(q)' /\ ShapeInv(q)'
    BY <1>3 DEF OpInv
  <2> QED BY <2>1, <2>2, <2>3 DEF EffectInv
<1>5. Change(o)
  BY DEF Change, Written, OthersKept
<1> QED BY <1>4, <1>5 DEF Kept

\* Behind an open fence the retained record is the durable one, and an id
\* that is neither retained nor seen has no durable record.
LEMMA UnfencedExact ==
    ASSUME Running, ~fenced, NEW o \in OpId
    PROVE  /\ ~walFailed /\ epoch = walEpoch
           /\ IsPresent(records[o]) => wal[o] = records[o]
           /\ Unadmitted(o) => ~IsPresent(wal[o]) /\ ~IsPresent(records[o])
BY DEF Running, EffectInv, JournalFirst, Unadmitted

\* A transition of an unfenced Core: it is durable and published, or the
\* append failed and the map is as it was.
LEMMA TransitionWritten ==
    ASSUME Running, ~fenced, UNCHANGED epoch, NEW o \in OpId, NEW s \in OpStates,
           IsPresent(records[o]), IsPresent(s), NEW ok, NEW err,
           Transition(o, s, ok, err) \/ Finish(o, s, ok, err)
    PROVE  /\ Written(o, s) /\ wal[o] = records[o]
           /\ \/ wal'[o] = s /\ records'[o] = s /\ pc' = [pc EXCEPT ![o] = ok]
              \/ /\ wal'[o] \in {wal[o], s} /\ records'[o] = records[o]
                 /\ pc' = [pc EXCEPT ![o] = err]
<1>1. ~walFailed /\ wal[o] = records[o]
  BY UnfencedExact
<1>2. CASE (Publish(o, s) \/ PublishTerminal(o, s)) /\ pc' = [pc EXCEPT ![o] = ok]
  <2>1. Written(o, s) /\ wal'[o] = s /\ records'[o] = s
    BY <1>1, <1>2, PublishWritten
  <2> QED BY <1>1, <1>2, <2>1
<1>3. CASE AppendFails(o, s) /\ pc' = [pc EXCEPT ![o] = err]
  <2>1. Written(o, s) /\ records' = records
    BY <1>3, AppendFailsWritten
  <2> QED BY <1>1, <1>3, <2>1 DEF Written
<1> QED BY <1>2, <1>3 DEF Transition, Finish

\* What a cancellation leaves behind: nothing, or a durable Cancelled over a
\* record that had not claimed its commit slot.
CancelKept(o) ==
    /\ Written(o, CancelledBeforeCommit(o))
    /\ \/ wal'[o] = wal[o] /\ records'[o] = records[o]
       \/ /\ wal[o].tag \in {"Absent", "Accepted", "Executing", "Prepared"}
          /\ wal'[o] = CancelledBeforeCommit(o)
          /\ IsPresent(wal[o]) => wal[o] = records[o]
          /\ ~IsPresent(wal[o]) => ~IsPresent(records[o])

\* What Cancellable says about the durable record.
LEMMA CancellableExact ==
    ASSUME Running, NEW o \in OpId, Cancellable(o)
    PROVE  /\ ~walFailed /\ epoch = walEpoch
           /\ wal[o].tag \in {"Absent", "Accepted", "Executing", "Prepared"}
           /\ IsPresent(wal[o]) => wal[o] = records[o]
           /\ ~IsPresent(wal[o]) => ~IsPresent(records[o])
<1>1. ~fenced
  BY DEF Cancellable
<1>2. CASE records[o].tag \in {"Accepted", "Executing", "Prepared"}
  BY <1>1, <1>2, UnfencedExact DEF IsPresent
<1>3. CASE Unadmitted(o)
  BY <1>1, <1>3, UnfencedExact DEF IsPresent
<1> QED BY <1>2, <1>3 DEF Cancellable

\* A cancelled record is present.
LEMMA CancelledPresent ==
    ASSUME NEW o \in OpId
    PROVE  /\ IsPresent(CancelledBeforeCommit(o))
           /\ CancelledBeforeCommit(o).tag = "Cancelled"
BY DEF CancelledBeforeCommit, Terminal, IsPresent

\* The three ways a caller cancels, as one shape of step.
LEMMA CancelWritten ==
    ASSUME Running, UNCHANGED epoch, NEW o \in OpId,
           TryCancel(o) \/ MustCancel(o) \/ AbortPrepared(o)
    PROVE  CancelKept(o)
<1>0. CancelledBeforeCommit(o) \in OpStates /\ IsPresent(CancelledBeforeCommit(o))
  BY CancelledTyped, CancelledPresent DEF Running, TypeOK, DataTyped
<1>1. CASE Cancellable(o) /\ CancelWrites(o) /\ UNCHANGED walEpoch
  <2>1. ~walFailed /\ epoch' = walEpoch'
    BY <1>1, CancellableExact
  <2>2. Written(o, CancelledBeforeCommit(o)) /\ wal'[o] = CancelledBeforeCommit(o)
    BY <1>0, <1>1, <2>1, InsertWritten DEF CancelWrites
  <2> QED BY <1>1, <2>2, CancellableExact DEF CancelKept
<1>2. CASE Cancellable(o) /\ AppendFails(o, CancelledBeforeCommit(o))
  <2>1. Written(o, CancelledBeforeCommit(o)) /\ records' = records
    BY <1>0, <1>2, AppendFailsWritten
  <2> QED BY <1>2, <2>1, CancellableExact DEF CancelKept, Written
<1>3. CASE NoWrite \/ (fenced' = TRUE /\ UNCHANGED <<journalVars, registryVars>>)
  BY <1>3, NoWriteWritten DEF CancelKept
<1> QED BY <1>1, <1>2, <1>3 DEF TryCancel, MustCancel, AbortPrepared

\* A cancellation, with its caller returning or going on, keeps the
\* invariant and writes what the reader accepts.
LEMMA CancelStepKept ==
    ASSUME Running, PhaseInv', NEW o \in OpId, CancelKept(o), UNCHANGED applied, NEW p,
           pc' = [pc EXCEPT ![o] = p],
           \/ p = pc[o]
           \/ pc[o] # "idle" /\ p = "done"
           \/ pc[o] # "idle" /\ p = "rejected" /\ o \notin Direct
    PROVE  Kept
<1>1. OpInv(o) /\ pc'[o] = p /\ applied'[o] = applied[o]
      /\ \A q \in OpId \ {o} : pc'[q] = pc[q] /\ applied'[q] = applied[q]
  BY EffectInvByOp DEF Running, TypeOK
<1>2. CASE wal'[o] = wal[o] /\ records'[o] = records[o]
  <2>1. OpInv(o)'
    BY <1>1, <1>2 DEF OpInv, CallInv, ShapeInv, ReceiptTags
  <2> QED BY <1>1, <1>2, <2>1, StepKept DEF CancelKept
<1>3. CASE /\ wal[o].tag \in {"Absent", "Accepted", "Executing", "Prepared"}
           /\ wal'[o] = CancelledBeforeCommit(o)
           /\ IsPresent(wal[o]) => wal[o] = records[o]
           /\ ~IsPresent(wal[o]) => ~IsPresent(records[o])
  <2>1. wal'[o].tag = "Cancelled" /\ IsPresent(wal'[o])
    BY <1>3, CancelledPresent
  <2>2. OpInv(o)'
    BY <1>1, <1>3, <2>1 DEF OpInv, CallInv, ShapeInv, ReceiptTags
  <2>3. ValidRecoveredTransition(wal[o], wal'[o])
    <3>1. CASE IsPresent(wal[o])
      <4>1. wal'[o] = Terminal(wal[o], wal[o].eff, "Cancelled")
        BY <1>3, <3>1 DEF CancelledBeforeCommit
      <4> QED BY <1>1, <1>3, <3>1, <4>1 DEF ValidRecoveredTransition, MonotonicRecord, Terminal,
                 IsTerminal, TerminalTags, OpInv, ShapeInv, IsPresent
    <3>2. CASE ~IsPresent(wal[o])
      BY <2>1, <3>2 DEF ValidRecoveredTransition, FirstRecord
    <3> QED BY <3>1, <3>2
  <2> QED BY <1>1, <2>2, <2>3, StepKept DEF CancelKept
<1> QED BY <1>2, <1>3 DEF CancelKept

\* A step of a call that records nothing.
LEMMA MoveKept ==
    ASSUME Running, PhaseInv', NEW o \in OpId, UNCHANGED <<epoch, applied>>, NEW p,
           \/ NoWrite
           \/ fenced' = TRUE /\ UNCHANGED <<journalVars, registryVars>>,
           pc' = [pc EXCEPT ![o] = p], pc[o] # "idle",
           \/ p \in {"done", "value"}
           \/ /\ p \in {"published", "approved", "leased"}
              /\ pc[o] \in {"admitted", "published", "approved", "leased"}
           \/ /\ p \in {"returned", "unstaging", "committing", "settling", "aborting", "rejected"}
              /\ o \notin Direct
           \/ pc[o] = "begun" /\ p = "reserved"
    PROVE  Kept
<1>1. OpInv(o) /\ pc'[o] = p /\ applied'[o] = applied[o]
      /\ \A q \in OpId \ {o} : pc'[q] = pc[q] /\ applied'[q] = applied[q]
  BY EffectInvByOp DEF Running, TypeOK
<1>2. Written(o, Absent) /\ wal' = wal /\ records' = records
  BY NoWriteWritten
<1>3. OpInv(o)'
  BY <1>1, <1>2 DEF OpInv, CallInv, ShapeInv, ReceiptTags
<1> QED BY <1>1, <1>2, <1>3, StepKept

\* The invariant of one operation, of the values it relates.
OpInvAt(o, w, r, p, n) ==
    /\ p # "idle" \/ n > 0 => IsPresent(w)
    /\ p \in {"admitted", "published", "approved", "leased", "running"} => n = 0
    /\ o \in Direct =>
          p \in {"idle", "admitted", "published", "approved", "leased", "running",
                 "acted", "value", "done"}
    /\ p \in {"begun", "reserved"} \cup ReceiptTags =>
          w.tag = "CommitStarted" /\ r.tag = "CommitStarted"
    /\ p \in {"begun", "reserved", "NotApplied"} => n = 0
    /\ p \in {"Applied", "DurabilityFailed"} => n = 1
    /\ w.tag = "Accepted" => ~w.eff
    /\ w.tag \in {"Prepared", "CommitStarted"} => w.eff
    /\ n <= 1
    /\ o \in Transactional /\ n > 0 =>
          w.tag \in {"CommitStarted", "Applied", "DurabilityFailed", "OutcomeUnknown"}
    /\ w.tag = "Applied" => n = 1

\* An operation's part of the invariant is a predicate on four values, before
\* and after a step.
LEMMA OpInvValues ==
    ASSUME NEW o \in OpId
    PROVE  /\ OpInv(o) <=> OpInvAt(o, wal[o], records[o], pc[o], applied[o])
           /\ OpInv(o)' <=> OpInvAt(o, wal'[o], records'[o], pc'[o], applied'[o])
BY DEF OpInv, OpInvAt, CallInv, ShapeInv

\* A step of a call that tries to record s and ends at ok, or at err.
LEMMA RecordKept ==
    ASSUME Running, PhaseInv', ~fenced, UNCHANGED <<epoch, applied>>, NEW o \in OpId,
           NEW s \in OpStates, IsPresent(records[o]), IsPresent(s), NEW ok, NEW err,
           Transition(o, s, ok, err) \/ Finish(o, s, ok, err),
           ValidRecoveredTransition(records[o], s),
           OpInvAt(o, s, s, ok, applied[o]),
           OpInvAt(o, s, records[o], err, applied[o]),
           OpInvAt(o, records[o], records[o], err, applied[o])
    PROVE  Kept
<1>1. /\ Written(o, s) /\ wal[o] = records[o]
      /\ \/ wal'[o] = s /\ records'[o] = s /\ pc' = [pc EXCEPT ![o] = ok]
         \/ /\ wal'[o] \in {wal[o], s} /\ records'[o] = records[o]
            /\ pc' = [pc EXCEPT ![o] = err]
  BY TransitionWritten
<1>2. /\ pc'[o] = IF pc' = [pc EXCEPT ![o] = ok] THEN ok ELSE err
      /\ \A q \in OpId \ {o} : pc'[q] = pc[q] /\ applied'[q] = applied[q]
  BY <1>1 DEF Running, TypeOK
<1>3. OpInvAt(o, wal'[o], records'[o], pc'[o], applied'[o])
  <2>1. CASE wal'[o] = s /\ records'[o] = s /\ pc' = [pc EXCEPT ![o] = ok]
    BY <2>1, <1>2
  <2>2. CASE wal'[o] \in {wal[o], s} /\ records'[o] = records[o] /\ pc' = [pc EXCEPT ![o] = err]
    <3>1. pc'[o] = err
      BY <2>2 DEF Running, TypeOK
    <3> QED BY <1>1, <2>2, <3>1
  <2> QED BY <1>1, <2>1, <2>2
<1>4. OpInv(o)'
  BY <1>3, OpInvValues
<1>5. wal'[o] # wal[o] => ValidRecoveredTransition(wal[o], wal'[o]) /\ applied'[o] = applied[o]
  BY <1>1
<1> QED BY <1>1, <1>2, <1>4, <1>5, StepKept

\* The steps of one operation's calls, up to the prepared effect or value.
LEMMA CallStepKept ==
    ASSUME TypeOK, EffectInv, NEW o \in OpId, CallStep(o)
    PROVE  Kept
<1>0. /\ phase = "up" /\ UNCHANGED <<phase, epoch>>
  BY DEF CallStep, Admit, PublishOperation, AbandonPermit, Authorize, RecordLease,
         MarkExecuting, DirectEffect, ToolReturns, MarkPrepared, Unstage, FinishValue, RejectRequest, processVars
<1>a. Running /\ PhaseInv'
  BY <1>0 DEF Running, PhaseInv
<1>b. /\ OpInv(o) /\ OpInvAt(o, wal[o], records[o], pc[o], applied[o])
      /\ records[o] \in OpStates /\ pc \in [OpId -> PCs] /\ applied \in [OpId -> Nat]
      /\ epoch \in Nat
  BY EffectInvByOp, OpInvValues DEF TypeOK
<1>c. ~fenced /\ IsPresent(records[o]) => wal[o] = records[o]
  BY <1>a, UnfencedExact
<1>d. records[o].tag \in {"Accepted", "Executing"} => IsPresent(records[o])
  BY DEF IsPresent
<1>1. CASE Admit(o)
  <2>1. ~walFailed /\ epoch = walEpoch /\ ~IsPresent(wal[o])
    BY <1>1, <1>a, UnfencedExact DEF Admit
  <2>2. pc[o] = "idle" /\ applied[o] = 0
    BY <1>b, <2>1 DEF OpInvAt
  <2>3. Accepted(epoch) \in OpStates /\ IsPresent(Accepted(epoch))
    BY <1>b, StatesTyped DEF Accepted, IsPresent
  <2>4. Written(o, Accepted(epoch)) /\ wal'[o] \in {wal[o], Accepted(epoch)}
    <3>1. CASE Insert(o, Accepted(epoch), <<>>, {}) /\ UNCHANGED walEpoch
      <4>1. epoch' = walEpoch'
        BY <1>0, <2>1, <3>1
      <4> QED BY ONLY <1>a, <2>1, <4>1, o \in OpId, <2>3, <3>1, InsertWritten
    <3>2. CASE AppendFails(o, Accepted(epoch))
      BY <1>a, <2>3, <3>2, AppendFailsWritten DEF Written
    <3> QED BY <1>1, <3>1, <3>2 DEF Admit
  <2>5. /\ applied' = applied
        /\ (pc'[o] = "admitted" /\ wal'[o] = Accepted(epoch)) \/ pc'[o] = "idle"
        /\ \A q \in OpId \ {o} : pc'[q] = pc[q] /\ applied'[q] = applied[q]
    BY <1>1, <1>b, <2>2 DEF Admit, Insert, TypeOK
  <2>6. OpInv(o)'
    <3>1. OpInvAt(o, wal'[o], records'[o], pc'[o], applied'[o])
      BY <1>b, <2>1, <2>2, <2>4, <2>5 DEF OpInvAt, Accepted, IsPresent, ReceiptTags
    <3> QED BY <3>1, OpInvValues
  <2>7. wal'[o] # wal[o] => ValidRecoveredTransition(wal[o], wal'[o]) /\ applied'[o] = applied[o]
    BY <2>1, <2>4, <2>5 DEF ValidRecoveredTransition, FirstRecord, Accepted
  <2> QED BY <1>a, <2>4, <2>5, <2>6, <2>7, StepKept
<1>2. CASE PublishOperation(o)
  <2>0. pc[o] = "admitted" /\ UNCHANGED <<epoch, applied>>
    BY <1>0, <1>2 DEF PublishOperation
  <2>1. CASE NoWrite /\ \E p \in {"published", "done"} : pc' = [pc EXCEPT ![o] = p]
    BY <1>a, <2>0, <2>1, MoveKept
  <2>2. CASE TryCancel(o) /\ pc' = [pc EXCEPT ![o] = "done"]
    BY <1>a, <2>0, <2>2, CancelWritten, CancelStepKept
  <2> QED BY <1>2, <2>1, <2>2 DEF PublishOperation
<1>3. CASE AbandonPermit(o)
  <2>0. /\ pc[o] # "idle" /\ UNCHANGED <<epoch, applied>>
        /\ TryCancel(o) /\ pc' = [pc EXCEPT ![o] = "done"]
    BY <1>0, <1>3 DEF AbandonPermit
  <2> QED BY <1>a, <2>0, CancelWritten, CancelStepKept
<1>4. CASE Authorize(o)
  <2>0. pc[o] = "published" /\ UNCHANGED <<epoch, applied>>
    BY <1>0, <1>4 DEF Authorize
  <2>1. CASE NoWrite /\ \E p \in {"approved", "done"} : pc' = [pc EXCEPT ![o] = p]
    BY <1>a, <2>0, <2>1, MoveKept
  <2>2. CASE TryCancel(o) /\ pc' = [pc EXCEPT ![o] = "done"]
    BY <1>a, <2>0, <2>2, CancelWritten, CancelStepKept
  <2>3. CASE /\ ~fenced /\ records[o].tag = "Accepted"
             /\ Finish(o, Terminal(records[o], FALSE, "Refused"), "done", "done")
    <3> DEFINE s == Terminal(records[o], FALSE, "Refused")
    <3>1. s \in OpStates /\ IsPresent(s) /\ IsPresent(records[o]) /\ wal[o] = records[o]
      BY <1>b, <1>c, <1>d, <2>3, StatesTyped DEF TerminalTags, Terminal, IsPresent
    <3>2. ValidRecoveredTransition(records[o], s)
      BY <2>3, <3>1 DEF ValidRecoveredTransition, MonotonicRecord, Terminal, IsTerminal, TerminalTags
    <3>3. /\ OpInvAt(o, s, s, "done", applied[o])
          /\ OpInvAt(o, s, records[o], "done", applied[o])
          /\ OpInvAt(o, records[o], records[o], "done", applied[o])
      BY <1>b, <2>0, <2>3, <3>1 DEF OpInvAt, Terminal, ReceiptTags
    <3> HIDE DEF s
    <3> QED BY <1>a, <2>0, <2>3, <3>1, <3>2, <3>3, RecordKept DEF s
  <2> QED BY <1>4, <2>1, <2>2, <2>3 DEF Authorize
<1>5. CASE RecordLease(o)
  <2>1. /\ pc[o] = "approved" /\ UNCHANGED <<epoch, applied, wal, walEpoch, walFailed, records,
                                             order, seen, fenced>>
        /\ \E p \in {"leased", "done"} : pc' = [pc EXCEPT ![o] = p]
    BY <1>0, <1>5 DEF RecordLease, journalVars
  <2>2. Written(o, Absent)
    <3>1. SeenInv'
      BY <1>a, <2>1 DEF Running, EffectInv, SeenInv
    <3>2. JournalFirst'
      BY <1>a, <2>1 DEF Running, EffectInv, JournalFirst
    <3> QED BY <2>1, <3>1, <3>2 DEF Written, OthersKept
  <2>3. OpInv(o)'
    <3>1. OpInvAt(o, wal'[o], records'[o], pc'[o], applied'[o])
      BY <1>b, <2>1 DEF OpInvAt, ReceiptTags
    <3> QED BY <3>1, OpInvValues
  <2>4. \A q \in OpId \ {o} : pc'[q] = pc[q] /\ applied'[q] = applied[q]
    BY <1>b, <2>1
  <2> QED BY <1>a, <2>1, <2>2, <2>3, <2>4, StepKept
<1>6. CASE MarkExecuting(o)
  <2>0. pc[o] = "leased" /\ UNCHANGED <<epoch, applied>>
    BY <1>0, <1>6 DEF MarkExecuting
  <2>1. CASE TryCancel(o) /\ pc' = [pc EXCEPT ![o] = "done"]
    BY <1>a, <2>0, <2>1, CancelWritten, CancelStepKept
  <2>2. CASE /\ ~fenced /\ records[o].tag = "Accepted"
             /\ Transition(o, Executing(records[o], o \notin ReadOnly), "running", "done")
    <3> DEFINE s == Executing(records[o], o \notin ReadOnly)
    <3>1. s \in OpStates /\ IsPresent(s) /\ IsPresent(records[o]) /\ wal[o] = records[o]
      BY <1>b, <1>c, <1>d, <2>2, StatesTyped DEF Executing, IsPresent
    <3>2. ValidRecoveredTransition(records[o], s)
      BY <2>2, <3>1 DEF ValidRecoveredTransition, MonotonicRecord, Executing
    <3>3. /\ OpInvAt(o, s, s, "running", applied[o])
          /\ OpInvAt(o, s, records[o], "done", applied[o])
          /\ OpInvAt(o, records[o], records[o], "done", applied[o])
      BY <1>b, <2>0, <2>2, <3>1 DEF OpInvAt, Executing, ReceiptTags
    <3> HIDE DEF s
    <3> QED BY <1>a, <2>0, <2>2, <3>1, <3>2, <3>3, RecordKept DEF s
  <2> QED BY <1>6, <2>1, <2>2 DEF MarkExecuting
<1>7. CASE DirectEffect(o)
  <2>1. /\ pc[o] = "running" /\ o \in Direct /\ UNCHANGED <<epoch, wal, records>> /\ NoWrite
        /\ pc'[o] = "acted" /\ applied[o] = 0 /\ applied'[o] = 1
        /\ \A q \in OpId \ {o} : pc'[q] = pc[q] /\ applied'[q] = applied[q]
    BY <1>0, <1>7, <1>b DEF DirectEffect, OpInvAt, NoWrite, journalVars, registryVars
  <2>2. OpInvAt(o, wal'[o], records'[o], pc'[o], applied'[o])
    <3>1. wal[o].tag # "Applied"
      BY <1>b, <2>1 DEF OpInvAt
    <3> QED BY <1>b, <2>1, <3>1 DEF OpInvAt, Transactional, ReceiptTags
  <2>3. Written(o, Absent) /\ wal' = wal
    BY <1>a, <2>1, NoWriteWritten
  <2>4. OpInv(o)'
    BY <2>2, OpInvValues
  <2> QED BY <1>a, <2>1, <2>3, <2>4, StepKept DEF Transactional
<1>8. CASE ToolReturns(o)
  <2>0. /\ pc[o] # "idle" /\ UNCHANGED <<epoch, applied>>
        /\ NoWrite \/ (fenced' = TRUE /\ UNCHANGED <<journalVars, registryVars>>)
        /\ \/ pc' = [pc EXCEPT ![o] = "value"]
           \/ pc' = [pc EXCEPT ![o] = "returned"] /\ o \notin Direct
    BY <1>0, <1>8 DEF ToolReturns, NoWrite
  <2> QED BY <1>a, <2>0, MoveKept
<1>9. CASE MarkPrepared(o)
  <2>0. pc[o] = "returned" /\ UNCHANGED <<epoch, applied>> /\ o \notin Direct
    BY <1>0, <1>9, <1>b DEF MarkPrepared, OpInvAt
  <2>1. CASE NoWrite /\ pc' = [pc EXCEPT ![o] = "unstaging"]
    BY <1>a, <2>0, <2>1, MoveKept
  <2>2. CASE /\ ~fenced /\ records[o].tag = "Executing" /\ records[o].eff
             /\ Transition(o, Prepared(records[o]), "held", "unstaging")
    <3> DEFINE s == Prepared(records[o])
    <3>1. s \in OpStates /\ IsPresent(s) /\ IsPresent(records[o]) /\ wal[o] = records[o]
      BY <1>b, <1>c, <1>d, <2>2, StatesTyped DEF Prepared, IsPresent
    <3>2. ValidRecoveredTransition(records[o], s)
      BY <2>2, <3>1 DEF ValidRecoveredTransition, MonotonicRecord, Prepared
    <3>3. /\ OpInvAt(o, s, s, "held", applied[o])
          /\ OpInvAt(o, s, records[o], "unstaging", applied[o])
          /\ OpInvAt(o, records[o], records[o], "unstaging", applied[o])
      BY <1>b, <2>0, <2>2, <3>1 DEF OpInvAt, Prepared, ReceiptTags
    <3> HIDE DEF s
    <3> QED BY <1>a, <2>0, <2>2, <3>1, <3>2, <3>3, RecordKept DEF s
  <2> QED BY <1>9, <2>1, <2>2 DEF MarkPrepared
<1>10. CASE Unstage(o)
  <2>0. pc[o] = "unstaging" /\ UNCHANGED <<epoch, applied>> /\ pc' = [pc EXCEPT ![o] = "done"]
    BY <1>0, <1>10 DEF Unstage
  <2>1. CASE MustCancel(o)
    BY <1>a, <2>0, <2>1, CancelWritten, CancelStepKept
  <2>2. CASE fenced' = TRUE /\ UNCHANGED <<journalVars, registryVars>>
    BY <1>a, <2>0, <2>2, MoveKept
  <2> QED BY <1>10, <2>1, <2>2 DEF Unstage
<1>11. CASE FinishValue(o)
  <2>0. pc[o] = "value" /\ UNCHANGED <<epoch, applied>>
    BY <1>0, <1>11 DEF FinishValue
  <2>1. CASE NoWrite /\ pc' = [pc EXCEPT ![o] = "done"]
    BY <1>a, <2>0, <2>1, MoveKept
  <2>2. CASE TryCancel(o) /\ pc' = [pc EXCEPT ![o] = "done"]
    BY <1>a, <2>0, <2>2, CancelWritten, CancelStepKept
  <2>3. CASE /\ ~fenced /\ records[o].tag = "Executing"
             /\ Finish(o, Terminal(records[o], FALSE, "CompletedValue"), "done", "done")
    <3> DEFINE s == Terminal(records[o], FALSE, "CompletedValue")
    <3>1. s \in OpStates /\ IsPresent(s) /\ IsPresent(records[o]) /\ wal[o] = records[o]
      BY <1>b, <1>c, <1>d, <2>3, StatesTyped DEF TerminalTags, Terminal, IsPresent
    <3>2. ValidRecoveredTransition(records[o], s)
      <4>1. records[o].eff \in BOOLEAN
        BY <1>b DEF OpStates
      <4> QED BY <2>3, <3>1, <4>1 DEF ValidRecoveredTransition, MonotonicRecord, Terminal,
                 IsTerminal, TerminalTags
    <3>3. /\ OpInvAt(o, s, s, "done", applied[o])
          /\ OpInvAt(o, s, records[o], "done", applied[o])
          /\ OpInvAt(o, records[o], records[o], "done", applied[o])
      BY <1>b, <2>0, <2>3, <3>1 DEF OpInvAt, Terminal, ReceiptTags
    <3> HIDE DEF s
    <3> QED BY <1>a, <2>0, <2>3, <3>1, <3>2, <3>3, RecordKept DEF s
  <2> QED BY <1>11, <2>1, <2>2, <2>3 DEF FinishValue
<1>12. CASE RejectRequest(o)
  <2>0. /\ pc[o] # "idle" /\ UNCHANGED <<epoch, applied>>
        /\ TryCancel(o) /\ pc' = [pc EXCEPT ![o] = "done"]
    BY <1>0, <1>12 DEF RejectRequest
  <2> QED BY <1>a, <2>0, CancelWritten, CancelStepKept
<1> QED BY <1>1, <1>2, <1>3, <1>4, <1>5, <1>6, <1>7, <1>8, <1>9, <1>10, <1>11, <1>12 DEF CallStep

\* The steps of commit_effect and rollback_effect.
LEMMA CommitStepKept ==
    ASSUME TypeOK, EffectInv, NEW o \in OpId, CommitStep(o)
    PROVE  Kept
<1>0. /\ phase = "up" /\ UNCHANGED <<phase, epoch>>
  BY DEF CommitStep, CommitEffect, BeginCommit, Reserve, Dispatch, FinishEffect,
         SettleRejected, RollbackEffect, processVars
<1>a. Running /\ PhaseInv'
  BY <1>0 DEF Running, PhaseInv
<1>b. /\ OpInv(o) /\ OpInvAt(o, wal[o], records[o], pc[o], applied[o])
      /\ records[o] \in OpStates /\ pc \in [OpId -> PCs] /\ applied \in [OpId -> Nat]
  BY EffectInvByOp, OpInvValues DEF TypeOK
<1>c. ~fenced /\ IsPresent(records[o]) => wal[o] = records[o]
  BY <1>a, UnfencedExact
<1>d. Reject(o) => NoWrite /\ \E p \in {"settling", "aborting"} : pc' = [pc EXCEPT ![o] = p]
  BY DEF Reject
<1>1. CASE CommitEffect(o)
  <2>0. /\ pc[o] = "held" /\ UNCHANGED <<epoch, applied>> /\ o \notin Direct /\ NoWrite
        /\ \E p \in {"done", "committing", "settling", "aborting"} : pc' = [pc EXCEPT ![o] = p]
    BY <1>0, <1>1, <1>b, <1>d DEF CommitEffect, OpInvAt
  <2> QED BY <1>a, <2>0, MoveKept
<1>2. CASE BeginCommit(o)
  <2>0. pc[o] = "committing" /\ UNCHANGED <<epoch, applied>> /\ o \notin Direct
    BY <1>0, <1>2, <1>b DEF BeginCommit, OpInvAt
  <2>1. CASE Reject(o)
    BY <1>a, <1>d, <2>0, <2>1, MoveKept
  <2>2. CASE /\ ~fenced /\ records[o].tag = "Prepared"
             /\ Transition(o, CommitStarted(records[o]), "begun", "aborting")
    <3> DEFINE s == CommitStarted(records[o])
    <3>1. s \in OpStates /\ IsPresent(s) /\ IsPresent(records[o]) /\ wal[o] = records[o]
      BY <1>b, <1>c, <2>2, StatesTyped DEF CommitStarted, IsPresent
    <3>2. ValidRecoveredTransition(records[o], s)
      BY <1>b, <2>2, <3>1 DEF ValidRecoveredTransition, MonotonicRecord, CommitStarted, OpInvAt
    <3>3. applied[o] = 0
      BY <1>b, <2>0, <2>2, <3>1 DEF OpInvAt, Transactional
    <3>4. /\ OpInvAt(o, s, s, "begun", applied[o])
          /\ OpInvAt(o, s, records[o], "aborting", applied[o])
          /\ OpInvAt(o, records[o], records[o], "aborting", applied[o])
      BY <1>b, <2>0, <2>2, <3>1, <3>3 DEF OpInvAt, CommitStarted, ReceiptTags, IsPresent
    <3> HIDE DEF s
    <3> QED BY <1>a, <2>0, <2>2, <3>1, <3>2, <3>4, RecordKept DEF s
  <2> QED BY <1>2, <2>1, <2>2 DEF BeginCommit
<1>3. CASE Reserve(o)
  <2>0. /\ pc[o] = "begun" /\ UNCHANGED <<epoch, applied>> /\ o \notin Direct /\ NoWrite
        /\ \E p \in {"reserved", "settling", "aborting"} : pc' = [pc EXCEPT ![o] = p]
    BY <1>0, <1>3, <1>b, <1>d DEF Reserve, OpInvAt
  <2> QED BY <1>a, <2>0, MoveKept
<1>4. CASE Dispatch(o)
  <2>1. /\ pc[o] = "reserved" /\ UNCHANGED <<epoch, wal, records>> /\ NoWrite
        /\ wal[o].tag = "CommitStarted" /\ records[o].tag = "CommitStarted"
        /\ applied[o] = 0 /\ o \notin Direct
    BY <1>0, <1>4, <1>b DEF Dispatch, OpInvAt, NoWrite, journalVars, registryVars
  <2>2. /\ \/ applied'[o] = 1 /\ pc'[o] \in {"Applied", "DurabilityFailed", "OutcomeUnknown"}
           \/ applied'[o] = 0 /\ pc'[o] \in {"NotApplied", "OutcomeUnknown"}
        /\ \A q \in OpId \ {o} : pc'[q] = pc[q] /\ applied'[q] = applied[q]
    BY <1>4, <1>b, <2>1 DEF Dispatch, ReceiptTags
  <2>3. OpInvAt(o, wal'[o], records'[o], pc'[o], applied'[o])
    BY <1>b, <2>1, <2>2 DEF OpInvAt, ReceiptTags
  <2>4. Written(o, Absent) /\ wal' = wal
    BY <1>a, <2>1, NoWriteWritten
  <2>5. OpInv(o)'
    BY <2>3, OpInvValues
  <2> QED BY <1>a, <2>1, <2>2, <2>4, <2>5, StepKept
<1>5. CASE FinishEffect(o)
  <2>0. pc[o] \in ReceiptTags /\ UNCHANGED <<epoch, applied>>
    BY <1>0, <1>5 DEF FinishEffect
  <2>1. CASE NoWrite /\ pc' = [pc EXCEPT ![o] = "done"]
    BY <1>a, <2>0, <2>1, MoveKept DEF ReceiptTags
  <2>2. CASE /\ ~fenced /\ records[o].tag = "CommitStarted"
             /\ Finish(o, Terminal(records[o], TRUE, pc[o]), "done", "done")
    <3> DEFINE s == Terminal(records[o], TRUE, pc[o])
    <3>1. s \in OpStates /\ IsPresent(s) /\ IsPresent(records[o]) /\ wal[o] = records[o]
      BY <1>b, <1>c, <2>0, <2>2, StatesTyped DEF TerminalTags, ReceiptTags, Terminal, IsPresent
    <3>2. ValidRecoveredTransition(records[o], s)
      BY <2>0, <2>2, <3>1 DEF ValidRecoveredTransition, MonotonicRecord, Terminal,
         IsTerminal, TerminalTags, ReceiptTags
    <3>3. /\ OpInvAt(o, s, s, "done", applied[o])
          /\ OpInvAt(o, s, records[o], "done", applied[o])
          /\ OpInvAt(o, records[o], records[o], "done", applied[o])
      BY <1>b, <2>0, <2>2, <3>1 DEF OpInvAt, Terminal, ReceiptTags
    <3> HIDE DEF s
    <3> QED BY <1>a, <2>0, <2>2, <3>1, <3>2, <3>3, RecordKept DEF s
  <2> QED BY <1>5, <2>1, <2>2 DEF FinishEffect
<1>6. CASE SettleRejected(o)
  <2>0. /\ pc[o] # "idle" /\ o \notin Direct /\ UNCHANGED <<epoch, applied>>
        /\ pc' = [pc EXCEPT ![o] = "rejected"]
    BY <1>0, <1>6, <1>b DEF SettleRejected, OpInvAt
  <2>1. CASE AbortPrepared(o)
    BY <1>a, <2>0, <2>1, CancelWritten, CancelStepKept
  <2>2. CASE NoWrite \/ (fenced' = TRUE /\ UNCHANGED <<journalVars, registryVars>>)
    BY <1>a, <2>0, <2>2, MoveKept
  <2> QED BY <1>6, <2>1, <2>2 DEF SettleRejected
<1>7. CASE RollbackEffect(o)
  <2>0. pc[o] = "held" /\ UNCHANGED <<epoch, applied>> /\ pc' = [pc EXCEPT ![o] = "done"]
    BY <1>0, <1>7 DEF RollbackEffect
  <2>1. CASE AbortPrepared(o)
    BY <1>a, <2>0, <2>1, CancelWritten, CancelStepKept
  <2>2. CASE fenced' = TRUE /\ UNCHANGED <<journalVars, registryVars>>
    BY <1>a, <2>0, <2>2, MoveKept
  <2> QED BY <1>7, <2>1, <2>2 DEF RollbackEffect
<1> QED BY <1>1, <1>2, <1>3, <1>4, <1>5, <1>6, <1>7 DEF CommitStep

\* Cancellation from outside and the epoch fence.
LEMMA FenceStepKept ==
    ASSUME TypeOK, EffectInv,
           AdvanceEpoch \/ \E o \in OpId : CancelOperation(o) \/ CancelAndAdvance(o)
    PROVE  Kept
<1>0. phase = "up" /\ UNCHANGED <<phase, todo, pc, applied>>
  BY DEF AdvanceEpoch, CancelOperation, CancelAndAdvance, processVars
<1>a. Running /\ PhaseInv'
  BY <1>0 DEF Running, PhaseInv
<1>1. CASE AdvanceEpoch
  <2>1. /\ UNCHANGED <<wal, records, seen>>
        /\ \/ walEpoch' = epoch' /\ UNCHANGED <<walFailed, fenced>>
           \/ walFailed' = TRUE /\ fenced' = TRUE
    BY <1>1 DEF AdvanceEpoch, registryVars
  <2>2. JournalFirst'
    BY <1>a, <2>1 DEF Running, EffectInv, JournalFirst
  <2>3. SeenInv'
    BY <1>a, <2>1 DEF Running, EffectInv, SeenInv
  <2>4. AtMostOnce' /\ NoEffectBeforeCommit' /\ AppliedIsTrue'
    BY <1>0, <2>1 DEF EffectInv, AtMostOnce, NoEffectBeforeCommit, AppliedIsTrue
  <2>5. \A o \in OpId : CallInv(o)' /\ ShapeInv(o)'
    BY <1>0, <2>1 DEF EffectInv, CallInv, ShapeInv
  <2> QED BY <1>0, <1>a, <2>1, <2>2, <2>3, <2>4, <2>5 DEF EffectInv, Kept
<1>2. ASSUME NEW o \in OpId, CancelOperation(o)
      PROVE  Kept
  <2>1. /\ TryCancel(o) /\ UNCHANGED <<epoch, applied>> /\ pc' = [pc EXCEPT ![o] = pc[o]]
    BY <1>2 DEF CancelOperation, processVars, TypeOK
  <2> QED BY <1>a, <2>1, CancelWritten, CancelStepKept
<1>3. ASSUME NEW o \in OpId, CancelAndAdvance(o)
      PROVE  Kept
  <2>0. CancelledBeforeCommit(o) \in OpStates /\ IsPresent(CancelledBeforeCommit(o))
    BY CancelledTyped, CancelledPresent DEF TypeOK, DataTyped
  <2>1. Cancellable(o) /\ UNCHANGED applied /\ pc' = [pc EXCEPT ![o] = pc[o]]
    BY <1>3 DEF CancelAndAdvance, TypeOK
  <2>2. CancelKept(o)
    <3>1. CASE CancelWrites(o) /\ walEpoch' = epoch'
      <4>1. ~walFailed
        BY <1>a, <2>1, CancellableExact
      <4>2. Written(o, CancelledBeforeCommit(o)) /\ wal'[o] = CancelledBeforeCommit(o)
        BY <1>a, <2>0, <3>1, <4>1, InsertWritten DEF CancelWrites
      <4> QED BY <1>a, <2>1, <4>2, CancellableExact DEF CancelKept
    <3>2. CASE /\ wal' = wal \/ wal' = [wal EXCEPT ![o] = CancelledBeforeCommit(o)]
               /\ walFailed' = TRUE /\ fenced' = TRUE /\ UNCHANGED registryVars
      <4>1. JournalFirst'
        BY <3>2 DEF JournalFirst
      <4>2. SeenInv'
        BY <1>a, <3>2 DEF Running, EffectInv, SeenInv, registryVars
      <4>3. Written(o, CancelledBeforeCommit(o)) /\ records' = records
        BY <3>2, <4>1, <4>2 DEF Written, OthersKept, registryVars, TypeOK
      <4> QED BY <1>a, <2>1, <4>3, CancellableExact DEF CancelKept, Written
    <3> QED BY <1>3, <3>1, <3>2 DEF CancelAndAdvance
  <2> QED BY <1>a, <2>1, <2>2, CancelStepKept
<1> QED BY <1>1, <1>2, <1>3

\* A step that changes neither the durable records nor the world, of a
\* process without calls.
LEMMA QuietKept ==
    ASSUME TypeOK, EffectInv, UNCHANGED <<wal, applied>>, PhaseInv', SeenInv', JournalFirst',
           \A o \in OpId : pc'[o] = "idle"
    PROVE  Kept
<1>1. AtMostOnce' /\ NoEffectBeforeCommit' /\ AppliedIsTrue'
  BY DEF EffectInv, AtMostOnce, NoEffectBeforeCommit, AppliedIsTrue
<1>2. \A o \in OpId : CallInv(o)' /\ ShapeInv(o)'
  BY DEF EffectInv, CallInv, ShapeInv, ReceiptTags
<1> QED BY <1>1, <1>2 DEF EffectInv, Kept

\* Crash and startup.
LEMMA StartupStepKept ==
    ASSUME TypeOK, EffectInv,
           Crash \/ Restart \/ RestartFails \/ FinishStartup \/ \E o \in OpId : Reconcile(o)
    PROVE  Kept
<1>1. CASE Crash
  <2>1. PhaseInv' /\ SeenInv' /\ JournalFirst' /\ \A o \in OpId : pc'[o] = "idle"
    BY <1>1 DEF Crash, PhaseInv, SeenInv, JournalFirst
  <2> QED BY <1>1, <2>1, QuietKept DEF Crash
<1>2. CASE Restart
  <2>0. PICK ord \in SortedById(Settled) : \E k \in EvictCounts(wal, ord) :
            records' = EvictRecords(wal, ord, k)
    BY <1>2 DEF Restart
  <2>1. PICK k \in EvictCounts(wal, ord) : records' = EvictRecords(wal, ord, k)
    BY <2>0
  <2>2. /\ ~walFailed' /\ phase' = "reconciling" /\ epoch' = walEpoch' /\ UNCHANGED <<wal, applied>>
        /\ seen' = {o \in OpId : IsPresent(wal[o])}
        /\ \A o \in OpId : pc'[o] = "idle"
    BY <1>2 DEF Restart, EffectInv, PhaseInv
  <2>3. \A o \in OpId : records'[o] = wal[o] \/ (IsTerminal(wal[o]) /\ records'[o] = Absent)
    BY <2>1 DEF EvictRecords, Popped
  <2>4. SeenInv' /\ PhaseInv'
    BY <2>2, <2>3 DEF SeenInv, PhaseInv, IsPresent, Absent
  <2>5. JournalFirst'
    <3> SUFFICES ASSUME NEW o \in OpId
                 PROVE  IF IsPresent(records'[o]) THEN records'[o] = wal'[o]
                        ELSE ~IsOpen(wal'[o]) /\ (IsPresent(wal'[o]) => o \in seen')
      BY <2>2 DEF JournalFirst
    <3>1. CASE records'[o] = wal[o]
      BY <2>2, <3>1 DEF IsPresent, IsOpen, OpenTags
    <3>2. CASE IsTerminal(wal[o]) /\ records'[o] = Absent
      BY <2>2, <3>2 DEF IsPresent, IsOpen, IsTerminal, Absent, OpenTags, TerminalTags
    <3> QED BY <2>3, <3>1, <3>2
  <2> QED BY <2>2, <2>4, <2>5, QuietKept
<1>3. CASE RestartFails
  <2>1. phase' = "down" /\ UNCHANGED <<wal, walFailed, pc, applied, phase>>
    BY <1>3 DEF RestartFails, processVars
  <2>2. PhaseInv' /\ SeenInv' /\ JournalFirst' /\ \A o \in OpId : pc'[o] = "idle"
    BY <2>1 DEF EffectInv, PhaseInv, SeenInv, JournalFirst
  <2> QED BY <2>1, <2>2, QuietKept
<1>4. CASE FinishStartup
  <2>1. /\ phase = "reconciling" /\ phase' = "up"
        /\ UNCHANGED <<wal, walEpoch, walFailed, records, seen, epoch, pc, applied>>
        /\ fenced' = fenced \/ fenced' = TRUE
    BY <1>4 DEF FinishStartup, journalVars, registryVars
  <2>2. PhaseInv' /\ SeenInv' /\ \A o \in OpId : pc'[o] = "idle"
    BY <2>1 DEF EffectInv, PhaseInv, SeenInv
  <2>3. JournalFirst'
    <3>1. CASE fenced' = fenced
      BY <2>1, <3>1 DEF EffectInv, JournalFirst
    <3>2. CASE fenced' = TRUE
      BY <2>1, <3>2 DEF EffectInv, JournalFirst
    <3> QED BY <2>1, <3>1, <3>2
  <2> QED BY <2>1, <2>2, <2>3, QuietKept
<1>5. ASSUME NEW o \in OpId, Reconcile(o)
      PROVE  Kept
  <2>0. /\ phase = "reconciling" /\ o \in todo /\ UNCHANGED <<phase, epoch, pc, applied>>
    BY <1>5 DEF Reconcile
  <2>a. /\ Running /\ ~walFailed /\ \A q \in OpId : pc[q] = "idle" /\ pc'[q] = "idle"
    BY <2>0 DEF Running, EffectInv, PhaseInv
  <2>b. /\ OpInvAt(o, wal[o], records[o], "idle", applied[o]) /\ records[o] \in OpStates
        /\ IsPresent(records[o]) => wal[o] = records[o]
    <3>1. OpInv(o)
      BY EffectInvByOp
    <3>2. IsPresent(records[o]) => wal[o] = records[o]
      BY <2>0, <2>a DEF EffectInv, JournalFirst
    <3> QED BY <2>a, <3>1, <3>2, OpInvValues DEF TypeOK
  <2>1. CASE /\ todo' = todo \ {o} /\ UNCHANGED <<journalVars, registryVars>>
             /\ fenced' = fenced \/ fenced' = TRUE
    <3>1. PhaseInv'
      BY <2>0, <2>1, <2>a DEF PhaseInv, journalVars
    <3>2. Written(o, Absent) /\ wal' = wal
      BY <2>0, <2>1, <2>a, NoWriteWritten DEF NoWrite
    <3> QED BY <2>0, <2>a, <3>1, <3>2, QuietKept DEF Written
  <2>2. ASSUME NEW s \in OpStates, NEW fence, IsPresent(s), RecoverTerminal(o, s, fence),
               IsPresent(records[o]), OpInvAt(o, s, s, "idle", applied[o]),
               ValidRecoveredTransition(records[o], s)
        PROVE  Kept
    <3>1. Written(o, s)
      BY <2>0, <2>2, <2>a, PublishWritten, AppendFailsWritten DEF RecoverTerminal
    <3>2. PhaseInv'
      BY <2>0, <2>2, <2>a DEF PhaseInv, RecoverTerminal, PublishTerminal, AppendFails
    <3>3. wal[o] = records[o] /\ wal'[o] \in {wal[o], s}
      BY <2>2, <2>b, <3>1 DEF Written
    <3>4. OpInvAt(o, wal'[o], records'[o], pc'[o], applied'[o])
      BY <2>0, <2>2, <2>a, <2>b, <3>3 DEF OpInvAt, ReceiptTags
    <3>5. OpInv(o)'
      BY <3>4, OpInvValues
    <3> QED BY <2>0, <2>2, <2>a, <3>1, <3>2, <3>3, <3>5, StepKept
  <2>3. CASE /\ IsTerminal(records[o])
             /\ fenced' = (fenced \/ RequiresRecovery(records[o].tag))
             /\ todo' = todo \ {o} /\ UNCHANGED <<journalVars, registryVars>>
    <3>1. fenced' = fenced \/ fenced' = TRUE
      BY <2>3 DEF TypeOK
    <3> QED BY <2>1, <2>3, <3>1
  <2>4. CASE /\ records[o].tag \in {"Accepted", "Executing"} /\ ~records[o].eff
             /\ RecoverTerminal(o, Terminal(records[o], FALSE, "Cancelled"), FALSE)
    <3> DEFINE s == Terminal(records[o], FALSE, "Cancelled")
    <3>1. s \in OpStates /\ IsPresent(s) /\ IsPresent(records[o]) /\ wal[o] = records[o]
      BY <2>b, <2>4, StatesTyped DEF TerminalTags, Terminal, IsPresent
    <3>2. OpInvAt(o, s, s, "idle", applied[o])
      BY <2>b, <2>4, <3>1 DEF OpInvAt, Terminal, ReceiptTags
    <3>3. ValidRecoveredTransition(records[o], s)
      <4>1. records[o].eff = FALSE
        BY <2>b, <2>4 DEF OpStates
      <4> QED BY <2>4, <3>1, <4>1 DEF ValidRecoveredTransition, MonotonicRecord, Terminal,
                 IsTerminal, TerminalTags
    <3> HIDE DEF s
    <3> QED BY <2>2, <2>4, <3>1, <3>2, <3>3 DEF s
  <2>5. ASSUME NEW ev \in Evidence(o), IsOpen(records[o]), records[o].eff,
               ReconciledTag(records[o], ev) # "none",
               RecoverTerminal(o, Terminal(records[o], TRUE, ReconciledTag(records[o], ev)),
                               ReconciledTag(records[o], ev) = "DurabilityFailed")
        PROVE  Kept
    <3> DEFINE tag == ReconciledTag(records[o], ev)
               s == Terminal(records[o], TRUE, tag)
    <3>1. IsPresent(records[o]) /\ wal[o] = records[o] /\ records[o].tag # "Accepted"
      BY <2>5, <2>b DEF IsOpen, OpenTags, IsPresent, OpInvAt
    <3>2. /\ tag \in {"NotApplied", "Applied", "DurabilityFailed", "CompletedValue"}
          /\ tag = "NotApplied" => applied[o] = 0
          /\ tag = "Applied" => records[o].tag = "CommitStarted" /\ applied[o] > 0
          /\ tag = "CompletedValue" => records[o].tag = "Executing"
      BY <2>5 DEF ReconciledTag, Evidence
    <3>3. s \in OpStates /\ IsPresent(s) /\ IsTerminal(s) /\ s.tag = tag /\ s.eff /\ s.gen = records[o].gen
      BY <2>b, <3>2, StatesTyped DEF TerminalTags, Terminal, IsPresent, IsTerminal
    <3> HIDE DEF s, tag
    <3>4. OpInvAt(o, s, s, "idle", applied[o])
      <4>1. applied[o] \in Nat
        BY DEF TypeOK
      <4> QED BY <2>b, <3>1, <3>2, <3>3, <4>1 DEF OpInvAt, ReceiptTags
    <3>5. ValidRecoveredTransition(records[o], s)
      BY <2>5, <3>1, <3>3 DEF ValidRecoveredTransition, MonotonicRecord, IsOpen, OpenTags
    <3>6. RecoverTerminal(o, s, tag = "DurabilityFailed")
      BY <2>5 DEF s, tag
    <3> QED BY <2>2, <3>1, <3>3, <3>4, <3>5, <3>6
  <2>6. CASE fenced' = TRUE /\ todo' = todo \ {o} /\ UNCHANGED <<journalVars, registryVars>>
    BY <2>1, <2>6
  <2> QED BY <1>5, <2>3, <2>4, <2>5, <2>6 DEF Reconcile
<1> QED BY <1>1, <1>2, <1>3, <1>4, <1>5

\* The inductive invariant holds at first and every step keeps it, moves the
\* durable record of at most one operation as its reader demands, and
\* applies no effect that was not claimed.
LEMMA EffectInductive ==
    /\ Init => EffectInv
    /\ TypeOK /\ EffectInv /\ [Next]_vars => Kept
<1>1. ASSUME Init PROVE EffectInv
  <2>1. PhaseInv /\ SeenInv /\ JournalFirst
    BY <1>1 DEF Init, PhaseInv, SeenInv, JournalFirst
  <2>2. \A o \in OpId : OpInvAt(o, wal[o], records[o], pc[o], applied[o])
    BY <1>1 DEF Init, OpInvAt, ReceiptTags, Absent
  <2> QED BY <2>1, <2>2, OpInvValues, EffectInvByOp
<1>2. ASSUME TypeOK, EffectInv, UNCHANGED vars PROVE Kept
  <2>1. UNCHANGED <<wal, walEpoch, walFailed, phase, epoch, records, seen, fenced, todo, pc, applied>>
    BY <1>2 DEF vars, journalVars, registryVars, processVars
  <2>2. PhaseInv' /\ SeenInv'
    BY <1>2, <2>1 DEF EffectInv, PhaseInv, SeenInv
  <2>3. JournalFirst'
    BY <1>2, <2>1 DEF EffectInv, JournalFirst
  <2>4. AtMostOnce' /\ NoEffectBeforeCommit' /\ AppliedIsTrue'
    BY <1>2, <2>1 DEF EffectInv, AtMostOnce, NoEffectBeforeCommit, AppliedIsTrue
  <2>5. \A o \in OpId : CallInv(o)' /\ ShapeInv(o)'
    BY <1>2, <2>1 DEF EffectInv, CallInv, ShapeInv
  <2> QED BY <2>1, <2>2, <2>3, <2>4, <2>5 DEF EffectInv, Kept
<1>3. ASSUME TypeOK, EffectInv, Next PROVE Kept
  BY <1>3, CallStepKept, CommitStepKept, FenceStepKept, StartupStepKept DEF Next
<1> QED BY <1>1, <1>2, <1>3

\* No run of Core - whatever is retried, evicted, cancelled, fenced, crashed
\* or restarted - applies an effect twice, applies one that its journal does
\* not show as claimed, records as applied one that was not, or answers from
\* a state that its journal would not give back.
THEOREM EffectSafety ==
    Spec => [](JournalFirst /\ AtMostOnce /\ NoEffectBeforeCommit /\ AppliedIsTrue)
<1>1. Init => EffectInv
  BY EffectInductive
<1>2. TypeOK /\ EffectInv /\ [Next]_vars => EffectInv'
  BY EffectInductive DEF Kept
<1>3. EffectInv => JournalFirst /\ AtMostOnce /\ NoEffectBeforeCommit /\ AppliedIsTrue
  BY DEF EffectInv
<1> QED BY <1>1, <1>2, <1>3, TypeCorrect, PTL DEF Spec

\* What the registry answers is what its journal would give back: no record
\* is published before it is durable, and a failed append fences Core
\* (append_transition, evict_terminal_until_fit).
THEOREM RegistryAnswersTruth == Spec => []JournalFirst
BY EffectSafety, PTL

\* An effect in the world has a durable claim of its commit behind it
\* (begin_operation_commit_if_current before dispatch).
THEOREM CommitBarrier == Spec => []NoEffectBeforeCommit
BY EffectSafety, PTL

\* A clean Applied terminal is true, from a receipt or from recovery evidence
\* (finish_effect, reconcile_recovered_effect).
THEOREM AppliedTruth == Spec => []AppliedIsTrue
BY EffectSafety, PTL

\* Every record Core appends, the next start can fold.
THEOREM JournalReadable == Spec => JournalStaysReadable
<1>1. Init => EffectInv
  BY EffectInductive
<1>2. TypeOK /\ EffectInv /\ [Next]_vars =>
        /\ EffectInv'
        /\ [\A o \in OpId : wal'[o] # wal[o] => ValidRecoveredTransition(wal[o], wal'[o])]_vars
  BY EffectInductive DEF Kept, Change
<1> QED BY <1>1, <1>2, TypeCorrect, PTL DEF Spec, JournalStaysReadable

-----------------------------------------------------------------------------
(* Refinement *)

\* The step AtMostOnceEffect sees when Core's step is about o.
LEMMA ChangeRefines ==
    ASSUME TypeOK, TypeOK', EffectInv, EffectInv', NEW o \in OpId, Change(o)
    PROVE  [Effects!Next]_(Effects!vars)
<1> DEFINE T == [q \in Transactional |-> Truth(wal[q])]
           A == [q \in Transactional |-> applied[q]]
           a == Truth(wal[o])
           b == Truth(wal'[o])
<1>0. Transactional \subseteq OpId /\ \A q \in Transactional \ {o} :
          wal'[q] = wal[q] /\ applied'[q] = applied[q]
  BY DEF Transactional, Change
<1>1. CASE o \notin Transactional
  <2>1. T' = T /\ A' = A
    BY <1>0, <1>1
  <2> QED BY <2>1 DEF Effects!vars
<1>2. CASE o \in Transactional /\ wal'[o] # wal[o]
  <2>1. applied'[o] = applied[o] /\ ValidRecoveredTransition(wal[o], wal'[o])
    BY <1>2 DEF Change
  <2>2. T' = [T EXCEPT ![o] = b] /\ A' = A /\ T[o] = a /\ A[o] = applied[o]
    BY <1>0, <1>2, <2>1
  <2>3. /\ OpInvAt(o, wal[o], records[o], pc[o], applied[o])
        /\ OpInvAt(o, wal'[o], records'[o], pc'[o], applied'[o])
    <3>1. OpInv(o)
      BY EffectInvByOp
    <3>2. OpInv(o)'
      BY DEF EffectInv, OpInv, AtMostOnce, NoEffectBeforeCommit, AppliedIsTrue
    <3> QED BY <3>1, <3>2, OpInvValues
  <2>4. wal[o] \in OpStates /\ wal'[o] \in OpStates /\ applied[o] \in Nat
    BY DEF TypeOK
  <2>5. \/ a = b
        \/ a = "unseen" /\ b = "open"
        \/ a = "open" /\ b = "claimed"
        \/ a \in {"unseen", "open", "claimed"} /\ b = "withheld" /\ applied[o] = 0
        \/ a = "claimed" /\ b = "applied" /\ applied[o] = 1
        \/ a \in {"open", "claimed"} /\ b = "uncertain"
    <3>1. CASE ~IsPresent(wal[o])
      BY <1>2, <2>1, <2>3, <2>4, <3>1 DEF ValidRecoveredTransition, FirstRecord, OpInvAt, Truth, IsPresent
    <3>2. CASE IsPresent(wal[o]) /\ ~IsTerminal(wal'[o])
      BY <1>2, <2>1, <2>4, <3>2 DEF ValidRecoveredTransition, MonotonicRecord, Truth
    <3>3. CASE IsPresent(wal[o]) /\ IsTerminal(wal'[o])
      <4>1. wal[o].tag \in OpenTags
        BY <1>2, <2>1, <3>3 DEF ValidRecoveredTransition, MonotonicRecord, OpenTags
      <4>2. wal'[o].tag \in {"CompletedValue", "Refused", "NotApplied", "Cancelled"} => applied[o] = 0
        BY <1>2, <2>1, <2>3, <2>4 DEF OpInvAt
      <4>3. wal'[o].tag = "Applied" => applied[o] = 1 /\ wal[o].tag = "CommitStarted"
        BY <1>2, <2>1, <2>3, <2>4, <4>1 DEF OpInvAt, OpenTags
      <4> QED BY <3>3, <4>1, <4>2, <4>3 DEF IsTerminal, TerminalTags, OpenTags, Truth
    <3> QED BY <3>1, <3>2, <3>3
  <2> HIDE DEF a, b
  <2>6. CASE a = b
    <3>1. T' = T
      BY <1>0, <2>2, <2>6
    <3> QED BY <2>2, <3>1 DEF Effects!vars
  <2>7. CASE a = "unseen" /\ b = "open"
    BY <1>2, <2>2, <2>7 DEF Effects!Next, Effects!Open, Effects!Moves
  <2>8. CASE a = "open" /\ b = "claimed"
    BY <1>2, <2>2, <2>8 DEF Effects!Next, Effects!Claim, Effects!Moves
  <2>9. CASE a \in {"unseen", "open", "claimed"} /\ b = "withheld" /\ applied[o] = 0
    BY <1>2, <2>2, <2>9 DEF Effects!Next, Effects!Withhold, Effects!Moves
  <2>10. CASE a = "claimed" /\ b = "applied" /\ applied[o] = 1
    BY <1>2, <2>2, <2>10 DEF Effects!Next, Effects!Confirm, Effects!Moves
  <2>11. CASE a \in {"open", "claimed"} /\ b = "uncertain"
    BY <1>2, <2>2, <2>11 DEF Effects!Next, Effects!Doubt, Effects!Moves
  <2> QED BY <2>5, <2>6, <2>7, <2>8, <2>9, <2>10, <2>11
<1>3. CASE o \in Transactional /\ wal'[o] = wal[o]
  <2>1. T' = T
    BY <1>0, <1>3
  <2>2. CASE applied'[o] = applied[o]
    <3>1. A' = A
      BY <1>0, <1>3, <2>2
    <3> QED BY <2>1, <3>1 DEF Effects!vars
  <2>3. CASE applied'[o] # applied[o]
    <3>1. wal[o].tag = "CommitStarted" /\ applied[o] = 0 /\ applied'[o] = 1
      <4>1. applied'[o] \in Nat /\ applied'[o] <= 1
        BY DEF TypeOK, EffectInv, AtMostOnce
      <4> QED BY <1>3, <2>3, <4>1 DEF Change
    <3>2. T[o] = "claimed" /\ A[o] = 0 /\ A' = [A EXCEPT ![o] = 1]
      BY <1>0, <1>3, <3>1 DEF Truth
    <3> QED BY <1>3, <2>1, <3>2 DEF Effects!Next, Effects!Apply
  <2> QED BY <2>2, <2>3
<1> QED BY <1>1, <1>2, <1>3

\* Core implements AtMostOnceEffect: read through Truth, its durable records
\* and the world move only as the abstract specification allows.
THEOREM CoreImplementsAtMostOnce == Spec => ImplementsAtMostOnce
<1>1. Init => Effects!Init
  BY DEF Init, Effects!Init, Transactional, Truth, Absent
<1>2. Init => EffectInv
  BY EffectInductive
<1>3. TypeOK /\ TypeOK' /\ EffectInv /\ [Next]_vars =>
        /\ EffectInv'
        /\ [Effects!Next]_(Effects!vars)
  <2> SUFFICES ASSUME TypeOK, TypeOK', EffectInv, EffectInv', Kept
               PROVE  [Effects!Next]_(Effects!vars)
    BY EffectInductive DEF Kept
  <2> QED BY ChangeRefines DEF Kept, Effects!vars
<1> QED BY <1>1, <1>2, <1>3, TypeCorrect, PTL DEF Spec, ImplementsAtMostOnce, Effects!Spec
=============================================================================
