------------------------- MODULE EffectBrokerProofs -------------------------
(***************************************************************************)
(* Proofs about EffectBroker, for every set of effects and every bound.    *)
(*                                                                         *)
(* JournalInv ties the journal, the target and Core's record of an effect  *)
(* to the step its commit is in; DebtInv says that a debt of the actor's   *)
(* own lineage is in the actor's list and in every checkpoint taken since. *)
(***************************************************************************)
EXTENDS EffectBroker, TLAPS

\* What is known of one effect, whichever step the commit in flight is at.
EntryInv(e) ==
    /\ core[e] = "none" => disk[e] = "none" /\ world[e] = "untouched"
    /\ disk[e] \in {"none", "reserved"} => world[e] = "untouched"
    /\ disk[e] \in Settlements => Truth(disk[e], world[e])
    /\ core[e] \in Settlements => Truth(core[e], world[e])

\* What is known of the commit in flight.
CommitInv ==
    /\ pc # "idle" => core[cur] = "open" /\ phase = "ready"
    /\ pc \in {"reserve", "dispatch"} => world[cur] = "untouched"
    /\ pc = "dispatch" /\ rpc = "ok" => disk[cur] = "dispatched"
    /\ pc = "apply" => disk[cur] = "dispatched"
    /\ pc \in {"ack", "finish", "finishOwing"} => Truth(receipt, world[cur])
    /\ ~Calling => rpc = "none"

JournalInv ==
    /\ ~broken => mem = disk
    /\ \A e \in Effect : EntryInv(e)
    /\ CommitInv
    /\ phase = "starting" => \A e \in todo : core[e] = "open"

DebtInv ==
    /\ phase # "ready" => known = {}
    /\ known \cap owed \subseteq debts
    /\ \A c \in ckpts : c.known \cap owed \subseteq c.debts
    /\ \A e \in known : core[e] \in Settlements
    /\ \A c \in ckpts : \A e \in c.known : core[e] \in Settlements
    /\ DebtHoldsFence

-----------------------------------------------------------------------------
(* Types.                                                                  *)

\* Everything a commit step writes has its type.
LEMMA CommitTypes ==
    ASSUME TypeOK,
           \/ \E e \in Effect : Begin(e)
           \/ Call \/ Handle \/ Timeout \/ ReserveReturns \/ DispatchReturns \/ Apply
           \/ AckReturns \/ FinishRecorded \/ FinishFailed
    PROVE  TypeOK'
<1> USE DEF TypeOK, Entries, Settlements, journalVars, coreVars, commitVars, actorVars, lifeVars
<1>1. CASE \E e \in Effect : Begin(e)
  BY <1>1 DEF Begin
<1>2. CASE Call
  BY <1>2 DEF Call
<1>4. Frame \in Entries
  BY DEF Frame
<1>5. Written \in [Effect -> Entries]
  BY <1>4 DEF Written
<1>6. CASE Handle
  <2>1. disk' \in [Effect -> Entries]
    BY <1>5, <1>6 DEF Handle
  <2>2. mem' \in [Effect -> Entries]
    BY <1>4, <1>6 DEF Handle
  <2>3. broken' \in BOOLEAN /\ rpc' \in {"none", "sent", "ok", "err"}
    BY <1>6 DEF Handle
  <2> QED
    BY <1>6, <2>1, <2>2, <2>3 DEF Handle
<1>7. CASE Timeout
  BY <1>5, <1>7 DEF Timeout
<1>8. CASE ReserveReturns
  <2>1. /\ UNCHANGED <<kind, disk, mem, broken, world, core, cur, receipt, turn, debts, pending,
                       ckpts, phase, todo, crashes, owed, known>>
        /\ rpc' = "none" /\ pc' \in {"dispatch", "idle"}
    BY <1>8 DEF ReserveReturns
  <2>2. coreFenced' \in BOOLEAN /\ fence' \in BOOLEAN
    BY <1>8 DEF ReserveReturns
  <2> QED BY <2>1, <2>2
<1>9. CASE DispatchReturns
  BY <1>9 DEF DispatchReturns
<1>10. CASE Apply
  BY <1>10 DEF Apply
<1>11. CASE AckReturns
  BY <1>11 DEF AckReturns
<1>12. CASE FinishRecorded
  BY <1>12 DEF FinishRecorded
<1>13. CASE FinishFailed
  BY <1>13 DEF FinishFailed
<1> QED
  BY <1>1, <1>2, <1>6, <1>7, <1>8, <1>9, <1>10, <1>11, <1>12, <1>13

\* Everything a restore, a crash or a startup step writes has its type.
LEMMA LifeTypes ==
    ASSUME TypeOK,
           \/ \E e \in Effect : ReconcileEffect(e) \/ ReconcileTimeout(e)
           \/ EndTurn \/ Capture \/ FinalizeRestore
           \/ \E c \in ckpts : PrepareRestore(c) \/ PrepareRestoreFails(c)
           \/ Crash \/ Restart \/ StartActor
    PROVE  TypeOK'
<1> USE DEF TypeOK, Entries, Settlements, journalVars, coreVars, commitVars, actorVars, lifeVars
<1>1. CASE \E e \in Effect : ReconcileEffect(e)
  <2>1. PICK e \in Effect : ReconcileEffect(e)
    BY <1>1
  <2>2. \A a : Definite(a) => a \in Settlements
    BY DEF Definite
  <2>3. \A a \in Settlements :
           [core EXCEPT ![e] = a] \in [Effect -> {"none", "open"} \cup Settlements]
    OBVIOUS
  <2>4. core' \in [Effect -> {"none", "open"} \cup Settlements]
    BY <2>1, <2>2, <2>3 DEF ReconcileEffect
  <2>5. todo' \subseteq Effect /\ coreFenced' \in BOOLEAN
    BY <2>1 DEF ReconcileEffect
  <2> QED
    BY <2>1, <2>4, <2>5 DEF ReconcileEffect
<1>2. CASE \E e \in Effect : ReconcileTimeout(e)
  BY <1>2 DEF ReconcileTimeout
<1>3. CASE EndTurn
  BY <1>3 DEF EndTurn
<1>4. CASE Capture
  BY <1>4 DEF Capture, Checkpoint
<1>5. CASE FinalizeRestore
  BY <1>5 DEF FinalizeRestore
<1>6. ASSUME NEW c \in ckpts PROVE c.debts \subseteq Effect /\ c.known \subseteq Effect
  OBVIOUS
<1>7. ASSUME NEW c \in ckpts, PrepareRestore(c) PROVE TypeOK'
  <2>1. debts' \subseteq Effect /\ known' \subseteq Effect
    BY <1>6, <1>7 DEF PrepareRestore
  <2>2. fence' \in BOOLEAN /\ pending' \in BOOLEAN /\ coreFenced' \in BOOLEAN
    BY <1>7 DEF PrepareRestore
  <2>3. ckpts' \subseteq [debts : SUBSET Effect, known : SUBSET Effect]
    BY <1>7 DEF PrepareRestore
  <2> QED
    BY <1>7, <2>1, <2>2, <2>3 DEF PrepareRestore
<1>11. ASSUME NEW c \in ckpts, PrepareRestoreFails(c) PROVE TypeOK'
  <2>1. debts' \subseteq Effect /\ known' \subseteq Effect
    BY <1>6, <1>11 DEF PrepareRestoreFails
  <2>2. fence' \in BOOLEAN /\ pending' \in BOOLEAN /\ coreFenced' \in BOOLEAN
    BY <1>11 DEF PrepareRestoreFails
  <2>3. ckpts' \subseteq [debts : SUBSET Effect, known : SUBSET Effect]
    BY <1>11 DEF PrepareRestoreFails
  <2> QED
    BY <1>11, <2>1, <2>2, <2>3 DEF PrepareRestoreFails
<1>8. CASE Crash
  <2>1. crashes' \in 0..MaxCrashes
    BY <1>8, BoundsAssumption DEF Crash
  <2> QED
    BY <1>8, <2>1 DEF Crash
<1>9. CASE Restart
  BY <1>9 DEF Restart
<1>10. CASE StartActor
  BY <1>10 DEF StartActor
<1> QED
  BY <1>1, <1>2, <1>3, <1>4, <1>5, <1>7, <1>8, <1>9, <1>10, <1>11

\* TypeOK holds in every reachable state: in particular no answer that
\* settles nothing ever becomes a durable record of Core.
THEOREM BrokerTypes == Spec => []TypeOK
<1>1. Init => TypeOK
  <2> SUFFICES ASSUME Init PROVE TypeOK
    OBVIOUS
  <2>1. crashes \in 0..MaxCrashes
    BY BoundsAssumption DEF Init
  <2>2. /\ disk \in [Effect -> Entries] /\ mem \in [Effect -> Entries]
        /\ world \in [Effect -> {"untouched", "volatile", "durable"}]
        /\ core \in [Effect -> {"none", "open"} \cup Settlements]
    BY DEF Init, Entries
  <2> QED
    BY <2>1, <2>2 DEF Init, TypeOK, Settlements
<1>2. TypeOK /\ [Next]_vars => TypeOK'
  <2> SUFFICES ASSUME TypeOK, [Next]_vars PROVE TypeOK'
    OBVIOUS
  <2>1. CASE UNCHANGED vars
    BY <2>1 DEF TypeOK, vars, journalVars, coreVars, commitVars, actorVars, lifeVars
  <2>2. CASE Next
    BY <2>2, CommitTypes, LifeTypes DEF Next
  <2> QED
    BY <2>1, <2>2
<1> QED
  BY <1>1, <1>2, PTL DEF Spec

-----------------------------------------------------------------------------
(* The journal, the target and Core's record.                              *)

\* The only definite answers are those of an entry that was never dispatched
\* and of an acknowledged settlement.
LEMMA AnswerFacts ==
    ASSUME NEW x \in Entries, Definite(Answer(x))
    PROVE  \/ x = "reserved" /\ Answer(x) = "notApplied"
           \/ x \in Settlements /\ Answer(x) = x
BY DEF Entries, Settlements, Answer, Definite

\* An untouched target is truly not applied.
LEMMA UntouchedIsTrue == Truth("notApplied", "untouched")
BY DEF Truth

\* EntryInv is what makes every answer of the journal true.
LEMMA EvidenceFromEntry ==
    ASSUME TypeOK, NEW e \in Effect, EntryInv(e), Definite(Answer(disk[e]))
    PROVE  Truth(Answer(disk[e]), world[e])
<1>1. disk[e] \in Entries
  BY DEF TypeOK
<1>2. CASE disk[e] = "reserved" /\ Answer(disk[e]) = "notApplied"
  BY <1>2, UntouchedIsTrue DEF EntryInv
<1>3. CASE disk[e] \in Settlements /\ Answer(disk[e]) = disk[e]
  BY <1>3 DEF EntryInv
<1> QED
  BY <1>1, <1>2, <1>3, AnswerFacts

\* A frame of the step in flight keeps what is known of its effect.
LEMMA FrameKeepsEntry ==
    ASSUME TypeOK, JournalInv, Calling
    PROVE  \A e \in Effect :
             /\ Written[e] \in {"none", "reserved"} => world[e] = "untouched"
             /\ Written[e] \in Settlements => Truth(Written[e], world[e])
             /\ core[e] = "none" => Written[e] = "none"
<1> SUFFICES ASSUME NEW e \in Effect
             PROVE  /\ Written[e] \in {"none", "reserved"} => world[e] = "untouched"
                    /\ Written[e] \in Settlements => Truth(Written[e], world[e])
                    /\ core[e] = "none" => Written[e] = "none"
  OBVIOUS
<1>1. CASE e # cur
  BY <1>1 DEF TypeOK, JournalInv, EntryInv, Written
<1>2. CASE e = cur
  <2>1. Written[e] = Frame
    BY <1>2 DEF TypeOK, Written
  <2>2. core[e] = "open"
    BY <1>2 DEF JournalInv, CommitInv, Calling
  <2>3. CASE pc = "reserve"
    BY <1>2, <2>1, <2>2, <2>3 DEF JournalInv, CommitInv, Frame, Settlements
  <2>4. CASE pc = "dispatch"
    BY <2>1, <2>2, <2>4 DEF Frame, Settlements
  <2>5. CASE pc = "ack"
    BY <1>2, <2>1, <2>2, <2>5 DEF TypeOK, JournalInv, CommitInv, Frame, Settlements
  <2> QED
    BY <2>3, <2>4, <2>5 DEF Calling
<1> QED
  BY <1>1, <1>2

\* The steps of a commit preserve JournalInv.
LEMMA CommitJournal ==
    ASSUME TypeOK, JournalInv,
           \/ \E e \in Effect : Begin(e)
           \/ Call \/ Handle \/ Timeout \/ ReserveReturns \/ DispatchReturns \/ Apply
           \/ AckReturns \/ FinishRecorded \/ FinishFailed
    PROVE  JournalInv'
<1> USE DEF journalVars, coreVars, commitVars, actorVars, lifeVars
<1>1. ASSUME NEW e \in Effect, Begin(e) PROVE JournalInv'
  BY <1>1 DEF Begin, TypeOK, JournalInv, EntryInv, CommitInv, Settlements, Calling
<1>2. CASE Call
  BY <1>2 DEF Call, TypeOK, JournalInv, EntryInv, CommitInv, Calling
<1>3. CASE Handle
  <2>1. Calling
    BY <1>3 DEF Handle, JournalInv, CommitInv
  <2>2. \A e \in Effect : EntryInv(e)'
    BY <1>3, <2>1, FrameKeepsEntry DEF Handle, TypeOK, JournalInv, EntryInv
  <2>3. ~broken' => mem' = disk'
    BY <1>3 DEF Handle, TypeOK, JournalInv, Written, Appendable
  <2>4. CommitInv'
    <3>1. pc = "dispatch" /\ rpc' = "ok" => disk'[cur] = "dispatched"
      BY <1>3 DEF Handle, TypeOK, Written, Frame
    <3> QED
      BY <1>3, <2>1, <3>1 DEF Handle, JournalInv, CommitInv, Calling
  <2> QED
    BY <1>3, <2>2, <2>3, <2>4 DEF Handle, JournalInv
<1>4. CASE Timeout
  <2>1. Calling
    BY <1>4 DEF Timeout, JournalInv, CommitInv
  <2>2. \A e \in Effect : EntryInv(e)'
    BY <1>4, <2>1, FrameKeepsEntry DEF Timeout, TypeOK, JournalInv, EntryInv
  <2>3. CommitInv'
    BY <1>4, <2>1 DEF Timeout, JournalInv, CommitInv, Calling
  <2> QED
    BY <1>4, <2>2, <2>3 DEF Timeout, JournalInv
<1>5. CASE ReserveReturns
  BY <1>5 DEF ReserveReturns, JournalInv, EntryInv, CommitInv, Calling
<1>6. CASE DispatchReturns
  BY <1>6, UntouchedIsTrue
  DEF DispatchReturns, JournalInv, EntryInv, CommitInv, Calling, Succeeded
<1>7. CASE Apply
  <2>1. disk[cur] = "dispatched" /\ core[cur] = "open" /\ rpc = "none"
    BY <1>7 DEF Apply, JournalInv, CommitInv, Calling
  <2>2. Truth(receipt', world'[cur])
    BY <1>7 DEF Apply, TypeOK
  <2>3. \A e \in Effect : EntryInv(e)'
    BY <1>7, <2>1 DEF Apply, TypeOK, JournalInv, EntryInv, Settlements
  <2> QED
    BY <1>7, <2>1, <2>2, <2>3 DEF Apply, JournalInv, CommitInv, Calling
<1>8. CASE AckReturns
  BY <1>8 DEF AckReturns, JournalInv, EntryInv, CommitInv, Calling
<1>9. CASE FinishRecorded \/ FinishFailed
  <2>1. /\ UNCHANGED <<disk, mem, broken, world, cur, rpc, phase, todo>> /\ pc' = "idle"
        /\ pc \in {"finish", "finishOwing"}
        /\ core' \in {core, [core EXCEPT ![cur] = receipt]}
    BY <1>9 DEF FinishRecorded, FinishFailed
  <2>2. Truth(receipt, world[cur]) /\ rpc = "none" /\ phase = "ready" /\ receipt # "none"
    BY <2>1 DEF TypeOK, JournalInv, CommitInv, Calling, Settlements
  <2>3. \A e \in Effect : EntryInv(e)'
    BY <2>1, <2>2 DEF TypeOK, JournalInv, EntryInv
  <2> QED
    BY <2>1, <2>2, <2>3 DEF JournalInv, CommitInv, Calling
<1> QED
  BY <1>1, <1>2, <1>3, <1>4, <1>5, <1>6, <1>7, <1>8, <1>9

\* A definite answer at startup is true, whichever journal gave it.
LEMMA EvidenceIsTrue ==
    ASSUME TypeOK, JournalInv, NEW e \in Effect, NEW a \in Evidence(e), Definite(a)
    PROVE  a \in Settlements /\ Truth(a, world[e])
<1>1. a \in Settlements
  BY DEF Definite
<1>2. CASE e \in Managed
  BY <1>2 DEF Evidence, Definite, Settlements
<1>3. CASE e \notin Managed /\ ~broken
  <2>1. mem[e] = disk[e] /\ EntryInv(e)
    BY <1>3 DEF JournalInv
  <2>2. a = Answer(disk[e])
    BY <1>3, <2>1 DEF Evidence
  <2> QED
    BY <1>1, <2>1, <2>2, EvidenceFromEntry
<1>4. CASE e \notin Managed /\ broken
  BY <1>4 DEF Evidence, Definite, Settlements
<1> QED
  BY <1>1, <1>2, <1>3, <1>4

\* Restores, crashes and startup preserve JournalInv.
LEMMA LifeJournal ==
    ASSUME TypeOK, JournalInv,
           \/ \E e \in Effect : ReconcileEffect(e) \/ ReconcileTimeout(e)
           \/ EndTurn \/ Capture \/ FinalizeRestore
           \/ \E c \in ckpts : PrepareRestore(c) \/ PrepareRestoreFails(c)
           \/ Crash \/ Restart \/ StartActor
    PROVE  JournalInv'
<1> USE DEF journalVars, coreVars, commitVars, actorVars, lifeVars
<1>1. ASSUME NEW e \in Effect, ReconcileEffect(e) PROVE JournalInv'
  <2>1. phase = "starting" /\ pc = "idle" /\ core[e] = "open"
    BY <1>1 DEF ReconcileEffect, JournalInv, CommitInv
  <2>2. \/ core' = core /\ todo' \subseteq todo
        \/ /\ \E a \in Settlements : Truth(a, world[e]) /\ core' = [core EXCEPT ![e] = a]
           /\ todo' \subseteq todo \ {e}
    BY <1>1, EvidenceIsTrue DEF ReconcileEffect
  <2>3. UNCHANGED <<disk, mem, broken, world, pc, cur, rpc, receipt, phase>>
    BY <1>1 DEF ReconcileEffect
  <2>4. \A x \in Effect : EntryInv(x)'
    BY <2>1, <2>2, <2>3 DEF TypeOK, JournalInv, EntryInv, Settlements
  <2>5. CommitInv'
    BY <2>1, <2>3 DEF JournalInv, CommitInv, Calling
  <2>6. \A x \in todo' : core'[x] = "open"
    BY <2>1, <2>2 DEF TypeOK, JournalInv
  <2> QED
    BY <2>3, <2>4, <2>5, <2>6 DEF JournalInv
<1>2. ASSUME NEW e \in Effect, ReconcileTimeout(e) PROVE JournalInv'
  BY <1>2 DEF ReconcileTimeout, JournalInv, EntryInv, CommitInv, Calling
<1>3. CASE \/ EndTurn \/ Capture \/ FinalizeRestore
           \/ \E c \in ckpts : PrepareRestore(c) \/ PrepareRestoreFails(c)
  <2>1. UNCHANGED <<disk, mem, broken, world, core, pc, cur, rpc, receipt, phase, todo>>
    BY <1>3 DEF EndTurn, Capture, FinalizeRestore, PrepareRestore, PrepareRestoreFails
  <2> QED
    BY <2>1 DEF JournalInv, EntryInv, CommitInv, Calling
<1>4. CASE Crash
  BY <1>4 DEF Crash, JournalInv, EntryInv, CommitInv, Calling
<1>5. CASE Restart
  BY <1>5 DEF Restart, JournalInv, EntryInv, CommitInv, Calling
<1>6. CASE StartActor
  BY <1>6 DEF StartActor, JournalInv, EntryInv, CommitInv, Calling
<1> QED
  BY <1>1, <1>2, <1>3, <1>4, <1>5, <1>6

\* JournalInv holds in every reachable state.
THEOREM JournalInvariant == Spec => []JournalInv
<1>1. Init => JournalInv
  BY DEF Init, JournalInv, EntryInv, CommitInv, Settlements, Calling
<1>2. TypeOK /\ JournalInv /\ [Next]_vars => JournalInv'
  <2> SUFFICES ASSUME TypeOK, JournalInv, [Next]_vars PROVE JournalInv'
    OBVIOUS
  <2>1. CASE UNCHANGED vars
    BY <2>1 DEF JournalInv, EntryInv, CommitInv, Calling,
                vars, journalVars, coreVars, commitVars, actorVars, lifeVars
  <2>2. CASE Next
    BY <2>2, CommitJournal, LifeJournal DEF Next
  <2> QED
    BY <2>1, <2>2
<1> QED
  BY <1>1, <1>2, BrokerTypes, PTL DEF Spec

\* Whatever the journal would answer after a crash at any moment is true of
\* the target, for both brokers and every placement of failed appends, lost
\* replies and timeouts (ReservationJournal::reconcile).
THEOREM EvidenceTruth == Spec => []BrokerEvidenceIsTrue
<1>1. TypeOK /\ JournalInv => BrokerEvidenceIsTrue
  BY EvidenceFromEntry DEF JournalInv, BrokerEvidenceIsTrue
<1> QED
  BY <1>1, BrokerTypes, JournalInvariant, PTL

\* Every durable terminal of Core is true of the target, however many crashes
\* lie between the effect and its record (finish_operation_effect,
\* reconcile_recovered_effect).
THEOREM TerminalTruth == Spec => []TerminalIsTrue
<1>1. JournalInv => TerminalIsTrue
  BY DEF JournalInv, EntryInv, TerminalIsTrue
<1> QED
  BY <1>1, JournalInvariant, PTL

-----------------------------------------------------------------------------
(* Debts and the fence.                                                    *)

\* The steps of a commit preserve DebtInv: only the last one surfaces a debt,
\* of an effect no checkpoint can know of yet.
LEMMA CommitDebt ==
    ASSUME TypeOK, JournalInv, DebtInv,
           \/ \E e \in Effect : Begin(e)
           \/ Call \/ Handle \/ Timeout \/ ReserveReturns \/ DispatchReturns \/ Apply
           \/ AckReturns \/ FinishRecorded \/ FinishFailed
    PROVE  DebtInv'
<1> USE DEF journalVars, coreVars, commitVars, actorVars, lifeVars
<1>1. ASSUME NEW e \in Effect, Begin(e) PROVE DebtInv'
  BY <1>1 DEF Begin, TypeOK, DebtInv, DebtHoldsFence, Settlements
<1>2. CASE Call \/ Handle \/ Timeout \/ DispatchReturns \/ Apply \/ AckReturns
  <2>1. UNCHANGED <<core, coreFenced, debts, fence, ckpts, phase, owed, known>>
    BY <1>2 DEF Call, Handle, Timeout, DispatchReturns, Apply, AckReturns
  <2> QED
    BY <2>1 DEF DebtInv, DebtHoldsFence
<1>3. CASE ReserveReturns
  BY <1>3 DEF ReserveReturns, DebtInv, DebtHoldsFence
<1>4. CASE FinishRecorded
  <2>1. core[cur] = "open" /\ phase = "ready" /\ cur \in Effect /\ receipt \in Settlements
    BY <1>4 DEF FinishRecorded, TypeOK, JournalInv, CommitInv
  <2>2. cur \notin known /\ \A c \in ckpts : cur \notin c.known
    BY <2>1 DEF DebtInv, Settlements
  <2>3. \A e \in Effect : core[e] \in Settlements => core'[e] \in Settlements
    BY <1>4, <2>1 DEF FinishRecorded, TypeOK
  <2>4. core'[cur] \in Settlements
    BY <1>4, <2>1 DEF FinishRecorded, TypeOK
  <2>5. CASE pc = "finish"
    <3>1. /\ debts' = debts /\ owed' = owed /\ known' = known
          /\ (fence => fence') /\ UNCHANGED <<coreFenced, ckpts, phase>>
      BY <1>4, <2>5 DEF FinishRecorded
    <3> QED
      BY <2>3, <3>1 DEF TypeOK, DebtInv, DebtHoldsFence
  <2>6. CASE pc = "finishOwing"
    <3>1. /\ debts' = debts \cup {cur} /\ owed' = owed \cup {cur}
          /\ known' = known \cup {cur}
          /\ fence' /\ UNCHANGED <<coreFenced, ckpts, phase>>
      BY <1>4, <2>6 DEF FinishRecorded
    <3>2. known' \cap owed' \subseteq debts'
      BY <3>1 DEF DebtInv
    <3>3. \A c \in ckpts' : c.known \cap owed' \subseteq c.debts
      BY <2>2, <3>1 DEF DebtInv
    <3>4. \A e \in known' : core'[e] \in Settlements
      BY <2>3, <2>4, <3>1 DEF TypeOK, DebtInv
    <3>5. \A c \in ckpts' : \A e \in c.known : core'[e] \in Settlements
      BY <2>3, <3>1 DEF TypeOK, DebtInv
    <3> QED
      BY <2>1, <3>1, <3>2, <3>3, <3>4, <3>5 DEF DebtInv, DebtHoldsFence
  <2> QED
    BY <1>4, <2>5, <2>6 DEF FinishRecorded
<1>5. CASE FinishFailed
  <2>1. core[cur] = "open" /\ phase = "ready" /\ cur \in Effect /\ receipt \in Settlements
    BY <1>5 DEF FinishFailed, TypeOK, JournalInv, CommitInv
  <2>2. \A e \in Effect : core[e] \in Settlements => core'[e] \in Settlements
    BY <1>5, <2>1 DEF FinishFailed, TypeOK
  <2>3. coreFenced' /\ UNCHANGED <<debts, ckpts, phase, owed, known>>
    BY <1>5 DEF FinishFailed
  <2> QED
    BY <2>2, <2>3 DEF TypeOK, DebtInv, DebtHoldsFence
<1> QED
  BY <1>1, <1>2, <1>3, <1>4, <1>5

\* Restores, crashes and startup preserve DebtInv.  A debt that finalization
\* retires was settled in the journal, so it is no longer owed.
LEMMA LifeDebt ==
    ASSUME TypeOK, JournalInv, DebtInv,
           \/ \E e \in Effect : ReconcileEffect(e) \/ ReconcileTimeout(e)
           \/ EndTurn \/ Capture \/ FinalizeRestore
           \/ \E c \in ckpts : PrepareRestore(c) \/ PrepareRestoreFails(c)
           \/ Crash \/ Restart \/ StartActor
    PROVE  DebtInv'
<1> USE DEF journalVars, coreVars, commitVars, actorVars, lifeVars
<1>1. ASSUME NEW e \in Effect, ReconcileEffect(e) PROVE DebtInv'
  <2>1. core[e] = "open" /\ phase = "starting" /\ known = {}
    BY <1>1 DEF ReconcileEffect, JournalInv, DebtInv
  <2>2. \A x \in Effect : core[x] \in Settlements => core'[x] = core[x]
    BY <1>1, <2>1 DEF ReconcileEffect, TypeOK, Settlements
  <2>3. UNCHANGED <<debts, fence, ckpts, phase, owed, known>>
    BY <1>1 DEF ReconcileEffect
  <2> QED
    BY <2>1, <2>2, <2>3 DEF TypeOK, DebtInv, DebtHoldsFence
<1>2. ASSUME NEW e \in Effect, ReconcileTimeout(e) PROVE DebtInv'
  BY <1>2 DEF ReconcileTimeout, DebtInv, DebtHoldsFence
<1>3. CASE EndTurn
  BY <1>3 DEF EndTurn, DebtInv, DebtHoldsFence
<1>4. CASE Capture
  <2>1. /\ ckpts' = ckpts \cup {[debts |-> debts, known |-> known]}
        /\ UNCHANGED <<core, coreFenced, debts, fence, phase, owed, known>>
    BY <1>4 DEF Capture, Checkpoint
  <2> QED
    BY <2>1 DEF DebtInv, DebtHoldsFence
<1>5. CASE FinalizeRestore
  <2>1. /\ debts' = {e \in debts : ~Resolves(e)} /\ fence' = (coreFenced \/ debts' # {})
        /\ owed' = owed \ {e \in debts : Definite(Answer(disk[e]))}
        /\ UNCHANGED <<core, coreFenced, ckpts, phase, known>> /\ phase = "ready"
    BY <1>5 DEF FinalizeRestore
  <2>2. \A e \in Effect : Resolves(e) => Definite(Answer(disk[e]))
    BY DEF Resolves, JournalInv
  <2>3. known' \cap owed' \subseteq debts'
    BY <2>1, <2>2 DEF TypeOK, DebtInv
  <2>4. \A c \in ckpts' : c.known \cap owed' \subseteq c.debts
    BY <2>1 DEF DebtInv
  <2> QED
    BY <2>1, <2>3, <2>4 DEF DebtInv, DebtHoldsFence
<1>6. ASSUME NEW c \in ckpts, PrepareRestore(c) PROVE DebtInv'
  BY <1>6 DEF PrepareRestore, Restorable, DebtInv, DebtHoldsFence
<1>7. ASSUME NEW c \in ckpts, PrepareRestoreFails(c) PROVE DebtInv'
  BY <1>7 DEF PrepareRestoreFails, Restorable, DebtInv, DebtHoldsFence
<1>8. CASE Crash
  BY <1>8 DEF Crash, DebtInv, DebtHoldsFence
<1>9. CASE Restart
  BY <1>9 DEF Restart, DebtInv, DebtHoldsFence
<1>10. CASE StartActor
  BY <1>10 DEF StartActor, DebtInv, DebtHoldsFence
<1> QED
  BY <1>1, <1>2, <1>3, <1>4, <1>5, <1>6, <1>7, <1>8, <1>9, <1>10

\* A debt fences the actor as long as the actor's state stems from it, across
\* any number of checkpoints, crashes, restores and failed restores
\* (record_ack_debt, assemble_checkpoint, finalize_restore).
THEOREM DebtFence == Spec => []DebtHoldsFence
<1>1. Init => DebtInv
  BY DEF Init, DebtInv, DebtHoldsFence
<1>2. TypeOK /\ JournalInv /\ DebtInv /\ [Next]_vars => DebtInv'
  <2> SUFFICES ASSUME TypeOK, JournalInv, DebtInv, [Next]_vars PROVE DebtInv'
    OBVIOUS
  <2>1. CASE UNCHANGED vars
    BY <2>1 DEF DebtInv, DebtHoldsFence,
                vars, journalVars, coreVars, commitVars, actorVars, lifeVars
  <2>2. CASE Next
    BY <2>2, CommitDebt, LifeDebt DEF Next
  <2> QED
    BY <2>1, <2>2
<1>3. DebtInv => DebtHoldsFence
  BY DEF DebtInv
<1> QED
  BY <1>1, <1>2, <1>3, BrokerTypes, JournalInvariant, PTL DEF Spec
=============================================================================
