----------------------- MODULE WorkspaceRecoveryProofs -----------------------
(***************************************************************************)
(* What startup says of the effects of commits is true, for every set of   *)
(* operations, paths and contents, every journal limit and every number of *)
(* deaths, power losses, foreign writes and failing calls.                 *)
(*                                                                         *)
(* RecoveryInv adds to WorkspaceInv what the evidence rests on: at most    *)
(* one commit is without a terminal record, and Core stays fenced until it *)
(* has one, so nobody else replaces a target in between (OneUnfinished,    *)
(* CoreInv); what that commit left behind is the snapshot or its own entry,*)
(* now and after a power loss, as the journal says (PlacedInv); and a      *)
(* commit starts from targets whose content is synced (SyncedInv), which   *)
(* is why the snapshot is also what a power loss brings back.              *)
(*                                                                         *)
(* Directories are the exception (Odd): a created directory is removed     *)
(* again only over a failed call (SpentInv), and a process that dies       *)
(* before it has synced the removal leaves an entry that the next power    *)
(* loss brings back, whatever recovery recorded in between.                *)
(***************************************************************************)
EXTENDS WorkspaceTransactionProofs

\* Its commit began, and Core has no terminal record.
Unfinished(o) == o \in started /\ op[o].pc # "done"

Inspecting == {"clean", "mark", "judged"}
Resting == {"done", "lost"} \cup Recovering

-----------------------------------------------------------------------------
(* What holds of the files and the journal at any time *)

\* A call has failed, and then a directory may be where none is expected.
Spent == budget.faults < MaxFaults
Odd(e) == e.is = "dir" /\ Spent

\* A directory is created where nothing was; unless a call has failed, a
\* power loss does not bring it back, and a record of its rollback is true.
DirPlanned(tx) == plan[tx].after = "dir" => plan[tx].before = "missing"

DirBorn(tx) ==
    /\ DirPlanned(tx)
    /\ plan[tx].after = "dir" /\ ~Spent =>
        /\ diskDurable[PathOf(tx)].by = tx => disk[PathOf(tx)].by = tx
        /\ wal[tx] = "rolledBack" => Absent(tx)

\* An entry of a transaction has the content it was to write, and appears
\* only once its commit began and its intent is recorded.
Born(tx) ==
    /\ DirBorn(tx)
    /\ disk[PathOf(tx)].by = tx => disk[PathOf(tx)].is = plan[tx].after
    /\ diskDurable[PathOf(tx)].by = tx => diskDurable[PathOf(tx)].is = plan[tx].after
    /\ Absent(tx) \/ (OpOf(tx) \in started /\ wal[tx] # "none")
    /\ wal[tx] = "committed" => OpOf(tx) \in started

\* The fold is the file until an append fails, and then neither changes.
FoldInv ==
    /\ ~walFailed => mem = wal
    /\ \A tx \in Tx : mem[tx] = "committed" => wal[tx] = "committed"
    /\ phase = "recovering" => \A tx \in Tx : mem[tx] = "none" <=> wal[tx] = "none"
    /\ budget.faults <= MaxFaults /\ (walFailed => budget.faults < MaxFaults)

\* From the snapshot to the end of the effect.
Working == {"prepared"} \cup Preparing \cup CommitPcs \cup Undoing

\* A directory is created alone, and that is what its plan says.
DirFits(o) ==
    IsDir(o) => /\ \A p, q \in Range(op[o].req) : p = q
                /\ op[o].pc \in Working => \A p \in Range(op[o].req) : plan[<<o, p>>].after = "dir"

\* A created directory is removed again only over a failed call.
SpentInv(o) ==
    /\ op[o].pc = "uncreate" /\ StillOurs(o) => Spent
    /\ op[o].pc = "removed" => Spent

\* Core is fenced over what it could not settle.
CoreInv(o) ==
    /\ DirFits(o)
    /\ op[o].pc \in Recovering => phase = "recovering"
    /\ phase = "recovering" => op[o].pc \in {"idle"} \cup Resting
    /\ Committing(o) <=> o \in started /\ op[o].pc \notin Resting
    /\ o \in started /\ op[o].pc = "lost" => fenced
    /\ phase = "up" /\ op[o].pc = "done" /\ NeedsRecovery(op[o].stop) => fenced

OneUnfinished == \A o, q \in Op : Unfinished(o) /\ Unfinished(q) => o = q
OneInspector == \A o, q \in Op : op[o].pc \in Inspecting /\ op[q].pc \in Inspecting => o = q

\* The children of a commit that are still to be dealt with.
ChildrenInv(o) ==
    /\ Committing(o) =>
          /\ Range(op[o].rest) \subseteq Range(op[o].staged)
          /\ \A p \in Path \ Range(op[o].staged) : wal[<<o, p>>] = "none"
          /\ op[o].pc = "settle" => op[o].stop \in Receipts
    /\ Committing(o) \/ op[o].pc \in {"clean", "mark"} =>
          /\ IsInjective(op[o].rest)
          /\ \A p \in Range(op[o].rest) :
                wal[<<o, p>>] = "prepared" \/ (op[o].pc = "ack" /\ p = Head(op[o].rest))

\* The staging file is complete, and stays so; a directory has none.
Complete(tx) == PathOf(tx) \in foreign \/ {temp[tx], tempDurable[tx]} \in {{"full"}, {"none"}}

CompleteInv(o) ==
    /\ op[o].pc \in Preparing \cup {"prepared"} => \A p \in Range(op[o].staged) : Complete(<<o, p>>)
    /\ op[o].pc = "review" => Complete(Cur(o))

-----------------------------------------------------------------------------
(* What a commit that was not settled left behind *)

\* A directory that the next power loss brings back, or the last one did.
OddBoth(tx, e) == Odd(e) /\ Odd(diskDurable[PathOf(tx)])

\* Unless a foreign program has been there, the target is as the snapshot has
\* it or carries the transaction's entry, before and after a power loss, as
\* the journal says.
Placed(tx) ==
    \/ PathOf(tx) \in foreign
    \/ /\ \A e \in {disk[PathOf(tx)], diskDurable[PathOf(tx)]} :
             /\ e.is = plan[tx].before \/ e.by = tx \/ OddBoth(tx, e)
             /\ wal[tx] = "committed" => e.by = tx
             /\ wal[tx] = "rolledBack" => e.is = plan[tx].before \/ OddBoth(tx, e)
       /\ diskDurable[PathOf(tx)].by = tx => disk[PathOf(tx)].by = tx \/ Odd(diskDurable[PathOf(tx)])
       /\ {temp[tx], tempDurable[tx]} \subseteq {"none", "full"}

PlacedInv(o) == Unfinished(o) => \A p \in Path : wal[<<o, p>>] # "none" => Placed(<<o, p>>)

\* A target whose content a power loss could change is one an unsettled
\* commit has replaced, or an outcome that needs recovery is on record.
SyncedInv ==
    \A p \in Path :
        \/ p \in foreign
        \/ disk[p].is = diskDurable[p].is \/ Odd(diskDurable[p])
        \/ \E o \in Op : Unfinished(o) /\ disk[p].by = <<o, p>>
        \/ \E o \in Op : op[o].pc = "done" /\ NeedsRecovery(op[o].stop)

\* The reasons to call a commit's outcome ambiguous.
Excused(o) ==
    \/ foreign # {} \/ budget.faults < MaxFaults \/ Records(mem) >= MaxRecords
    \/ \E tx \in TxsOf(o) : "dir" \in {plan[tx].before, plan[tx].after}

\* A directory that came back after its removal.
Returned(tx) ==
    /\ plan[tx].after = "dir" /\ Spent
    /\ PathOf(tx) \in foreign \/ Odd(diskDurable[PathOf(tx)])

\* What a verdict says is true.
Claim(o, v) ==
    /\ v = "NotApplied" =>
          \A tx \in TxsOf(o) : disk[PathOf(tx)].by = tx =>
              plan[tx].before = plan[tx].after \/ Returned(tx)
    /\ v = "Applied" =>
          \A tx \in TxsOf(o) : PathOf(tx) \in foreign \/ {disk[PathOf(tx)].by, diskDurable[PathOf(tx)].by} = {tx}
    /\ v = "DurabilityFailed" /\ o \in started => \E tx \in TxsOf(o) : Ours(tx)
    /\ v = "Ambiguous" /\ o \in started => Excused(o)

\* A target found in its before state.
Undisturbed(tx) ==
    /\ PathOf(tx) \in foreign \/ disk[PathOf(tx)].is = plan[tx].before
    /\ plan[tx].after = "dir" => Absent(tx) \/ Spent

\* A verdict on its way, and the targets still to be marked rolled back.
ClaimInv(o) ==
    /\ op[o].pc \in {"clean", "mark"} =>
          /\ Claim(o, op[o].stop)
          /\ \A p \in Range(op[o].rest) : Undisturbed(<<o, p>>)
    /\ op[o].pc = "judged" => Claim(o, verdict[o])

RecoveryInv ==
    /\ WorkspaceInv /\ FoldInv /\ OneUnfinished /\ OneInspector /\ SyncedInv
    /\ \A tx \in Tx : Born(tx)
    /\ \A o \in Op : /\ CoreInv(o) /\ SpentInv(o) /\ ChildrenInv(o) /\ CompleteInv(o)
                     /\ PlacedInv(o) /\ ClaimInv(o)

-----------------------------------------------------------------------------
(* A step of one operation as the others see it *)

\* The target at hand is replaced, or the created directory removed again.
Changes(o) ==
    \/ op[o].pc = "apply" /\ Applicable(o) /\ Landed(o)
    \/ /\ op[o].pc = "uncreate" /\ StillOurs(o)
       /\ disk' = [disk EXCEPT ![PathOf(Cur(o))] = Missing]

Frame(o) ==
    /\ \A q \in Op : q # o => op'[q] = op[q]
    /\ \A q \in Op, p \in Path : q # o =>
          /\ wal'[<<q, p>>] = wal[<<q, p>>] /\ mem'[<<q, p>>] = mem[<<q, p>>]
          /\ plan'[<<q, p>>] = plan[<<q, p>>] /\ temp'[<<q, p>>] = temp[<<q, p>>]
          /\ tempDurable'[<<q, p>>] \in {tempDurable[<<q, p>>], temp[<<q, p>>]}
    /\ disk' = disk \/ Changes(o)
    /\ \A p \in Path : diskDurable'[p] \in {diskDurable[p], disk'[p]}
    /\ foreign' = foreign

\* The journal is left alone, written, or broken.
Writes(tx, s) ==
    \/ UNCHANGED walVars
    \/ /\ ~walFailed /\ UNCHANGED walFailed
       /\ wal' = [wal EXCEPT ![tx] = s] /\ mem' = [mem EXCEPT ![tx] = s]
    \/ /\ ~walFailed /\ walFailed' = TRUE /\ UNCHANGED mem /\ budget'.faults < budget.faults
       /\ wal' \in {wal, [wal EXCEPT ![tx] = s]}

LEMMA FaultFacts ==
    ASSUME TypeInv, Fault \/ NoFault
    PROVE  /\ budget.faults \in Nat /\ budget'.faults \in Nat /\ budget'.faults <= budget.faults
           /\ Fault => budget'.faults < budget.faults
           /\ budget'.crashes = budget.crashes /\ budget'.foreign = budget.foreign
<1> DEFINE b == budget
<1>1. b \in [faults : Nat, crashes : Nat, foreign : Nat]
  BY DEF TypeInv
<1>2. CASE NoFault
  <2>1. budget' = b /\ ~Fault
    BY <1>1, <1>2 DEF NoFault, Fault
  <2> QED BY <1>1, <2>1
<1>3. CASE Fault
  <2>1. budget' = [b EXCEPT !.faults = b.faults - 1] /\ b.faults > 0
    BY <1>3 DEF Fault
  <2> HIDE DEF b
  <2>2. budget'.faults = b.faults - 1 /\ budget'.crashes = b.crashes /\ budget'.foreign = b.foreign
    BY <1>1, <2>1
  <2> QED BY <1>1, <2>1, <2>2 DEF b
<1> QED BY <1>2, <1>3

LEMMA SpentKept ==
    ASSUME TypeInv, Fault \/ NoFault
    PROVE  Spent => Spent'
BY FaultFacts, BoundAssumption DEF Spent

LEMMA AppendWrites ==
    ASSUME TypeInv, NEW tx, NEW s, Appended(tx, s) \/ NotAppended(tx, s)
    PROVE  Writes(tx, s) /\ (Fault \/ NoFault)
<1>1. CASE Appended(tx, s)
  BY <1>1 DEF Appended, AppendRefused, Writes
<1>2. CASE NotAppended(tx, s) /\ Fault
  BY <1>2, FaultFacts DEF NotAppended, AppendRefused, Writes
<1>3. CASE NotAppended(tx, s) /\ ~Fault
  BY <1>3 DEF NotAppended, Writes
<1>4. NotAppended(tx, s) => Fault \/ NoFault
  BY DEF NotAppended
<1> QED BY <1>1, <1>2, <1>3, <1>4 DEF Appended

\* What a record may do to the fold.
LEMMA FoldKept ==
    ASSUME TypeInv, FoldInv, Fault \/ NoFault, phase' = phase, NEW tx \in Tx, NEW s \in TxStates,
           Writes(tx, s), s # "none", wal[tx] = "committed" => s = "committed",
           phase = "recovering" => wal[tx] # "none"
    PROVE  /\ FoldInv'
           /\ \A t \in Tx : t # tx => wal'[t] = wal[t] /\ mem'[t] = mem[t]
           /\ wal'[tx] \in {wal[tx], s} /\ (mem'[tx] = "none" => mem[tx] = "none")
           /\ \A t \in Tx : wal[t] # "none" => wal'[t] # "none"
<1>1. wal \in [Tx -> TxStates] /\ mem \in [Tx -> TxStates]
  BY DEF TypeInv
<1>2. /\ budget.faults \in Nat /\ budget'.faults \in Nat /\ budget'.faults <= budget.faults
      /\ MaxFaults \in Nat
  BY FaultFacts, BoundAssumption
<1>3. CASE UNCHANGED walVars
  BY <1>2, <1>3 DEF FoldInv, walVars
<1>4. CASE /\ ~walFailed /\ UNCHANGED walFailed
           /\ wal' = [wal EXCEPT ![tx] = s] /\ mem' = [mem EXCEPT ![tx] = s]
  <2>1. mem = wal
    BY <1>4 DEF FoldInv
  <2>2. mem' = wal' /\ ~walFailed'
    BY <1>4, <2>1
  <2>3. budget'.faults <= MaxFaults
    BY <1>2 DEF FoldInv
  <2>4. FoldInv'
    BY <2>2, <2>3 DEF FoldInv
  <2> QED BY <1>1, <1>4, <2>4
<1>5. CASE /\ ~walFailed /\ walFailed' = TRUE /\ UNCHANGED mem /\ budget'.faults < budget.faults
           /\ wal' \in {wal, [wal EXCEPT ![tx] = s]}
  <2>1. mem = wal /\ budget'.faults < MaxFaults
    BY <1>2, <1>5 DEF FoldInv
  <2>2. \A t \in Tx : t # tx => wal'[t] = wal[t]
    BY <1>1, <1>5
  <2>3. wal'[tx] \in {wal[tx], s}
    BY <1>1, <1>5
  <2>4. ASSUME NEW t \in Tx PROVE /\ mem'[t] = "committed" => wal'[t] = "committed"
                                  /\ phase' = "recovering" => (mem'[t] = "none" <=> wal'[t] = "none")
                                  /\ wal[t] # "none" => wal'[t] # "none"
    BY <1>5, <2>1, <2>2, <2>3
  <2>5. FoldInv'
    BY <1>2, <1>5, <2>1, <2>4 DEF FoldInv
  <2> QED BY <1>5, <2>2, <2>3, <2>4, <2>5
<1> QED BY <1>3, <1>4, <1>5 DEF Writes

LEMMA FoldSame ==
    ASSUME TypeInv, FoldInv, UNCHANGED walVars, Fault \/ NoFault, phase' = phase
    PROVE  FoldInv'
BY FaultFacts, BoundAssumption DEF FoldInv, walVars

\* Steps that leave the targets and the staging files alone.
LEMMA QuietFrame ==
    ASSUME NEW o \in Op, \A q \in Op : q # o => op'[q] = op[q], UNCHANGED <<fsVars, foreign>>,
           \A q \in Op, p \in Path : q # o =>
              /\ wal'[<<q, p>>] = wal[<<q, p>>] /\ mem'[<<q, p>>] = mem[<<q, p>>]
              /\ plan'[<<q, p>>] = plan[<<q, p>>]
    PROVE  Frame(o)
BY DEF Frame, fsVars

\* Records about o's own transactions.
LEMMA WritesFrame ==
    ASSUME TypeInv, NEW o \in Op, NEW h, NEW s, Writes(<<o, h>>, s)
    PROVE  \A q \in Op, p \in Path : q # o =>
              wal'[<<q, p>>] = wal[<<q, p>>] /\ mem'[<<q, p>>] = mem[<<q, p>>]
<1> SUFFICES ASSUME NEW q \in Op, NEW p \in Path, q # o
             PROVE  wal'[<<q, p>>] = wal[<<q, p>>] /\ mem'[<<q, p>>] = mem[<<q, p>>]
  OBVIOUS
<1> DEFINE t == <<q, p>>
<1>1. t \in Tx /\ t # <<o, h>> /\ wal \in [Tx -> TxStates] /\ mem \in [Tx -> TxStates]
  BY TxFacts DEF TypeInv
<1> HIDE DEF t
<1> QED BY <1>1 DEF Writes, walVars, t

\* Calls for o's own staging files and directory syncs.
LEMMA FilesFrame ==
    ASSUME TypeInv, NEW o \in Op, NEW h \in Path, NEW s, NEW d,
           \A q \in Op : q # o => op'[q] = op[q],
           temp' \in {temp, [temp EXCEPT ![<<o, h>>] = s]},
           disk' = disk \/ Changes(o),
           \/ DirSynced(h)
           \/ diskDurable' = diskDurable /\ tempDurable' \in {tempDurable, [tempDurable EXCEPT ![<<o, h>>] = d]},
           UNCHANGED <<walVars, plan, foreign>>
    PROVE  /\ Frame(o)
           /\ \A p \in Path : p # h => temp'[<<o, p>>] = temp[<<o, p>>]
                                       /\ tempDurable'[<<o, p>>] = tempDurable[<<o, p>>]
           /\ temp'[<<o, h>>] \in {temp[<<o, h>>], s}
           /\ tempDurable'[<<o, h>>] \in {tempDurable[<<o, h>>], temp'[<<o, h>>], d}
<1>1. /\ temp \in [Tx -> TempStates] /\ tempDurable \in [Tx -> TempStates] /\ diskDurable \in [Path -> Entries]
      /\ \A q \in Op, p \in Path : <<q, p>> \in Tx /\ PathOf(<<q, p>>) = p
  BY TxFacts DEF TypeInv
<1>2. /\ \A q \in Op, p \in Path : q # o \/ p # h => temp'[<<q, p>>] = temp[<<q, p>>]
      /\ temp'[<<o, h>>] \in {temp[<<o, h>>], s}
  BY <1>1
<1>3. /\ \A p \in Path : diskDurable'[p] \in {diskDurable[p], disk'[p]}
      /\ \A q \in Op, p \in Path : q # o =>
            tempDurable'[<<q, p>>] \in {tempDurable[<<q, p>>], temp[<<q, p>>]}
      /\ \A p \in Path : p # h => tempDurable'[<<o, p>>] = tempDurable[<<o, p>>]
      /\ tempDurable'[<<o, h>>] \in {tempDurable[<<o, h>>], temp'[<<o, h>>], d}
  <2>1. CASE DirSynced(h)
    <3>1. \A p \in Path : diskDurable'[p] \in {diskDurable[p], disk'[p]}
      BY <1>1, <2>1 DEF DirSynced
    <3>2. \A q \in Op, p \in Path :
             tempDurable'[<<q, p>>] = IF p = h THEN temp'[<<q, p>>] ELSE tempDurable[<<q, p>>]
      BY <1>1, <2>1 DEF DirSynced
    <3> QED BY <1>2, <3>1, <3>2
  <2>2. CASE diskDurable' = diskDurable /\ tempDurable' \in {tempDurable, [tempDurable EXCEPT ![<<o, h>>] = d]}
    BY <1>1, <2>2
  <2> QED BY <2>1, <2>2
<1> QED BY <1>2, <1>3 DEF Frame, walVars

-----------------------------------------------------------------------------
(* What such a step leaves true of files *)

\* Every pair of an entry and what a power loss leaves of it that a step
\* other than a rename or a foreign write can make.
Settles(p) ==
    \/ disk'[p] = disk[p] /\ diskDurable'[p] \in {diskDurable[p], disk[p]}
    \/ disk'[p] = diskDurable[p] /\ diskDurable'[p] = diskDurable[p]

TempsSettle(tx) == {temp'[tx], tempDurable'[tx]} \subseteq {temp[tx], tempDurable[tx], "none"}

LEMMA PlacedKept ==
    ASSUME NEW tx \in Tx, Placed(tx), plan'[tx] = plan[tx], wal'[tx] = wal[tx],
           foreign \subseteq foreign',
           PathOf(tx) \in foreign' \/ (Settles(PathOf(tx)) /\ TempsSettle(tx)), Spent => Spent'
    PROVE  Placed(tx)'
<1> DEFINE p == PathOf(tx)
<1>1. CASE p \in foreign'
  BY <1>1 DEF Placed
<1>2. CASE p \notin foreign' /\ Settles(p) /\ TempsSettle(tx)
  <2> DEFINE d == disk[p]
             u == diskDurable[p]
  <2>2. <<disk'[p], diskDurable'[p]>> \in {<<d, u>>, <<d, d>>, <<u, u>>}
    BY <1>2 DEF Settles
  <2>3. /\ \A e \in {d, u} :
              /\ e.is = plan[tx].before \/ e.by = tx \/ (e.is = "dir" /\ u.is = "dir" /\ Spent)
              /\ wal[tx] = "committed" => e.by = tx
              /\ wal[tx] = "rolledBack" => e.is = plan[tx].before \/ (e.is = "dir" /\ u.is = "dir" /\ Spent)
        /\ u.by = tx => d.by = tx \/ (u.is = "dir" /\ Spent)
        /\ {temp[tx], tempDurable[tx]} \subseteq {"none", "full"}
    BY <1>2 DEF Placed, OddBoth, Odd
  <2>4. {temp'[tx], tempDurable'[tx]} \subseteq {"none", "full"}
    BY <1>2, <2>3 DEF TempsSettle
  <2> HIDE DEF d, u
  <2>5. \A e \in {disk'[p], diskDurable'[p]} : e \in {d, u}
    BY <2>2
  <2>6. diskDurable'[p].by = tx => disk'[p].by = tx \/ (diskDurable'[p].is = "dir" /\ Spent')
    BY <2>2, <2>3
  <2>7. \A e \in {disk'[p], diskDurable'[p]} :
            /\ e.is = plan'[tx].before \/ e.by = tx \/ (e.is = "dir" /\ diskDurable'[p].is = "dir" /\ Spent')
            /\ wal'[tx] = "committed" => e.by = tx
            /\ wal'[tx] = "rolledBack" =>
                  e.is = plan'[tx].before \/ (e.is = "dir" /\ diskDurable'[p].is = "dir" /\ Spent')
    BY <2>2, <2>3, <2>5
  <2> QED BY <2>4, <2>6, <2>7 DEF Placed, OddBoth, Odd
<1> QED BY <1>1, <1>2

LEMMA BornKept ==
    ASSUME NEW tx \in Tx, Born(tx), plan'[tx] = plan[tx], started \subseteq started',
           wal[tx] # "none" => wal'[tx] # "none",
           wal'[tx] = "committed" => wal[tx] = "committed" \/ OpOf(tx) \in started,
           Spent => Spent',
           plan[tx].after = "dir" /\ wal'[tx] = "rolledBack" => wal[tx] = "rolledBack" \/ Absent(tx) \/ Spent,
           \/ Settles(PathOf(tx))
           \/ disk'[PathOf(tx)].by # tx /\ diskDurable'[PathOf(tx)].by # tx
    PROVE  Born(tx)'
BY DEF Born, DirBorn, DirPlanned, Settles, Absent

\* Outside of a rename a step settles.
LEMMA FrameSettles ==
    ASSUME NEW o \in Op, Frame(o), disk' = disk
    PROVE  \A p \in Path : Settles(p)
BY DEF Frame, Settles

\* A change concerns one path, and no directory of somebody else.
LEMMA ChangesFacts ==
    ASSUME TypeInv, NEW o \in Op, NEW h \in Path, Cur(o) = <<o, h>>, Changes(o), Frame(o)
    PROVE  /\ disk[h].is # "dir" \/ disk[h].by = <<o, h>>
           /\ \/ disk'[h].by = <<o, h>> /\ disk'[h].is = plan[<<o, h>>].after
              \/ op[o].pc = "uncreate" /\ disk'[h] = Missing /\ StillOurs(o)
           /\ op[o].pc = "apply" => disk'[h].by = <<o, h>>
           /\ \A p \in Path : p # h => Settles(p) /\ disk'[p] = disk[p]
<1>1. PathOf(Cur(o)) = h /\ disk \in [Path -> Entries] /\ diskDurable \in [Path -> Entries]
  BY TxFacts DEF TypeInv
<1>2. CASE op[o].pc = "apply" /\ Applicable(o) /\ Landed(o)
  <2>1. disk' = [disk EXCEPT ![h] = Entry(plan[<<o, h>>].after, <<o, h>>)]
    BY <1>1, <1>2 DEF Landed
  <2>2. /\ disk'[h] = Entry(plan[<<o, h>>].after, <<o, h>>)
        /\ \A p \in Path : p # h => disk'[p] = disk[p]
    BY <1>1, <2>1
  <2>3. \A p \in Path : p # h => Settles(p)
    BY <2>2 DEF Frame, Settles
  <2>4. disk[h].is # "dir"
    BY <1>1, <1>2 DEF Applicable
  <2> QED BY <2>2, <2>3, <2>4 DEF Entry
<1>3. CASE /\ op[o].pc = "uncreate" /\ StillOurs(o)
           /\ disk' = [disk EXCEPT ![PathOf(Cur(o))] = Missing]
  <2>1. /\ disk'[h] = Missing
        /\ \A p \in Path : p # h => disk'[p] = disk[p]
    BY <1>1, <1>3
  <2>2. \A p \in Path : p # h => Settles(p)
    BY <2>1 DEF Frame, Settles
  <2>3. disk[h].by = <<o, h>>
    BY <1>1, <1>3 DEF StillOurs, Entry
  <2> QED BY <1>3, <2>1, <2>2, <2>3
<1> QED BY <1>2, <1>3 DEF Changes

-----------------------------------------------------------------------------
(* What is left to show of a step of one operation *)

\* The bystanders.
LEMMA OthersKept ==
    ASSUME RecoveryInv, NEW o \in Op, Frame(o), phase' = phase, fenced => fenced',
           started \subseteq started', started' \subseteq started \cup {o}, Fault \/ NoFault,
           disk' = disk \/ Unfinished(o),
           NEW q \in Op, q # o, op[q].pc \notin Inspecting
    PROVE  /\ CoreInv(q)' /\ SpentInv(q)' /\ ChildrenInv(q)' /\ CompleteInv(q)' /\ PlacedInv(q)' /\ ClaimInv(q)'
           /\ \A p \in Path : Born(<<q, p>>)'
           /\ Unfinished(q)' <=> Unfinished(q)
<1>1. /\ TypeInv /\ OneUnfinished /\ CoreInv(q) /\ ChildrenInv(q) /\ CompleteInv(q) /\ PlacedInv(q)
      /\ \A p \in Path : <<q, p>> \in Tx /\ PathOf(<<q, p>>) = p /\ OpOf(<<q, p>>) = q /\ Born(<<q, p>>)
  BY TxFacts DEF RecoveryInv, WorkspaceInv
<1>2. op'[q] = op[q] /\ (q \in started' <=> q \in started)
  BY DEF Frame
<1>3. Unfinished(q)' <=> Unfinished(q)
  BY <1>2 DEF Unfinished
<1>4. Spent => Spent'
  BY <1>1, SpentKept
<1>5. \A p \in Path : /\ wal'[<<q, p>>] = wal[<<q, p>>] /\ plan'[<<q, p>>] = plan[<<q, p>>]
                      /\ temp'[<<q, p>>] = temp[<<q, p>>]
                      /\ tempDurable'[<<q, p>>] \in {tempDurable[<<q, p>>], temp[<<q, p>>]}
  BY DEF Frame
<1>12. CoreInv(q)'
  <2>1. Range(op[q].req) \subseteq Path
    BY <1>1, RangeFacts
  <2>2. DirFits(q)'
    BY <1>1, <1>2, <1>5, <2>1 DEF CoreInv, DirFits, IsDir
  <2> QED BY <1>1, <1>2, <2>2 DEF CoreInv, Committing
<1>6. ChildrenInv(q)'
  <2>1. Range(op[q].rest) \subseteq Path
    BY <1>1, RangeFacts
  <2> QED BY <1>1, <1>2, <1>5, <2>1 DEF ChildrenInv, Committing
<1>7. CompleteInv(q)'
  <2>1. ASSUME NEW p \in Path, Complete(<<q, p>>) PROVE Complete(<<q, p>>)'
    <3>1. foreign' = foreign /\ PathOf(<<q, p>>)' = PathOf(<<q, p>>)
      BY DEF Frame, PathOf
    <3>2. temp'[<<q, p>>] = temp[<<q, p>>] /\ tempDurable'[<<q, p>>] \in {tempDurable[<<q, p>>], temp[<<q, p>>]}
      BY <1>5
    <3> QED BY <2>1, <3>1, <3>2 DEF Complete
  <2>2. Range(op[q].staged) \subseteq Path
    BY <1>1, RangeFacts
  <2>3. op[q].pc = "review" => \E p \in Path : Cur(q) = <<q, p>>
    <3>1. op[q].pc = "review" => op[q].pc \in Preparing
      BY DEF Preparing
    <3> QED BY <3>1, PreparingFacts DEF RecoveryInv
  <2>4. Cur(q)' = Cur(q)
    BY <1>2 DEF Cur
  <2> QED BY <1>1, <1>2, <2>1, <2>2, <2>3, <2>4 DEF CompleteInv
<1>8. ClaimInv(q)'
  BY <1>2 DEF ClaimInv, Inspecting
<1>9. SpentInv(q)'
  <2> SUFFICES ASSUME op[q].pc \in {"uncreate", "removed"} PROVE SpentInv(q)'
    BY <1>2 DEF SpentInv
  <2>1. AtChild(q) /\ Committing(q) /\ WorkspaceInv /\ OneCommit /\ SpentInv(q)
    BY DEF AtChild, Committing, CommitPcs, RecoveryInv, WorkspaceInv
  <2>2. ~Changes(o)
    BY <2>1 DEF Changes, OneCommit, Committing, CommitPcs
  <2>3. disk' = disk /\ foreign' = foreign
    BY <2>2 DEF Frame
  <2>4. PICK p \in Path : Cur(q) = <<q, p>>
    BY <2>1, ChildFacts
  <2>5. Cur(q)' = Cur(q) /\ plan'[Cur(q)] = plan[Cur(q)]
    BY <1>2, <1>5, <2>4 DEF Cur
  <2>6. StillOurs(q)' => StillOurs(q)
    BY <2>3, <2>5 DEF StillOurs, PathOf
  <2> QED BY <1>2, <1>4, <2>1, <2>6 DEF SpentInv
<1>10. CASE disk' = disk
  <2>1. \A p \in Path : Settles(p)
    BY <1>10, FrameSettles
  <2>2. \A p \in Path : Born(<<q, p>>)'
    BY <1>1, <1>4, <1>5, <2>1, BornKept
  <2>3. \A p \in Path : Placed(<<q, p>>) => Placed(<<q, p>>)'
    <3>1. \A p \in Path : TempsSettle(<<q, p>>)
      BY <1>5 DEF TempsSettle
    <3> QED BY <1>1, <1>4, <1>5, <2>1, <3>1, PlacedKept DEF Frame
  <2>4. PlacedInv(q)'
    BY <1>1, <1>3, <1>5, <2>3 DEF PlacedInv
  <2> QED BY <1>3, <1>6, <1>7, <1>8, <1>9, <1>12, <2>2, <2>4
<1>11. CASE Changes(o) /\ disk' # disk
  <2>1. PICK h \in Path : Cur(o) = <<o, h>>
    <3>1. AtChild(o)
      BY <1>11 DEF Changes, AtChild, CommitPcs
    <3> QED BY <3>1, ChildFacts DEF RecoveryInv
  <2>2. ~Unfinished(q)
    BY <1>1, <1>11 DEF OneUnfinished
  <2>3. PlacedInv(q)'
    BY <1>3, <2>2 DEF PlacedInv
  <2>4. /\ disk[h].is # "dir" \/ disk[h].by = <<o, h>>
        /\ disk'[h].by \in {<<o, h>>, NoTx} /\ diskDurable'[h] \in {diskDurable[h], disk'[h]}
        /\ \A p \in Path : p # h => Settles(p)
    <3>1. Missing.by = NoTx
      BY DEF Missing, Entry
    <3> QED BY <1>1, <1>11, <2>1, <3>1, ChangesFacts DEF Frame
  <2>5. ASSUME NEW p \in Path PROVE Born(<<q, p>>)'
    <3>1. CASE p # h
      BY <1>1, <1>4, <1>5, <2>4, <3>1, BornKept
    <3>2. CASE p = h
      <4> DEFINE t == <<q, h>>
      <4>1. /\ t \in Tx /\ Born(t) /\ t # <<o, h>> /\ t # NoTx /\ PathOf(t) = h
            /\ wal'[t] = wal[t] /\ plan'[t] = plan[t] /\ (Spent => Spent')
        BY <1>1, <1>4, <1>5, TxFacts
      <4>2. OpOf(t) \in started => OpOf(t) \in started'
        OBVIOUS
      <4> HIDE DEF t
      <4>3. disk'[h].by # t /\ (diskDurable'[h].by = t => diskDurable'[h] = diskDurable[h])
        BY <2>4, <4>1
      <4>4. plan[t].after = "dir" /\ ~Spent => diskDurable[h].by # t
        BY <2>4, <4>1 DEF Born, DirBorn
      <4>5. DirBorn(t)'
        BY <4>1, <4>3, <4>4 DEF Born, DirBorn, DirPlanned, Absent
      <4> QED BY <3>2, <4>1, <4>2, <4>3, <4>5 DEF Born, Absent, t
    <3> QED BY <3>1, <3>2
  <2> QED BY <1>3, <1>6, <1>7, <1>8, <1>9, <1>12, <2>3, <2>5
<1> QED BY <1>10, <1>11 DEF Frame

\* While the host is up, nobody inspects.
LEMMA UpFacts ==
    ASSUME RecoveryInv, NEW o \in Op, op[o].pc \notin {"idle"} \cup Resting
    PROVE  phase = "up" /\ \A q \in Op : op[q].pc \notin Inspecting
<1>1. phase = "up"
  BY DEF RecoveryInv, CoreInv, WorkspaceInv, TypeInv
<1> QED BY <1>1 DEF RecoveryInv, CoreInv, Recovering, Inspecting

\* An operation in its commit.
LEMMA CommitFacts ==
    ASSUME RecoveryInv, NEW o \in Op, Committing(o)
    PROVE  /\ WorkspaceInv /\ TypeInv /\ OpInv(o) /\ FoldInv /\ CoreInv(o) /\ ChildrenInv(o)
           /\ o \in started /\ Unfinished(o) /\ op[o].pc \notin {"idle"} \cup Resting /\ phase = "up"
           /\ DirFits(o)
           /\ \A p \in Path : wal[<<o, p>>] # "none" => Placed(<<o, p>>)
           /\ \A p \in Path : <<o, p>> \in Tx /\ PathOf(<<o, p>>) = p /\ OpOf(<<o, p>>) = o /\ Born(<<o, p>>)
<1>1. WorkspaceInv /\ TypeInv /\ OpInv(o) /\ FoldInv /\ CoreInv(o) /\ ChildrenInv(o) /\ PlacedInv(o)
  BY DEF RecoveryInv, WorkspaceInv
<1>2. op[o].pc # "idle"
  BY DEF Committing, CommitPcs
<1>3. o \in started /\ op[o].pc \notin {"idle"} \cup Resting /\ Unfinished(o) /\ DirFits(o)
  BY <1>1, <1>2 DEF CoreInv, Unfinished, Resting
<1>4. phase = "up"
  BY <1>3, UpFacts
<1>5. \A p \in Path : <<o, p>> \in Tx /\ PathOf(<<o, p>>) = p /\ OpOf(<<o, p>>) = o /\ Born(<<o, p>>)
  BY TxFacts DEF RecoveryInv
<1> QED BY <1>1, <1>3, <1>4, <1>5 DEF PlacedInv

\* What the removal of a created directory leaves to a power loss.
LEMMA RemovalLeaves ==
    ASSUME RecoveryInv, NEW o \in Op, op[o].pc = "uncreate", NEW h \in Path, Cur(o) = <<o, h>>
    PROVE  /\ plan[<<o, h>>].after = "dir" /\ plan[<<o, h>>].before = "missing" /\ wal[<<o, h>>] = "prepared"
           /\ h \in foreign \/ diskDurable[h].is = "missing" \/ diskDurable[h].is = "dir"
<1>1. AtChild(o) /\ Committing(o)
  BY DEF AtChild, Committing, CommitPcs
<1>2. ChildInv(o) /\ OpInv(o) /\ Placed(<<o, h>>) /\ Born(<<o, h>>) /\ PathOf(<<o, h>>) = h /\ OpOf(<<o, h>>) = o
  <2>1. ChildInv(o) /\ OpInv(o)
    BY <1>1, ChildFacts DEF RecoveryInv
  <2>2. wal[<<o, h>>] # "none"
    BY <2>1 DEF ChildInv
  <2> QED BY <1>1, <2>1, <2>2, CommitFacts
<1>3. IsDir(o) /\ wal[<<o, h>>] = "prepared"
  BY <1>2 DEF ChildInv, OpInv, KindInv
<1>4. plan[<<o, h>>].after = "dir" /\ plan[<<o, h>>].before = "missing"
  <2>1. h \in Range(op[o].req)
    <3>1. PICK k \in Path : Cur(o) = <<o, k>> /\ k \in Range(op[o].req)
      BY <1>1, ChildFacts DEF RecoveryInv
    <3>2. k = h
      BY <3>1
    <3> QED BY <3>1, <3>2
  <2>2. DirFits(o) /\ op[o].pc \in Working
    BY <1>1, CommitFacts DEF Working, CommitPcs
  <2> QED BY <1>2, <1>3, <2>1, <2>2 DEF DirFits, Born, DirBorn, DirPlanned
<1>5. diskDurable[h].by = <<o, h>> => diskDurable[h].is = "dir"
  BY <1>2, <1>4 DEF Born
<1> QED BY <1>2, <1>3, <1>4, <1>5 DEF Placed, OddBoth, Odd

\* An operation that gets its terminal record leaves synced targets, or an
\* outcome that needs recovery.
Leaves(o) ==
    \/ NeedsRecovery(op'[o].stop)
    \/ /\ disk' = disk /\ diskDurable' = diskDurable
       /\ \A p \in Path : disk[p].by = <<o, p>> =>
             p \in foreign \/ disk[p].is = diskDurable[p].is \/ Odd(diskDurable[p])

LEMMA SyncedKept ==
    ASSUME RecoveryInv, NEW o \in Op, Frame(o), op[o].pc # "done",
           started \subseteq started', started' \subseteq started \cup {o},
           disk' = disk \/ (Unfinished(o) /\ Unfinished(o)'), Fault \/ NoFault,
           op'[o].pc = "done" => Leaves(o)
    PROVE  SyncedInv'
<1>1. TypeInv /\ SyncedInv /\ (Spent => Spent')
  BY SpentKept DEF RecoveryInv, WorkspaceInv
<1>2. \A q \in Op : q # o => op'[q] = op[q] /\ (Unfinished(q) => Unfinished(q)')
  BY DEF Frame, Unfinished
<1>3. foreign' = foreign
  BY DEF Frame
<1> SUFFICES ASSUME NEW p \in Path
             PROVE  \/ p \in foreign'
                    \/ disk'[p].is = diskDurable'[p].is
                    \/ Spent' /\ diskDurable'[p].is = "dir"
                    \/ \E q \in Op : Unfinished(q)' /\ disk'[p].by = <<q, p>>
                    \/ \E q \in Op : op'[q].pc = "done" /\ NeedsRecovery(op'[q].stop)
  BY DEF SyncedInv, Odd
<1>4. CASE disk' # disk /\ Changes(o) /\ Cur(o) = <<o, p>>
  <2>1. CASE disk'[p].by = <<o, p>>
    BY <1>4, <2>1
  <2>2. CASE op[o].pc = "uncreate" /\ disk'[p] = Missing /\ StillOurs(o)
    <3>1. p \in foreign \/ diskDurable[p].is = "missing" \/ diskDurable[p].is = "dir"
      BY <1>4, <2>2, RemovalLeaves
    <3>2. Spent'
      BY <1>1, <2>2 DEF RecoveryInv, SpentInv
    <3>3. disk'[p].is = "missing" /\ diskDurable'[p] \in {diskDurable[p], disk'[p]}
      BY <2>2 DEF Missing, Entry, Frame
    <3> QED BY <1>3, <3>1, <3>2, <3>3
  <2> QED BY <1>1, <1>4, <2>1, <2>2, ChangesFacts
<1>5. CASE disk'[p] = disk[p]
  <2>1. diskDurable'[p] \in {diskDurable[p], disk[p]}
    BY <1>5 DEF Frame
  <2>2. CASE disk[p].is = diskDurable[p].is
    BY <1>5, <2>1, <2>2
  <2>3. ASSUME NEW q \in Op, Unfinished(q), disk[p].by = <<q, p>>
        PROVE  \/ p \in foreign'
               \/ disk'[p].is = diskDurable'[p].is
               \/ Spent' /\ diskDurable'[p].is = "dir"
               \/ \E r \in Op : Unfinished(r)' /\ disk'[p].by = <<r, p>>
               \/ \E r \in Op : op'[r].pc = "done" /\ NeedsRecovery(op'[r].stop)
    <3>1. CASE q # o \/ op'[o].pc # "done"
      <4>1. Unfinished(q)'
        BY <1>2, <2>3, <3>1 DEF Unfinished
      <4> QED BY <1>5, <2>3, <4>1
    <3>2. CASE q = o /\ op'[o].pc = "done"
      BY <1>1, <1>3, <2>3, <3>2 DEF Leaves, Odd
    <3> QED BY <3>1, <3>2
  <2>4. ASSUME NEW q \in Op, op[q].pc = "done", NeedsRecovery(op[q].stop)
        PROVE  \E r \in Op : op'[r].pc = "done" /\ NeedsRecovery(op'[r].stop)
    BY <1>2, <2>4
  <2>5. CASE Odd(diskDurable[p])
    BY <1>1, <1>5, <2>1, <2>5 DEF Odd
  <2> QED BY <1>1, <1>3, <2>2, <2>3, <2>4, <2>5 DEF SyncedInv
<1>6. CASE Changes(o) /\ Cur(o) # <<o, p>>
  <2>1. PICK h \in Path : Cur(o) = <<o, h>>
    <3>1. AtChild(o)
      BY <1>6 DEF Changes, AtChild, CommitPcs
    <3> QED BY <3>1, ChildFacts DEF RecoveryInv
  <2>2. disk'[p] = disk[p]
    BY <1>1, <1>6, <2>1, ChangesFacts
  <2> QED BY <1>5, <2>2
<1> QED BY <1>4, <1>5, <1>6 DEF Frame

LEMMA Advances ==
    ASSUME RecoveryInv, WorkspaceInv', NEW o \in Op, Frame(o), phase' = phase, fenced => fenced',
           started \subseteq started', started' \subseteq started \cup {o},
           disk' = disk \/ (Unfinished(o) /\ Unfinished(o)'), Fault \/ NoFault,
           \A q \in Op : q # o => op[q].pc \notin Inspecting,
           op[o].pc # "done", op'[o].pc = "done" => Leaves(o),
           Unfinished(o)' => Unfinished(o) \/ \A q \in Op : ~Unfinished(q),
           FoldInv', CoreInv(o)', SpentInv(o)', ChildrenInv(o)', CompleteInv(o)', PlacedInv(o)', ClaimInv(o)',
           \A p \in Path : Born(<<o, p>>)'
    PROVE  RecoveryInv'
<1>1. ASSUME NEW q \in Op, q # o
      PROVE  /\ CoreInv(q)' /\ SpentInv(q)' /\ ChildrenInv(q)' /\ CompleteInv(q)' /\ PlacedInv(q)' /\ ClaimInv(q)'
             /\ \A p \in Path : Born(<<q, p>>)'
             /\ Unfinished(q)' <=> Unfinished(q)
  BY <1>1, OthersKept
<1>2. SyncedInv'
  BY SyncedKept
<1>3. OneUnfinished'
  BY <1>1 DEF RecoveryInv, OneUnfinished
<1>4. OneInspector'
  <2>1. \A q \in Op : q # o => op'[q].pc \notin Inspecting
    BY DEF Frame
  <2> QED BY <2>1 DEF OneInspector
<1>5. \A tx \in Tx : Born(tx)'
  <2> SUFFICES ASSUME NEW tx \in Tx PROVE Born(tx)'
    OBVIOUS
  <2>1. PICK q \in Op, p \in Path : tx = <<q, p>>
    BY TxFacts
  <2>2. Born(<<q, p>>)'
    BY <1>1
  <2> QED BY <2>1, <2>2
<1>6. \A q \in Op : CoreInv(q)' /\ SpentInv(q)' /\ ChildrenInv(q)' /\ CompleteInv(q)' /\ PlacedInv(q)' /\ ClaimInv(q)'
  BY <1>1
<1> QED BY <1>2, <1>3, <1>4, <1>5, <1>6 DEF RecoveryInv

LEMMA FitsKept ==
    ASSUME NEW o \in Op, SameTask(o), DirFits(o), plan' = plan,
           op'[o].pc \in Working => op[o].pc \in Working
    PROVE  DirFits(o)'
BY DEF SameTask, DirFits, IsDir

\* An operation before its commit.
LEMMA ToolAdvances ==
    ASSUME RecoveryInv, WorkspaceInv', NEW o \in Op, Frame(o), disk' = disk, Fault \/ NoFault,
           UNCHANGED <<started, fenced, phase>>, phase = "up",
           o \notin started, op[o].pc \notin Resting,
           ~Committing(o)', op'[o].pc \notin {"done"} \cup Recovering, DirFits(o)',
           FoldInv', CompleteInv(o)',
           \A p \in Path : wal'[<<o, p>>] # "committed" /\ DirPlanned(<<o, p>>)'
    PROVE  RecoveryInv'
<1>1. /\ TypeInv /\ \A p \in Path : <<o, p>> \in Tx /\ PathOf(<<o, p>>) = p /\ OpOf(<<o, p>>) = o
      /\ \A p \in Path : Born(<<o, p>>)
  BY TxFacts DEF RecoveryInv, WorkspaceInv
<1>2. ASSUME NEW p \in Path PROVE Born(<<o, p>>)'
  <2> DEFINE t == <<o, p>>
  <2>1. /\ t \in Tx /\ PathOf(t) = p /\ OpOf(t) = o /\ Born(t)
        /\ wal'[t] # "committed" /\ DirPlanned(t)'
    BY <1>1
  <2>2. disk'[p] = disk[p] /\ diskDurable'[p] \in {diskDurable[p], disk[p]}
    BY DEF Frame
  <2> HIDE DEF t
  <2>3. Absent(t)
    BY <2>1 DEF Born
  <2>4. Absent(t)'
    BY <2>1, <2>2, <2>3 DEF Absent
  <2> QED BY <2>1, <2>4 DEF Born, DirBorn, Absent, t
<1>3. ~Unfinished(o) /\ ~Unfinished(o)'
  BY DEF Unfinished
<1>4. CoreInv(o)'
  BY DEF CoreInv, NeedsRecovery
<1>5. ChildrenInv(o)' /\ PlacedInv(o)' /\ ClaimInv(o)' /\ SpentInv(o)'
  BY <1>3 DEF ChildrenInv, PlacedInv, ClaimInv, SpentInv, Recovering, Committing, CommitPcs
<1>6. op[o].pc # "apply" /\ op[o].pc # "done"
  <2>1. op[o].pc = "apply" => Committing(o)
    BY DEF Committing, CommitPcs
  <2> QED BY <2>1 DEF RecoveryInv, CoreInv, Resting
<1>7. \A q \in Op : op[q].pc \notin Inspecting
  BY DEF RecoveryInv, CoreInv, Recovering, Inspecting
<1> QED BY <1>2, <1>3, <1>4, <1>5, <1>6, <1>7, Advances

LEMMA CommitGoesOn ==
    ASSUME RecoveryInv, WorkspaceInv', NEW o \in Op, Frame(o),
           UNCHANGED <<started, fenced, phase, plan>>,
           Committing(o), op[o].pc # "settle", Committing(o)', SpentInv(o)', SameTask(o), Fault \/ NoFault,
           FoldInv', ChildrenInv(o)', PlacedInv(o)', \A p \in Path : Born(<<o, p>>)'
    PROVE  RecoveryInv'
<1>1. /\ CoreInv(o) /\ o \in started /\ Unfinished(o) /\ op[o].pc \notin {"idle"} \cup Resting
  BY CommitFacts
<1>2. op'[o].pc \notin {"idle"} \cup Resting \cup Preparing \cup {"prepared"} /\ Unfinished(o)'
  <2>1. op'[o].pc \notin {"idle"} \cup Resting \cup Preparing \cup {"prepared"}
    BY DEF Committing, CommitPcs, Resting, Recovering, Preparing
  <2> QED BY <1>1, <2>1 DEF Unfinished, Resting
<1>3. phase = "up" /\ \A q \in Op : op[q].pc \notin Inspecting
  BY <1>1, UpFacts
<1>4. CoreInv(o)'
  <2>1. op'[o].pc \in Working => op[o].pc \in Working
    BY DEF Committing, Working, CommitPcs, Undoing, Preparing
  <2>2. DirFits(o)'
    BY <1>1, <2>1, FitsKept DEF CoreInv
  <2> QED BY <1>1, <1>2, <1>3, <2>2 DEF CoreInv, Resting
<1>5. CompleteInv(o)' /\ ClaimInv(o)'
  BY <1>2 DEF CompleteInv, ClaimInv, Preparing, Resting, Recovering
<1> QED BY <1>1, <1>2, <1>3, <1>4, <1>5, Advances DEF Resting

LEMMA CommitAdvances ==
    ASSUME RecoveryInv, WorkspaceInv', NEW o \in Op, NEW h \in Path, Frame(o),
           UNCHANGED <<started, fenced, phase, plan>>,
           Committing(o), op[o].pc # "settle", Committing(o)', SpentInv(o)', SameTask(o), Fault \/ NoFault,
           FoldInv', ChildrenInv(o)', Placed(<<o, h>>)',
           \A p \in Path : p # h => wal'[<<o, p>>] = wal[<<o, p>>] /\ TempsSettle(<<o, p>>),
           wal[<<o, h>>] # "none" /\ wal'[<<o, h>>] # "none",
           disk' = disk \/ Cur(o) = <<o, h>>,
           wal'[<<o, h>>] # "rolledBack" \/ (disk' = disk /\ Absent(<<o, h>>))
    PROVE  RecoveryInv'
<1>1. /\ TypeInv /\ o \in started /\ \A p \in Path : wal[<<o, p>>] # "none" => Placed(<<o, p>>)
      /\ \A p \in Path : <<o, p>> \in Tx /\ PathOf(<<o, p>>) = p /\ OpOf(<<o, p>>) = o /\ Born(<<o, p>>)
      /\ Spent => Spent'
  BY CommitFacts, SpentKept
<1>2. /\ \A p \in Path : p # h => Settles(p)
      /\ Settles(h) \/ (disk' # disk /\ Cur(o) = <<o, h>> /\ Changes(o))
  <2>1. CASE disk' = disk
    BY <2>1, FrameSettles
  <2>2. CASE disk' # disk /\ Changes(o) /\ Cur(o) = <<o, h>>
    BY <1>1, <2>2, ChangesFacts
  <2> QED BY <2>1, <2>2 DEF Frame
<1>3. PlacedInv(o)'
  <2>1. ASSUME NEW p \in Path, p # h, wal'[<<o, p>>] # "none" PROVE Placed(<<o, p>>)'
    <3>1. Placed(<<o, p>>) /\ Settles(PathOf(<<o, p>>)) /\ TempsSettle(<<o, p>>) /\ <<o, p>> \in Tx
      BY <1>1, <1>2, <2>1
    <3> QED BY <1>1, <2>1, <3>1, PlacedKept DEF Frame
  <2> QED BY <2>1 DEF PlacedInv
<1>4. ASSUME NEW p \in Path PROVE Born(<<o, p>>)'
  <2>1. CASE Settles(p)
    <3>1. /\ wal[<<o, p>>] # "none" <=> wal'[<<o, p>>] # "none"
          /\ wal'[<<o, p>>] = "rolledBack" => wal[<<o, p>>] = "rolledBack" \/ Absent(<<o, p>>)
      OBVIOUS
    <3> QED BY <1>1, <2>1, <3>1, BornKept
  <2>2. CASE p = h /\ disk' # disk /\ Cur(o) = <<o, h>> /\ Changes(o)
    <3> DEFINE t == <<o, h>>
    <3>1. /\ \/ disk'[h].by = t /\ disk'[h].is = plan[t].after
             \/ disk'[h] = Missing /\ op[o].pc = "uncreate" /\ StillOurs(o)
          /\ diskDurable'[h] \in {diskDurable[h], disk'[h]}
          /\ t \in Tx /\ t # NoTx /\ PathOf(t) = h /\ OpOf(t) = o /\ Born(t) /\ plan' = plan
          /\ wal'[t] \notin {"none", "rolledBack"} /\ wal[t] # "none"
      BY <1>1, <2>2, ChangesFacts, TxFacts DEF Frame
    <3>2. Missing.by = NoTx /\ (op[o].pc = "uncreate" /\ StillOurs(o) => Spent')
      BY <1>1 DEF Missing, Entry, RecoveryInv, SpentInv
    <3> HIDE DEF t
    <3>3. DirBorn(t)'
      BY <1>1, <3>1, <3>2 DEF Born, DirBorn, DirPlanned
    <3> QED BY <1>1, <2>2, <3>1, <3>2, <3>3 DEF Born, t
  <2> QED BY <1>2, <2>1, <2>2
<1> QED BY <1>3, <1>4, CommitGoesOn

LEMMA CommitQuiet ==
    ASSUME RecoveryInv, WorkspaceInv', NEW o \in Op, Quiet, OnlyMoves(o), SameTask(o),
           UNCHANGED <<started, fenced, phase>>, Fault \/ NoFault,
           Committing(o), op[o].pc # "settle", Committing(o)', ChildrenInv(o)', SpentInv(o)'
    PROVE  RecoveryInv'
<1>1. /\ TypeInv /\ FoldInv /\ Unfinished(o) /\ \A p \in Path : wal[<<o, p>>] # "none" => Placed(<<o, p>>)
      /\ \A p \in Path : <<o, p>> \in Tx /\ PathOf(<<o, p>>) = p /\ OpOf(<<o, p>>) = o /\ Born(<<o, p>>)
  BY CommitFacts
<1>2. Frame(o) /\ disk' = disk /\ wal' = wal /\ plan' = plan /\ (Spent => Spent')
  BY <1>1, QuietFrame, SpentKept DEF Quiet, OnlyMoves, fsVars, walVars, history
<1>3. FoldInv'
  BY <1>1, FoldSame DEF Quiet
<1>4. \A p \in Path : Settles(p) /\ TempsSettle(<<o, p>>)
  BY <1>2 DEF Settles, TempsSettle, Quiet, fsVars
<1>5. PlacedInv(o)'
  BY <1>1, <1>2, <1>4, PlacedKept DEF PlacedInv, Frame
<1>6. \A p \in Path : Born(<<o, p>>)'
  BY <1>1, <1>2, <1>4, BornKept
<1> QED BY <1>2, <1>3, <1>5, <1>6, CommitGoesOn DEF SameTask

-----------------------------------------------------------------------------
(* Steps before the commit *)

LEMMA ToolFacts ==
    ASSUME RecoveryInv, NEW o \in Op, op[o].pc \notin Resting, ~Committing(o)
    PROVE  /\ WorkspaceInv /\ TypeInv /\ OpInv(o) /\ FoldInv /\ CompleteInv(o)
           /\ o \notin started /\ DirFits(o)
           /\ \A p \in Path : wal[<<o, p>>] # "committed" /\ DirPlanned(<<o, p>>) /\ <<o, p>> \in Tx
<1>1. WorkspaceInv /\ TypeInv /\ OpInv(o) /\ FoldInv /\ CompleteInv(o) /\ CoreInv(o)
  BY DEF RecoveryInv, WorkspaceInv
<1>2. o \notin started /\ DirFits(o)
  BY <1>1 DEF CoreInv
<1>3. ASSUME NEW p \in Path PROVE wal[<<o, p>>] # "committed" /\ DirPlanned(<<o, p>>) /\ <<o, p>> \in Tx
  BY <1>2, TxFacts DEF RecoveryInv, Born, DirBorn
<1> QED BY <1>1, <1>2, <1>3

LEMMA ToolQuiet ==
    ASSUME RecoveryInv, WorkspaceInv', NEW o \in Op, OnlyMoves(o), Quiet,
           UNCHANGED <<started, fenced, phase>>, Fault \/ NoFault, phase = "up",
           op[o].pc \notin Resting, ~Committing(o),
           ~Committing(o)', op'[o].pc \notin {"done"} \cup Recovering, DirFits(o)',
           CompleteInv(o)'
    PROVE  RecoveryInv'
<1>1. /\ TypeInv /\ FoldInv /\ o \notin started
      /\ \A p \in Path : wal[<<o, p>>] # "committed" /\ DirPlanned(<<o, p>>)
  BY ToolFacts
<1>2. FoldInv'
  BY <1>1, FoldSame DEF Quiet
<1>3. Frame(o) /\ disk' = disk
  BY QuietFrame DEF Quiet, OnlyMoves, fsVars, walVars, history
<1>4. \A p \in Path : wal'[<<o, p>>] # "committed" /\ DirPlanned(<<o, p>>)'
  BY <1>1 DEF Quiet, walVars, DirPlanned
<1> QED BY <1>1, <1>2, <1>3, <1>4, ToolAdvances

LEMMA BeginRec ==
    ASSUME RecoveryInv, NEW o \in Op, Begin(o)
    PROVE  RecoveryInv'
<1>1. /\ op[o].pc = "idle" /\ phase = "up" /\ Quiet /\ NoFault /\ UNCHANGED <<started, fenced, phase>>
      /\ WorkspaceInv' /\ TypeInv
  BY BeginInv DEF Begin, At, Quiet, NoFault, RecoveryInv, WorkspaceInv
<1>2. PICK k \in Kinds, v \in Val :
        \E r \in Requests(k) :
           op' = [op EXCEPT ![o] = [Idle EXCEPT !.pc = "lock", !.kind = k, !.val = v, !.req = r]]
  BY DEF Begin
<1>3. PICK req \in Requests(k) :
        op' = [op EXCEPT ![o] = [Idle EXCEPT !.pc = "lock", !.kind = k, !.val = v, !.req = req]]
  BY <1>2
<1>4. OnlyMoves(o) /\ op'[o].pc = "lock" /\ op'[o].kind = k /\ op'[o].req = req
  <2>1. OnlyMoves(o)
    BY <1>1, <1>3 DEF OnlyMoves, WorkspaceInv, TypeInv
  <2>2. op'[o].pc = "lock" /\ op'[o].kind = k /\ op'[o].req = req
    BY <1>1, <1>3, IdleFacts DEF TypeInv, OpRecords
  <2> QED BY <2>1, <2>2
<1>5. DirFits(o)'
  <2>1. k = "mkdir" => req \in [1..1 -> Path]
    BY DEF Requests
  <2>2. k = "mkdir" => \A p, q \in Range(req) : p = q
    BY <2>1 DEF Range
  <2> QED BY <1>4, <2>2 DEF DirFits, IsDir, Working, Preparing, CommitPcs, Undoing
<1>6. ~Committing(o) /\ ~Committing(o)' /\ op[o].pc \notin Resting /\ op'[o].pc \notin {"done"} \cup Recovering
  BY <1>1, <1>4 DEF Committing, CommitPcs, Resting, Recovering
<1>7. CompleteInv(o)'
  BY <1>4 DEF CompleteInv, Preparing
<1> QED BY <1>1, <1>3, <1>4, <1>5, <1>6, <1>7, ToolQuiet

LEMMA LockRec ==
    ASSUME RecoveryInv, NEW o \in Op, Lock(o)
    PROVE  RecoveryInv'
<1>1. /\ op[o].pc = "lock" /\ Quiet /\ NoFault /\ UNCHANGED <<started, fenced, phase>>
      /\ WorkspaceInv' /\ TypeInv
  BY LockInv DEF Lock, At, Quiet, NoFault, coreVars, RecoveryInv, WorkspaceInv
<1>2. ~Committing(o) /\ op[o].pc \notin {"idle"} \cup Resting
  BY <1>1 DEF Committing, CommitPcs, Resting, Recovering
<1>3. OnlyMoves(o) /\ op'[o].pc \in {"lock", "snapshot"} /\ SameTask(o)
  <2>1. CASE op' = op
    BY <1>1, <2>1 DEF OnlyMoves, SameTask, TypeInv
  <2>2. CASE Goes(o, "snapshot")
    <3>1. "snapshot" \in Pcs
      BY DEF Pcs, Holding
    <3> QED BY <1>1, <2>2, <3>1, GoesFacts
  <2> QED BY <2>1, <2>2 DEF Lock
<1>4. DirFits(o)'
  <2>1. op'[o].pc \notin Working /\ plan' = plan
    BY <1>1, <1>3 DEF Working, Preparing, CommitPcs, Undoing, Quiet
  <2> QED BY <1>2, <1>3, <2>1, ToolFacts, FitsKept
<1>5. ~Committing(o)' /\ op'[o].pc \notin {"done"} \cup Recovering /\ CompleteInv(o)'
  BY <1>3 DEF Committing, CommitPcs, Recovering, CompleteInv, Preparing
<1> QED BY <1>1, <1>2, <1>3, <1>4, <1>5, UpFacts, ToolQuiet

LEMMA SnapshotRec ==
    ASSUME RecoveryInv, NEW o \in Op, Snapshot(o)
    PROVE  RecoveryInv'
<1>1. /\ op[o].pc = "snapshot" /\ WorkspaceInv' /\ NoFault
      /\ UNCHANGED <<fsVars, walVars, coreVars, history>>
  BY SnapshotInv DEF Snapshot, At, NoFault, RecoveryInv
<1>2. ~Committing(o) /\ op[o].pc \notin {"idle"} \cup Resting
  BY <1>1 DEF Committing, CommitPcs, Resting, Recovering
<1>3. /\ TypeInv /\ OpInv(o) /\ FoldInv /\ o \notin started /\ DirFits(o)
      /\ \A p \in Path : wal[<<o, p>>] # "committed" /\ DirPlanned(<<o, p>>) /\ <<o, p>> \in Tx
  BY <1>2, ToolFacts
<1>4. op[o].staged = <<>> /\ op[o].then = "none" /\ op[o].val \in Val /\ op[o].val # "dir"
  BY <1>1, <1>3, ValAssumption DEF OpInv, FreshInv, TypeInv, OpRecords
<1>5. phase = "up"
  BY <1>2, UpFacts
<1>6. ASSUME NEW r \in {"ToolError", "Value"}, Returns(o, r), plan' = plan PROVE RecoveryInv'
  <2>1. r \in Results
    BY DEF Results
  <2>2. OnlyMoves(o) /\ SameTask(o) /\ op'[o].pc = "settle" /\ op'[o].then = "none" /\ DirFits(o)'
    <3>1. OnlyMoves(o) /\ SameTask(o) /\ op'[o].pc = "settle" /\ op'[o].then = "none"
      BY <1>3, <1>4, <1>6, <2>1, ReturnsFacts
    <3>2. op'[o].pc \notin Working
      BY <3>1 DEF Working, Preparing, CommitPcs, Undoing
    <3> QED BY <1>3, <1>6, <3>1, <3>2, FitsKept
  <2>3. ~Committing(o)' /\ op'[o].pc \notin {"done"} \cup Recovering /\ CompleteInv(o)'
    BY <2>2 DEF Committing, CommitPcs, Recovering, CompleteInv, Preparing
  <2>4. Quiet /\ UNCHANGED <<started, fenced, phase>>
    BY <1>1, <1>6 DEF Quiet, coreVars
  <2> QED BY <1>1, <1>2, <1>3, <1>5, <2>2, <2>3, <2>4, ToolQuiet
<1>7. ASSUME ToStage(o) # {}, NEW rest, op' = [op EXCEPT ![o].pc = "intent", ![o].rest = rest],
             plan' = [tx \in Tx |-> IF OpOf(tx) = o /\ PathOf(tx) \in Range(op[o].req)
                                    THEN [before |-> disk[PathOf(tx)].is,
                                          after |-> IF IsDir(o) THEN "dir" ELSE op[o].val]
                                    ELSE plan[tx]]
      PROVE  RecoveryInv'
  <2>1. /\ \A q \in Op : q # o => op'[q] = op[q]
        /\ op'[o].pc = "intent" /\ op'[o].staged = <<>> /\ SameTask(o)
    BY <1>3, <1>4, <1>7 DEF TypeInv, OpRecords, SameTask
  <2>2. ~Committing(o)' /\ op'[o].pc \notin {"done"} \cup Recovering
    BY <2>1 DEF Committing, CommitPcs, Recovering
  <2>3. CompleteInv(o)' /\ DirFits(o)'
    <3>1. Range(op[o].req) \subseteq Path
      BY <1>3, RangeFacts
    <3>2. IsDir(o) => \A p \in Range(op[o].req) : plan'[<<o, p>>].after = "dir"
      BY <1>3, <1>7, <3>1, TxFacts
    <3>3. op'[o].req = op[o].req /\ (IsDir(o)' <=> IsDir(o))
      BY <2>1 DEF SameTask, IsDir
    <3>4. DirFits(o)'
      BY <1>3, <3>2, <3>3 DEF DirFits
    <3> QED BY <2>1, <3>4, EmptyFacts DEF CompleteInv
  <2>4. \A q \in Op, p \in Path : q # o => plan'[<<q, p>>] = plan[<<q, p>>]
    BY <1>7, TxFacts
  <2>5. ASSUME NEW p \in Path PROVE DirPlanned(<<o, p>>)'
    <3>1. \/ plan'[<<o, p>>] = plan[<<o, p>>]
          \/ p \in Range(op[o].req) /\ plan'[<<o, p>>] = [before |-> disk[p].is, after |-> IF IsDir(o) THEN "dir" ELSE op[o].val]
      BY <1>3, <1>7, TxFacts
    <3>2. IsDir(o) /\ p \in Range(op[o].req) => disk[p].is = "missing"
      <4>1. IsDir(o) => \E q \in Range(op[o].req) : disk[q].is = "missing"
        BY <1>7 DEF ToStage, IsDir
      <4> QED BY <1>3, <4>1 DEF DirFits
    <3> QED BY <1>3, <1>4, <3>1, <3>2 DEF DirPlanned
  <2>6. Frame(o) /\ disk' = disk
    BY <1>1, <2>1, <2>4, QuietFrame DEF fsVars, walVars, history
  <2>7. FoldInv'
    BY <1>1, <1>3, FoldSame DEF coreVars
  <2>8. \A p \in Path : wal'[<<o, p>>] # "committed" /\ DirPlanned(<<o, p>>)'
    BY <1>1, <1>3, <2>5 DEF walVars
  <2>9. UNCHANGED <<started, fenced, phase>>
    BY <1>1 DEF coreVars
  <2> QED BY <1>1, <1>2, <1>3, <1>5, <2>2, <2>3, <2>6, <2>7, <2>8, <2>9, ToolAdvances
<1> QED BY <1>6, <1>7 DEF Snapshot

LEMMA IntentRec ==
    ASSUME RecoveryInv, NEW o \in Op, Intent(o)
    PROVE  RecoveryInv'
<1>1. /\ op[o].pc = "intent" /\ op[o].pc \in Preparing /\ WorkspaceInv'
      /\ UNCHANGED <<fsVars, plan, lease, coreVars, history>>
  BY IntentInv DEF Intent, At, RecoveryInv, Preparing
<1>2. ~Committing(o) /\ op[o].pc \notin {"idle"} \cup Resting
  BY <1>1 DEF Committing, CommitPcs, Resting, Recovering
<1>3. /\ WorkspaceInv /\ TypeInv /\ OpInv(o) /\ FoldInv /\ CompleteInv(o) /\ o \notin started
      /\ DirFits(o)
      /\ \A p \in Path : wal[<<o, p>>] # "committed" /\ DirPlanned(<<o, p>>) /\ <<o, p>> \in Tx
  BY <1>2, ToolFacts
<1>4. phase = "up" /\ phase' = phase
  BY <1>1, <1>2, UpFacts DEF coreVars
<1>5. PICK h \in Path : Cur(o) = <<o, h>> /\ <<o, h>> \in Tx /\ Fresh(<<o, h>>)
  BY <1>1, <1>3, PreparingFacts
<1> DEFINE c == <<o, h>>
<1>6. Writes(c, "prepared") /\ (Fault \/ NoFault)
  BY <1>3, <1>5, AppendWrites DEF Intent
<1>7. "prepared" \in TxStates /\ "prepared" # "none" /\ "prepared" # "committed"
  BY DEF TxStates
<1>8. /\ FoldInv' /\ \A t \in Tx : t # c => wal'[t] = wal[t]
      /\ wal'[c] \in {wal[c], "prepared"}
  BY <1>3, <1>4, <1>5, <1>6, <1>7, FoldKept
<1>9. \A p \in Path : wal'[<<o, p>>] # "committed" /\ DirPlanned(<<o, p>>)'
  BY <1>1, <1>3, <1>8 DEF DirPlanned
<1>10. /\ OnlyMoves(o) /\ SameTask(o)
       /\ \/ op'[o].pc \in {"review", "create"} /\ op'[o].staged = op[o].staged /\ op'[o].rest = op[o].rest
          \/ op'[o].pc = "unwind" /\ op'[o].then = "prepare"
  <2>1. ASSUME NEW pc \in {"review", "create"}, Goes(o, pc)
        PROVE  /\ OnlyMoves(o) /\ SameTask(o) /\ op'[o].pc = pc
               /\ op'[o].staged = op[o].staged /\ op'[o].rest = op[o].rest
    <3>1. pc \in Pcs
      BY DEF Pcs, Holding, Preparing
    <3> QED BY <1>3, <2>1, <3>1, GoesFacts
  <2>2. ASSUME NEW r \in {"RecoveryRequired", "ToolError"}, FailsPrepare(o, r)
        PROVE  OnlyMoves(o) /\ SameTask(o) /\ op'[o].pc = "unwind" /\ op'[o].then = "prepare"
    <3>1. r \in Results /\ Reverse(op[o].staged) \in Seq(Path)
      BY <1>1, <1>3, PreparingFacts, ReverseFacts DEF Results
    <3> QED BY <1>3, <2>2, <3>1, UnwindsFacts DEF FailsPrepare
  <2> QED BY <2>1, <2>2 DEF Intent
<1>11. CompleteInv(o)'
  <2>1. CASE op'[o].pc \in {"review", "create"} /\ op'[o].staged = op[o].staged /\ op'[o].rest = op[o].rest
    <3>1. \A p \in Range(op[o].staged) : Complete(<<o, p>>)
      BY <1>1, <1>3 DEF CompleteInv
    <3>2. \A t : Complete(t) => Complete(t)'
      BY <1>1 DEF Complete, fsVars, history
    <3>3. Cur(o)' = <<o, h>> /\ Complete(<<o, h>>)
      BY <1>5, <2>1 DEF Cur, Fresh, Unstaged, Complete
    <3>4. Complete(<<o, h>>)'
      BY <3>2, <3>3
    <3>5. Complete(Cur(o))'
      BY <3>3, <3>4 DEF Complete
    <3> QED BY <2>1, <3>1, <3>2, <3>5 DEF CompleteInv
  <2>2. CASE op'[o].pc = "unwind"
    BY <2>2 DEF CompleteInv, Preparing
  <2> QED BY <1>10, <2>1, <2>2
<1>12. ~Committing(o)' /\ op'[o].pc \notin {"done"} \cup Recovering
  BY <1>10 DEF Committing, CommitPcs, Recovering
<1>13. Frame(o) /\ disk' = disk
  <2>1. \A q \in Op, p \in Path : q # o => wal'[<<q, p>>] = wal[<<q, p>>] /\ mem'[<<q, p>>] = mem[<<q, p>>]
    BY <1>3, <1>6, WritesFrame
  <2> QED BY <1>1, <1>10, <2>1, QuietFrame DEF OnlyMoves, fsVars, history
<1>14. DirFits(o)'
  <2>1. op[o].pc \in Working
    BY <1>1 DEF Working
  <2> QED BY <1>1, <1>3, <1>10, <2>1, FitsKept
<1> QED BY <1>1, <1>2, <1>3, <1>4, <1>6, <1>8, <1>9, <1>11, <1>12, <1>13, <1>14, ToolAdvances DEF coreVars

LEMMA OwnFacts ==
    ASSUME TypeInv, NEW o \in Op, NEW pc \in {"cleanup", "rollback"},
           op' = [op EXCEPT ![o].pc = pc, ![o].then = "own"]
    PROVE  /\ OnlyMoves(o) /\ SameTask(o) /\ op'[o].pc = pc /\ op'[o].then = "own"
           /\ op'[o].staged = op[o].staged /\ op'[o].rest = op[o].rest /\ op'[o].stop = op[o].stop
<1> DEFINE x == [op[o] EXCEPT !.pc = pc, !.then = "own"]
<1>1. op' = [op EXCEPT ![o].pc = pc, ![o].then = "own"]
  OBVIOUS
<1>2. op' = [op EXCEPT ![o] = x]
  BY ONLY <1>1
<1>3. op[o] \in OpRecords /\ pc \in Pcs
  BY DEF TypeInv, Pcs, Holding, Undoing
<1>4. /\ x.pc = pc /\ x.rest = op[o].rest /\ x.stop = op[o].stop /\ x.then = "own"
      /\ x.n = op[o].n /\ x.kind = op[o].kind /\ x.val = op[o].val /\ x.req = op[o].req
      /\ x.staged = op[o].staged /\ x.bad = op[o].bad /\ x \in OpRecords
  BY <1>3 DEF OpRecords
<1> HIDE DEF x
<1> QED BY <1>2, <1>4, Becomes

\* Calls for the staging file of the target at hand.
LEMMA StagingRec ==
    ASSUME RecoveryInv, WorkspaceInv', NEW o \in Op, op[o].pc \in {"create", "stage"},
           NEW h \in Path, Cur(o) = <<o, h>>, h = Head(op[o].rest), h \notin Range(op[o].staged),
           NEW s, NEW d, temp' \in {temp, [temp EXCEPT ![<<o, h>>] = s]},
           tempDurable' \in {tempDurable, [tempDurable EXCEPT ![<<o, h>>] = d]},
           UNCHANGED <<disk, diskDurable, walVars, plan, coreVars, history>>, Fault \/ NoFault,
           OnlyMoves(o), SameTask(o), op'[o].staged = op[o].staged, op'[o].rest = op[o].rest,
           op'[o].then \in {"none", "own"}, op'[o].pc \in {"stage", "review", "cleanup", "rollback"},
           op'[o].pc = "review" => Complete(<<o, h>>)'
    PROVE  RecoveryInv'
<1>1. ~Committing(o) /\ op[o].pc \notin {"idle"} \cup Resting /\ op[o].pc \in Preparing
  <2>1. op[o].pc \notin CommitPcs \cup Undoing \cup {"settle"}
    BY DEF CommitPcs, Undoing
  <2> QED BY <2>1 DEF Committing, Resting, Recovering, Undoing, Preparing
<1>2. /\ TypeInv /\ FoldInv /\ CompleteInv(o) /\ o \notin started /\ DirFits(o)
      /\ \A p \in Path : wal[<<o, p>>] # "committed" /\ DirPlanned(<<o, p>>)
  BY <1>1, ToolFacts
<1>3. phase = "up" /\ UNCHANGED <<started, fenced, phase, foreign>>
  BY <1>1, UpFacts DEF coreVars, history
<1>4. FoldInv'
  BY <1>2, <1>3, FoldSame
<1>5. /\ Frame(o)
      /\ \A p \in Path : p # h => temp'[<<o, p>>] = temp[<<o, p>>]
                                  /\ tempDurable'[<<o, p>>] = tempDurable[<<o, p>>]
  BY <1>2, <1>3, FilesFrame DEF OnlyMoves
<1>6. CompleteInv(o)'
  <2>1. Range(op[o].staged) \subseteq Path
    BY <1>2, RangeFacts
  <2>2. ASSUME NEW p \in Range(op[o].staged) PROVE Complete(<<o, p>>)'
    <3>1. Complete(<<o, p>>) /\ p \in Path /\ p # h
      BY <1>1, <1>2, <2>1 DEF CompleteInv
    <3> QED BY <1>3, <1>5, <3>1 DEF Complete
  <2>3. op'[o].pc = "review" => Complete(Cur(o))'
    <3>1. Cur(o)' = <<o, h>>
      BY DEF Cur
    <3> QED BY <3>1 DEF Complete
  <2> QED BY <2>2, <2>3 DEF CompleteInv
<1>7. ~Committing(o)' /\ op'[o].pc \notin {"done"} \cup Recovering
  <2>1. op'[o].pc \notin CommitPcs
    BY DEF CommitPcs
  <2> QED BY <2>1 DEF Committing, Recovering
<1>8. \A p \in Path : wal'[<<o, p>>] # "committed" /\ DirPlanned(<<o, p>>)'
  BY <1>2 DEF walVars, DirPlanned
<1>9. DirFits(o)' /\ op[o].pc \notin Resting
  <2>1. op[o].pc \in Working
    BY <1>1 DEF Working
  <2> QED BY <1>1, <1>2, <2>1, FitsKept
<1> QED BY <1>2, <1>3, <1>4, <1>5, <1>6, <1>7, <1>8, <1>9, ToolAdvances

LEMMA CreateRec ==
    ASSUME RecoveryInv, NEW o \in Op, Create(o)
    PROVE  RecoveryInv'
<1>1. /\ op[o].pc = "create" /\ op[o].pc \in Preparing /\ WorkspaceInv' /\ WorkspaceInv
      /\ UNCHANGED <<disk, diskDurable, tempDurable, walVars, plan, coreVars, history>> /\ (Fault \/ NoFault)
  BY CreateInv DEF Create, At, RecoveryInv, Preparing
<1>2. TypeInv /\ op[o].then = "none"
  BY <1>1, PreparingFacts
<1>3. PICK h \in Path : h = Head(op[o].rest) /\ Cur(o) = <<o, h>> /\ h \notin Range(op[o].staged)
  BY <1>1, PreparingFacts
<1>4. temp' \in {temp, [temp EXCEPT ![<<o, h>>] = "partial"]}
  BY <1>3 DEF Create
<1>5. /\ OnlyMoves(o) /\ SameTask(o) /\ op'[o].staged = op[o].staged /\ op'[o].rest = op[o].rest
      /\ op'[o].then \in {"none", "own"} /\ op'[o].pc \in {"stage", "rollback"}
  <2>1. CASE Goes(o, "stage")
    <3>1. "stage" \in Pcs
      BY DEF Pcs, Holding, Preparing
    <3> QED BY <1>2, <2>1, <3>1, GoesFacts
  <2>2. CASE op' = [op EXCEPT ![o].pc = "rollback", ![o].then = "own"]
    BY <1>2, <2>2, OwnFacts
  <2> QED BY <2>1, <2>2 DEF Create
<1> QED BY <1>1, <1>3, <1>4, <1>5, StagingRec

LEMMA StageRec ==
    ASSUME RecoveryInv, NEW o \in Op, Stage(o)
    PROVE  RecoveryInv'
<1>1. /\ op[o].pc = "stage" /\ op[o].pc \in Preparing /\ WorkspaceInv' /\ WorkspaceInv
      /\ UNCHANGED <<disk, diskDurable, walVars, plan, coreVars, history>> /\ (Fault \/ NoFault)
  BY StageInv DEF Stage, At, RecoveryInv, Preparing
<1>2. TypeInv /\ op[o].then = "none"
  BY <1>1, PreparingFacts
<1>3. PICK h \in Path : /\ h = Head(op[o].rest) /\ Cur(o) = <<o, h>> /\ h \notin Range(op[o].staged)
                        /\ <<o, h>> \in Tx
  BY <1>1, PreparingFacts
<1>4. /\ temp' \in {temp, [temp EXCEPT ![<<o, h>>] = "full"]}
      /\ tempDurable' \in {tempDurable, [tempDurable EXCEPT ![<<o, h>>] = "full"]}
  BY <1>3 DEF Stage
<1>5. /\ OnlyMoves(o) /\ SameTask(o) /\ op'[o].staged = op[o].staged /\ op'[o].rest = op[o].rest
      /\ op'[o].then \in {"none", "own"} /\ op'[o].pc \in {"review", "cleanup"}
      /\ op'[o].pc = "review" => Complete(<<o, h>>)'
  <2>1. CASE /\ Goes(o, "review")
             /\ temp' = [temp EXCEPT ![Cur(o)] = "full"] /\ tempDurable' = [tempDurable EXCEPT ![Cur(o)] = "full"]
    <3>1. "review" \in Pcs
      BY DEF Pcs, Holding, Preparing
    <3>2. temp'[<<o, h>>] = "full" /\ tempDurable'[<<o, h>>] = "full"
      BY <1>2, <1>3, <2>1 DEF TypeInv
    <3>3. Complete(<<o, h>>)'
      BY <3>2 DEF Complete
    <3> QED BY <1>2, <2>1, <3>1, <3>3, GoesFacts
  <2>2. CASE op' = [op EXCEPT ![o].pc = "cleanup", ![o].then = "own"]
    BY <1>2, <2>2, OwnFacts
  <2> QED BY <2>1, <2>2 DEF Stage
<1> QED BY <1>1, <1>3, <1>4, <1>5, StagingRec

LEMMA ReviewRec ==
    ASSUME RecoveryInv, NEW o \in Op, Review(o)
    PROVE  RecoveryInv'
<1>1. /\ op[o].pc = "review" /\ op[o].pc \in Preparing /\ WorkspaceInv' /\ WorkspaceInv
      /\ Quiet /\ (Fault \/ NoFault) /\ UNCHANGED <<started, fenced, phase>>
  BY ReviewInv DEF Review, At, RecoveryInv, Preparing, Quiet, coreVars
<1>2. ~Committing(o) /\ op[o].pc \notin {"idle"} \cup Resting
  BY <1>1 DEF Committing, CommitPcs, Resting, Recovering
<1>3. TypeInv /\ CompleteInv(o) /\ DirFits(o) /\ phase = "up"
  BY <1>2, ToolFacts, UpFacts
<1>4. PICK h \in Path : h = Head(op[o].rest) /\ Cur(o) = <<o, h>> /\ h \notin Range(op[o].staged)
  BY <1>1, PreparingFacts
<1>5. \A t : Complete(t)' <=> Complete(t)
  BY <1>1 DEF Complete, Quiet, fsVars, history
<1>8. op[o].pc \in Working /\ plan' = plan
  BY <1>1 DEF Working, Quiet
<1>6. ASSUME NEW pc \in {"cleanup", "rollback"}, op' = [op EXCEPT ![o].pc = pc, ![o].then = "own"]
      PROVE  RecoveryInv'
  <2>1. OnlyMoves(o) /\ SameTask(o) /\ op'[o].pc \in {"cleanup", "rollback"} /\ op'[o].then = "own"
    BY <1>3, <1>6, OwnFacts
  <2>2. ~Committing(o)' /\ op'[o].pc \notin {"done"} \cup Recovering /\ CompleteInv(o)'
    BY <2>1 DEF Committing, CommitPcs, Recovering, CompleteInv, Preparing
  <2>3. DirFits(o)'
    BY <1>3, <1>8, <2>1, FitsKept
  <2> QED BY <1>1, <1>2, <1>3, <2>1, <2>2, <2>3, ToolQuiet
<1>7. CASE op' = [op EXCEPT ![o].pc = IF Tail(op[o].rest) = <<>> THEN "prepared" ELSE "intent",
                            ![o].rest = Tail(op[o].rest), ![o].staged = Append(op[o].staged, Head(op[o].rest))]
  <2> DEFINE pc == IF Tail(op[o].rest) = <<>> THEN "prepared" ELSE "intent"
             rest == Tail(op[o].rest)
             staged == Append(op[o].staged, Head(op[o].rest))
             x == [op[o] EXCEPT !.pc = pc, !.rest = rest, !.staged = staged]
  <2>1. /\ rest \in Seq(Path) /\ staged \in Seq(Path) /\ pc \in {"prepared", "intent"} /\ pc \in Pcs
        /\ Range(staged) = Range(op[o].staged) \cup {h}
    <3>1. op[o].rest \in Seq(Path) /\ op[o].rest # <<>> /\ op[o].staged \in Seq(Path) /\ IsInjective(op[o].staged)
      BY <1>1, PreparingFacts
    <3> QED BY <1>4, <3>1, AppendFacts DEF Pcs, Holding, Preparing
  <2>2. op' = [op EXCEPT ![o].pc = pc, ![o].rest = rest, ![o].staged = staged] /\ op[o].then = "none"
    BY <1>1, <1>7, PreparingFacts
  <2> HIDE DEF pc, rest, staged
  <2>3. op' = [op EXCEPT ![o] = x]
    BY ONLY <2>2
  <2>4. op[o] \in OpRecords
    BY <1>3 DEF TypeInv
  <2>5. /\ x.pc = pc /\ x.rest = rest /\ x.staged = staged /\ x.then = op[o].then
        /\ x.kind = op[o].kind /\ x.val = op[o].val /\ x.req = op[o].req /\ x \in OpRecords
    BY <2>1, <2>4 DEF OpRecords
  <2> HIDE DEF x
  <2>6. OnlyMoves(o) /\ SameTask(o) /\ op'[o] = x
    BY <1>3, <2>3, <2>5, Becomes
  <2>7. op'[o].pc \in {"prepared", "intent"} /\ op'[o].then = "none" /\ op'[o].staged = staged
    BY <2>1, <2>2, <2>5, <2>6
  <2>8. ~Committing(o)' /\ op'[o].pc \notin {"done"} \cup Recovering
    BY <2>7 DEF Committing, CommitPcs, Recovering
  <2>9. CompleteInv(o)'
    <3>1. \A p \in Range(staged) : Complete(<<o, p>>)
      BY <1>1, <1>3, <1>4, <2>1 DEF CompleteInv
    <3> QED BY <1>5, <2>7, <3>1 DEF CompleteInv
  <2>10. DirFits(o)'
    BY <1>3, <1>8, <2>6, FitsKept
  <2> QED BY <1>1, <1>2, <1>3, <2>6, <2>8, <2>9, <2>10, ToolQuiet
<1> QED BY <1>6, <1>7 DEF Review

LEMMA RejectRec ==
    ASSUME RecoveryInv, NEW o \in Op, Reject(o)
    PROVE  RecoveryInv'
<1>1. /\ op[o].pc = "prepared" /\ WorkspaceInv' /\ Quiet /\ NoFault /\ UNCHANGED <<started, fenced, phase>>
      /\ Unwinds(o, Reverse(op[o].staged), "none", "reject")
  BY RejectInv DEF Reject, At, RecoveryInv, Quiet, NoFault, coreVars
<1>2. ~Committing(o) /\ op[o].pc \notin {"idle"} \cup Resting
  BY <1>1 DEF Committing, CommitPcs, Resting, Recovering
<1>3. TypeInv /\ OpInv(o) /\ DirFits(o) /\ phase = "up"
  BY <1>2, ToolFacts, UpFacts
<1>4. Reverse(op[o].staged) \in Seq(Path) /\ "none" \in Results
  BY <1>1, <1>3, RangeFacts, ReverseFacts DEF OpInv, PrepareInv, Results
<1>5. OnlyMoves(o) /\ SameTask(o) /\ op'[o].pc = "unwind" /\ op'[o].then = "reject"
  BY <1>1, <1>3, <1>4, UnwindsFacts
<1>6. ~Committing(o)' /\ op'[o].pc \notin {"done"} \cup Recovering /\ CompleteInv(o)'
  BY <1>5 DEF Committing, CommitPcs, Recovering, CompleteInv, Preparing
<1>7. DirFits(o)'
  <2>1. op[o].pc \in Working /\ plan' = plan
    BY <1>1 DEF Working, Quiet
  <2> QED BY <1>3, <1>5, <2>1, FitsKept
<1> QED BY <1>1, <1>2, <1>3, <1>5, <1>6, <1>7, ToolQuiet

LEMMA DropEffectRec ==
    ASSUME RecoveryInv, NEW o \in Op, DropEffect(o)
    PROVE  RecoveryInv'
<1>1. /\ op[o].pc = "prepared" /\ WorkspaceInv' /\ Goes(o, "lost") /\ (Fault \/ NoFault)
      /\ UNCHANGED <<disk, diskDurable, walVars, plan, coreVars, history>>
  BY DropEffectInv DEF DropEffect, At, RecoveryInv
<1>2. ~Committing(o) /\ op[o].pc \notin {"idle"} \cup Resting
  BY <1>1 DEF Committing, CommitPcs, Resting, Recovering
<1>3. /\ TypeInv /\ FoldInv /\ DirFits(o) /\ phase = "up" /\ o \notin started
      /\ \A p \in Path : wal[<<o, p>>] # "committed" /\ DirPlanned(<<o, p>>)
  BY <1>2, ToolFacts, UpFacts
<1>4. OnlyMoves(o) /\ SameTask(o) /\ op'[o].pc = "lost" /\ op'[o].then = op[o].then
  <2>1. "lost" \in Pcs
    BY DEF Pcs
  <2> QED BY <1>1, <1>3, <2>1, GoesFacts
<1>5. ~Committing(o)' /\ op'[o].pc \notin {"done"} \cup Recovering /\ CompleteInv(o)'
  BY <1>4 DEF Committing, CommitPcs, Recovering, CompleteInv, Preparing
<1>6. ASSUME NEW q \in Op, NEW p \in Path, q # o
      PROVE  temp'[<<q, p>>] = temp[<<q, p>>] /\ tempDurable'[<<q, p>>] = tempDurable[<<q, p>>]
  <2> DEFINE t == <<q, p>>
  <2>1. t \in Tx /\ OpOf(t) # o
    BY <1>6, TxFacts
  <2> HIDE DEF t
  <2>2. temp'[t] = temp[t] /\ tempDurable'[t] = tempDurable[t]
    BY <2>1 DEF DropEffect
  <2> QED BY <2>2 DEF t
<1>7. Frame(o) /\ disk' = disk
  BY <1>1, <1>4, <1>6 DEF Frame, OnlyMoves, walVars, history
<1>8. FoldInv' /\ UNCHANGED <<started, fenced, phase>>
  BY <1>1, <1>3, FoldSame DEF coreVars
<1>9. (\A p \in Path : wal'[<<o, p>>] # "committed" /\ DirPlanned(<<o, p>>)') /\ DirFits(o)'
  <2>1. op[o].pc \in Working
    BY <1>1 DEF Working
  <2> QED BY <1>1, <1>3, <1>4, <2>1, FitsKept DEF walVars, DirPlanned
<1> QED BY <1>1, <1>2, <1>3, <1>4, <1>5, <1>7, <1>8, <1>9, ToolAdvances

-----------------------------------------------------------------------------
(* The children of a commit *)

LEMMA NextChild ==
    ASSUME RecoveryInv, NEW o \in Op, Committing(o), op[o].rest # <<>>
    PROVE  /\ op[o].rest \in Seq(Path) /\ IsInjective(op[o].rest)
           /\ \E h \in Path :
                 /\ h = Head(op[o].rest) /\ Cur(o) = <<o, h>> /\ h \in Range(op[o].staged)
                 /\ <<o, h>> \in Tx /\ PathOf(<<o, h>>) = h /\ OpOf(<<o, h>>) = o
                 /\ Placed(<<o, h>>) /\ Born(<<o, h>>)
                 /\ wal[<<o, h>>] # "none" /\ (op[o].pc # "ack" => wal[<<o, h>>] = "prepared")
<1>1. /\ TypeInv /\ OpInv(o) /\ ChildrenInv(o)
      /\ \A p \in Path : wal[<<o, p>>] # "none" => Placed(<<o, p>>)
      /\ \A p \in Path : <<o, p>> \in Tx /\ PathOf(<<o, p>>) = p /\ OpOf(<<o, p>>) = o /\ Born(<<o, p>>)
  BY CommitFacts
<1>2. PICK h \in Path : h = Head(op[o].rest) /\ Cur(o) = <<o, h>> /\ h \in Range(op[o].rest)
  BY <1>1, CurFacts
<1>3. op[o].rest \in Seq(Path) /\ IsInjective(op[o].rest) /\ h \in Range(op[o].staged)
  BY <1>1, <1>2, RangeFacts DEF ChildrenInv
<1>4. op[o].pc # "ack" => wal[<<o, h>>] = "prepared"
  BY <1>1, <1>2 DEF ChildrenInv
<1>5. op[o].pc = "ack" => wal[<<o, h>>] = "committed"
  BY <1>1, <1>2 DEF OpInv, CommitInv, AtChild, ChildInv, CommitPcs
<1>6. wal[<<o, h>>] # "none"
  BY <1>4, <1>5
<1> QED BY <1>1, <1>2, <1>3, <1>4, <1>6

\* On to the next child.
LEMMA MovesOn ==
    ASSUME RecoveryInv, NEW o \in Op, Committing(o), op[o].rest # <<>>,
           op'[o].rest = Tail(op[o].rest), op'[o].staged = op[o].staged, op'[o].pc # "settle",
           \A p \in Path : p # Head(op[o].rest) => wal'[<<o, p>>] = wal[<<o, p>>],
           op'[o].pc \notin {"clean", "mark"}
    PROVE  ChildrenInv(o)'
<1>1. TypeInv /\ ChildrenInv(o)
  BY CommitFacts
<1>2. PICK h \in Path : h = Head(op[o].rest) /\ h \in Range(op[o].staged)
  BY NextChild
<1>3. op[o].rest \in Seq(Path) /\ IsInjective(op[o].rest)
  BY NextChild
<1>4. IsInjective(Tail(op[o].rest)) /\ Range(Tail(op[o].rest)) = Range(op[o].rest) \ {h}
  BY <1>2, <1>3, HeadTail
<1>5. Range(op[o].rest) \subseteq Path
  BY <1>1, RangeFacts
<1>6. /\ Range(op[o].rest) \subseteq Range(op[o].staged)
      /\ \A p \in Path \ Range(op[o].staged) : wal[<<o, p>>] = "none"
      /\ \A p \in Range(op[o].rest) : p # h => wal[<<o, p>>] = "prepared"
  BY <1>1, <1>2 DEF ChildrenInv
<1>7. \A p \in Path \ Range(op[o].staged) : wal'[<<o, p>>] = "none"
  BY <1>2, <1>6
<1>8. \A p \in Range(Tail(op[o].rest)) : wal'[<<o, p>>] = "prepared"
  BY <1>2, <1>4, <1>5, <1>6
<1>9. Range(Tail(op[o].rest)) \subseteq Range(op[o].staged)
  BY <1>4, <1>6
<1> QED BY <1>4, <1>7, <1>8, <1>9 DEF ChildrenInv

\* The same child.
LEMMA StaysAt ==
    ASSUME RecoveryInv, NEW o \in Op, Committing(o), op[o].rest # <<>>, op[o].pc # "ack",
           op'[o].rest = op[o].rest, op'[o].staged = op[o].staged, op'[o].pc # "settle",
           \A p \in Path : p # Head(op[o].rest) => wal'[<<o, p>>] = wal[<<o, p>>],
           op'[o].pc = "ack" \/ wal'[<<o, Head(op[o].rest)>>] = "prepared",
           op'[o].pc \notin {"clean", "mark"}
    PROVE  ChildrenInv(o)'
<1>1. TypeInv /\ ChildrenInv(o)
  BY CommitFacts
<1>2. PICK h \in Path : h = Head(op[o].rest) /\ h \in Range(op[o].staged)
  BY NextChild
<1>3. IsInjective(op[o].rest)
  BY NextChild
<1>4. Range(op[o].rest) \subseteq Path
  BY <1>1, RangeFacts
<1>5. /\ Range(op[o].rest) \subseteq Range(op[o].staged)
      /\ \A p \in Path \ Range(op[o].staged) : wal[<<o, p>>] = "none"
      /\ \A p \in Range(op[o].rest) : wal[<<o, p>>] = "prepared"
  BY <1>1, <1>2 DEF ChildrenInv
<1>6. \A p \in Path \ Range(op[o].staged) : wal'[<<o, p>>] = "none"
  BY <1>2, <1>5
<1>7. \A p \in Range(op[o].rest) : wal'[<<o, p>>] = "prepared" \/ (op'[o].pc = "ack" /\ p = Head(op[o].rest))
  BY <1>2, <1>4, <1>5
<1> QED BY <1>3, <1>5, <1>6, <1>7 DEF ChildrenInv

LEMMA ReceiptCommits ==
    ASSUME RecoveryInv, NEW o \in Op, Committing(o), op[o].rest # <<>>,
           NEW r \in Receipts, ChildReceipt(o, r),
           \A p \in Path : p # Head(op[o].rest) => wal'[<<o, p>>] = wal[<<o, p>>]
    PROVE  Committing(o)' /\ ChildrenInv(o)' /\ SpentInv(o)' /\ OnlyMoves(o) /\ SameTask(o)
<1>1. TypeInv
  BY CommitFacts
<1>2. /\ OnlyMoves(o) /\ SameTask(o) /\ op'[o].staged = op[o].staged /\ op'[o].rest = Tail(op[o].rest)
      /\ op'[o].pc = "check" \/ (op'[o].pc = "unwind" /\ op'[o].then = "settle")
  BY <1>1, ReceiptFacts
<1>3. Committing(o)' /\ SpentInv(o)'
  BY <1>2 DEF Committing, CommitPcs, SpentInv
<1> QED BY <1>2, <1>3, MovesOn

LEMMA NotAppliedCommits ==
    ASSUME RecoveryInv, NEW o \in Op, Committing(o), op[o].rest # <<>>, op[o].pc # "ack",
           SettlesNotApplied(o), UNCHANGED wal
    PROVE  Committing(o)' /\ ChildrenInv(o)' /\ SpentInv(o)' /\ OnlyMoves(o) /\ SameTask(o)
<1>1. TypeInv
  BY CommitFacts
<1>2. /\ OnlyMoves(o) /\ SameTask(o) /\ op'[o].staged = op[o].staged /\ op'[o].rest = op[o].rest
      /\ op'[o].pc \in {"rollback", "cleanup"} /\ op'[o].then = "settle"
  BY <1>1, NotAppliedFacts
<1>3. Committing(o)' /\ SpentInv(o)'
  BY <1>2 DEF Committing, SpentInv
<1>4. wal[<<o, Head(op[o].rest)>>] = "prepared"
  BY NextChild
<1> QED BY <1>2, <1>3, <1>4, StaysAt

LEMMA GoesCommits ==
    ASSUME RecoveryInv, NEW o \in Op, Committing(o), op[o].rest # <<>>, op[o].pc # "ack",
           NEW pc \in CommitPcs, Goes(o, pc),
           \A p \in Path : p # Head(op[o].rest) => wal'[<<o, p>>] = wal[<<o, p>>],
           pc = "ack" \/ wal' = wal, UNCHANGED <<plan, foreign>>,
           (pc = "uncreate" /\ StillOurs(o)') \/ pc = "removed" => Spent'
    PROVE  Committing(o)' /\ ChildrenInv(o)' /\ SpentInv(o)' /\ OnlyMoves(o) /\ SameTask(o)
<1>1. TypeInv /\ pc \in Pcs /\ pc \notin {"settle", "clean", "mark"}
  BY CommitFacts DEF Pcs, Holding, CommitPcs
<1>2. OnlyMoves(o) /\ SameTask(o) /\ op'[o].staged = op[o].staged /\ op'[o].rest = op[o].rest /\ op'[o].pc = pc
  BY <1>1, GoesFacts
<1>3. Committing(o)' /\ SpentInv(o)'
  BY <1>2 DEF Committing, SpentInv
<1>4. wal[<<o, Head(op[o].rest)>>] = "prepared"
  BY NextChild
<1> QED BY <1>1, <1>2, <1>3, <1>4, StaysAt

-----------------------------------------------------------------------------
(* Undoing, before and in a commit *)

LEMMA UndoneCommits ==
    ASSUME RecoveryInv, NEW o \in Op, Committing(o), op[o].pc \in {"cleanup", "rollback"}, op[o].rest # <<>>,
           NEW ok \in BOOLEAN, Undone(o, ok),
           \A p \in Path : p # Head(op[o].rest) => wal'[<<o, p>>] = wal[<<o, p>>]
    PROVE  Committing(o)' /\ ChildrenInv(o)' /\ SpentInv(o)' /\ OnlyMoves(o) /\ SameTask(o)
<1>1. TypeInv /\ op[o].then = "settle"
  BY CommitFacts DEF Committing, CommitPcs
<1>2. CASE op[o].stop = "none"
  <2>1. PICK r \in Receipts : ChildReceipt(o, r)
    BY <1>1, <1>2, UndoneFacts DEF Receipts
  <2> QED BY <2>1, ReceiptCommits
<1>3. CASE op[o].stop # "none"
  <2>1. /\ OnlyMoves(o) /\ SameTask(o) /\ op'[o].pc = "unwind" /\ op'[o].then = "settle"
        /\ op'[o].staged = op[o].staged /\ op'[o].rest = Tail(op[o].rest)
    BY <1>1, <1>3, UndoneFacts
  <2>2. Committing(o)' /\ SpentInv(o)'
    BY <2>1 DEF Committing, SpentInv
  <2> QED BY <2>1, <2>2, MovesOn
<1> QED BY <1>2, <1>3

LEMMA UndoneTool ==
    ASSUME RecoveryInv, NEW o \in Op, ~Committing(o), op[o].pc \in {"cleanup", "rollback"}, op[o].rest # <<>>,
           NEW ok \in BOOLEAN, Undone(o, ok)
    PROVE  /\ OnlyMoves(o) /\ SameTask(o) /\ ~Committing(o)' /\ CompleteInv(o)'
           /\ op'[o].pc \notin {"done"} \cup Recovering
<1>1. TypeInv /\ OpInv(o) /\ op[o].then # "settle"
  BY DEF RecoveryInv, WorkspaceInv, Committing
<1>2. OnlyMoves(o) /\ SameTask(o) /\ op'[o].pc = "unwind" /\ op'[o].then # "settle"
  <2>1. CASE op[o].then = "own"
    <3>1. op[o].pc \in Undoing /\ ~AtChild(o)
      BY <1>1 DEF Undoing, AtChild, CommitPcs
    <3>2. Reverse(op[o].staged) \in Seq(Path)
      BY <1>1, <2>1, <3>1, RangeFacts, ReverseFacts DEF OpInv, UndoInv
    <3>3. PICK r \in Results : FailsPrepare(o, r)
      BY <1>1, <2>1, UndoneFacts DEF Results
    <3> QED BY <1>1, <3>2, <3>3, UnwindsFacts DEF FailsPrepare
  <2>2. CASE op[o].then # "own"
    BY <1>1, <2>2, UndoneFacts
  <2> QED BY <2>1, <2>2
<1> QED BY <1>2 DEF Committing, CommitPcs, CompleteInv, Preparing, Recovering

LEMMA CleanupRec ==
    ASSUME RecoveryInv, NEW o \in Op, Cleanup(o)
    PROVE  RecoveryInv'
<1>1. /\ op[o].pc = "cleanup" /\ disk' = disk /\ (Fault \/ NoFault) /\ WorkspaceInv /\ WorkspaceInv'
      /\ UNCHANGED <<walVars, plan, coreVars, history>>
  BY CleanupInv DEF Cleanup, At, RecoveryInv
<1>2. TypeInv /\ op[o].rest # <<>> /\ FoldInv
  BY <1>1, UndoingFacts DEF RecoveryInv
<1>3. PICK h \in Path : h = Head(op[o].rest) /\ Cur(o) = <<o, h>> /\ PathOf(<<o, h>>) = h /\ <<o, h>> \in Tx
  BY <1>1, UndoingFacts
<1>4. /\ temp' \in {temp, [temp EXCEPT ![<<o, h>>] = "none"]}
      /\ DirSynced(h) \/ (diskDurable' = diskDurable /\ tempDurable' = tempDurable)
      /\ Goes(o, "rollback") \/ Undone(o, FALSE)
  BY <1>3 DEF Cleanup
<1>5. UNCHANGED <<started, fenced, phase, plan, wal, foreign>> /\ FoldInv'
  BY <1>1, <1>2, FoldSame DEF coreVars, walVars, history
<1>6. ~Committing(o) => op[o].pc \notin {"idle"} \cup Resting
  BY <1>1 DEF Resting, Recovering
<1>7. "rollback" \in Pcs
  BY DEF Pcs, Holding, Undoing
<1>8. OnlyMoves(o) /\ SameTask(o)
  <2>1. CASE Goes(o, "rollback")
    BY <1>2, <1>7, <2>1, GoesFacts
  <2>2. CASE Undone(o, FALSE)
    BY <1>1, <1>2, <1>5, <2>2, UndoneCommits, UndoneTool
  <2> QED BY <1>4, <2>1, <2>2
<1>9. /\ Frame(o)
      /\ \A p \in Path : p # h => TempsSettle(<<o, p>>)
      /\ TempsSettle(<<o, h>>)
  <2>1. /\ Frame(o)
        /\ \A p \in Path : p # h => temp'[<<o, p>>] = temp[<<o, p>>]
                                    /\ tempDurable'[<<o, p>>] = tempDurable[<<o, p>>]
        /\ temp'[<<o, h>>] \in {temp[<<o, h>>], "none"}
        /\ tempDurable'[<<o, h>>] \in {tempDurable[<<o, h>>], temp'[<<o, h>>], "none"}
    BY <1>1, <1>2, <1>4, <1>5, <1>8, FilesFrame DEF OnlyMoves
  <2> QED BY <2>1 DEF TempsSettle
<1>10. CASE Committing(o)
  <2>1. Committing(o)' /\ ChildrenInv(o)' /\ SpentInv(o)'
    <3>1. CASE Goes(o, "rollback")
      <4>1. /\ op'[o].staged = op[o].staged /\ op'[o].rest = op[o].rest /\ op'[o].pc = "rollback"
            /\ op'[o].then = op[o].then
        BY <1>2, <1>7, <3>1, GoesFacts
      <4>2. Committing(o)' /\ SpentInv(o)'
        BY <1>1, <1>10, <4>1 DEF Committing, CommitPcs, SpentInv
      <4>3. wal[<<o, Head(op[o].rest)>>] = "prepared"
        BY <1>1, <1>2, <1>10, NextChild
      <4> QED BY <1>1, <1>2, <1>5, <1>10, <4>1, <4>2, <4>3, StaysAt
    <3>2. CASE Undone(o, FALSE)
      BY <1>1, <1>2, <1>5, <1>10, <3>2, UndoneCommits
    <3> QED BY <1>4, <3>1, <3>2
  <2>2. Placed(<<o, h>>) /\ wal[<<o, h>>] = "prepared"
    BY <1>1, <1>2, <1>3, <1>10, NextChild
  <2>3. Placed(<<o, h>>)'
    <3>1. Settles(h)
      BY <1>1, <1>9, FrameSettles
    <3> QED BY <1>1, <1>2, <1>3, <1>5, <1>9, <2>2, <3>1, PlacedKept, SpentKept
  <2> QED BY <1>1, <1>5, <1>8, <1>9, <1>10, <2>1, <2>2, <2>3, CommitAdvances
<1>11. CASE ~Committing(o)
  <2>1. /\ o \notin started /\ DirFits(o) /\ phase = "up"
        /\ \A p \in Path : wal[<<o, p>>] # "committed" /\ DirPlanned(<<o, p>>)
    BY <1>6, <1>11, ToolFacts, UpFacts
  <2>2. ~Committing(o)' /\ CompleteInv(o)' /\ op'[o].pc \notin {"done"} \cup Recovering
    <3>1. CASE Goes(o, "rollback")
      <4>1. op'[o].pc = "rollback" /\ op'[o].then = op[o].then
        BY <1>2, <1>7, <3>1, GoesFacts
      <4> QED BY <1>1, <1>11, <4>1 DEF Committing, CommitPcs, CompleteInv, Preparing, Recovering
    <3>2. CASE Undone(o, FALSE)
      BY <1>1, <1>2, <1>11, <3>2, UndoneTool
    <3> QED BY <1>4, <3>1, <3>2
  <2>3. \A p \in Path : wal'[<<o, p>>] # "committed" /\ DirPlanned(<<o, p>>)'
    BY <1>5, <2>1 DEF DirPlanned
  <2>4. DirFits(o)'
    <3>1. op[o].pc \in Working
      BY <1>1 DEF Working, Undoing
    <3> QED BY <1>5, <1>8, <2>1, <3>1, FitsKept
  <2> QED BY <1>1, <1>5, <1>6, <1>8, <1>9, <1>11, <2>1, <2>2, <2>3, <2>4, ToolAdvances
<1> QED BY <1>10, <1>11

LEMMA PlacedRolledBack ==
    ASSUME NEW tx \in Tx, Placed(tx), Absent(tx), wal[tx] = "prepared", wal'[tx] \in {"prepared", "rolledBack"},
           UNCHANGED <<fsVars, plan, foreign>>, Spent => Spent'
    PROVE  Placed(tx)'
<1> DEFINE d == disk[PathOf(tx)]
           u == diskDurable[PathOf(tx)]
<1>1. disk'[PathOf(tx)] = d /\ diskDurable'[PathOf(tx)] = u /\ foreign' = foreign /\ plan' = plan
      /\ temp' = temp /\ tempDurable' = tempDurable
  BY DEF fsVars
<1>2. PathOf(tx) \notin foreign =>
         /\ d.is = plan[tx].before \/ (d.is = "dir" /\ u.is = "dir" /\ Spent)
         /\ u.is = plan[tx].before \/ (u.is = "dir" /\ Spent)
         /\ {temp[tx], tempDurable[tx]} \subseteq {"none", "full"}
  BY DEF Placed, Absent, OddBoth, Odd
<1>3. d.by # tx /\ u.by # tx
  BY DEF Absent
<1> HIDE DEF d, u
<1> QED BY <1>1, <1>2, <1>3 DEF Placed, OddBoth, Odd

LEMMA RollBackRec ==
    ASSUME RecoveryInv, NEW o \in Op, RollBack(o)
    PROVE  RecoveryInv'
<1>1. /\ op[o].pc = "rollback" /\ WorkspaceInv /\ WorkspaceInv'
      /\ UNCHANGED <<fsVars, plan, coreVars, history>>
  BY RollBackInv DEF RollBack, At, RecoveryInv
<1>2. TypeInv /\ op[o].rest # <<>> /\ FoldInv
  BY <1>1, UndoingFacts DEF RecoveryInv
<1>3. PICK h \in Path : /\ h = Head(op[o].rest) /\ Cur(o) = <<o, h>> /\ PathOf(<<o, h>>) = h
                        /\ <<o, h>> \in Tx /\ Absent(<<o, h>>)
  BY <1>1, UndoingFacts
<1> DEFINE c == <<o, h>>
<1>4. Writes(c, "rolledBack") /\ (Fault \/ NoFault)
  <2>1. CASE Appended(c, "rolledBack") \/ NotAppended(c, "rolledBack")
    BY <1>2, <2>1, AppendWrites
  <2>2. CASE /\ ~AppendRefused /\ Fault /\ UNCHANGED walFailed
             /\ wal' = [wal EXCEPT ![c] = "rolledBack"] /\ mem' = [mem EXCEPT ![c] = "rolledBack"]
    BY <2>2 DEF Writes, AppendRefused
  <2> QED BY <1>3, <2>1, <2>2 DEF RollBack
<1>5. PICK ok \in BOOLEAN : Undone(o, ok)
  BY DEF RollBack
<1>6. ~Committing(o) => op[o].pc \notin {"idle"} \cup Resting
  BY <1>1 DEF Resting, Recovering
<1>7. wal[c] # "committed" /\ phase = "up"
  <2>1. CASE Committing(o)
    BY <1>1, <1>2, <1>3, <2>1, NextChild, CommitFacts
  <2>2. CASE ~Committing(o)
    BY <1>6, <2>2, ToolFacts, UpFacts
  <2> QED BY <2>1, <2>2
<1>8. UNCHANGED <<started, fenced, phase, plan, foreign, disk>> /\ "rolledBack" \in TxStates
  BY <1>1 DEF coreVars, history, fsVars, TxStates
<1>9. /\ FoldInv' /\ \A t \in Tx : t # c => wal'[t] = wal[t]
      /\ wal'[c] \in {wal[c], "rolledBack"} /\ (wal[c] # "none" => wal'[c] # "none")
  BY <1>2, <1>3, <1>4, <1>7, <1>8, FoldKept
<1>10. \A p \in Path : p # h => wal'[<<o, p>>] = wal[<<o, p>>]
  BY <1>9, TxFacts
<1>11. OnlyMoves(o) /\ SameTask(o)
  BY <1>1, <1>2, <1>3, <1>5, <1>10, UndoneCommits, UndoneTool
<1>12. Frame(o)
  BY <1>1, <1>2, <1>4, <1>8, <1>11, QuietFrame, WritesFrame DEF OnlyMoves
<1>13. CASE Committing(o)
  <2>1. Committing(o)' /\ ChildrenInv(o)' /\ SpentInv(o)'
    BY <1>1, <1>2, <1>3, <1>5, <1>10, <1>13, UndoneCommits
  <2>2. Placed(c) /\ wal[c] = "prepared"
    BY <1>1, <1>2, <1>3, <1>13, NextChild
  <2>3. Placed(c)'
    <3>1. wal'[c] \in {"prepared", "rolledBack"} /\ UNCHANGED <<fsVars, plan, foreign>> /\ (Spent => Spent')
      BY <1>1, <1>2, <1>4, <1>8, <1>9, <2>2, SpentKept
    <3> HIDE DEF c
    <3> QED BY <1>3, <2>2, <3>1, PlacedRolledBack DEF c
  <2>4. \A p \in Path : TempsSettle(<<o, p>>)
    BY <1>1 DEF TempsSettle, fsVars
  <2> QED BY <1>1, <1>3, <1>4, <1>8, <1>9, <1>10, <1>11, <1>12, <1>13, <2>1, <2>2, <2>3, <2>4, CommitAdvances
<1>14. CASE ~Committing(o)
  <2>1. /\ o \notin started /\ DirFits(o)
        /\ \A p \in Path : wal[<<o, p>>] # "committed" /\ DirPlanned(<<o, p>>)
    BY <1>6, <1>14, ToolFacts
  <2>2. ~Committing(o)' /\ CompleteInv(o)' /\ op'[o].pc \notin {"done"} \cup Recovering
    BY <1>1, <1>2, <1>5, <1>14, UndoneTool
  <2>3. \A p \in Path : wal'[<<o, p>>] # "committed" /\ DirPlanned(<<o, p>>)'
    BY <1>8, <1>9, <1>10, <2>1 DEF DirPlanned
  <2>4. DirFits(o)'
    <3>1. op[o].pc \in Working
      BY <1>1 DEF Working, Undoing
    <3> QED BY <1>8, <1>11, <2>1, <3>1, FitsKept
  <2> QED BY <1>1, <1>4, <1>6, <1>7, <1>8, <1>9, <1>11, <1>12, <1>14, <2>1, <2>2, <2>3, <2>4, ToolAdvances
<1> QED BY <1>13, <1>14

LEMMA UnwindRec ==
    ASSUME RecoveryInv, NEW o \in Op, Unwind(o)
    PROVE  RecoveryInv'
<1>1. /\ op[o].pc = "unwind" /\ op[o].rest # <<>> /\ WorkspaceInv /\ WorkspaceInv' /\ TypeInv
      /\ Quiet /\ NoFault /\ UNCHANGED <<started, fenced, phase>>
  BY UnwindInv DEF Unwind, At, RecoveryInv, WorkspaceInv, Quiet, NoFault, coreVars
<1>2. PICK pc \in {"rollback", "cleanup"} : Goes(o, pc)
  BY DEF Unwind
<1>3. /\ OnlyMoves(o) /\ SameTask(o) /\ op'[o].pc = pc /\ op'[o].then = op[o].then
      /\ op'[o].rest = op[o].rest /\ op'[o].staged = op[o].staged
  <2>1. pc \in Pcs
    BY DEF Pcs, Holding, Undoing
  <2> QED BY <1>1, <1>2, <2>1, GoesFacts
<1>4. Committing(o)' <=> Committing(o)
  BY <1>1, <1>3 DEF Committing, CommitPcs
<1>5. CASE Committing(o)
  <2>1. wal[<<o, Head(op[o].rest)>>] = "prepared" /\ wal' = wal
    BY <1>1, <1>5, NextChild DEF Quiet, walVars
  <2>2. ChildrenInv(o)' /\ SpentInv(o)'
    BY <1>1, <1>3, <1>5, <2>1, StaysAt DEF SpentInv
  <2> QED BY <1>1, <1>3, <1>4, <1>5, <2>2, CommitQuiet
<1>6. CASE ~Committing(o)
  <2>1. op[o].pc \notin {"idle"} \cup Resting
    BY <1>1 DEF Resting, Recovering
  <2>2. op'[o].pc \notin {"done"} \cup Recovering /\ CompleteInv(o)'
    BY <1>3 DEF Recovering, CompleteInv, Preparing
  <2>3. DirFits(o)' /\ phase = "up"
    <3>1. op[o].pc \in Working /\ plan' = plan
      BY <1>1 DEF Working, Undoing, Quiet
    <3> QED BY <1>3, <1>6, <2>1, <3>1, ToolFacts, UpFacts, FitsKept
  <2> QED BY <1>1, <1>3, <1>4, <1>6, <2>1, <2>2, <2>3, ToolQuiet
<1> QED BY <1>5, <1>6

LEMMA ReturnRec ==
    ASSUME RecoveryInv, NEW o \in Op, Return(o)
    PROVE  RecoveryInv'
<1>1. /\ op[o].pc = "unwind" /\ op[o].rest = <<>> /\ WorkspaceInv /\ WorkspaceInv' /\ TypeInv /\ OpInv(o)
      /\ Returns(o, Outcome(o)) /\ Quiet /\ NoFault /\ UNCHANGED <<started, fenced, phase>>
  BY ReturnInv DEF Return, At, RecoveryInv, WorkspaceInv, Quiet, NoFault, coreVars
<1>2. /\ ~AtChild(o)
      /\ op[o].then = "settle" => op[o].stop \in Receipts
      /\ op[o].then = "prepare" => op[o].stop \in {"ToolError", "RecoveryRequired"}
      /\ op[o].then \in {"settle", "prepare", "reject"}
  <2>1. ~AtChild(o) /\ op[o].pc \in Undoing
    BY <1>1 DEF OpInv, CommitInv, Undoing
  <2>2. op[o].then \in {"none", "own", "prepare", "reject", "settle"}
    BY <1>1 DEF TypeInv, OpRecords
  <2> QED BY <1>1, <2>1, <2>2 DEF OpInv, UndoInv
<1>3. Outcome(o) \in Results /\ (op[o].then = "settle" => Outcome(o) \in Receipts)
  BY <1>2 DEF Outcome, Results, Receipts
<1>4. /\ OnlyMoves(o) /\ SameTask(o) /\ op'[o].pc = "settle" /\ op'[o].then = op[o].then
      /\ op'[o].staged = op[o].staged /\ op'[o].rest = <<>> /\ op'[o].stop = Outcome(o)
  BY <1>1, <1>3, ReturnsFacts
<1>5. Committing(o)' <=> Committing(o)
  BY <1>1, <1>4 DEF Committing, CommitPcs
<1>6. CASE Committing(o)
  <2>1. op[o].then = "settle"
    BY <1>1, <1>6 DEF Committing, CommitPcs
  <2>2. \A p \in Path \ Range(op[o].staged) : wal'[<<o, p>>] = "none"
    BY <1>1, <1>6, CommitFacts DEF ChildrenInv, Quiet, walVars
  <2>3. ChildrenInv(o)' /\ SpentInv(o)'
    BY <1>3, <1>4, <2>1, <2>2, EmptyFacts DEF ChildrenInv, SpentInv
  <2> QED BY <1>1, <1>4, <1>5, <1>6, <2>3, CommitQuiet
<1>7. CASE ~Committing(o)
  <2>1. op[o].pc \notin {"idle"} \cup Resting
    BY <1>1 DEF Resting, Recovering
  <2>2. op'[o].pc \notin {"done"} \cup Recovering /\ CompleteInv(o)'
    BY <1>4 DEF Recovering, CompleteInv, Preparing
  <2>3. DirFits(o)' /\ phase = "up"
    <3>1. op[o].pc \in Working /\ plan' = plan
      BY <1>1 DEF Working, Undoing, Quiet
    <3> QED BY <1>4, <1>7, <2>1, <3>1, ToolFacts, UpFacts, FitsKept
  <2> QED BY <1>1, <1>4, <1>5, <1>7, <2>1, <2>2, <2>3, ToolQuiet
<1> QED BY <1>6, <1>7

-----------------------------------------------------------------------------
(* Steps of a commit *)

LEMMA AtCommit ==
    ASSUME RecoveryInv, NEW o \in Op, op[o].pc \in CommitPcs
    PROVE  Committing(o) /\ op[o].rest # <<>> /\ WorkspaceInv /\ TypeInv /\ FoldInv
           /\ ChildInv(o) /\ KindInv(o) /\ SpentInv(o) /\ DirFits(o)
<1>1. Committing(o) /\ AtChild(o) /\ WorkspaceInv /\ SpentInv(o)
  BY DEF Committing, AtChild, RecoveryInv
<1> QED BY <1>1, CommitFacts, ChildFacts DEF OpInv

\* A call failed that was not failing before.
LEMMA FaultSpends ==
    ASSUME TypeInv, FoldInv, Fault
    PROVE  Spent'
BY FaultFacts, BoundAssumption DEF FoldInv, Spent

LEMMA CheckRec ==
    ASSUME RecoveryInv, NEW o \in Op, Check(o)
    PROVE  RecoveryInv'
<1>1. /\ op[o].pc = "check" /\ op[o].pc \in CommitPcs /\ WorkspaceInv' /\ Quiet /\ (Fault \/ NoFault)
      /\ UNCHANGED <<started, fenced, phase, wal, plan, foreign>>
  BY CheckInv DEF Check, At, CommitPcs, RecoveryInv, Quiet, coreVars, walVars, history
<1>2. Committing(o) /\ op[o].rest # <<>>
  BY <1>1, AtCommit
<1>3. Committing(o)' /\ ChildrenInv(o)' /\ SpentInv(o)' /\ OnlyMoves(o) /\ SameTask(o)
  <2>1. CASE Goes(o, "apply")
    <3>1. "apply" \in CommitPcs
      BY DEF CommitPcs
    <3> QED BY <1>1, <1>2, <2>1, <3>1, GoesCommits
  <2>2. CASE SettlesNotApplied(o)
    BY <1>1, <1>2, <2>2, NotAppliedCommits
  <2> QED BY <2>1, <2>2 DEF Check
<1> QED BY <1>1, <1>2, <1>3, CommitQuiet

LEMMA VerifyRec ==
    ASSUME RecoveryInv, NEW o \in Op, Verify(o)
    PROVE  RecoveryInv'
<1>1. /\ op[o].pc = "verify" /\ op[o].pc \in CommitPcs /\ WorkspaceInv' /\ Quiet /\ (Fault \/ NoFault)
      /\ UNCHANGED <<started, fenced, phase, wal, plan, foreign>>
  BY VerifyInv DEF Verify, At, CommitPcs, RecoveryInv, Quiet, coreVars, walVars, history
<1>2. Committing(o) /\ op[o].rest # <<>> /\ TypeInv /\ FoldInv
  BY <1>1, AtCommit
<1>3. Committing(o)' /\ ChildrenInv(o)' /\ SpentInv(o)' /\ OnlyMoves(o) /\ SameTask(o)
  <2>1. CASE Goes(o, "sync")
    <3>1. "sync" \in CommitPcs
      BY DEF CommitPcs
    <3> QED BY <1>1, <1>2, <2>1, <3>1, GoesCommits
  <2>2. CASE ChildReceipt(o, "Unknown")
    <3>1. "Unknown" \in Receipts
      BY DEF Receipts
    <3> QED BY <1>1, <1>2, <2>2, <3>1, ReceiptCommits
  <2>3. CASE Goes(o, "uncreate") /\ (Fault \/ ~StillOurs(o))
    <3>1. "uncreate" \in CommitPcs /\ "uncreate" \in Pcs
      BY DEF CommitPcs, Pcs, Holding
    <3>2. StillOurs(o)' => StillOurs(o)
      <4>1. op'[o].rest = op[o].rest
        BY <1>2, <2>3, <3>1, GoesFacts
      <4>2. Cur(o)' = Cur(o) /\ disk' = disk
        BY <1>1, <4>1 DEF Cur, Quiet, fsVars
      <4> QED BY <1>1, <4>2 DEF StillOurs, PathOf
    <3>3. StillOurs(o)' => Spent'
      BY <1>2, <2>3, <3>2, FaultSpends
    <3> QED BY <1>1, <1>2, <2>3, <3>1, <3>3, GoesCommits
  <2> QED BY <2>1, <2>2, <2>3 DEF Verify
<1> QED BY <1>1, <1>2, <1>3, CommitQuiet

LEMMA AcknowledgeRec ==
    ASSUME RecoveryInv, NEW o \in Op, Acknowledge(o)
    PROVE  RecoveryInv'
<1>1. /\ op[o].pc = "ack" /\ op[o].pc \in CommitPcs /\ WorkspaceInv' /\ Quiet /\ (Fault \/ NoFault)
      /\ UNCHANGED <<started, fenced, phase, wal, plan, foreign>>
  BY AcknowledgeInv DEF Acknowledge, At, CommitPcs, RecoveryInv, Quiet, coreVars, walVars, history
<1>2. Committing(o) /\ op[o].rest # <<>>
  BY <1>1, AtCommit
<1>3. PICK r \in Receipts : ChildReceipt(o, r)
  BY DEF Acknowledge, Receipts
<1>4. Committing(o)' /\ ChildrenInv(o)' /\ SpentInv(o)' /\ OnlyMoves(o) /\ SameTask(o)
  BY <1>1, <1>2, <1>3, ReceiptCommits
<1> QED BY <1>1, <1>2, <1>4, CommitQuiet

LEMMA ApplyRec ==
    ASSUME RecoveryInv, NEW o \in Op, Apply(o)
    PROVE  RecoveryInv'
<1>1. /\ op[o].pc = "apply" /\ op[o].pc \in CommitPcs /\ WorkspaceInv' /\ (Fault \/ NoFault)
      /\ UNCHANGED <<diskDurable, tempDurable, walVars, plan, coreVars, history>>
      /\ UNCHANGED <<started, fenced, phase, wal, foreign>>
  BY ApplyInv DEF Apply, At, CommitPcs, RecoveryInv, coreVars, walVars, history
<1>2. Committing(o) /\ op[o].rest # <<>> /\ TypeInv /\ FoldInv /\ ChildInv(o)
  BY <1>1, AtCommit
<1>3. CASE SettlesNotApplied(o) /\ UNCHANGED <<disk, temp>>
  <2>1. Quiet
    BY <1>1, <1>3 DEF Quiet, fsVars
  <2>2. Committing(o)' /\ ChildrenInv(o)' /\ SpentInv(o)' /\ OnlyMoves(o) /\ SameTask(o)
    BY <1>1, <1>2, <1>3, NotAppliedCommits
  <2> QED BY <1>1, <1>2, <2>1, <2>2, CommitQuiet
<1>4. CASE Applicable(o) /\ Landed(o) /\ (Goes(o, "verify") \/ ChildReceipt(o, "Unknown"))
  <2>1. PICK h \in Path : /\ h = Head(op[o].rest) /\ Cur(o) = <<o, h>> /\ <<o, h>> \in Tx /\ PathOf(<<o, h>>) = h
                          /\ Placed(<<o, h>>) /\ wal[<<o, h>>] = "prepared"
    BY <1>1, <1>2, NextChild
  <2> DEFINE c == <<o, h>>
  <2>2. Committing(o)' /\ ChildrenInv(o)' /\ SpentInv(o)' /\ OnlyMoves(o) /\ SameTask(o)
    <3>1. "verify" \in CommitPcs /\ "Unknown" \in Receipts
      BY DEF CommitPcs, Receipts
    <3>2. CASE Goes(o, "verify")
      BY <1>1, <1>2, <3>1, <3>2, GoesCommits
    <3>3. CASE ChildReceipt(o, "Unknown")
      BY <1>1, <1>2, <3>1, <3>3, ReceiptCommits
    <3> QED BY <1>4, <3>2, <3>3
  <2>3. temp' = [temp EXCEPT ![c] = "none"]
    BY <1>4, <2>1 DEF Landed
  <2>4. /\ Frame(o)
        /\ \A p \in Path : p # h => temp'[<<o, p>>] = temp[<<o, p>>]
                                    /\ tempDurable'[<<o, p>>] = tempDurable[<<o, p>>]
    <3>1. Changes(o)
      BY <1>1, <1>4 DEF Changes
    <3> QED BY <1>1, <1>2, <2>2, <2>3, <3>1, FilesFrame DEF OnlyMoves
  <2>5. \A p \in Path : p # h => TempsSettle(<<o, p>>)
    BY <2>4 DEF TempsSettle
  <2>6. Placed(c)'
    <3>1. disk'[h].by = c
      <4>1. Changes(o)
        BY <1>1, <1>4 DEF Changes
      <4> QED BY <1>1, <1>2, <2>1, <2>4, <4>1, ChangesFacts
    <3>2. temp'[c] = "none"
      BY <1>2, <2>1, <2>3 DEF TypeInv
    <3>3. (Spent => Spent') /\ diskDurable' = diskDurable /\ tempDurable' = tempDurable /\ plan' = plan
          /\ wal'[c] = "prepared" /\ foreign' = foreign
      BY <1>1, <1>2, <2>1, SpentKept
    <3>4. c \in Tx /\ PathOf(c) = h /\ Placed(c) /\ wal[c] = "prepared"
      BY <2>1
    <3> DEFINE u == diskDurable[h]
               d == disk'[h]
    <3> HIDE DEF c
    <3>5. h \in foreign \/ /\ u.is = plan[c].before \/ u.by = c \/ (u.is = "dir" /\ Spent)
                           /\ {temp[c], tempDurable[c]} \subseteq {"none", "full"}
      BY <3>4 DEF Placed, OddBoth, Odd
    <3>6. d.by = c /\ disk'[PathOf(c)] = d /\ diskDurable'[PathOf(c)] = u
      BY <3>1, <3>3, <3>4
    <3> HIDE DEF d, u
    <3> QED BY <3>2, <3>3, <3>4, <3>5, <3>6 DEF Placed, OddBoth, Odd
  <2>7. FoldInv'
    BY <1>1, <1>2, FoldSame
  <2> QED BY <1>1, <1>2, <2>1, <2>2, <2>4, <2>5, <2>6, <2>7, CommitAdvances DEF SameTask
<1> QED BY <1>3, <1>4 DEF Apply

LEMMA SyncRec ==
    ASSUME RecoveryInv, NEW o \in Op, Sync(o)
    PROVE  RecoveryInv'
<1>1. /\ op[o].pc = "sync" /\ op[o].pc \in CommitPcs /\ WorkspaceInv' /\ (Fault \/ NoFault)
      /\ UNCHANGED <<disk, temp, walVars, plan, coreVars, history>>
      /\ UNCHANGED <<started, fenced, phase, wal, foreign>>
  BY SyncInv DEF Sync, At, CommitPcs, RecoveryInv, coreVars, walVars, history
<1>2. Committing(o) /\ op[o].rest # <<>> /\ TypeInv /\ FoldInv
  BY <1>1, AtCommit
<1>3. PICK h \in Path : /\ h = Head(op[o].rest) /\ Cur(o) = <<o, h>> /\ <<o, h>> \in Tx /\ PathOf(<<o, h>>) = h
                        /\ Placed(<<o, h>>) /\ wal[<<o, h>>] = "prepared"
  BY <1>1, <1>2, NextChild
<1>4. Committing(o)' /\ ChildrenInv(o)' /\ SpentInv(o)' /\ OnlyMoves(o) /\ SameTask(o)
  <2>1. CASE Goes(o, "record")
    <3>1. "record" \in CommitPcs
      BY DEF CommitPcs
    <3> QED BY <1>1, <1>2, <2>1, <3>1, GoesCommits
  <2>2. CASE ChildReceipt(o, "DurabilityFailed")
    <3>1. "DurabilityFailed" \in Receipts
      BY DEF Receipts
    <3> QED BY <1>1, <1>2, <2>2, <3>1, ReceiptCommits
  <2>3. CASE Goes(o, "uncreate") /\ Fault
    <3>1. "uncreate" \in CommitPcs /\ Spent'
      BY <1>2, <2>3, FaultSpends DEF CommitPcs
    <3> QED BY <1>1, <1>2, <2>3, <3>1, GoesCommits
  <2> QED BY <2>1, <2>2, <2>3 DEF Sync
<1>5. DirSynced(h) \/ (diskDurable' = diskDurable /\ tempDurable' = tempDurable)
  BY <1>3 DEF Sync
<1>6. Frame(o) /\ \A p \in Path : TempsSettle(<<o, p>>)
  <2>1. /\ Frame(o)
        /\ \A p \in Path : p # h => temp'[<<o, p>>] = temp[<<o, p>>]
                                    /\ tempDurable'[<<o, p>>] = tempDurable[<<o, p>>]
        /\ tempDurable'[<<o, h>>] \in {tempDurable[<<o, h>>], temp'[<<o, h>>], "none"}
    BY <1>1, <1>2, <1>4, <1>5, FilesFrame DEF OnlyMoves
  <2>2. TempsSettle(<<o, h>>)
    BY <1>1, <2>1 DEF TempsSettle
  <2> QED BY <2>1, <2>2 DEF TempsSettle
<1>7. Placed(<<o, h>>)'
  <2>1. Settles(h)
    BY <1>1, <1>6, FrameSettles
  <2> QED BY <1>1, <1>2, <1>3, <1>6, <2>1, PlacedKept, SpentKept
<1>8. FoldInv'
  BY <1>1, <1>2, FoldSame
<1> QED BY <1>1, <1>2, <1>3, <1>4, <1>6, <1>7, <1>8, CommitAdvances DEF SameTask

\* The created directory is removed; a power loss may bring it back.
LEMMA UncreateRec ==
    ASSUME RecoveryInv, NEW o \in Op, Uncreate(o)
    PROVE  RecoveryInv'
<1>1. /\ op[o].pc = "uncreate" /\ op[o].pc \in CommitPcs /\ WorkspaceInv' /\ (Fault \/ NoFault)
      /\ UNCHANGED <<diskDurable, temp, tempDurable, walVars, plan, coreVars, history>>
      /\ UNCHANGED <<started, fenced, phase, wal, foreign>>
  BY UncreateInv DEF Uncreate, At, CommitPcs, RecoveryInv, coreVars, walVars, history
<1>2. Committing(o) /\ op[o].rest # <<>> /\ TypeInv /\ FoldInv /\ SpentInv(o) /\ (Spent => Spent')
  BY <1>1, AtCommit, SpentKept
<1>3. CASE disk' = disk /\ ChildReceipt(o, "Unknown")
  <2>1. Quiet /\ "Unknown" \in Receipts
    BY <1>1, <1>3 DEF Quiet, fsVars, Receipts
  <2>2. Committing(o)' /\ ChildrenInv(o)' /\ SpentInv(o)' /\ OnlyMoves(o) /\ SameTask(o)
    BY <1>1, <1>2, <1>3, <2>1, ReceiptCommits
  <2> QED BY <1>1, <1>2, <2>1, <2>2, CommitQuiet
<1>4. CASE StillOurs(o) /\ disk' = [disk EXCEPT ![PathOf(Cur(o))] = Missing] /\ Goes(o, "removed")
  <2>1. PICK h \in Path : /\ h = Head(op[o].rest) /\ Cur(o) = <<o, h>> /\ <<o, h>> \in Tx /\ PathOf(<<o, h>>) = h
                          /\ Placed(<<o, h>>) /\ wal[<<o, h>>] = "prepared"
    BY <1>1, <1>2, NextChild
  <2> DEFINE c == <<o, h>>
  <2>2. Spent'
    BY <1>1, <1>2, <1>4 DEF SpentInv
  <2>3. Committing(o)' /\ ChildrenInv(o)' /\ SpentInv(o)' /\ OnlyMoves(o) /\ SameTask(o)
    <3>1. "removed" \in CommitPcs
      BY DEF CommitPcs
    <3> QED BY <1>1, <1>2, <1>4, <2>2, <3>1, GoesCommits
  <2>4. Frame(o)
    <3>1. Changes(o)
      BY <1>1, <1>4 DEF Changes
    <3> QED BY <1>1, <1>2, <2>3, <3>1, FilesFrame DEF OnlyMoves
  <2>5. \A p \in Path : TempsSettle(<<o, p>>)
    BY <1>1 DEF TempsSettle
  <2>6. Placed(c)'
    <3>1. disk'[h].is = "missing" /\ disk'[h].by = NoTx
      BY <1>2, <1>4, <2>1 DEF Missing, Entry, TypeInv
    <3>2. /\ plan[c].before = "missing"
          /\ h \in foreign \/ diskDurable[h].is = "missing" \/ diskDurable[h].is = "dir"
      BY <1>1, <2>1, RemovalLeaves
    <3>3. c \in Tx /\ c # NoTx /\ PathOf(c) = h /\ Placed(c) /\ wal'[c] = "prepared"
          /\ foreign' = foreign /\ plan' = plan /\ diskDurable' = diskDurable
          /\ temp' = temp /\ tempDurable' = tempDurable
      BY <1>1, <2>1, TxFacts
    <3> HIDE DEF c
    <3>4. {temp[c], tempDurable[c]} \subseteq {"none", "full"} \/ h \in foreign
      BY <3>3 DEF Placed
    <3>5. diskDurable[h].by = c => diskDurable[h].is = "dir" \/ h \in foreign
      <4>1. Born(c)
        BY <3>3 DEF RecoveryInv
      <4>2. plan[c].after = "dir"
        BY <1>1, <2>1, RemovalLeaves DEF c
      <4> QED BY <3>3, <4>1, <4>2 DEF Born
    <3> QED BY <2>2, <3>1, <3>2, <3>3, <3>4, <3>5 DEF Placed, OddBoth, Odd
  <2>7. FoldInv'
    BY <1>1, <1>2, FoldSame
  <2> QED BY <1>1, <1>2, <2>1, <2>3, <2>4, <2>5, <2>6, <2>7, CommitAdvances DEF SameTask
<1> QED BY <1>3, <1>4 DEF Uncreate

LEMMA SyncRemovalRec ==
    ASSUME RecoveryInv, NEW o \in Op, SyncRemoval(o)
    PROVE  RecoveryInv'
<1>1. /\ op[o].pc = "removed" /\ op[o].pc \in CommitPcs /\ WorkspaceInv' /\ (Fault \/ NoFault)
      /\ UNCHANGED <<disk, temp, walVars, plan, coreVars, history>>
      /\ UNCHANGED <<started, fenced, phase, wal, foreign>>
  BY SyncRemovalInv DEF SyncRemoval, At, CommitPcs, RecoveryInv, coreVars, walVars, history
<1>2. Committing(o) /\ op[o].rest # <<>> /\ TypeInv /\ FoldInv
  BY <1>1, AtCommit
<1>3. PICK h \in Path : /\ h = Head(op[o].rest) /\ Cur(o) = <<o, h>> /\ <<o, h>> \in Tx /\ PathOf(<<o, h>>) = h
                        /\ Placed(<<o, h>>) /\ wal[<<o, h>>] = "prepared"
  BY <1>1, <1>2, NextChild
<1>4. Committing(o)' /\ ChildrenInv(o)' /\ SpentInv(o)' /\ OnlyMoves(o) /\ SameTask(o)
  <2>1. CASE SettlesNotApplied(o)
    BY <1>1, <1>2, <2>1, NotAppliedCommits
  <2>2. CASE ChildReceipt(o, "Unknown")
    <3>1. "Unknown" \in Receipts
      BY DEF Receipts
    <3> QED BY <1>1, <1>2, <2>2, <3>1, ReceiptCommits
  <2> QED BY <2>1, <2>2 DEF SyncRemoval
<1>5. DirSynced(h) \/ (diskDurable' = diskDurable /\ tempDurable' = tempDurable)
  BY <1>3 DEF SyncRemoval
<1>6. Frame(o) /\ \A p \in Path : TempsSettle(<<o, p>>)
  <2>1. /\ Frame(o)
        /\ \A p \in Path : p # h => temp'[<<o, p>>] = temp[<<o, p>>]
                                    /\ tempDurable'[<<o, p>>] = tempDurable[<<o, p>>]
        /\ tempDurable'[<<o, h>>] \in {tempDurable[<<o, h>>], temp'[<<o, h>>], "none"}
    BY <1>1, <1>2, <1>4, <1>5, FilesFrame DEF OnlyMoves
  <2>2. TempsSettle(<<o, h>>)
    BY <1>1, <2>1 DEF TempsSettle
  <2> QED BY <2>1, <2>2 DEF TempsSettle
<1>7. Placed(<<o, h>>)'
  <2>1. Settles(h)
    BY <1>1, <1>6, FrameSettles
  <2> QED BY <1>1, <1>2, <1>3, <1>6, <2>1, PlacedKept, SpentKept
<1>8. FoldInv'
  BY <1>1, <1>2, FoldSame
<1> QED BY <1>1, <1>2, <1>3, <1>4, <1>6, <1>7, <1>8, CommitAdvances DEF SameTask

LEMMA RecordRec ==
    ASSUME RecoveryInv, NEW o \in Op, Record(o)
    PROVE  RecoveryInv'
<1>1. /\ op[o].pc = "record" /\ op[o].pc \in CommitPcs /\ WorkspaceInv'
      /\ UNCHANGED <<fsVars, plan, coreVars, history>>
      /\ UNCHANGED <<started, fenced, phase, foreign, disk, plan>>
  BY RecordInv DEF Record, At, CommitPcs, RecoveryInv, coreVars, fsVars, history
<1>2. Committing(o) /\ op[o].rest # <<>> /\ TypeInv /\ FoldInv /\ ChildInv(o)
  BY <1>1, AtCommit
<1>3. PICK h \in Path : /\ h = Head(op[o].rest) /\ Cur(o) = <<o, h>> /\ <<o, h>> \in Tx /\ PathOf(<<o, h>>) = h
                        /\ Placed(<<o, h>>) /\ wal[<<o, h>>] = "prepared"
  BY <1>1, <1>2, NextChild
<1> DEFINE c == <<o, h>>
<1>4. Writes(c, "committed") /\ (Fault \/ NoFault)
  BY <1>2, <1>3, AppendWrites DEF Record
<1>5. "committed" \in TxStates /\ phase = "up"
  BY <1>2, CommitFacts DEF TxStates
<1>6. /\ FoldInv' /\ \A t \in Tx : t # c => wal'[t] = wal[t]
      /\ wal'[c] \in {wal[c], "committed"}
  BY <1>1, <1>2, <1>3, <1>4, <1>5, FoldKept
<1>7. \A p \in Path : p # h => wal'[<<o, p>>] = wal[<<o, p>>]
  BY <1>6, TxFacts
<1>8. Committing(o)' /\ ChildrenInv(o)' /\ SpentInv(o)' /\ OnlyMoves(o) /\ SameTask(o)
  <2>1. CASE Goes(o, "ack")
    <3>1. "ack" \in CommitPcs
      BY DEF CommitPcs
    <3> QED BY <1>1, <1>2, <1>3, <1>7, <2>1, <3>1, GoesCommits
  <2>2. CASE ChildReceipt(o, "DurabilityFailed")
    <3>1. "DurabilityFailed" \in Receipts
      BY DEF Receipts
    <3> QED BY <1>1, <1>2, <1>3, <1>7, <2>2, <3>1, ReceiptCommits
  <2> QED BY <2>1, <2>2 DEF Record
<1>9. Frame(o) /\ \A p \in Path : TempsSettle(<<o, p>>)
  <2>1. Frame(o)
    BY <1>1, <1>2, <1>4, <1>8, QuietFrame, WritesFrame DEF OnlyMoves
  <2> QED BY <1>1, <2>1 DEF TempsSettle, fsVars
<1>10. Placed(c)'
  <2>1. InPlace(Cur(o))
    BY <1>1, <1>2 DEF ChildInv
  <2>2. /\ InPlace(c) /\ wal[c] = "prepared" /\ wal'[c] \in {wal[c], "committed"}
        /\ PathOf(c) = h /\ Placed(c)
    BY <1>3, <1>6, <2>1
  <2>3. /\ disk' = disk /\ diskDurable' = diskDurable /\ temp' = temp /\ tempDurable' = tempDurable
        /\ plan' = plan /\ foreign' = foreign
    BY <1>1 DEF fsVars
  <2> HIDE DEF c
  <2> QED BY <2>2, <2>3 DEF Placed, InPlace
<1>11. wal'[c] \notin {"none", "rolledBack"}
  BY <1>3, <1>6
<1> QED BY <1>1, <1>2, <1>3, <1>4, <1>6, <1>7, <1>8, <1>9, <1>10, <1>11, CommitAdvances

\* While Core is not fenced and nobody commits, nothing is unfinished, and
\* every target is synced, a directory that was to be removed apart.
LEMMA NothingUnfinished ==
    ASSUME RecoveryInv, phase = "up", ~fenced, \A q \in Op : ~Committing(q)
    PROVE  /\ \A q \in Op : ~Unfinished(q)
           /\ \A p \in Path : p \in foreign \/ disk[p].is = diskDurable[p].is \/ Odd(diskDurable[p])
<1>1. \A q \in Op : CoreInv(q)
  BY DEF RecoveryInv
<1>2. \A q \in Op : ~Unfinished(q)
  BY <1>1 DEF CoreInv, Unfinished, Resting
<1>3. \A q \in Op : ~(op[q].pc = "done" /\ NeedsRecovery(op[q].stop))
  BY <1>1 DEF CoreInv
<1>4. SyncedInv
  BY DEF RecoveryInv
<1> QED BY <1>2, <1>3, <1>4 DEF SyncedInv

LEMMA StartCommitRec ==
    ASSUME RecoveryInv, NEW o \in Op, StartCommit(o)
    PROVE  RecoveryInv'
<1>1. /\ phase = "up" /\ ~fenced /\ op[o].pc = "prepared" /\ (\A q \in Op : ~Committing(q)) /\ WorkspaceInv'
      /\ Quiet /\ NoFault /\ started' = started \cup {o} /\ UNCHANGED <<fenced, phase>>
      /\ op' = [op EXCEPT ![o].pc = "check", ![o].rest = op[o].staged]
  BY StartCommitInv DEF StartCommit, At, RecoveryInv, Quiet, NoFault
<1>2. op[o].pc \notin {"idle"} \cup Resting /\ op[o].pc \notin Preparing
  BY <1>1 DEF Resting, Recovering, Preparing
<1>3. /\ TypeInv /\ OpInv(o) /\ FoldInv /\ CompleteInv(o) /\ DirFits(o)
      /\ \A p \in Path : <<o, p>> \in Tx /\ PathOf(<<o, p>>) = p /\ OpOf(<<o, p>>) = o /\ Born(<<o, p>>)
  BY <1>1, <1>2, ToolFacts, TxFacts DEF RecoveryInv
<1>4. /\ \A q \in Op : ~Unfinished(q) /\ op[q].pc \notin Inspecting
      /\ \A p \in Path : p \in foreign \/ disk[p].is = diskDurable[p].is \/ Odd(diskDurable[p])
      /\ Spent => Spent'
  BY <1>1, <1>2, <1>3, NothingUnfinished, UpFacts, SpentKept
<1>5. /\ IsInjective(op[o].staged) /\ \A p \in Path : Absent(<<o, p>>)
      /\ \A p \in Range(op[o].staged) : wal[<<o, p>>] = "prepared"
      /\ \A p \in Path \ Range(op[o].staged) : wal[<<o, p>>] = "none"
  BY <1>1, <1>2, <1>3 DEF OpInv, PrepareInv, Fresh
<1>6. /\ Range(op[o].staged) \subseteq Range(op[o].req) /\ Range(op[o].staged) \subseteq Path
      /\ op[o].staged \in Seq(Path)
      /\ \A p \in Range(op[o].req) : Snapped(<<o, p>>)
      /\ \A p \in Range(op[o].staged) : Complete(<<o, p>>)
  BY <1>1, <1>3, RangeFacts DEF OpInv, LeaseInv, TargetInv, CompleteInv, Holding
<1>7. /\ OnlyMoves(o) /\ SameTask(o) /\ op'[o].pc = "check"
      /\ op'[o].rest = op[o].staged /\ op'[o].staged = op[o].staged
  <2> DEFINE x == [op[o] EXCEPT !.pc = "check", !.rest = op[o].staged]
  <2>1. op' = [op EXCEPT ![o] = x]
    BY ONLY <1>1
  <2>2. op[o] \in OpRecords /\ "check" \in Pcs
    BY <1>3 DEF TypeInv, Pcs, Holding, CommitPcs
  <2>3. /\ x.pc = "check" /\ x.rest = op[o].staged /\ x.staged = op[o].staged
        /\ x.kind = op[o].kind /\ x.val = op[o].val /\ x.req = op[o].req /\ x \in OpRecords
    BY <2>2 DEF OpRecords
  <2> HIDE DEF x
  <2> QED BY <1>3, <2>1, <2>3, Becomes
<1>8. /\ Committing(o)' /\ op'[o].pc \notin {"idle"} \cup Resting \cup Preparing \cup {"prepared"}
  BY <1>7 DEF Committing, CommitPcs, Resting, Recovering, Preparing
<1>9. CoreInv(o)' /\ SpentInv(o)' /\ CompleteInv(o)' /\ ClaimInv(o)'
  <2>1. DirFits(o)' /\ o \in started' /\ phase' = "up"
    <3>1. op[o].pc \in Working /\ plan' = plan
      BY <1>1 DEF Working, Quiet
    <3> QED BY <1>1, <1>3, <1>7, <3>1, FitsKept
  <2>2. CoreInv(o)'
    BY <1>8, <2>1 DEF CoreInv, Resting
  <2>3. SpentInv(o)'
    BY <1>7 DEF SpentInv
  <2> QED BY <1>8, <2>2, <2>3 DEF CompleteInv, ClaimInv, Preparing, Resting, Recovering
<1>10. ChildrenInv(o)'
  <2>1. wal' = wal
    BY <1>1 DEF Quiet, walVars
  <2> QED BY <1>5, <1>7, <2>1 DEF ChildrenInv
<1>11. Frame(o) /\ disk' = disk /\ wal' = wal /\ plan' = plan
  BY <1>1, <1>7, QuietFrame DEF Quiet, OnlyMoves, fsVars, walVars, history
<1>12. PlacedInv(o)'
  <2> SUFFICES ASSUME NEW p \in Path, wal'[<<o, p>>] # "none" PROVE Placed(<<o, p>>)'
    BY DEF PlacedInv
  <2> DEFINE t == <<o, p>>
  <2>1. p \in Range(op[o].staged) /\ wal[t] = "prepared"
    BY <1>5, <1>11
  <2>2. /\ Absent(t) /\ Snapped(t) /\ Complete(t) /\ PathOf(t) = p
        /\ p \in foreign \/ disk[p].is = diskDurable[p].is \/ Odd(diskDurable[p])
    BY <1>3, <1>4, <1>5, <1>6, <2>1
  <2> HIDE DEF t
  <2>3. Placed(t)
    BY <2>1, <2>2 DEF Placed, Absent, Snapped, Complete, OddBoth, Odd
  <2>4. Placed(t)'
    BY <1>1, <1>4, <2>3 DEF Placed, Quiet, fsVars, walVars, history, OddBoth, Odd, NoFault, Spent
  <2> QED BY <2>4 DEF t
<1>13. \A p \in Path : Born(<<o, p>>)'
  <2>1. \A p \in Path : Settles(p)
    BY <1>11, FrameSettles
  <2> QED BY <1>1, <1>3, <1>4, <1>11, <2>1, BornKept
<1>14. FoldInv'
  BY <1>1, <1>3, FoldSame DEF Quiet
<1>15. op[o].pc # "apply" /\ op[o].pc # "done" /\ op'[o].pc # "done"
  BY <1>1, <1>7
<1> QED BY <1>1, <1>4, <1>9, <1>10, <1>11, <1>12, <1>13, <1>14, <1>15, Advances

\* A step of Core over an operation: the files and the journal stay as they
\* are, and it is done or lost.
LEMMA CoreAdvances ==
    ASSUME RecoveryInv, WorkspaceInv', NEW o \in Op, Quiet, OnlyMoves(o), SameTask(o), Fault \/ NoFault,
           UNCHANGED <<started, phase>>, fenced => fenced',
           op[o].pc \in {"settle", "judged"}, op'[o].pc \in {"done", "lost"},
           op'[o].pc = "lost" => fenced', op'[o].pc = "done" => Leaves(o),
           op'[o].pc = "done" /\ NeedsRecovery(op'[o].stop) => fenced'
    PROVE  RecoveryInv'
<1>1. /\ TypeInv /\ FoldInv /\ CoreInv(o) /\ PlacedInv(o) /\ OneInspector
      /\ \A p \in Path : <<o, p>> \in Tx /\ PathOf(<<o, p>>) = p /\ OpOf(<<o, p>>) = o /\ Born(<<o, p>>)
  BY TxFacts DEF RecoveryInv, WorkspaceInv
<1>2. Frame(o) /\ disk' = disk /\ wal' = wal /\ plan' = plan /\ (Spent => Spent')
  BY <1>1, QuietFrame, SpentKept DEF Quiet, OnlyMoves, fsVars, walVars, history
<1>3. FoldInv'
  BY <1>1, FoldSame DEF Quiet
<1>4. ~Committing(o)' /\ op'[o].pc \in Resting /\ op'[o].pc \notin Working
  BY DEF Committing, CommitPcs, Resting, Working, Preparing, Undoing
<1>5. DirFits(o)' /\ op'[o].pc \notin Recovering
  BY <1>1, <1>2, <1>4, FitsKept DEF CoreInv, Recovering
<1>6. CoreInv(o)' /\ SpentInv(o)'
  BY <1>1, <1>4, <1>5 DEF CoreInv, SpentInv
<1>7. ChildrenInv(o)' /\ CompleteInv(o)' /\ ClaimInv(o)'
  BY <1>4 DEF ChildrenInv, CompleteInv, ClaimInv, Preparing
<1>8. \A p \in Path : Settles(p) /\ TempsSettle(<<o, p>>)
  BY <1>2 DEF Settles, TempsSettle, Quiet, fsVars
<1>9. Unfinished(o)' => Unfinished(o)
  BY DEF Unfinished
<1>10. PlacedInv(o)'
  BY <1>1, <1>2, <1>8, <1>9, PlacedKept DEF PlacedInv, Frame
<1>11. \A p \in Path : Born(<<o, p>>)'
  BY <1>1, <1>2, <1>8, BornKept
<1>12. \A q \in Op : q # o => op[q].pc \notin Inspecting
  <2>1. CASE op[o].pc = "settle"
    <3>1. op[o].pc \notin {"idle"} \cup Resting
      BY <2>1 DEF Resting, Recovering
    <3> QED BY <3>1, UpFacts
  <2>2. CASE op[o].pc = "judged"
    BY <1>1, <2>2 DEF OneInspector, Inspecting
  <2> QED BY <2>1, <2>2
<1>13. op[o].pc # "apply" /\ op[o].pc # "done"
  OBVIOUS
<1> QED BY <1>2, <1>3, <1>6, <1>7, <1>9, <1>10, <1>11, <1>12, <1>13, Advances

LEMMA SettleRec ==
    ASSUME RecoveryInv, NEW o \in Op, Settle(o)
    PROVE  RecoveryInv'
<1>1. /\ op[o].pc = "settle" /\ phase = "up" /\ Quiet /\ (Fault \/ NoFault) /\ WorkspaceInv'
      /\ UNCHANGED <<started, phase>>
  BY SettleInv DEF Settle, At, RecoveryInv, Quiet
<1>2. TypeInv /\ OpInv(o) /\ CoreInv(o) /\ ChildrenInv(o)
  BY DEF RecoveryInv, WorkspaceInv
<1>3. PICK pc \in {"done", "lost"} : Goes(o, pc)
  BY DEF Settle
<1>4. OnlyMoves(o) /\ SameTask(o) /\ op'[o].pc = pc /\ op'[o].stop = op[o].stop
  <2>1. pc \in Pcs
    BY DEF Pcs
  <2> QED BY <1>2, <1>3, <2>1, GoesFacts
<1>5. /\ op'[o].pc = "lost" => fenced'
      /\ op'[o].pc = "done" => ~fenced /\ (NeedsRecovery(op'[o].stop) => fenced')
  <2>1. CASE ~fenced /\ Goes(o, "done") /\ fenced' = NeedsRecovery(op[o].stop)
    <3>1. op'[o].pc = "done"
      BY <1>2, <2>1, GoesFacts DEF Pcs
    <3> QED BY <1>4, <2>1, <3>1
  <2>2. CASE Goes(o, "lost") /\ fenced' = TRUE
    <3>1. op'[o].pc = "lost"
      BY <1>2, <2>2, GoesFacts DEF Pcs
    <3> QED BY <2>2, <3>1
  <2> QED BY <2>1, <2>2 DEF Settle
<1>6. ASSUME ~NeedsRecovery(op[o].stop), NEW p \in Path, disk[p].by = <<o, p>>
      PROVE  disk[p].is = diskDurable[p].is
  <2>1. Born(<<o, p>>) /\ PathOf(<<o, p>>) = p /\ OpOf(<<o, p>>) = o
    BY TxFacts DEF RecoveryInv
  <2>2. o \in started /\ wal[<<o, p>>] # "none" /\ ~Absent(<<o, p>>)
    BY <1>6, <2>1 DEF Born, Absent
  <2>3. Committing(o)
    BY <1>1, <1>2, <2>2 DEF CoreInv, Resting, Recovering
  <2>4. op[o].stop \in {"Applied", "NotApplied"} /\ p \in Range(op[o].staged)
    BY <1>1, <1>2, <1>6, <2>2, <2>3 DEF ChildrenInv, Receipts, NeedsRecovery
  <2>5. op[o].stop # "NotApplied"
    BY <1>1, <1>2, <2>2, <2>4 DEF OpInv, ReportInv, Gone
  <2>6. Kept(<<o, p>>)
    BY <1>1, <1>2, <2>4, <2>5 DEF OpInv, ReportInv
  <2> QED BY <2>1, <2>6 DEF Kept, InPlace
<1>7. Leaves(o)
  BY <1>1, <1>4, <1>6 DEF Leaves, Quiet, fsVars
<1> QED BY <1>1, <1>4, <1>5, <1>7, CoreAdvances

-----------------------------------------------------------------------------
(* The startup pass *)

LEMMA RecoverFacts ==
    ASSUME RecoveryInv, NEW o \in Op, op[o].pc \in Recovering
    PROVE  /\ WorkspaceInv /\ TypeInv /\ OpInv(o) /\ FoldInv /\ CoreInv(o) /\ phase = "recovering"
           /\ DirFits(o) /\ (o \in started => Unfinished(o))
           /\ \A p \in Path : o \in started /\ wal[<<o, p>>] # "none" => Placed(<<o, p>>)
           /\ \A p \in Path : /\ <<o, p>> \in Tx /\ PathOf(<<o, p>>) = p /\ OpOf(<<o, p>>) = o
                              /\ Born(<<o, p>>) /\ (mem[<<o, p>>] = "none" <=> wal[<<o, p>>] = "none")
<1>1. WorkspaceInv /\ TypeInv /\ OpInv(o) /\ FoldInv /\ CoreInv(o) /\ PlacedInv(o)
  BY DEF RecoveryInv, WorkspaceInv
<1>2. phase = "recovering" /\ DirFits(o) /\ (o \in started => Unfinished(o))
  BY <1>1 DEF CoreInv, Unfinished, Recovering
<1>3. \A p \in Path : /\ <<o, p>> \in Tx /\ PathOf(<<o, p>>) = p /\ OpOf(<<o, p>>) = o
                      /\ Born(<<o, p>>) /\ (mem[<<o, p>>] = "none" <=> wal[<<o, p>>] = "none")
  BY <1>1, <1>2, TxFacts DEF RecoveryInv, FoldInv
<1> QED BY <1>1, <1>2, <1>3 DEF PlacedInv

\* The records of an operation under inspection: nothing is forgotten, nothing
\* committed after the fact, and a directory is rolled back that is not there,
\* unless a call has failed.
WalAdvances(o) ==
    \A p \in Path :
        /\ wal[<<o, p>>] # "none" => wal'[<<o, p>>] # "none"
        /\ wal'[<<o, p>>] = "committed" => wal[<<o, p>>] = "committed"
        /\ plan[<<o, p>>].after = "dir" /\ wal'[<<o, p>>] = "rolledBack" =>
              wal[<<o, p>>] = "rolledBack" \/ Absent(<<o, p>>) \/ Spent

\* An operation under inspection.
LEMMA RecoverAdvances ==
    ASSUME RecoveryInv, WorkspaceInv', NEW o \in Op, Frame(o), disk' = disk, plan' = plan,
           UNCHANGED <<started, fenced, phase>>, Fault \/ NoFault,
           op[o].pc \in {"dead", "clean", "mark"}, op'[o].pc \in Inspecting, SameTask(o),
           \A q \in Op : q # o => op[q].pc \notin Inspecting,
           FoldInv', ChildrenInv(o)', PlacedInv(o)', ClaimInv(o)', WalAdvances(o)
    PROVE  RecoveryInv'
<1>1. op[o].pc \in Recovering /\ op'[o].pc \in Recovering /\ op'[o].pc \in Resting
  BY DEF Recovering, Inspecting, Resting
<1>2. /\ CoreInv(o) /\ phase = "recovering" /\ DirFits(o) /\ (o \in started => Unfinished(o))
      /\ \A p \in Path : <<o, p>> \in Tx /\ PathOf(<<o, p>>) = p /\ OpOf(<<o, p>>) = o /\ Born(<<o, p>>)
  BY <1>1, RecoverFacts
<1>3. ~Committing(o)' /\ op'[o].pc \notin {"done", "lost"} \cup Preparing \cup {"prepared", "review"}
  BY DEF Inspecting, Committing, CommitPcs, Preparing
<1>4. CoreInv(o)' /\ SpentInv(o)'
  <2>1. op'[o].pc \notin Working
    BY DEF Working, Inspecting, Preparing, CommitPcs, Undoing
  <2>2. DirFits(o)'
    BY <1>2, <2>1, FitsKept
  <2> QED BY <1>1, <1>2, <1>3, <2>2 DEF CoreInv, SpentInv, Inspecting
<1>5. CompleteInv(o)'
  BY <1>3 DEF CompleteInv
<1>6. Unfinished(o)' => Unfinished(o)
  BY <1>2 DEF Unfinished
<1>7. \A p \in Path : Settles(p)
  BY FrameSettles
<1>8. \A p \in Path : Born(<<o, p>>)'
  <2>1. Spent => Spent'
    BY SpentKept DEF RecoveryInv, WorkspaceInv
  <2> QED BY <1>2, <1>7, <2>1, BornKept DEF WalAdvances
<1>9. op[o].pc # "apply" /\ op[o].pc # "done"
  OBVIOUS
<1> QED BY <1>3, <1>4, <1>5, <1>6, <1>8, <1>9, Advances

\* ... whose verdict is reached.
LEMMA JudgedRec ==
    ASSUME RecoveryInv, WorkspaceInv', NEW o \in Op, Frame(o), disk' = disk, plan' = plan,
           UNCHANGED <<started, fenced, phase>>, Fault \/ NoFault, op[o].pc \in {"dead", "clean", "mark"},
           \A q \in Op : q # o => op[q].pc \notin Inspecting,
           FoldInv', PlacedInv(o)', NEW v \in Verdicts, Judged(o, v), Claim(o, v)',
           WalAdvances(o)
    PROVE  RecoveryInv'
<1>1. TypeInv
  BY DEF RecoveryInv, WorkspaceInv
<1>2. SameTask(o) /\ op'[o].pc = "judged" /\ verdict'[o] = v
  BY <1>1, JudgedFacts
<1>3. op'[o].pc \in Inspecting /\ ~Committing(o)'
  BY <1>2 DEF Inspecting, Committing, CommitPcs
<1>4. ChildrenInv(o)'
  BY <1>2, <1>3 DEF ChildrenInv
<1>5. ClaimInv(o)'
  <2>1. Claim(o, verdict[o])'
    BY <1>2 DEF Claim
  <2> QED BY <1>2, <2>1 DEF ClaimInv
<1> QED BY <1>2, <1>3, <1>4, <1>5, RecoverAdvances

\* Some reason holds: nothing is claimed.
LEMMA AmbiguousClaim ==
    ASSUME NEW o \in Op, o \in started => Excused(o)
    PROVE  Claim(o, "Ambiguous")
BY DEF Claim

\* What the reading of one transaction says is so.
LEMMA ClassFacts ==
    ASSUME RecoveryInv, NEW o \in Op, op[o].pc \in Recovering, NEW tx \in TxsOf(o)
    PROVE  /\ Class(tx) \in {"durable", "applied", "rolledBack", "not", "ambiguous"}
           /\ ~walFailed /\ Class(tx) \in {"rolledBack", "not"} =>
                 (disk[PathOf(tx)].by = tx => plan[tx].before = plan[tx].after \/ Returned(tx))
           /\ Class(tx) = "not" => mem[tx] = "prepared" /\ Undisturbed(tx)
           /\ Class(tx) = "durable" =>
                 PathOf(tx) \in foreign \/ {disk[PathOf(tx)].by, diskDurable[PathOf(tx)].by} = {tx}
           /\ o \in started /\ Class(tx) \in {"durable", "applied"} => Ours(tx)
           /\ o \in started /\ ~walFailed /\ Class(tx) = "ambiguous" => Excused(o)
<1>1. tx \in Tx /\ OpOf(tx) = o /\ mem[tx] # "none"
  BY DEF TxsOf
<1>2. /\ Born(tx) /\ wal[tx] # "none" /\ (o \in started => Placed(tx)) /\ FoldInv
      /\ mem[tx] \in {"prepared", "committed", "rolledBack"}
  <2>1. PICK p \in Path : tx = <<o, p>>
    BY <1>1, TxFacts
  <2>2. TypeInv /\ FoldInv
    BY RecoverFacts
  <2>3. Born(tx) /\ wal[tx] # "none" /\ (o \in started => Placed(tx))
    BY <1>1, <2>1, RecoverFacts
  <2> QED BY <1>1, <2>2, <2>3 DEF TypeInv, TxStates
<1> DEFINE e == disk[PathOf(tx)]
           d == diskDurable[PathOf(tx)]
           b == plan[tx].before
           a == plan[tx].after
           dirs == "dir" \in {plan[tx].before, plan[tx].after}
<1>3. /\ e.by = tx => e.is = a /\ o \in started
      /\ wal[tx] = "committed" => o \in started
      /\ a = "dir" => b = "missing"
      /\ a = "dir" /\ ~Spent /\ d.by = tx => e.by = tx
      /\ a = "dir" /\ ~Spent /\ wal[tx] = "rolledBack" => e.by # tx
  BY <1>1, <1>2 DEF Born, DirBorn, DirPlanned, Absent
<1>4. o \in started =>
         \/ PathOf(tx) \in foreign
         \/ /\ e.is = b \/ e.by = tx \/ (e.is = "dir" /\ Spent)
            /\ wal[tx] = "committed" => e.by = tx /\ d.by = tx
            /\ wal[tx] = "rolledBack" => e.is = b \/ (e.is = "dir" /\ d.is = "dir" /\ Spent)
  BY <1>2 DEF Placed, OddBoth, Odd
<1>5. (dirs \/ PathOf(tx) \in foreign \/ Spent) => Excused(o)
  BY DEF Excused, Spent
<1>6. /\ Ours(tx) <=> e.by = tx \/ PathOf(tx) \in foreign
      /\ (a = "dir" \/ b = "dir") => dirs
      /\ e = Entry("dir", tx) => e.by = tx /\ e.is = "dir"
      /\ Undisturbed(tx) <=> /\ PathOf(tx) \in foreign \/ e.is = b
                             /\ a = "dir" => (e.by # tx /\ d.by # tx) \/ Spent
      /\ a = "dir" /\ Spent /\ (PathOf(tx) \in foreign \/ d.is = "dir") => Returned(tx)
  BY DEF Ours, Undisturbed, Absent, Entry, Returned, Odd
<1>7. CASE mem[tx] = "committed"
  <2>1. Class(tx) = IF (IF a = "dir" THEN e = Entry("dir", tx) ELSE e.is = a) THEN "durable" ELSE "ambiguous"
    BY <1>7 DEF Class
  <2>2. o \in started /\ wal[tx] = "committed"
    BY <1>1, <1>2, <1>3, <1>7 DEF FoldInv
  <2> HIDE DEF e, d, b, a, dirs
  <2>3. PathOf(tx) \in foreign \/ (e.by = tx /\ d.by = tx /\ e.is = a)
    BY <1>3, <1>4, <2>2
  <2>4. PathOf(tx) \in foreign \/ {e.by, d.by} = {tx}
    BY <2>3
  <2> QED BY <1>5, <1>6, <1>7, <2>1, <2>3, <2>4 DEF e, d
<1>8. CASE mem[tx] = "rolledBack"
  <2>1. Class(tx) = IF (e.is = b /\ e.is # "dir") \/ a = "dir" THEN "rolledBack" ELSE "ambiguous"
    BY <1>8 DEF Class
  <2>2. ~walFailed => wal[tx] = "rolledBack"
    BY <1>2, <1>8 DEF FoldInv
  <2> HIDE DEF e, d, b, a, dirs
  <2>3. ~walFailed /\ Class(tx) = "rolledBack" => (e.by = tx => b = a \/ Returned(tx))
    BY <1>3, <1>4, <1>6, <2>1, <2>2
  <2>4. o \in started /\ ~walFailed /\ Class(tx) = "ambiguous" => Excused(o)
    BY <1>4, <1>5, <1>6, <2>1, <2>2
  <2> QED BY <2>1, <2>3, <2>4 DEF e, a, b
<1>9. CASE mem[tx] = "prepared"
  <2>1. Class(tx) = IF e.is = b /\ e.is # "dir" THEN "not"
                    ELSE IF a # "dir" /\ e.is = a THEN "applied" ELSE "ambiguous"
    BY <1>9 DEF Class
  <2> HIDE DEF e, d, b, a, dirs
  <2>2. Class(tx) = "not" => (e.by = tx => b = a) /\ Undisturbed(tx)
    BY <1>3, <1>6, <2>1
  <2>3. Class(tx) = "applied" => e.is # b /\ e.is # "dir"
    BY <2>1
  <2>4. o \in started /\ Class(tx) = "ambiguous" => Excused(o)
    BY <1>3, <1>4, <1>5, <1>6, <2>1
  <2>5. o \in started /\ Class(tx) = "applied" => Ours(tx)
    BY <1>4, <1>6, <2>3
  <2> QED BY <1>9, <2>1, <2>2, <2>4, <2>5 DEF e, a, b
<1> QED BY <1>2, <1>7, <1>8, <1>9

LEMMA JudgementFacts ==
    ASSUME NEW o \in Op
    PROVE  /\ Judgement(o) \in {"Applied", "DurabilityFailed", "NotApplied"}
           /\ Judgement(o) = "Applied" => \A tx \in TxsOf(o) : Class(tx) = "durable"
           /\ Judgement(o) = "DurabilityFailed" => \E tx \in TxsOf(o) : Class(tx) \in {"durable", "applied"}
           /\ Judgement(o) = "NotApplied" => \A tx \in TxsOf(o) : Class(tx) \notin {"durable", "applied"}
<1> DEFINE D == {tx \in TxsOf(o) : Class(tx) = "durable"}
           A == {tx \in TxsOf(o) : Class(tx) = "applied"}
<1>1. Judgement(o) = IF D = TxsOf(o) THEN "Applied" ELSE IF D \cup A # {} THEN "DurabilityFailed" ELSE "NotApplied"
  BY DEF Judgement
<1>2. D = TxsOf(o) => \A tx \in TxsOf(o) : Class(tx) = "durable"
  OBVIOUS
<1>3. D \cup A # {} => \E tx \in TxsOf(o) : Class(tx) \in {"durable", "applied"}
  OBVIOUS
<1>4. D \cup A = {} => \A tx \in TxsOf(o) : Class(tx) \notin {"durable", "applied"}
  OBVIOUS
<1> HIDE DEF D, A
<1> QED BY <1>1, <1>2, <1>3, <1>4

\* A verdict stays true as long as no target changes.
LEMMA ClaimKept ==
    ASSUME NEW o \in Op, NEW v, v # "Ambiguous", Claim(o, v),
           UNCHANGED <<disk, plan, started, foreign>>, RecoveryInv, Fault \/ NoFault,
           \A p \in Path : diskDurable'[p] \in {diskDurable[p], disk[p]},
           \A tx \in Tx : mem'[tx] = "none" <=> mem[tx] = "none"
    PROVE  Claim(o, v)'
<1>1. TxsOf(o)' = TxsOf(o)
  BY DEF TxsOf
<1>2. \A tx \in TxsOf(o) : PathOf(tx) \in Path
  BY TxFacts DEF TxsOf
<1>3. v = "NotApplied" =>
         \A tx \in TxsOf(o)' : disk'[PathOf(tx)].by = tx => plan'[tx].before = plan'[tx].after \/ Returned(tx)'
  <2> SUFFICES ASSUME v = "NotApplied", NEW tx \in TxsOf(o), disk[PathOf(tx)].by = tx, Returned(tx)
               PROVE  Returned(tx)'
    BY <1>1 DEF Claim
  <2>1. tx \in Tx /\ Born(tx) /\ (Spent => Spent') /\ PathOf(tx) \in Path
    BY <1>2, SpentKept DEF TxsOf, RecoveryInv, WorkspaceInv
  <2>2. disk[PathOf(tx)].is = "dir"
    BY <2>1 DEF Born, Returned
  <2>3. PathOf(tx) \in foreign \/ diskDurable'[PathOf(tx)].is = "dir"
    BY <2>1, <2>2 DEF Returned, Odd
  <2> QED BY <2>1, <2>3 DEF Returned, Odd
<1>4. v = "Applied" =>
         \A tx \in TxsOf(o)' : PathOf(tx) \in foreign' \/ {disk'[PathOf(tx)].by, diskDurable'[PathOf(tx)].by} = {tx}
  <2> SUFFICES ASSUME v = "Applied", NEW tx \in TxsOf(o), PathOf(tx) \notin foreign
               PROVE  {disk'[PathOf(tx)].by, diskDurable'[PathOf(tx)].by} = {tx}
    BY <1>1
  <2>1. disk[PathOf(tx)].by = tx /\ diskDurable[PathOf(tx)].by = tx
    BY DEF Claim
  <2> QED BY <1>2, <2>1
<1>5. v = "DurabilityFailed" /\ o \in started' => \E tx \in TxsOf(o)' : Ours(tx)'
  BY <1>1 DEF Claim, Ours
<1> QED BY <1>3, <1>4, <1>5 DEF Claim

LEMMA UndisturbedKept ==
    ASSUME NEW tx \in Tx, Undisturbed(tx), plan' = plan, foreign \subseteq foreign', Spent => Spent',
           \/ disk' = disk /\ diskDurable'[PathOf(tx)] \in {diskDurable[PathOf(tx)], disk[PathOf(tx)]}
           \/ PathOf(tx) \in foreign' /\ disk'[PathOf(tx)].by # tx /\ diskDurable'[PathOf(tx)].by # tx
    PROVE  Undisturbed(tx)'
BY DEF Undisturbed, Absent

\* Everything the startup pass leaves of its own operation, when it changes
\* neither the journal nor the files.
LEMMA RecoverQuiet ==
    ASSUME RecoveryInv, NEW o \in Op, op[o].pc \in Recovering, Quiet, Fault \/ NoFault,
           UNCHANGED <<started, phase>>, op'[o].pc # "done", \A q \in Op : q # o => op'[q] = op[q]
    PROVE  /\ Frame(o) /\ disk' = disk /\ plan' = plan /\ wal' = wal /\ mem' = mem
           /\ FoldInv' /\ PlacedInv(o)' /\ WalAdvances(o)
<1>1. /\ TypeInv /\ FoldInv /\ \A p \in Path : <<o, p>> \in Tx
      /\ \A p \in Path : o \in started /\ wal[<<o, p>>] # "none" => Placed(<<o, p>>)
  BY RecoverFacts
<1>2. Frame(o) /\ disk' = disk /\ plan' = plan /\ wal' = wal /\ mem' = mem
  BY QuietFrame DEF Quiet, fsVars, walVars, history
<1>3. FoldInv'
  BY <1>1, FoldSame DEF Quiet
<1>4. \A p \in Path : Settles(p) /\ TempsSettle(<<o, p>>)
  BY <1>2 DEF Settles, TempsSettle, Quiet, fsVars
<1>5. \A p \in Path : PathOf(<<o, p>>) = p
  BY TxFacts
<1>6. PlacedInv(o)'
  BY <1>1, <1>2, <1>4, <1>5, PlacedKept, SpentKept DEF PlacedInv, Unfinished, Frame
<1> QED BY <1>2, <1>3, <1>6 DEF WalAdvances

LEMMA ConcludeRec ==
    ASSUME RecoveryInv, NEW o \in Op, Conclude(o)
    PROVE  RecoveryInv'
<1>1. /\ op[o].pc = "clean" /\ Quiet /\ NoFault /\ WorkspaceInv' /\ TypeInv /\ OpInv(o)
      /\ UNCHANGED <<started, fenced, phase>> /\ Judged(o, op[o].stop)
  BY ConcludeInv DEF Conclude, At, RecoveryInv, WorkspaceInv, Quiet, NoFault
<1>2. op[o].stop \in {"Applied", "DurabilityFailed", "NotApplied"}
  BY <1>1 DEF OpInv, ReportInv
<1>3. PICK v \in {"Applied", "DurabilityFailed", "NotApplied"} : v = op[o].stop
  BY <1>2
<1>4. v \in Verdicts /\ v # "Ambiguous"
  BY DEF Verdicts
<1>5. OnlyMoves(o) /\ op'[o].pc = "judged" /\ Judged(o, v)
  BY <1>1, <1>3, <1>4, JudgedFacts
<1>6. op[o].pc \in Recovering /\ \A q \in Op : q # o => op'[q] = op[q]
  BY <1>1, <1>5 DEF Recovering, OnlyMoves
<1>7. /\ Frame(o) /\ disk' = disk /\ plan' = plan /\ mem' = mem /\ FoldInv' /\ PlacedInv(o)' /\ WalAdvances(o)
  BY <1>1, <1>5, <1>6, RecoverQuiet
<1>8. Claim(o, v)
  BY <1>1, <1>3 DEF RecoveryInv, ClaimInv
<1>9. Claim(o, v)'
  BY <1>1, <1>4, <1>7, <1>8, ClaimKept DEF Frame
<1>10. \A q \in Op : q # o => op[q].pc \notin Inspecting
  BY <1>1 DEF RecoveryInv, OneInspector, Inspecting
<1> QED BY <1>1, <1>4, <1>5, <1>7, <1>9, <1>10, JudgedRec

\* A reason stays a reason.
LEMMA ExcusedKept ==
    ASSUME TypeInv, FoldInv, NEW o \in Op, Fault \/ NoFault, UNCHANGED <<foreign, mem, plan>>,
           Excused(o) \/ Fault
    PROVE  Excused(o)'
<1>1. /\ budget.faults \in Nat /\ budget'.faults \in Nat /\ budget'.faults <= budget.faults
      /\ Fault => budget'.faults < budget.faults
      /\ MaxFaults \in Nat /\ budget.faults <= MaxFaults
  BY FaultFacts, BoundAssumption DEF FoldInv
<1>2. CASE Fault
  BY <1>1, <1>2 DEF Excused
<1>3. CASE Excused(o)
  <2>1. TxsOf(o)' = TxsOf(o) /\ Records(mem)' = Records(mem)
    BY DEF TxsOf
  <2>2. budget.faults < MaxFaults => budget'.faults < MaxFaults
    BY <1>1
  <2> QED BY <1>3, <2>1, <2>2 DEF Excused
<1> QED BY <1>2, <1>3

\* The targets found in their before state, in the order of their cleanup.
LEMMA NotsFacts ==
    ASSUME RecoveryInv, NEW o \in Op, op[o].pc \in Recovering, ~walFailed,
           NEW nots, nots = {PathOf(tx) : tx \in {t \in TxsOf(o) : Class(t) = "not"}}
    PROVE  /\ nots \subseteq Path
           /\ \A p \in nots : wal[<<o, p>>] = "prepared" /\ Undisturbed(<<o, p>>)
<1>1. nots \subseteq Path
  BY TxFacts DEF TxsOf
<1>2. ASSUME NEW tx \in TxsOf(o), Class(tx) = "not"
      PROVE  wal[<<o, PathOf(tx)>>] = "prepared" /\ Undisturbed(<<o, PathOf(tx)>>)
  <2>1. tx = <<o, PathOf(tx)>>
    BY TxFacts DEF TxsOf
  <2>2. mem[tx] = "prepared" /\ Undisturbed(tx)
    BY <1>2, ClassFacts
  <2>3. mem = wal
    BY RecoverFacts DEF FoldInv
  <2> QED BY <2>1, <2>2, <2>3
<1> QED BY <1>1, <1>2

\* The judgement says what is so.
LEMMA JudgementClaim ==
    ASSUME RecoveryInv, NEW o \in Op, op[o].pc \in Recovering, TxsOf(o) # {}, ~walFailed,
           \A tx \in TxsOf(o) : Class(tx) # "ambiguous",
           NEW j, j = Judgement(o)
    PROVE  Claim(o, j)
<1>1. j # "Ambiguous"
  BY JudgementFacts
<1>2. j = "NotApplied" => \A tx \in TxsOf(o) : disk[PathOf(tx)].by = tx =>
                            plan[tx].before = plan[tx].after \/ Returned(tx)
  <2> SUFFICES ASSUME j = "NotApplied", NEW tx \in TxsOf(o), disk[PathOf(tx)].by = tx
               PROVE  plan[tx].before = plan[tx].after \/ Returned(tx)
    OBVIOUS
  <2>1. Class(tx) \in {"rolledBack", "not"}
    BY JudgementFacts, ClassFacts
  <2> QED BY <2>1, ClassFacts
<1>3. j = "Applied" =>
         \A tx \in TxsOf(o) : PathOf(tx) \in foreign \/ {disk[PathOf(tx)].by, diskDurable[PathOf(tx)].by} = {tx}
  BY JudgementFacts, ClassFacts
<1>4. j = "DurabilityFailed" /\ o \in started => \E tx \in TxsOf(o) : Ours(tx)
  BY JudgementFacts, ClassFacts
<1> QED BY <1>1, <1>2, <1>3, <1>4 DEF Claim

LEMMA InspectRec ==
    ASSUME RecoveryInv, NEW o \in Op, Inspect(o)
    PROVE  RecoveryInv'
<1>1. /\ op[o].pc = "dead" /\ Quiet /\ (Fault \/ NoFault) /\ WorkspaceInv' /\ TypeInv /\ OpInv(o) /\ FoldInv
      /\ UNCHANGED <<started, fenced, phase>>
      /\ \A q \in Op : op[q].pc \notin Inspecting
  BY InspectInv DEF Inspect, At, RecoveryInv, WorkspaceInv, Quiet, Inspecting
<1>2. op[o].pc \in Recovering /\ op[o].pc \in {"dead", "clean", "mark"}
  BY <1>1 DEF Recovering
<1>3. ASSUME NEW v \in Verdicts, Judged(o, v), Claim(o, v)' PROVE RecoveryInv'
  <2>1. OnlyMoves(o) /\ op'[o].pc = "judged"
    BY <1>1, <1>3, JudgedFacts
  <2>2. op'[o].pc # "done" /\ \A q \in Op : q # o => op'[q] = op[q]
    BY <2>1 DEF OnlyMoves
  <2>3. /\ Frame(o) /\ disk' = disk /\ plan' = plan /\ FoldInv' /\ PlacedInv(o)' /\ WalAdvances(o)
    BY <1>1, <1>2, <2>2, RecoverQuiet
  <2> QED BY <1>1, <1>2, <1>3, <2>3, JudgedRec
<1>4. CASE Judged(o, "NotManaged")
  <2>1. "NotManaged" \in Verdicts /\ Claim(o, "NotManaged")'
    BY DEF Verdicts, Claim
  <2> QED BY <1>3, <1>4, <2>1
<1>5. CASE Judged(o, "Ambiguous") /\ (Fault \/ walFailed \/ \E tx \in TxsOf(o) : Class(tx) = "ambiguous")
  <2>1. o \in started => Excused(o) \/ Fault
    <3>1. walFailed => Excused(o)
      BY <1>1 DEF FoldInv, Excused
    <3>2. ~walFailed /\ o \in started /\ (\E tx \in TxsOf(o) : Class(tx) = "ambiguous") => Excused(o)
      BY <1>2, ClassFacts
    <3> QED BY <1>5, <3>1, <3>2
  <2>2. o \in started => Excused(o)'
    BY <1>1, <2>1, ExcusedKept DEF Quiet, walVars, history
  <2>3. "Ambiguous" \in Verdicts /\ Claim(o, "Ambiguous")'
    BY <1>1, <2>2 DEF Verdicts, Claim
  <2> QED BY <1>3, <1>5, <2>3
<1> DEFINE nots == {PathOf(tx) : tx \in {t \in TxsOf(o) : Class(t) = "not"}}
<1>6. CASE /\ TxsOf(o) # {} /\ ~walFailed /\ \A tx \in TxsOf(o) : Class(tx) # "ambiguous"
           /\ op' = [op EXCEPT ![o].pc = "clean", ![o].rest = SetToSeq(nots), ![o].stop = Judgement(o)]
  <2>1. PICK S : S = nots
    OBVIOUS
  <2>2. /\ S \subseteq Path
        /\ \A p \in S : wal[<<o, p>>] = "prepared" /\ Undisturbed(<<o, p>>)
    BY <1>2, <1>6, <2>1, NotsFacts
  <2>3. PICK r \in Seq(Path) : r = SetToSeq(S) /\ IsInjective(r) /\ Range(r) \subseteq S
    BY <2>2, SetToSeqFacts
  <2>4. PICK j \in {"Applied", "DurabilityFailed", "NotApplied"} : j = Judgement(o)
    BY JudgementFacts
  <2> DEFINE x == [op[o] EXCEPT !.pc = "clean", !.rest = r, !.stop = j]
  <2>5. op' = [op EXCEPT ![o].pc = "clean", ![o].rest = r, ![o].stop = j]
    BY <1>6, <2>1, <2>3, <2>4
  <2>6. op' = [op EXCEPT ![o] = x]
    BY ONLY <2>5
  <2>7. "clean" \in Pcs /\ j \in Results /\ op[o] \in OpRecords
    BY <1>1 DEF Pcs, Recovering, Results, Receipts, TypeInv
  <2>8. /\ x.pc = "clean" /\ x.rest = r /\ x.kind = op[o].kind /\ x.val = op[o].val /\ x.req = op[o].req
        /\ x.stop = j /\ x \in OpRecords
    BY <2>7 DEF OpRecords
  <2> HIDE DEF x
  <2>9. OnlyMoves(o) /\ SameTask(o) /\ op'[o] = x
    BY <1>1, <2>6, <2>8, Becomes
  <2>10. /\ op'[o].pc = "clean" /\ op'[o].rest = r /\ op'[o].stop = j /\ op'[o].pc # "done"
         /\ op'[o].pc \in Inspecting /\ \A q \in Op : q # o => op'[q] = op[q]
    BY <2>8, <2>9 DEF OnlyMoves, Inspecting
  <2>11. /\ Frame(o) /\ disk' = disk /\ plan' = plan /\ wal' = wal /\ mem' = mem /\ FoldInv'
         /\ PlacedInv(o)' /\ WalAdvances(o)
    BY <1>1, <1>2, <2>10, RecoverQuiet
  <2>12. Claim(o, j)'
    <3>1. Claim(o, j) /\ j # "Ambiguous"
      BY <1>2, <1>6, <2>4, JudgementClaim
    <3> QED BY <1>1, <2>11, <3>1, ClaimKept DEF Frame
  <2>13. ClaimInv(o)'
    <3>1. Claim(o, op[o].stop)'
      BY <2>10, <2>12 DEF Claim
    <3>2. \A p \in Range(r) : Undisturbed(<<o, p>>)'
      BY <1>1, <2>2, <2>3, <2>11, UndisturbedKept, SpentKept, TxFacts DEF Frame
    <3> QED BY <2>10, <3>1, <3>2 DEF ClaimInv
  <2>14. ChildrenInv(o)'
    <3>1. ~Committing(o)'
      BY <2>10 DEF Committing, CommitPcs
    <3> QED BY <2>2, <2>3, <2>10, <2>11, <3>1 DEF ChildrenInv
  <2> QED BY <1>1, <1>2, <2>9, <2>10, <2>11, <2>13, <2>14, RecoverAdvances
<1>7. \/ Judged(o, "NotManaged")
      \/ Judged(o, "Ambiguous") /\ (Fault \/ walFailed \/ \E tx \in TxsOf(o) : Class(tx) = "ambiguous")
      \/ /\ TxsOf(o) # {} /\ ~walFailed /\ \A tx \in TxsOf(o) : Class(tx) # "ambiguous"
         /\ op' = [op EXCEPT ![o].pc = "clean", ![o].rest = SetToSeq(nots), ![o].stop = Judgement(o)]
  BY DEF Inspect
<1> QED BY <1>4, <1>5, <1>6, <1>7

\* The operation under cleanup, and the target it is at.
LEMMA CleanupFacts ==
    ASSUME RecoveryInv, NEW o \in Op, op[o].pc \in {"clean", "mark"}, op[o].rest # <<>>
    PROVE  /\ op[o].pc \in Recovering /\ op[o].pc \in {"dead", "clean", "mark"}
           /\ op[o].stop \in {"Applied", "DurabilityFailed", "NotApplied"} /\ Claim(o, op[o].stop)
           /\ \A q \in Op : q # o => op[q].pc \notin Inspecting
           /\ IsInjective(op[o].rest) /\ op[o].rest \in Seq(Path) /\ Range(op[o].rest) \subseteq Path
           /\ \A p \in Range(op[o].rest) : wal[<<o, p>>] = "prepared" /\ Undisturbed(<<o, p>>)
           /\ \E h \in Path : h = Head(op[o].rest) /\ h \in Range(op[o].rest) /\ Cur(o) = <<o, h>>
<1>1. /\ TypeInv /\ OpInv(o) /\ ChildrenInv(o) /\ ClaimInv(o) /\ OneInspector
  BY DEF RecoveryInv, WorkspaceInv
<1>2. op[o].pc \in Recovering /\ op[o].pc \in Inspecting /\ op[o].pc # "ack"
  BY DEF Recovering, Inspecting
<1>3. op[o].stop \in {"Applied", "DurabilityFailed", "NotApplied"} /\ Claim(o, op[o].stop)
  BY <1>1 DEF OpInv, ReportInv, ClaimInv
<1>4. op[o].rest \in Seq(Path) /\ Range(op[o].rest) \subseteq Path /\ IsInjective(op[o].rest)
  BY <1>1, RangeFacts DEF ChildrenInv
<1>5. \A p \in Range(op[o].rest) : wal[<<o, p>>] = "prepared" /\ Undisturbed(<<o, p>>)
  BY <1>1, <1>2 DEF ChildrenInv, ClaimInv
<1>6. \E h \in Path : h = Head(op[o].rest) /\ h \in Range(op[o].rest) /\ Cur(o) = <<o, h>>
  BY <1>4, HeadTail DEF Cur
<1>7. \A q \in Op : q # o => op[q].pc \notin Inspecting
  BY <1>1, <1>2 DEF OneInspector
<1> QED BY <1>2, <1>3, <1>4, <1>5, <1>6, <1>7

LEMMA CleanRec ==
    ASSUME RecoveryInv, NEW o \in Op, Clean(o)
    PROVE  RecoveryInv'
<1>1. /\ op[o].pc = "clean" /\ op[o].rest # <<>> /\ disk' = disk /\ WorkspaceInv' /\ TypeInv /\ FoldInv
      /\ UNCHANGED <<walVars, plan, started, fenced, phase, foreign>>
  BY CleanInv DEF Clean, At, RecoveryInv, WorkspaceInv, history
<1>2. /\ op[o].pc \in Recovering /\ op[o].pc \in {"dead", "clean", "mark"}
      /\ op[o].stop \in {"Applied", "DurabilityFailed", "NotApplied"} /\ Claim(o, op[o].stop)
      /\ \A q \in Op : q # o => op[q].pc \notin Inspecting
      /\ IsInjective(op[o].rest) /\ op[o].rest \in Seq(Path) /\ Range(op[o].rest) \subseteq Path
      /\ \A p \in Range(op[o].rest) : wal[<<o, p>>] = "prepared" /\ Undisturbed(<<o, p>>)
  BY <1>1, CleanupFacts
<1>3. PICK h \in Path : h \in Range(op[o].rest) /\ Cur(o) = <<o, h>> /\ PathOf(<<o, h>>) = h
  BY <1>1, CleanupFacts, TxFacts
<1> DEFINE c == <<o, h>>
<1>4. /\ temp' \in {temp, [temp EXCEPT ![c] = "none"]} /\ (Fault \/ NoFault)
      /\ DirSynced(h) \/ (diskDurable' = diskDurable /\ tempDurable' = tempDurable)
      /\ \/ Goes(o, "mark")
         \/ Judged(o, "Ambiguous") /\ (Fault \/ (temp[c] # "none" /\ ~Removable(c)))
  BY <1>3 DEF Clean
<1>5. OnlyMoves(o) /\ op'[o].pc # "done"
  <2>1. CASE Goes(o, "mark")
    BY <1>1, <2>1, GoesFacts DEF Pcs, Recovering
  <2>2. CASE Judged(o, "Ambiguous")
    BY <1>1, <2>2, JudgedFacts DEF Verdicts
  <2> QED BY <1>4, <2>1, <2>2
<1>6. /\ Frame(o)
      /\ \A p \in Path : p # h => temp'[<<o, p>>] = temp[<<o, p>>]
                                  /\ tempDurable'[<<o, p>>] = tempDurable[<<o, p>>]
      /\ temp'[c] \in {temp[c], "none"} /\ tempDurable'[c] \in {tempDurable[c], temp'[c], "none"}
  <2>1. \A q \in Op : q # o => op'[q] = op[q]
    BY <1>5 DEF OnlyMoves
  <2> DEFINE s == "none"
  <2>2. /\ temp' \in {temp, [temp EXCEPT ![<<o, h>>] = s]}
        /\ DirSynced(h) \/ (diskDurable' = diskDurable
                            /\ tempDurable' \in {tempDurable, [tempDurable EXCEPT ![<<o, h>>] = s]})
    BY <1>4
  <2>3. s = "none"
    OBVIOUS
  <2> HIDE DEF s
  <2> QED BY <1>1, <2>1, <2>2, <2>3, FilesFrame
<1>7. \A p \in Path : Settles(p) /\ TempsSettle(<<o, p>>)
  <2>1. \A p \in Path : Settles(p)
    BY <1>1, <1>6, FrameSettles
  <2>2. TempsSettle(<<o, h>>) /\ \A p \in Path : p # h => TempsSettle(<<o, p>>)
    BY <1>6 DEF TempsSettle
  <2> QED BY <2>1, <2>2
<1>8. wal' = wal /\ mem' = mem /\ FoldInv'
  BY <1>1, <1>4, FoldSame DEF walVars
<1>9. PlacedInv(o)'
  <2>1. \A p \in Path : <<o, p>> \in Tx /\ PathOf(<<o, p>>) = p
    BY TxFacts
  <2>2. PlacedInv(o) /\ (Unfinished(o)' => Unfinished(o))
    BY <1>1 DEF RecoveryInv, Unfinished
  <2> QED BY <1>1, <1>4, <1>7, <1>8, <2>1, <2>2, PlacedKept, SpentKept DEF PlacedInv
<1>10. WalAdvances(o)
  BY <1>8 DEF WalAdvances
<1>11. CASE Goes(o, "mark")
  <2>1. /\ op'[o].pc = "mark" /\ SameTask(o) /\ op'[o].rest = op[o].rest /\ op'[o].stop = op[o].stop
    BY <1>1, <1>11, GoesFacts DEF Pcs, Recovering
  <2>2. op'[o].pc \in Inspecting /\ ~Committing(o)'
    BY <2>1 DEF Inspecting, Committing, CommitPcs
  <2>3. ChildrenInv(o)'
    BY <1>2, <1>8, <2>1, <2>2 DEF ChildrenInv
  <2>4. PICK v : v = op[o].stop
    OBVIOUS
  <2>5. Claim(o, v)'
    BY <1>1, <1>2, <1>4, <1>6, <1>8, <2>4, ClaimKept DEF Frame
  <2>6. Claim(o, op[o].stop)'
    BY <2>1, <2>4, <2>5 DEF Claim
  <2>7. ClaimInv(o)'
    <3>1. \A p \in Range(op[o].rest) : Undisturbed(<<o, p>>)'
      BY <1>1, <1>2, <1>4, <1>6, UndisturbedKept, SpentKept, TxFacts DEF Frame
    <3> QED BY <2>1, <2>6, <3>1 DEF ClaimInv
  <2> QED BY <1>1, <1>2, <1>4, <1>6, <1>8, <1>9, <1>10, <2>1, <2>2, <2>3, <2>7, RecoverAdvances
<1>12. CASE Judged(o, "Ambiguous") /\ (Fault \/ (temp[c] # "none" /\ ~Removable(c)))
  <2>1. o \in started => Excused(o) \/ Fault
    <3>1. ASSUME o \in started, temp[c] # "none", temp[c] # "full" PROVE Excused(o)
      <4>1. Placed(c)
        BY <1>2, <1>3, <3>1, RecoverFacts
      <4> QED BY <1>3, <3>1, <4>1 DEF Placed, Excused
    <3> QED BY <1>12, <3>1 DEF Removable
  <2>2. o \in started => Excused(o)'
    BY <1>1, <1>4, <1>8, <2>1, ExcusedKept
  <2>3. "Ambiguous" \in Verdicts /\ Claim(o, "Ambiguous")'
    BY <1>1, <2>2 DEF Verdicts, Claim
  <2> QED BY <1>1, <1>2, <1>4, <1>6, <1>8, <1>9, <1>10, <1>12, <2>3, JudgedRec
<1> QED BY <1>4, <1>11, <1>12

\* The snapshot is in place, now and (a directory apart) after a power loss,
\* unless a foreign program has been there: the record of a rollback is true.
LEMMA MarkRec ==
    ASSUME RecoveryInv, NEW o \in Op, Mark(o)
    PROVE  RecoveryInv'
<1>1. /\ op[o].pc = "mark" /\ WorkspaceInv' /\ TypeInv /\ FoldInv /\ OpInv(o)
      /\ UNCHANGED <<fsVars, plan, started, fenced, phase, foreign>>
  BY MarkInv DEF Mark, At, RecoveryInv, WorkspaceInv, history
<1>2. op[o].rest # <<>>
  BY <1>1 DEF OpInv, ReportInv
<1>3. /\ op[o].pc \in Recovering /\ op[o].pc \in {"dead", "clean", "mark"}
      /\ op[o].stop \in {"Applied", "DurabilityFailed", "NotApplied"} /\ Claim(o, op[o].stop)
      /\ \A q \in Op : q # o => op[q].pc \notin Inspecting
      /\ IsInjective(op[o].rest) /\ op[o].rest \in Seq(Path) /\ Range(op[o].rest) \subseteq Path
      /\ \A p \in Range(op[o].rest) : wal[<<o, p>>] = "prepared" /\ Undisturbed(<<o, p>>)
  BY <1>1, <1>2, CleanupFacts
<1>4. PICK h \in Path : /\ h = Head(op[o].rest) /\ h \in Range(op[o].rest) /\ Cur(o) = <<o, h>>
                        /\ PathOf(<<o, h>>) = h /\ <<o, h>> \in Tx
  BY <1>1, <1>2, CleanupFacts, TxFacts
<1> DEFINE c == <<o, h>>
<1>5. /\ Appended(c, "rolledBack") \/ NotAppended(c, "rolledBack")
      /\ \/ op' = [op EXCEPT ![o].pc = "clean", ![o].rest = Tail(op[o].rest)]
         \/ Judged(o, "Ambiguous") /\ NotAppended(c, "rolledBack")
  BY <1>4 DEF Mark
<1>6. Writes(c, "rolledBack") /\ (Fault \/ NoFault)
  BY <1>1, <1>5, AppendWrites
<1>7. /\ FoldInv'
      /\ \A t \in Tx : t # c => wal'[t] = wal[t] /\ mem'[t] = mem[t]
      /\ wal'[c] \in {wal[c], "rolledBack"} /\ (mem'[c] = "none" => mem[c] = "none")
      /\ \A t \in Tx : wal[t] # "none" => wal'[t] # "none"
  <2>1. "rolledBack" \in TxStates /\ "rolledBack" # "none" /\ wal[c] = "prepared"
    BY <1>3, <1>4 DEF TxStates
  <2> QED BY <1>1, <1>4, <1>6, <2>1, FoldKept
<1>8. phase = "recovering" /\ mem[c] # "none"
  BY <1>3, <1>4, RecoverFacts
<1> DEFINE r == Tail(op[o].rest)
<1>9. /\ r \in Seq(Path) /\ IsInjective(r) /\ Range(r) = Range(op[o].rest) \ {h}
  BY <1>2, <1>3, <1>4, HeadTail
<1> HIDE DEF r
<1>10. /\ OnlyMoves(o) /\ SameTask(o)
       /\ \/ op'[o].pc = "clean" /\ op'[o].rest = r /\ op'[o].stop = op[o].stop
          \/ op'[o].pc = "judged"
  <2>1. CASE op' = [op EXCEPT ![o].pc = "clean", ![o].rest = Tail(op[o].rest)]
    <3>1. op' = [op EXCEPT ![o].pc = "clean", ![o].rest = r]
      BY <2>1 DEF r
    <3> DEFINE x == [op[o] EXCEPT !.pc = "clean", !.rest = r]
    <3>2. op' = [op EXCEPT ![o] = x]
      BY ONLY <3>1
    <3>3. "clean" \in Pcs /\ op[o] \in OpRecords
      BY <1>1 DEF Pcs, Recovering, TypeInv
    <3>4. /\ x.pc = "clean" /\ x.rest = r /\ x.kind = op[o].kind /\ x.val = op[o].val /\ x.req = op[o].req
          /\ x.stop = op[o].stop /\ x \in OpRecords
      BY <1>9, <3>3 DEF OpRecords
    <3> HIDE DEF x
    <3> QED BY <1>1, <3>2, <3>4, Becomes
  <2>2. CASE Judged(o, "Ambiguous")
    BY <1>1, <2>2, JudgedFacts DEF Verdicts
  <2> QED BY <1>5, <2>1, <2>2
<1>11. Frame(o) /\ disk' = disk /\ plan' = plan
  <2>1. \A q \in Op, p \in Path : q # o =>
           wal'[<<q, p>>] = wal[<<q, p>>] /\ mem'[<<q, p>>] = mem[<<q, p>>]
    BY <1>1, <1>6, WritesFrame
  <2> QED BY <1>1, <1>10, <2>1, QuietFrame DEF OnlyMoves, fsVars
<1>12. WalAdvances(o) /\ \A p \in Path : p # h => wal'[<<o, p>>] = wal[<<o, p>>]
  <2>1. \A p \in Path : p # h => wal'[<<o, p>>] = wal[<<o, p>>]
    BY <1>7, TxFacts
  <2>2. plan[c].after = "dir" => Absent(c) \/ Spent
    BY <1>3, <1>4 DEF Undisturbed
  <2>3. (wal[c] # "none" => wal'[c] # "none") /\ wal'[c] \in {wal[c], "rolledBack"}
    BY <1>4, <1>7
  <2> QED BY <2>1, <2>2, <2>3 DEF WalAdvances
<1>13. PlacedInv(o)'
  <2> SUFFICES ASSUME Unfinished(o)', NEW p \in Path, wal'[<<o, p>>] # "none" PROVE Placed(<<o, p>>)'
    BY DEF PlacedInv
  <2>1. o \in started
    BY <1>1 DEF Unfinished
  <2>2. <<o, p>> \in Tx /\ PathOf(<<o, p>>) = p /\ Settles(p) /\ TempsSettle(<<o, p>>)
    BY <1>1, TxFacts DEF Settles, TempsSettle, fsVars
  <2>3. CASE p # h
    <3>1. Placed(<<o, p>>) /\ wal'[<<o, p>>] = wal[<<o, p>>]
      BY <1>3, <1>12, <2>1, <2>3, RecoverFacts
    <3> QED BY <1>1, <1>6, <2>2, <3>1, PlacedKept, SpentKept
  <2>4. CASE p = h
    <3> DEFINE t == <<o, p>>
    <3>1. Placed(t) /\ Born(t) /\ wal[t] = "prepared" /\ PathOf(t) = p /\ wal'[t] \in {"prepared", "rolledBack"}
      BY <1>3, <1>4, <1>7, <2>1, <2>4, RecoverFacts
    <3>2. p \in foreign \/ disk[p].is = plan[t].before
      BY <1>3, <1>4, <2>4 DEF Undisturbed
    <3> HIDE DEF t
    <3>3. \/ p \in foreign
          \/ /\ disk[p].is = plan[t].before
             /\ diskDurable[p].is = plan[t].before \/ (diskDurable[p].is = "dir" /\ Spent)
      BY <3>1, <3>2 DEF Placed, Born, OddBoth, Odd
    <3>4. /\ disk' = disk /\ diskDurable' = diskDurable /\ temp' = temp /\ tempDurable' = tempDurable
          /\ (Spent => Spent') /\ plan' = plan /\ foreign' = foreign
      BY <1>1, <1>6, SpentKept DEF fsVars
    <3>5. Placed(t)'
      BY <3>1, <3>3, <3>4 DEF Placed, OddBoth, Odd
    <3> QED BY <3>5 DEF t
  <2> QED BY <2>3, <2>4
<1>14. \A tx \in Tx : mem'[tx] = "none" <=> mem[tx] = "none"
  BY <1>7, <1>8
<1>15. CASE op'[o].pc = "clean" /\ op'[o].rest = r /\ op'[o].stop = op[o].stop
  <2>1. op'[o].pc \in Inspecting /\ ~Committing(o)'
    BY <1>15 DEF Inspecting, Committing, CommitPcs
  <2>2. ChildrenInv(o)'
    <3>1. \A p \in Range(r) : wal'[<<o, p>>] = "prepared"
      BY <1>3, <1>9, <1>12
    <3> QED BY <1>9, <1>15, <2>1, <3>1 DEF ChildrenInv
  <2>3. PICK v : v = op[o].stop
    OBVIOUS
  <2>4. Claim(o, v)'
    BY <1>1, <1>3, <1>6, <1>11, <1>14, <2>3, ClaimKept DEF Frame
  <2>5. Claim(o, op[o].stop)'
    BY <1>15, <2>3, <2>4 DEF Claim
  <2>6. ClaimInv(o)'
    <3>1. \A p \in Range(r) : Undisturbed(<<o, p>>)'
      BY <1>1, <1>3, <1>6, <1>9, <1>11, UndisturbedKept, SpentKept, TxFacts DEF Frame
    <3> QED BY <1>15, <2>5, <3>1 DEF ClaimInv
  <2> QED BY <1>1, <1>3, <1>6, <1>7, <1>10, <1>11, <1>12, <1>13, <2>1, <2>2, <2>6, RecoverAdvances
<1>16. CASE Judged(o, "Ambiguous") /\ NotAppended(c, "rolledBack")
  <2>1. (Excused(o) \/ Fault) /\ mem' = mem
    <3>1. CASE AppendRefused /\ NoFault /\ UNCHANGED walVars
      BY <1>1, <3>1 DEF AppendRefused, FoldInv, Excused, walVars
    <3>2. CASE Fault /\ UNCHANGED mem
      BY <3>2
    <3> QED BY <1>16, <3>1, <3>2 DEF NotAppended
  <2>2. Excused(o)'
    BY <1>1, <1>6, <2>1, ExcusedKept
  <2>3. "Ambiguous" \in Verdicts /\ Claim(o, "Ambiguous")'
    BY <2>2 DEF Verdicts, Claim
  <2> QED BY <1>1, <1>3, <1>6, <1>7, <1>11, <1>12, <1>13, <1>16, <2>3, JudgedRec
<1>17. CASE op' = [op EXCEPT ![o].pc = "clean", ![o].rest = Tail(op[o].rest)]
  <2>1. op'[o].pc # "judged"
    <3>1. op[o] \in OpRecords /\ op \in [Op -> OpRecords]
      BY <1>1 DEF TypeInv
    <3> DEFINE x == [op[o] EXCEPT !.pc = "clean", !.rest = Tail(op[o].rest)]
    <3>2. op' = [op EXCEPT ![o] = x]
      BY ONLY <1>17
    <3>3. x.pc = "clean"
      BY <3>1 DEF OpRecords
    <3> HIDE DEF x
    <3> QED BY <3>1, <3>2, <3>3
  <2> QED BY <1>10, <1>15, <2>1
<1> QED BY <1>5, <1>16, <1>17

LEMMA CloseRec ==
    ASSUME RecoveryInv, NEW o \in Op, Close(o)
    PROVE  RecoveryInv'
<1>1. /\ op[o].pc = "judged" /\ Quiet /\ (Fault \/ NoFault) /\ WorkspaceInv' /\ TypeInv
      /\ UNCHANGED <<started, phase>> /\ Claim(o, verdict[o])
  BY CloseInv DEF Close, At, RecoveryInv, WorkspaceInv, Quiet, ClaimInv
<1>2. op[o].pc \in Recovering
  BY <1>1 DEF Recovering
<1>3. CASE Goes(o, "lost") /\ fenced' = TRUE
  <2>1. OnlyMoves(o) /\ SameTask(o) /\ op'[o].pc = "lost"
    BY <1>1, <1>3, GoesFacts DEF Pcs
  <2> QED BY <1>1, <1>3, <2>1, CoreAdvances
<1>4. CASE /\ verdict[o] \in {"Applied", "DurabilityFailed", "NotApplied"}
           /\ fenced' = (fenced \/ NeedsRecovery(verdict[o]))
           /\ op' = [op EXCEPT ![o].pc = "done", ![o].stop = verdict[o]]
  <2>1. PICK v \in {"Applied", "DurabilityFailed", "NotApplied"} : v = verdict[o]
    BY <1>4
  <2> DEFINE x == [op[o] EXCEPT !.pc = "done", !.stop = v]
  <2>2. op' = [op EXCEPT ![o].pc = "done", ![o].stop = v]
    BY <1>4, <2>1
  <2>3. op' = [op EXCEPT ![o] = x]
    BY ONLY <2>2
  <2>4. "done" \in Pcs /\ v \in Results /\ op[o] \in OpRecords
    BY <1>1 DEF Pcs, Results, Receipts, TypeInv
  <2>5. /\ x.pc = "done" /\ x.stop = v /\ x.kind = op[o].kind /\ x.val = op[o].val /\ x.req = op[o].req
        /\ x \in OpRecords
    BY <2>4 DEF OpRecords
  <2> HIDE DEF x
  <2>6. OnlyMoves(o) /\ SameTask(o) /\ op'[o].pc = "done" /\ op'[o].stop = v
    BY <1>1, <2>3, <2>5, Becomes
  <2>7. (fenced => fenced') /\ (NeedsRecovery(v) => fenced')
    BY <1>4, <2>1
  <2>8. Leaves(o)
    <3>1. CASE v = "DurabilityFailed"
      BY <2>6, <3>1 DEF Leaves, NeedsRecovery
    <3>2. CASE v \in {"Applied", "NotApplied"}
      <4>1. disk' = disk /\ diskDurable' = diskDurable
        BY <1>1 DEF Quiet, fsVars
      <4>2. ASSUME NEW p \in Path, disk[p].by = <<o, p>>
            PROVE  p \in foreign \/ disk[p].is = diskDurable[p].is \/ Odd(diskDurable[p])
        <5> DEFINE t == <<o, p>>
        <5>1. t \in Tx /\ PathOf(t) = p /\ OpOf(t) = o /\ Born(t) /\ (mem[t] = "none" <=> wal[t] = "none")
          BY <1>2, RecoverFacts
        <5>2. disk[p].by = t
          BY <4>2
        <5>3. o \in started /\ wal[t] # "none" => Placed(t)
          BY <1>2, RecoverFacts
        <5> HIDE DEF t
        <5>4. Placed(t) /\ t \in TxsOf(o)
          BY <5>1, <5>2, <5>3 DEF Born, Absent, TxsOf
        <5>5. \/ v = "NotApplied" /\ plan[t].before = plan[t].after
              \/ p \in foreign \/ Odd(diskDurable[p])
              \/ v = "Applied" /\ diskDurable[p].by = t
          BY <1>1, <2>1, <3>2, <5>1, <5>2, <5>4 DEF Claim, Returned
        <5> QED BY <5>1, <5>2, <5>4, <5>5 DEF Born, Placed, OddBoth, Odd
      <4> QED BY <4>1, <4>2 DEF Leaves
    <3> QED BY <3>1, <3>2
  <2> QED BY <1>1, <2>6, <2>7, <2>8, CoreAdvances
<1> QED BY <1>3, <1>4 DEF Close

-----------------------------------------------------------------------------
(* Steps of nobody in particular *)

LEMMA FinishStartupRec ==
    ASSUME RecoveryInv, FinishStartup
    PROVE  RecoveryInv'
<1>1. /\ WorkspaceInv' /\ Quiet /\ op' = op /\ budget' = budget /\ phase' = "up"
      /\ UNCHANGED <<started, verdict>> /\ \A o \in Op : op[o].pc \in {"idle", "done", "lost"}
      /\ fenced' = (fenced \/ \E o \in Op : At(o, "done") /\ NeedsRecovery(op[o].stop))
  BY FinishStartupInv DEF FinishStartup, RecoveryInv, Quiet
<1>2. /\ UNCHANGED <<disk, diskDurable, temp, tempDurable>> /\ wal' = wal /\ mem' = mem
      /\ walFailed' = walFailed /\ plan' = plan /\ foreign' = foreign
  BY <1>1 DEF Quiet, fsVars, walVars, history
<1>3. FoldInv' /\ (Spent' <=> Spent)
  BY <1>1, <1>2 DEF RecoveryInv, FoldInv, Spent
<1>4. OneUnfinished' /\ OneInspector'
  BY <1>1 DEF RecoveryInv, OneUnfinished, OneInspector, Unfinished
<1>5. SyncedInv'
  BY <1>1, <1>2, <1>3 DEF RecoveryInv, SyncedInv, Unfinished, Odd
<1>6. \A tx \in Tx : Born(tx)'
  BY <1>1, <1>2, <1>3 DEF RecoveryInv, Born, DirBorn, DirPlanned, Absent
<1>7. ASSUME NEW o \in Op 
      PROVE  CoreInv(o)' /\ SpentInv(o)' /\ ChildrenInv(o)' /\ CompleteInv(o)' /\ PlacedInv(o)' /\ ClaimInv(o)'
  <2>1. /\ op'[o].pc \notin CommitPcs \cup Undoing \cup {"settle", "clean", "mark", "judged", "review", "prepared"}
        /\ op'[o].pc \notin Recovering \cup Preparing /\ op'[o].pc \notin Working
    BY <1>1 DEF CommitPcs, Undoing, Recovering, Preparing, Working
  <2>2. ~Committing(o)' /\ ~Committing(o)
    BY <1>1, <2>1 DEF Committing, Undoing
  <2>3. SpentInv(o)' /\ ChildrenInv(o)' /\ CompleteInv(o)' /\ ClaimInv(o)'
    BY <2>1, <2>2 DEF SpentInv, ChildrenInv, CompleteInv, ClaimInv, CommitPcs
  <2>4. CoreInv(o)
    BY DEF RecoveryInv
  <2>5. phase' = "up" /\ op'[o].pc = "done" /\ NeedsRecovery(op'[o].stop) => fenced'
    BY <1>1 DEF At
  <2>6. CoreInv(o)'
    BY <1>1, <2>1, <2>2, <2>4, <2>5 DEF CoreInv, DirFits, IsDir
  <2>7. PlacedInv(o) /\ \A p \in Path : <<o, p>> \in Tx /\ Settles(p) /\ TempsSettle(<<o, p>>) /\ PathOf(<<o, p>>) = p
    BY <1>2, TxFacts DEF RecoveryInv, Settles, TempsSettle
  <2>8. PlacedInv(o)'
    BY <1>1, <1>2, <1>3, <2>7, PlacedKept DEF PlacedInv, Unfinished
  <2> QED BY <2>3, <2>6, <2>8
<1> QED BY <1>1, <1>3, <1>4, <1>5, <1>6, <1>7 DEF RecoveryInv

\* A death or a power loss settles every path.
LEMMA CrashSettles ==
    ASSUME TypeInv, Crash
    PROVE  (\A p \in Path : Settles(p)) /\ \A tx \in Tx : TempsSettle(tx)
<1>1. CASE UNCHANGED fsVars
  BY <1>1 DEF fsVars, Settles, TempsSettle
<1>2. CASE /\ \E R \in SUBSET Path :
                 /\ disk' = [x \in Path |-> IF x \in R THEN diskDurable[x] ELSE disk[x]]
                 /\ temp' = [t \in Tx |-> IF PathOf(t) \in R THEN tempDurable[t] ELSE temp[t]]
           /\ diskDurable' = disk' /\ tempDurable' = temp'
  <2>1. \A p \in Path : disk'[p] \in {disk[p], diskDurable[p]}
    BY <1>2
  <2>2. \A tx \in Tx : temp'[tx] \in {temp[tx], tempDurable[tx]}
    BY <1>2
  <2> QED BY <1>2, <2>1, <2>2 DEF Settles, TempsSettle
<1> QED BY <1>1, <1>2 DEF Crash

LEMMA CrashRec ==
    ASSUME RecoveryInv, Crash
    PROVE  RecoveryInv'
<1>1. /\ TypeInv /\ WorkspaceInv' /\ mem' = wal /\ wal' = wal /\ walFailed' = FALSE /\ plan' = plan
      /\ op' = [o \in Op |-> IF op[o].pc \in {"idle", "done"} THEN op[o] ELSE [Idle EXCEPT !.pc = "dead"]]
      /\ phase' = "recovering" /\ fenced' = FALSE /\ started' = started /\ foreign' = foreign
  BY CrashInv DEF RecoveryInv, WorkspaceInv, Crash, history
<1>2. (\A p \in Path : Settles(p)) /\ \A tx \in Tx : TempsSettle(tx)
  BY <1>1, CrashSettles
<1> DEFINE x == [Idle EXCEPT !.pc = "dead"]
<1>3. x.pc = "dead" /\ x.kind = "patch"
  BY DEF Idle
<1> HIDE DEF x
<1>4. \A q \in Op : \/ op[q].pc \in {"idle", "done"} /\ op'[q] = op[q]
                    \/ op[q].pc \notin {"idle", "done"} /\ op'[q] = x
  BY <1>1 DEF x
<1>5. \A q \in Op : /\ op'[q].pc \in {"idle", "done", "dead"} /\ (op'[q].pc = "done" <=> op[q].pc = "done")
                    /\ Unfinished(q)' <=> Unfinished(q)
  BY <1>1, <1>3, <1>4 DEF Unfinished
<1>6. FoldInv' /\ (Spent' <=> Spent)
  <2>1. budget'.faults = budget.faults
    <3> DEFINE b == budget
    <3>1. b \in [faults : Nat, crashes : Nat, foreign : Nat] /\ budget' = [b EXCEPT !.crashes = b.crashes - 1]
      BY <1>1 DEF TypeInv, Crash
    <3> HIDE DEF b
    <3>2. budget'.faults = b.faults
      BY <3>1
    <3> QED BY <3>2 DEF b
  <2> QED BY <1>1, <2>1 DEF RecoveryInv, FoldInv, Spent
<1>7. OneUnfinished' /\ OneInspector'
  BY <1>5 DEF RecoveryInv, OneUnfinished, OneInspector, Inspecting
<1>8. SyncedInv'
  <2> SUFFICES ASSUME NEW p \in Path
               PROVE  \/ p \in foreign'
                      \/ disk'[p].is = diskDurable'[p].is
                      \/ diskDurable'[p].is = "dir" /\ Spent
                      \/ \E o \in Op : Unfinished(o)' /\ disk'[p].by = <<o, p>>
                      \/ \E o \in Op : op'[o].pc = "done" /\ NeedsRecovery(op'[o].stop)
    BY <1>6 DEF SyncedInv, Odd
  <2>1. CASE disk'[p] = disk[p] /\ diskDurable'[p] \in {diskDurable[p], disk[p]}
    <3>1. \A o \in Op : op[o].pc = "done" => op'[o] = op[o]
      BY <1>4
    <3> QED BY <1>1, <1>5, <2>1, <3>1 DEF RecoveryInv, SyncedInv, Odd
  <2>2. CASE disk'[p] = diskDurable[p] /\ diskDurable'[p] = diskDurable[p]
    BY <2>2
  <2> QED BY <1>2, <2>1, <2>2 DEF Settles
<1>9. \A tx \in Tx : Born(tx)'
  BY <1>1, <1>2, <1>6, BornKept, TxFacts DEF RecoveryInv
<1>10. ASSUME NEW o \in Op 
       PROVE  CoreInv(o)' /\ SpentInv(o)' /\ ChildrenInv(o)' /\ CompleteInv(o)' /\ PlacedInv(o)' /\ ClaimInv(o)'
  <2>1. CoreInv(o) /\ PlacedInv(o)
    BY DEF RecoveryInv
  <2>2. ~Committing(o)'
    BY <1>5 DEF Committing, CommitPcs
  <2>3. SpentInv(o)' /\ ChildrenInv(o)' /\ CompleteInv(o)' /\ ClaimInv(o)'
    BY <1>5, <2>2 DEF SpentInv, ChildrenInv, CompleteInv, ClaimInv, Preparing
  <2>4. op[o].pc = "idle" => o \notin started
    BY <2>1 DEF CoreInv, Committing, CommitPcs, Resting, Recovering
  <2>5. DirFits(o)'
    <3>1. op'[o].pc \notin Working
      BY <1>5 DEF Working, Preparing, CommitPcs, Undoing
    <3> QED BY <1>3, <1>4, <2>1, <3>1 DEF CoreInv, DirFits, IsDir
  <2>6. op'[o].pc \in {"done", "dead"} => op'[o].pc \in Resting
    BY DEF Resting, Recovering
  <2>7. op'[o].pc = "idle" => op[o].pc = "idle"
    BY <1>3, <1>4
  <2>8. CoreInv(o)'
    BY <1>1, <1>5, <2>2, <2>4, <2>5, <2>6, <2>7 DEF CoreInv
  <2>9. PlacedInv(o)'
    BY <1>1, <1>2, <1>5, <1>6, <2>1, PlacedKept, TxFacts DEF PlacedInv
  <2> QED BY <2>3, <2>8, <2>9
<1> QED BY <1>1, <1>6, <1>7, <1>8, <1>9, <1>10 DEF RecoveryInv

\* What a foreign write does to a path, and to a staging file.
LEMMA ForeignFacts ==
    ASSUME TypeInv, ForeignWrite
    PROVE  /\ foreign \subseteq foreign' /\ foreign' # {} /\ budget'.faults = budget.faults
           /\ \A p \in Path : \/ disk'[p] = disk[p] /\ diskDurable'[p] = diskDurable[p]
                              \/ p \in foreign' /\ disk'[p].by = NoTx /\ diskDurable'[p].by = NoTx
           /\ \A tx \in Tx : \/ PathOf(tx) \in foreign'
                             \/ temp'[tx] = temp[tx] /\ tempDurable'[tx] = tempDurable[tx]
<1>0. /\ disk \in [Path -> Entries] /\ diskDurable \in [Path -> Entries]
      /\ temp \in [Tx -> TempStates] /\ tempDurable \in [Tx -> TempStates]
  BY DEF TypeInv
<1>1. budget'.faults = budget.faults
  <2> DEFINE b == budget
  <2>1. b \in [faults : Nat, crashes : Nat, foreign : Nat] /\ budget' = [b EXCEPT !.foreign = b.foreign - 1]
    BY DEF TypeInv, ForeignWrite
  <2> HIDE DEF b
  <2>2. budget'.faults = b.faults
    BY <2>1
  <2> QED BY <2>2 DEF b
<1> DEFINE Outcomes ==
              /\ foreign \subseteq foreign' /\ foreign' # {}
              /\ \A p \in Path : \/ disk'[p] = disk[p] /\ diskDurable'[p] = diskDurable[p]
                                 \/ p \in foreign' /\ disk'[p].by = NoTx /\ diskDurable'[p].by = NoTx
              /\ \A tx \in Tx : \/ PathOf(tx) \in foreign'
                                \/ temp'[tx] = temp[tx] /\ tempDurable'[tx] = tempDurable[tx]
<1>2. ASSUME NEW r \in Path, NEW e, disk' = [disk EXCEPT ![r] = Entry(e, NoTx)], temp' = temp,
             DirSynced(r), foreign' = foreign \cup {r}
      PROVE  Outcomes
  <2>1. Entry(e, NoTx).by = NoTx
    BY DEF Entry
  <2>2. /\ disk'[r] = Entry(e, NoTx) /\ diskDurable'[r] = disk'[r]
        /\ \A p \in Path : p # r => disk'[p] = disk[p] /\ diskDurable'[p] = diskDurable[p]
    BY <1>0, <1>2 DEF DirSynced
  <2>3. \A tx \in Tx : PathOf(tx) # r => tempDurable'[tx] = tempDurable[tx]
    BY <1>0, <1>2 DEF DirSynced
  <2> QED BY <1>2, <2>1, <2>2, <2>3
<1>3. ASSUME NEW t \in Tx, temp' = [temp EXCEPT ![t] = "partial"],
             tempDurable' = [tempDurable EXCEPT ![t] = "partial"],
             foreign' = foreign \cup {PathOf(t)}, UNCHANGED <<disk, diskDurable>>
      PROVE  Outcomes
  <2>1. \A tx \in Tx : tx # t => temp'[tx] = temp[tx] /\ tempDurable'[tx] = tempDurable[tx]
    BY <1>0, <1>3
  <2> QED BY <1>3, <2>1
<1>4. Outcomes
  BY <1>2, <1>3 DEF ForeignWrite
<1> QED BY <1>1, <1>4

LEMMA ForeignWriteRec ==
    ASSUME RecoveryInv, ForeignWrite
    PROVE  RecoveryInv'
<1>1. /\ TypeInv /\ WorkspaceInv' /\ wal' = wal /\ mem' = mem /\ walFailed' = walFailed /\ plan' = plan
      /\ op' = op /\ UNCHANGED <<started, fenced, phase, verdict>>
  BY ForeignWriteInv DEF RecoveryInv, WorkspaceInv, ForeignWrite, walVars, coreVars
<1>2. /\ foreign \subseteq foreign' /\ foreign' # {} /\ budget'.faults = budget.faults
      /\ \A p \in Path : \/ disk'[p] = disk[p] /\ diskDurable'[p] = diskDurable[p]
                         \/ p \in foreign' /\ disk'[p].by = NoTx /\ diskDurable'[p].by = NoTx
      /\ \A tx \in Tx : \/ PathOf(tx) \in foreign'
                        \/ temp'[tx] = temp[tx] /\ tempDurable'[tx] = tempDurable[tx]
  BY <1>1, ForeignFacts
<1>3. FoldInv' /\ (Spent' <=> Spent)
  BY <1>1, <1>2 DEF RecoveryInv, FoldInv, Spent
<1>4. OneUnfinished' /\ OneInspector'
  BY <1>1 DEF RecoveryInv, OneUnfinished, OneInspector, Unfinished
<1>5. SyncedInv'
  BY <1>1, <1>2, <1>3 DEF RecoveryInv, SyncedInv, Unfinished, Odd
<1>6. ASSUME NEW tx \in Tx PROVE Born(tx)'
  <2>1. PathOf(tx) \in Path /\ tx # NoTx /\ Born(tx)
    BY TxFacts DEF RecoveryInv
  <2>2. \/ Settles(PathOf(tx))
        \/ disk'[PathOf(tx)].by # tx /\ diskDurable'[PathOf(tx)].by # tx
    BY <1>2, <2>1 DEF Settles
  <2> QED BY <1>1, <1>3, <2>1, <2>2, BornKept
<1>7. ASSUME NEW o \in Op 
      PROVE  CoreInv(o)' /\ SpentInv(o)' /\ ChildrenInv(o)' /\ CompleteInv(o)' /\ PlacedInv(o)' /\ ClaimInv(o)'
  <2>1. CoreInv(o) /\ SpentInv(o) /\ ChildrenInv(o) /\ CompleteInv(o) /\ PlacedInv(o) /\ ClaimInv(o)
    BY DEF RecoveryInv
  <2>2. CoreInv(o)'
    BY <1>1, <2>1 DEF CoreInv, Committing, DirFits, IsDir
  <2>3. ChildrenInv(o)'
    BY <1>1, <2>1 DEF ChildrenInv, Committing
  <2>4. CompleteInv(o)'
    <3>1. \A tx \in Tx : Complete(tx) => Complete(tx)'
      BY <1>2 DEF Complete
    <3>2. Range(op[o].staged) \subseteq Path /\ \A p \in Path : <<o, p>> \in Tx
      BY <1>1, RangeFacts, TxFacts
    <3>3. op[o].pc = "review" => Cur(o) \in Tx
      <4>1. op[o].pc = "review" => op[o].pc \in Preparing
        BY DEF Preparing
      <4>2. op[o].pc = "review" => \E p \in Path : Cur(o) = <<o, p>>
        BY <4>1, PreparingFacts DEF RecoveryInv
      <4> QED BY <3>2, <4>2
    <3>4. Cur(o)' = Cur(o)
      BY <1>1 DEF Cur
    <3> QED BY <1>1, <2>1, <3>1, <3>2, <3>3, <3>4 DEF CompleteInv
  <2>5. PlacedInv(o)'
    <3>1. ASSUME NEW p \in Path, Placed(<<o, p>>) PROVE Placed(<<o, p>>)'
      <4> DEFINE t == <<o, p>>
      <4>1. t \in Tx /\ PathOf(t) = p /\ Placed(t)
        BY <3>1, TxFacts
      <4> HIDE DEF t
      <4>2. p \in foreign' \/ (Settles(p) /\ TempsSettle(t))
        BY <1>2, <4>1 DEF Settles, TempsSettle
      <4> QED BY <1>1, <1>2, <1>3, <4>1, <4>2, PlacedKept DEF t
    <3> QED BY <1>1, <2>1, <3>1 DEF PlacedInv, Unfinished
  <2>6. ClaimInv(o)'
    <3>1. ASSUME NEW v, Claim(o, v) PROVE Claim(o, v)'
      <4>1. TxsOf(o)' = TxsOf(o)
        BY <1>1 DEF TxsOf
      <4>2. \A tx \in TxsOf(o) : /\ PathOf(tx) \in Path /\ tx # NoTx
                                 /\ disk'[PathOf(tx)].by = tx => disk[PathOf(tx)].by = tx
                                 /\ \/ PathOf(tx) \in foreign'
                                    \/ /\ PathOf(tx) \notin foreign /\ disk'[PathOf(tx)] = disk[PathOf(tx)]
                                       /\ diskDurable'[PathOf(tx)] = diskDurable[PathOf(tx)]
        BY <1>2, TxFacts DEF TxsOf
      <4>3. v = "NotApplied" =>
               \A tx \in TxsOf(o)' : disk'[PathOf(tx)].by = tx => plan'[tx].before = plan'[tx].after \/ Returned(tx)'
        <5>1. \A tx \in TxsOf(o) : Returned(tx) => Returned(tx)'
          BY <1>1, <1>3, <4>2 DEF Returned, Odd
        <5> QED BY <1>1, <3>1, <4>1, <4>2, <5>1 DEF Claim
      <4>4. v = "Applied" =>
               \A tx \in TxsOf(o)' : PathOf(tx) \in foreign' \/ {disk'[PathOf(tx)].by, diskDurable'[PathOf(tx)].by} = {tx}
        BY <1>1, <3>1, <4>1, <4>2 DEF Claim
      <4>5. v = "DurabilityFailed" /\ o \in started' => \E tx \in TxsOf(o)' : Ours(tx)'
        BY <1>1, <3>1, <4>1, <4>2 DEF Claim, Ours
      <4>6. Excused(o)'
        BY <1>2 DEF Excused
      <4> QED BY <4>3, <4>4, <4>5, <4>6 DEF Claim
    <3>2. PICK v, w : v = op[o].stop /\ w = verdict[o]
      OBVIOUS
    <3>3. (Claim(o, v) => Claim(o, v)') /\ (Claim(o, w) => Claim(o, w)')
      BY <3>1
    <3>4. (Claim(o, op[o].stop) => Claim(o, op[o].stop)') /\ (Claim(o, verdict[o]) => Claim(o, verdict[o])')
      <4>1. (Claim(o, v)' <=> Claim(o, op[o].stop)') /\ (Claim(o, w)' <=> Claim(o, verdict[o])')
        BY <1>1, <3>2 DEF Claim
      <4> QED BY <3>2, <3>3, <4>1
    <3>5. Range(op[o].rest) \subseteq Path
      BY <1>1, RangeFacts
    <3>6. ASSUME NEW p \in Path, Undisturbed(<<o, p>>) PROVE Undisturbed(<<o, p>>)'
      <4> DEFINE t == <<o, p>>
      <4>1. t \in Tx /\ PathOf(t) = p /\ t # NoTx /\ Undisturbed(t)
        BY <3>6, TxFacts
      <4> HIDE DEF t
      <4>2. Undisturbed(t)'
        BY <1>1, <1>2, <1>3, <4>1 DEF Undisturbed, Absent
      <4> QED BY <4>2 DEF t
    <3> QED BY <1>1, <2>1, <3>4, <3>5, <3>6 DEF ClaimInv
  <2>7. SpentInv(o)'
    <3> SUFFICES ASSUME op[o].pc \in {"uncreate", "removed"} PROVE SpentInv(o)'
      BY <1>1 DEF SpentInv
    <3>1. AtChild(o) /\ WorkspaceInv
      BY DEF AtChild, CommitPcs, RecoveryInv
    <3>2. PICK h \in Path : Cur(o) = <<o, h>>
      BY <3>1, ChildFacts
    <3>3. PathOf(Cur(o)) = h /\ Cur(o) # NoTx /\ Cur(o)' = Cur(o)
      BY <1>1, <3>2, TxFacts DEF Cur
    <3>4. StillOurs(o)' => StillOurs(o)
      <4>1. Entry(plan[Cur(o)].after, Cur(o)).by = Cur(o)
        BY DEF Entry
      <4> QED BY <1>1, <1>2, <3>3, <4>1 DEF StillOurs, PathOf
    <3> QED BY <1>1, <1>3, <2>1, <3>4 DEF SpentInv
  <2> QED BY <2>2, <2>3, <2>4, <2>5, <2>6, <2>7
<1> QED BY <1>1, <1>3, <1>4, <1>5, <1>6, <1>7 DEF RecoveryInv

-----------------------------------------------------------------------------
(* The invariant is inductive *)

LEMMA InitRec == Init => RecoveryInv
<1> SUFFICES ASSUME Init PROVE RecoveryInv
  OBVIOUS
<1>1. /\ WorkspaceInv /\ TypeInv /\ diskDurable = disk /\ started = {} /\ phase = "up" /\ ~walFailed
      /\ \A o \in Op : op[o] = Idle /\ op[o].pc = "idle" /\ op[o].kind = "patch"
      /\ wal = [tx \in Tx |-> "none"] /\ mem = wal
      /\ plan = [tx \in Tx |-> [before |-> "missing", after |-> "missing"]]
  <2>1. WorkspaceInv
    BY InitInv
  <2> QED BY <2>1, IdleFacts DEF Init, WorkspaceInv
<1>2. FoldInv
  <2>1. budget.faults = MaxFaults /\ MaxFaults \in Nat
    BY BoundAssumption DEF Init
  <2> QED BY <1>1, <2>1 DEF FoldInv
<1>3. OneUnfinished /\ OneInspector /\ SyncedInv
  BY <1>1 DEF OneUnfinished, Unfinished, OneInspector, Inspecting, SyncedInv
<1>4. ASSUME NEW tx \in Tx PROVE Born(tx)
  <2>1. PICK o \in Op, p \in Path : tx = <<o, p>>
    BY TxFacts
  <2>2. Fresh(<<o, p>>)
    BY <1>1 DEF WorkspaceInv, OpInv, FreshInv
  <2>3. plan[tx].after = "missing" /\ wal[tx] = "none"
    BY <1>1
  <2> QED BY <2>1, <2>2, <2>3 DEF Born, DirBorn, DirPlanned, Fresh, Absent
<1>5. ASSUME NEW o \in Op PROVE CoreInv(o) /\ SpentInv(o) /\ ChildrenInv(o) /\ CompleteInv(o) /\ PlacedInv(o) /\ ClaimInv(o)
  <2>1. ~Committing(o)
    BY <1>1 DEF Committing, CommitPcs
  <2>2. CoreInv(o) /\ SpentInv(o)
    BY <1>1, <2>1 DEF CoreInv, SpentInv, DirFits, IsDir, Recovering
  <2>3. ChildrenInv(o) /\ CompleteInv(o) /\ PlacedInv(o) /\ ClaimInv(o)
    BY <1>1, <2>1 DEF ChildrenInv, CompleteInv, PlacedInv, Unfinished, ClaimInv, Preparing
  <2> QED BY <2>2, <2>3
<1> QED BY <1>1, <1>2, <1>3, <1>4, <1>5 DEF RecoveryInv

LEMMA StutterRec ==
    ASSUME RecoveryInv, UNCHANGED vars
    PROVE  RecoveryInv'
<1>1. /\ WorkspaceInv' /\ UNCHANGED <<disk, diskDurable, temp, tempDurable>> /\ wal' = wal /\ mem' = mem
      /\ walFailed' = walFailed /\ plan' = plan /\ op' = op /\ budget' = budget /\ foreign' = foreign
      /\ UNCHANGED <<started, fenced, phase, verdict>>
  BY StutterInv DEF RecoveryInv, vars, fsVars, walVars, coreVars, history
<1>2. FoldInv' /\ OneUnfinished' /\ OneInspector' /\ SyncedInv' /\ \A tx \in Tx : Born(tx)'
  BY <1>1 DEF RecoveryInv, FoldInv, OneUnfinished, OneInspector, SyncedInv, Unfinished,
     Born, DirBorn, DirPlanned, Absent, Spent, Odd
<1>3. ASSUME NEW o \in Op 
      PROVE  CoreInv(o)' /\ SpentInv(o)' /\ ChildrenInv(o)' /\ CompleteInv(o)' /\ PlacedInv(o)' /\ ClaimInv(o)'
  <2>1. CoreInv(o) /\ SpentInv(o) /\ ChildrenInv(o) /\ CompleteInv(o) /\ PlacedInv(o) /\ ClaimInv(o)
    BY DEF RecoveryInv
  <2>2. CoreInv(o)' /\ SpentInv(o)' /\ ChildrenInv(o)'
    BY <1>1, <2>1 DEF CoreInv, SpentInv, Spent, StillOurs, Cur, DirFits, IsDir, ChildrenInv, Committing
  <2>3. CompleteInv(o)'
    BY <1>1, <2>1 DEF CompleteInv, Complete, Cur
  <2>4. PlacedInv(o)'
    BY <1>1, <2>1 DEF PlacedInv, Placed, OddBoth, Odd, Spent, Unfinished
  <2>5. ClaimInv(o)'
    BY <1>1, <2>1 DEF ClaimInv, Claim, Returned, Odd, Spent, TxsOf, Ours, Excused, Undisturbed, Absent
  <2> QED BY <2>2, <2>3, <2>4, <2>5
<1> QED BY <1>1, <1>2, <1>3 DEF RecoveryInv

LEMMA NextRec ==
    ASSUME RecoveryInv, [Next]_vars
    PROVE  RecoveryInv'
<1>1. ASSUME NEW o \in Op, ToolStep(o) PROVE RecoveryInv'
  BY <1>1, LockRec, SnapshotRec, IntentRec, CreateRec, StageRec, ReviewRec,
     CleanupRec, RollBackRec, UnwindRec, ReturnRec DEF ToolStep
<1>2. ASSUME NEW o \in Op, CommitStep(o) PROVE RecoveryInv'
  BY <1>2, StartCommitRec, CheckRec, ApplyRec, VerifyRec, SyncRec,
     UncreateRec, SyncRemovalRec, RecordRec, AcknowledgeRec, SettleRec DEF CommitStep
<1>3. ASSUME NEW o \in Op, RecoveryStep(o) PROVE RecoveryInv'
  BY <1>3, InspectRec, CleanRec, MarkRec, ConcludeRec, CloseRec DEF RecoveryStep
<1>4. ASSUME NEW o \in Op, Begin(o) \/ Reject(o) \/ DropEffect(o) PROVE RecoveryInv'
  BY <1>4, BeginRec, RejectRec, DropEffectRec
<1> QED BY <1>1, <1>2, <1>3, <1>4, FinishStartupRec, CrashRec, ForeignWriteRec, StutterRec DEF Next

-----------------------------------------------------------------------------
(* Results *)

\* Between two terminal records of Core at most one commit is unsettled, and
\* what it left of its targets is the snapshot or its own entry, now and after
\* a power loss, as its journal records say.  Once a call has failed, a
\* directory may also be where the records say there is none.
THEOREM RecoveryInvariant == Spec => []RecoveryInv
<1>1. RecoveryInv /\ [Next]_vars => RecoveryInv'
  BY NextRec
<1> QED BY InitRec, <1>1, PTL DEF Spec

\* What reconcile_workspace_effect answers is true, and no power loss makes it
\* false: NotApplied, Applied and DurabilityFailed are the evidence on which
\* Core closes an operation (recover_terminal).  Any number of calls may fail,
\* with one exception that the property states: NotApplied says nothing of a
\* created directory once a call has failed.
THEOREM EvidenceTrue == Spec => []EvidenceIsTrue
<1>1. RecoveryInv => EvidenceIsTrue
  <2> SUFFICES ASSUME RecoveryInv, NEW o \in Op, At(o, "judged")
               PROVE  /\ verdict[o] = "NotApplied" =>
                            \A tx \in TxsOf(o) : disk[PathOf(tx)].by = tx =>
                                \/ plan[tx].before = plan[tx].after
                                \/ plan[tx].after = "dir" /\ Spent
                      /\ verdict[o] = "Applied" =>
                            \A tx \in TxsOf(o) : PathOf(tx) \in foreign \/ diskDurable[PathOf(tx)].by = tx
                      /\ verdict[o] = "DurabilityFailed" /\ o \in started =>
                            \E tx \in TxsOf(o) : PathOf(tx) \in foreign \/ disk[PathOf(tx)].by = tx
    BY DEF EvidenceIsTrue, Spent
  <2>1. Claim(o, verdict[o])
    BY DEF RecoveryInv, ClaimInv, At
  <2> QED BY <2>1 DEF Claim, Ours, Returned
<1> QED BY <1>1, RecoveryInvariant, PTL

\* Startup can tell what became of every commit of files that a process death
\* or a power loss interrupted: Ambiguous is left to failing calls, foreign
\* writers and an exhausted journal.
THEOREM CrashDecidable == Spec => []CrashIsDecidable
<1>1. RecoveryInv => CrashIsDecidable
  <2> SUFFICES ASSUME RecoveryInv, NEW o \in started, At(o, "judged"), verdict[o] = "Ambiguous"
               PROVE  Excused(o)
    BY DEF CrashIsDecidable, Excused
  <2>1. o \in Op
    BY DEF RecoveryInv, WorkspaceInv, TypeInv
  <2>2. Claim(o, verdict[o])
    BY <2>1 DEF RecoveryInv, ClaimInv, At
  <2> QED BY <2>2 DEF Claim
<1> QED BY <1>1, RecoveryInvariant, PTL
=============================================================================
