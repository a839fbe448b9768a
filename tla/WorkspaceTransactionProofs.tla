--------------------- MODULE WorkspaceTransactionProofs ---------------------
(***************************************************************************)
(* Proofs about WorkspaceTransaction, for every set of operations, paths   *)
(* and contents, every journal limit and every number of failing calls,    *)
(* deaths, power losses and foreign writes.                                *)
(*                                                                         *)
(* WorkspaceInv is inductive: every variable has its type, one commit is   *)
(* in progress at a time, and of each operation OpInv says what its        *)
(* control state implies about its leases, its targets, its staging files  *)
(* and its records.  A step of one operation preserves what is said of the *)
(* others because it keeps to the paths it has leased (OwnStep, Bystander).*)
(***************************************************************************)
EXTENDS WorkspaceTransaction, FiniteSetTheorems, WellFoundedInduction, TLAPS

Preparing == {"intent", "create", "stage", "review"}
Undoing == {"cleanup", "rollback", "unwind"}
Holding == {"snapshot", "prepared"} \cup Preparing \cup CommitPcs \cup Undoing
Recovering == {"dead", "clean", "mark", "judged"}
Pcs == {"idle", "lock", "settle", "done", "lost"} \cup Holding \cup Recovering
Receipts == {"Applied", "NotApplied", "Unknown", "DurabilityFailed"}
Results == {"none", "ToolError", "Value", "RecoveryRequired", "RolledBack"} \cup Receipts
Verdicts == {"none", "NotManaged", "Ambiguous", "Applied", "DurabilityFailed", "NotApplied"}

OpRecords == [pc : Pcs, kind : {"patch", "write", "mkdir"}, val : Val, req : Seq(Path),
              staged : Seq(Path), rest : Seq(Path), n : Nat,
              then : {"none", "own", "prepare", "reject", "settle"}, stop : Results, bad : BOOLEAN]

TypeInv ==
    /\ disk \in [Path -> Entries] /\ diskDurable \in [Path -> Entries]
    /\ temp \in [Tx -> TempStates] /\ tempDurable \in [Tx -> TempStates]
    /\ wal \in [Tx -> TxStates] /\ mem \in [Tx -> TxStates] /\ walFailed \in BOOLEAN
    /\ plan \in [Tx -> [before : Content, after : Content]]
    /\ lease \in [Path -> Op \cup {NoOp}]
    /\ op \in [Op -> OpRecords]
    /\ open \subseteq Op /\ started \subseteq Op /\ fenced \in BOOLEAN
    /\ phase \in {"up", "recovering"} /\ verdict \in [Op -> Verdicts]
    /\ foreign \subseteq Path /\ raced \subseteq Tx
    /\ budget \in [faults : Nat, crashes : Nat, foreign : Nat]

-----------------------------------------------------------------------------
(* What can be said of one transaction *)

\* No entry of the transaction is there, and no power loss brings one back.
Absent(tx) == disk[PathOf(tx)].by # tx /\ diskDurable[PathOf(tx)].by # tx

\* No entry of the transaction is there, but a power loss may bring one back.
Vacated(tx) == disk[PathOf(tx)].by # tx

\* No staging file is there, and no power loss brings one back.
Unstaged(tx) == temp[tx] = "none" /\ tempDurable[tx] = "none"

\* Nothing was done for it yet.
Fresh(tx) == wal[tx] = "none" /\ mem[tx] = "none" /\ Unstaged(tx) /\ Absent(tx)

\* It was undone without a trace.
Gone(tx) == wal[tx] = "rolledBack" /\ Unstaged(tx) /\ Absent(tx)

\* Its entry is in place and synced, or a foreign program has been there.
InPlace(tx) ==
    /\ disk[PathOf(tx)] = diskDurable[PathOf(tx)]
    /\ disk[PathOf(tx)].by = tx \/ PathOf(tx) \in foreign

\* ... and the journal says so.
Kept(tx) == wal[tx] = "committed" /\ InPlace(tx)

\* The target is as the snapshot has it, or carries the transaction's entry.
Snapped(tx) ==
    \/ disk[PathOf(tx)].is = plan[tx].before
    \/ disk[PathOf(tx)].by = tx
    \/ PathOf(tx) \in foreign

\* The entry there is the transaction's, or a foreign program has been there.
Ours(tx) == disk[PathOf(tx)].by = tx \/ PathOf(tx) \in foreign

\* The target is as the snapshot has it, or was changed since it was checked.
Aimed(tx) == disk[PathOf(tx)].is = plan[tx].before \/ tx \in raced

-----------------------------------------------------------------------------
(* What an operation's control state implies *)

\* Before the first record.
FreshInv(o) ==
    op[o].pc \in {"idle", "lock", "snapshot"} =>
        /\ op[o].staged = <<>> /\ op[o].rest = <<>> /\ op[o].n = 0
        /\ op[o].then = "none" /\ op[o].stop = "none" /\ ~op[o].bad
        /\ \A p \in Path : Fresh(<<o, p>>)

\* The lease group is built up key by key and then covers everything the
\* operation works on.
LeaseInv(o) ==
    /\ op[o].pc = "idle" => \A p \in Path : lease[p] # o
    /\ op[o].pc = "lock" => Wanted(o) # {}
    /\ op[o].pc \in {"lock", "snapshot"} => IsInjective(op[o].req)
    /\ op[o].pc \in Holding =>
          /\ \A p \in Range(op[o].req) : lease[p] = o
          /\ Range(op[o].staged) \cup Range(op[o].rest) \subseteq Range(op[o].req)

\* Directories have no staging file.
KindInv(o) ==
    /\ IsDir(o) => \A p \in Path : Unstaged(<<o, p>>)
    /\ op[o].pc \in {"create", "stage", "cleanup"} => ~IsDir(o)
    /\ op[o].pc \in {"uncreate", "removed"} => IsDir(o)

\* Staging, target by target.
PrepareInv(o) ==
    op[o].pc \in Preparing \cup {"prepared"} =>
        /\ op[o].n = 0 /\ op[o].then = "none" /\ op[o].stop = "none" /\ ~op[o].bad
        /\ IsInjective(op[o].staged) /\ IsInjective(op[o].rest)
        /\ Range(op[o].staged) \cap Range(op[o].rest) = {}
        /\ op[o].pc \in Preparing <=> op[o].rest # <<>>
        /\ op[o].pc = "prepared" => op[o].staged # <<>>
        /\ \A p \in Path : Absent(<<o, p>>)
        /\ \A p \in Range(op[o].staged) : wal[<<o, p>>] = "prepared"
        /\ \A p \in Path \ Range(op[o].staged) :
              \/ Fresh(<<o, p>>)
              \/ op[o].pc \in Preparing \ {"intent"} /\ p = Head(op[o].rest)
        /\ op[o].pc \in Preparing \ {"intent"} => wal[Cur(o)] = "prepared"
        /\ op[o].pc = "create" => Unstaged(Cur(o))

\* The child being committed, as far as it got.
ChildInv(o) ==
    /\ op[o].pc \in {"check", "apply", "verify", "sync", "uncreate", "removed"} \cup Undoing =>
          wal[Cur(o)] = "prepared"
    /\ op[o].pc \in {"check", "apply"} \cup Undoing => Absent(Cur(o))
    /\ op[o].pc = "rollback" => Unstaged(Cur(o))
    /\ op[o].pc \in {"verify", "sync", "uncreate"} => Ours(Cur(o))
    /\ op[o].pc = "removed" => Vacated(Cur(o))
    /\ op[o].pc \in {"record", "ack"} => InPlace(Cur(o))
    /\ op[o].pc = "ack" => wal[Cur(o)] = "committed"

\* A commit is under way: at a child, or settling one as not applied.
AtChild(o) ==
    \/ op[o].pc \in CommitPcs
    \/ op[o].pc \in Undoing /\ op[o].then = "settle" /\ op[o].stop = "none"

CommitInv(o) ==
    AtChild(o) =>
        /\ op[o].pc # "unwind" /\ op[o].stop = "none" /\ ~op[o].bad
        /\ op[o].rest # <<>> /\ IsInjective(op[o].rest)
        /\ op[o].n = 0 => Range(op[o].staged) \subseteq Range(op[o].rest)
        /\ \A p \in Range(op[o].staged) \ Range(op[o].rest) : Kept(<<o, p>>)
        /\ \A p \in Range(op[o].rest) : p # Head(op[o].rest) =>
              Absent(<<o, p>>) /\ wal[<<o, p>>] = "prepared"
        /\ ChildInv(o)

\* Nothing that was attempted and not undone is left when ~bad.
CleanSoFar(o) ==
    /\ ~op[o].bad
    /\ \/ op[o].then = "reject"
       \/ op[o].then = "settle" /\ op[o].stop = "NotApplied" /\ op[o].n = 0

\* Undoing, child by child.
UndoInv(o) ==
    op[o].pc \in Undoing /\ ~AtChild(o) =>
        /\ op[o].then # "none" /\ IsInjective(op[o].rest)
        /\ op[o].pc # "unwind" => op[o].rest # <<>>
        /\ op[o].then = "settle" => op[o].stop \in Receipts
        /\ op[o].then \in {"own", "reject"} => op[o].stop = "none"
        /\ op[o].then = "prepare" => op[o].stop \in {"ToolError", "RecoveryRequired"}
        /\ op[o].then = "own" => op[o].pc # "unwind" /\ IsInjective(op[o].staged) /\ ~op[o].bad
        /\ op[o].then = "own" => \A p \in Path : Absent(<<o, p>>)
        /\ \A p \in Range(op[o].rest) : Absent(<<o, p>>)
        /\ op[o].pc = "rollback" => Unstaged(Cur(o))
        /\ CleanSoFar(o) => \A p \in Range(op[o].staged) \ Range(op[o].rest) : Gone(<<o, p>>)
        /\ op[o].then = "settle" /\ op[o].stop = "Applied" =>
              op[o].rest = <<>> /\ \A p \in Range(op[o].staged) : Kept(<<o, p>>)

\* What was reported.
ReportInv(o) ==
    /\ op[o].pc = "settle" /\ op[o].stop = "Applied" =>
          op[o].then = "settle" /\ \A p \in Range(op[o].staged) : Kept(<<o, p>>)
    /\ op[o].pc \in {"settle", "done"} /\ op[o].stop \in {"NotApplied", "RolledBack"} =>
          \A p \in Range(op[o].staged) : Gone(<<o, p>>)
    /\ op[o].pc \in Recovering => op[o].staged = <<>>
    /\ op[o].pc \in {"clean", "mark"} => op[o].stop \in {"Applied", "DurabilityFailed", "NotApplied"}
    /\ op[o].pc = "mark" => op[o].rest # <<>>

\* What the targets look like until their turn comes.
TargetInv(o) ==
    /\ op[o].pc \in (Preparing \cup {"prepared"} \cup CommitPcs) \ {"removed"} =>
          \A p \in Range(op[o].req) : Snapped(<<o, p>>)
    /\ op[o].pc = "apply" => Aimed(Cur(o))

OpInv(o) ==
    /\ FreshInv(o) /\ LeaseInv(o) /\ KindInv(o) /\ PrepareInv(o)
    /\ CommitInv(o) /\ UndoInv(o) /\ ReportInv(o) /\ TargetInv(o)

\* Runtime awaits one commit at a time.
OneCommit == \A o, q \in Op : Committing(o) /\ Committing(q) => o = q

WorkspaceInv == TypeInv /\ StagingIsMapped /\ OneCommit /\ \A o \in Op : OpInv(o)

-----------------------------------------------------------------------------
(* Transactions and sequences *)

LEMMA TxFacts ==
    /\ \A o \in Op, p \in Path : <<o, p>> \in Tx /\ OpOf(<<o, p>>) = o /\ PathOf(<<o, p>>) = p
    /\ \A tx \in Tx : OpOf(tx) \in Op /\ PathOf(tx) \in Path /\ tx = <<OpOf(tx), PathOf(tx)>>
    /\ NoTx \notin Tx
BY OpAssumption DEF Tx, OpOf, PathOf, NoTx

\* Taking the head off a sequence without repetitions.
LEMMA HeadTail ==
    ASSUME NEW s \in Seq(Path), s # <<>>, IsInjective(s)
    PROVE  /\ Head(s) \in Path /\ Head(s) \in Range(s) /\ Tail(s) \in Seq(Path) /\ IsInjective(Tail(s))
           /\ Range(Tail(s)) = Range(s) \ {Head(s)}
<1>1. Len(s) \in Nat /\ Len(s) > 0 /\ Head(s) = s[1] /\ DOMAIN s = 1..Len(s)
  OBVIOUS
<1>2. Tail(s) \in Seq(Path) /\ Len(Tail(s)) = Len(s) - 1 /\ DOMAIN Tail(s) = 1..(Len(s) - 1)
  BY <1>1
<1>3. \A i \in 1..(Len(s) - 1) : Tail(s)[i] = s[i + 1]
  BY <1>1
<1>4. Head(s) \in Path /\ Head(s) \in Range(s)
  BY <1>1 DEF Range
<1>5. IsInjective(Tail(s))
  BY <1>1, <1>2, <1>3 DEF IsInjective
<1>6. ASSUME NEW p \in Range(Tail(s)) PROVE p \in Range(s) \ {Head(s)}
  <2>1. PICK i \in 1..(Len(s) - 1) : p = s[i + 1]
    BY <1>2, <1>3 DEF Range
  <2>2. i + 1 \in DOMAIN s /\ 1 \in DOMAIN s /\ i + 1 # 1
    BY <1>1
  <2> QED BY <1>1, <2>1, <2>2 DEF Range, IsInjective
<1>7. ASSUME NEW p \in Range(s) \ {Head(s)} PROVE p \in Range(Tail(s))
  <2>1. PICK i \in 1..Len(s) : p = s[i]
    BY <1>1 DEF Range
  <2>2. i - 1 \in 1..(Len(s) - 1) /\ (i - 1) + 1 = i
    BY <1>1, <1>7, <2>1
  <2> QED BY <1>2, <1>3, <2>1, <2>2 DEF Range
<1> QED BY <1>2, <1>4, <1>5, <1>6, <1>7

LEMMA ReverseFacts ==
    ASSUME NEW s \in Seq(Path), IsInjective(s)
    PROVE  Reverse(s) \in Seq(Path) /\ IsInjective(Reverse(s)) /\ Range(Reverse(s)) = Range(s)
<1>1. Len(s) \in Nat /\ DOMAIN s = 1..Len(s)
  OBVIOUS
<1>2. /\ DOMAIN Reverse(s) = 1..Len(s)
      /\ \A i \in 1..Len(s) : Reverse(s)[i] = s[Len(s) - i + 1] /\ Len(s) - i + 1 \in 1..Len(s)
  BY <1>1 DEF Reverse
<1>3. Reverse(s) \in Seq(Path)
  BY <1>1, <1>2 DEF Reverse
<1>4. IsInjective(Reverse(s))
  BY <1>1, <1>2 DEF IsInjective
<1>5. ASSUME NEW i \in 1..Len(s) PROVE s[i] \in Range(Reverse(s))
  <2>1. Len(s) - i + 1 \in 1..Len(s) /\ Len(s) - (Len(s) - i + 1) + 1 = i
    BY <1>1
  <2> QED BY <1>2, <2>1 DEF Range
<1>6. \A i \in 1..Len(s) : Reverse(s)[i] \in Range(s)
  BY <1>1, <1>2 DEF Range
<1>7. Range(Reverse(s)) \subseteq Range(s)
  BY <1>2, <1>6 DEF Range
<1>8. Range(s) \subseteq Range(Reverse(s))
  BY <1>1, <1>5 DEF Range
<1> QED BY <1>3, <1>4, <1>7, <1>8

LEMMA AppendFacts ==
    ASSUME NEW s \in Seq(Path), IsInjective(s), NEW e \in Path, e \notin Range(s)
    PROVE  Append(s, e) \in Seq(Path) /\ IsInjective(Append(s, e)) /\ Range(Append(s, e)) = Range(s) \cup {e}
<1>1. Len(s) \in Nat /\ DOMAIN s = 1..Len(s) /\ Append(s, e) \in Seq(Path)
  OBVIOUS
<1>2. /\ DOMAIN Append(s, e) = 1..(Len(s) + 1)
      /\ \A i \in 1..Len(s) : Append(s, e)[i] = s[i]
      /\ Append(s, e)[Len(s) + 1] = e
  BY <1>1
<1>3. \A i \in 1..(Len(s) + 1) : i \in 1..Len(s) \/ i = Len(s) + 1
  BY <1>1
<1>4. IsInjective(Append(s, e))
  BY <1>1, <1>2, <1>3 DEF IsInjective, Range
<1>5. Range(Append(s, e)) = Range(s) \cup {e}
  BY <1>1, <1>2, <1>3 DEF Range
<1> QED BY <1>1, <1>4, <1>5

LEMMA EmptyFacts == <<>> \in Seq(Path) /\ IsInjective(<<>>) /\ Range(<<>>) = {}
BY DEF IsInjective, Range

\* What Snapshot chooses to stage.
LEMMA SelectionFacts ==
    ASSUME NEW s \in Seq(Path), IsInjective(s), NEW S, S \cap Range(s) # {}, NEW r \in Selections(s, S)
    PROVE  r \in Seq(Path) /\ r # <<>> /\ IsInjective(r) /\ Range(r) \subseteq Range(s) \cap S
<1> DEFINE at == {i \in DOMAIN s : s[i] \in S}
           n == Cardinality(at)
<1>1. Len(s) \in Nat /\ DOMAIN s = 1..Len(s) /\ \A i \in DOMAIN s : s[i] \in Path
  OBVIOUS
<1>2. IsFiniteSet(at)
  <2>1. IsFiniteSet(1..Len(s))
    BY <1>1, FS_Interval
  <2>2. at \in SUBSET (1..Len(s))
    BY <1>1
  <2> QED BY ONLY <2>1, <2>2, FS_Subset
<1>3. n \in Nat /\ at # {}
  BY <1>2, FS_CardinalityType DEF Range
<1>4. n # 0
  BY <1>2, <1>3, FS_EmptySet
<1>5. PICK f \in [1..n -> at] : /\ \A i, j \in DOMAIN f : i < j => f[i] < f[j]
                                /\ r = [i \in DOMAIN f |-> s[f[i]]]
  BY DEF Selections
<1> HIDE DEF n, at
<1>6. DOMAIN r = 1..n /\ \A i \in 1..n : r[i] = s[f[i]] /\ f[i] \in at
  BY <1>5
<1>7. \A i \in at : i \in DOMAIN s /\ s[i] \in S /\ s[i] \in Range(s) /\ i \in Int
  BY <1>1 DEF at, Range
<1>8. r \in Seq(Path)
  <2>1. \A i \in 1..n : s[f[i]] \in Path
    BY <1>1, <1>6, <1>7
  <2>2. r = [i \in 1..n |-> s[f[i]]]
    BY <1>5
  <2> QED BY <1>3, <2>1, <2>2
<1>9. r # <<>>
  BY <1>3, <1>4, <1>6, <1>8
<1>10. IsInjective(r)
  <2> SUFFICES ASSUME NEW i \in 1..n, NEW j \in 1..n, r[i] = r[j] PROVE i = j
    BY <1>6 DEF IsInjective
  <2>1. f[i] = f[j]
    BY <1>6, <1>7 DEF IsInjective
  <2>2. f[i] \in Int /\ f[j] \in Int /\ (i < j => f[i] < f[j]) /\ (j < i => f[j] < f[i])
    BY <1>5, <1>6, <1>7
  <2> QED BY <1>3, <2>1, <2>2
<1>11. Range(r) \subseteq Range(s) \cap S
  BY <1>6, <1>7 DEF Range
<1> QED BY <1>8, <1>9, <1>10, <1>11

-----------------------------------------------------------------------------
(* Bystanders *)

\* A step of o leaves other operations' records, transactions and leases
\* alone, and changes a target only under its lease, in its own commit.
OwnStep(o) ==
    /\ \A q \in Op : q # o => op'[q] = op[q]
    /\ \A q \in Op, p \in Path : q # o =>
          /\ temp'[<<q, p>>] = temp[<<q, p>>]
          /\ tempDurable'[<<q, p>>] \in {tempDurable[<<q, p>>], temp[<<q, p>>]}
          /\ wal'[<<q, p>>] = wal[<<q, p>>] /\ mem'[<<q, p>>] = mem[<<q, p>>]
          /\ plan'[<<q, p>>] = plan[<<q, p>>]
    /\ \A p \in Path :
          \/ disk'[p] = disk[p]
          \/ Committing(o) /\ lease[p] = o /\ disk'[p].by \in {<<o, p>>, NoTx}
    /\ \A p \in Path : diskDurable'[p] \in {diskDurable[p], disk'[p]}
    /\ \A p \in Path : lease'[p] = lease[p] \/ {lease[p], lease'[p]} \subseteq {o, NoOp}
    /\ foreign' = foreign /\ raced' = raced

\* What a bystander's transaction sees of such a step.
LEMMA BystanderTx ==
    ASSUME TypeInv, NEW o \in Op, OwnStep(o), NEW q \in Op, q # o, NEW p \in Path
    PROVE  LET tx == <<q, p>> IN
           /\ Absent(tx) => Absent(tx)'
           /\ Vacated(tx) => Vacated(tx)'
           /\ Unstaged(tx) => Unstaged(tx)'
           /\ Fresh(tx) => Fresh(tx)'
           /\ Gone(tx) => Gone(tx)'
           /\ lease[p] = q \/ ~Committing(o) =>
                 /\ disk'[p] = disk[p]
                 /\ InPlace(tx) => InPlace(tx)'
                 /\ Kept(tx) => Kept(tx)'
                 /\ Snapped(tx) => Snapped(tx)'
                 /\ Ours(tx) => Ours(tx)'
                 /\ Aimed(tx) => Aimed(tx)'
           /\ wal'[tx] = wal[tx] /\ mem'[tx] = mem[tx] /\ plan'[tx] = plan[tx] /\ temp'[tx] = temp[tx]
<1> DEFINE tx == <<q, p>>
<1>1. tx \in Tx /\ PathOf(tx) = p /\ OpOf(tx) = q
  BY TxFacts
<1>2. tx # <<o, p>> /\ tx # NoTx
  BY OpAssumption DEF NoTx
<1>3. /\ wal'[tx] = wal[tx] /\ mem'[tx] = mem[tx] /\ plan'[tx] = plan[tx] /\ temp'[tx] = temp[tx]
      /\ tempDurable'[tx] \in {tempDurable[tx], temp[tx]}
  BY DEF OwnStep
<1>4. /\ disk'[p] = disk[p] \/ (Committing(o) /\ lease[p] = o /\ disk'[p].by \in {<<o, p>>, NoTx})
      /\ diskDurable'[p] \in {diskDurable[p], disk'[p]}
      /\ foreign' = foreign /\ raced' = raced
  BY DEF OwnStep
<1> HIDE DEF tx
<1>5. (Absent(tx) => Absent(tx)') /\ (Vacated(tx) => Vacated(tx)')
  BY <1>1, <1>2, <1>4 DEF Absent, Vacated
<1>6. Unstaged(tx) => Unstaged(tx)'
  BY <1>3 DEF Unstaged
<1>7. (Fresh(tx) => Fresh(tx)') /\ (Gone(tx) => Gone(tx)')
  BY <1>3, <1>5, <1>6 DEF Fresh, Gone
<1>8. ASSUME lease[p] = q \/ ~Committing(o)
      PROVE  /\ disk'[p] = disk[p]
             /\ InPlace(tx) => InPlace(tx)'
             /\ Kept(tx) => Kept(tx)'
             /\ Snapped(tx) => Snapped(tx)'
             /\ Ours(tx) => Ours(tx)'
             /\ Aimed(tx) => Aimed(tx)'
  <2>1. disk'[p] = disk[p]
    BY <1>4, <1>8
  <2>2. InPlace(tx) => InPlace(tx)'
    BY <1>1, <1>4, <2>1 DEF InPlace
  <2>3. Snapped(tx) => Snapped(tx)'
    BY <1>1, <1>3, <1>4, <2>1 DEF Snapped
  <2>4. (Ours(tx) => Ours(tx)') /\ (Aimed(tx) => Aimed(tx)')
    BY <1>1, <1>3, <1>4, <2>1 DEF Ours, Aimed
  <2> QED BY <1>3, <2>1, <2>2, <2>3, <2>4 DEF Kept
<1> QED BY <1>3, <1>5, <1>6, <1>7, <1>8 DEF tx

\* The current target of an operation.
LEMMA CurFacts ==
    ASSUME TypeInv, NEW o \in Op, op[o].rest # <<>>
    PROVE  /\ Cur(o) \in Tx /\ PathOf(Cur(o)) = Head(op[o].rest) /\ OpOf(Cur(o)) = o
           /\ Cur(o) = <<o, Head(op[o].rest)>> /\ Head(op[o].rest) \in Path
           /\ Head(op[o].rest) \in Range(op[o].rest)
<1>1. op[o].rest \in Seq(Path)
  BY DEF TypeInv, OpRecords
<1>2. Head(op[o].rest) \in Path /\ Head(op[o].rest) \in Range(op[o].rest)
  BY <1>1 DEF Range
<1> QED BY <1>2, TxFacts DEF Cur

LEMMA RangeFacts ==
    ASSUME TypeInv, NEW o \in Op
    PROVE  /\ op[o].req \in Seq(Path) /\ op[o].staged \in Seq(Path) /\ op[o].rest \in Seq(Path)
           /\ Range(op[o].req) \subseteq Path /\ Range(op[o].staged) \subseteq Path
           /\ Range(op[o].rest) \subseteq Path
<1>1. op[o].req \in Seq(Path) /\ op[o].staged \in Seq(Path) /\ op[o].rest \in Seq(Path)
  BY DEF TypeInv, OpRecords
<1>2. \A s \in Seq(Path) : Range(s) \subseteq Path
  BY DEF Range
<1> QED BY <1>1, <1>2

\* An operation that does not move keeps its invariant when its own
\* transactions do, those on leased targets and in its last report included.
LEMMA Onlooker ==
    ASSUME TypeInv, NEW q \in Op, op'[q] = op[q], OpInv(q),
           \A p \in Path : lease[p] = q <=> lease'[p] = q,
           \A p \in Path :
              /\ Absent(<<q, p>>) => Absent(<<q, p>>)'
              /\ Vacated(<<q, p>>) => Vacated(<<q, p>>)'
              /\ Unstaged(<<q, p>>) => Unstaged(<<q, p>>)'
              /\ Fresh(<<q, p>>) => Fresh(<<q, p>>)'
              /\ Gone(<<q, p>>) => Gone(<<q, p>>)'
              /\ wal'[<<q, p>>] = wal[<<q, p>>],
           \A p \in Path : lease[p] = q \/ (op[q].pc = "settle" /\ op[q].then = "settle") =>
              /\ Ours(<<q, p>>) => Ours(<<q, p>>)'
              /\ InPlace(<<q, p>>) => InPlace(<<q, p>>)'
              /\ Kept(<<q, p>>) => Kept(<<q, p>>)'
              /\ Snapped(<<q, p>>) => Snapped(<<q, p>>)',
           \A p \in Path : lease[p] = q /\ op[q].pc = "apply" /\ Cur(q) = <<q, p>> =>
              (Aimed(<<q, p>>) => Aimed(<<q, p>>)')
    PROVE  OpInv(q)'
<1>1. op'[q] = op[q]
  OBVIOUS
<1>2. op[q].rest # <<>> =>
        /\ Cur(q) \in Tx /\ PathOf(Cur(q)) = Head(op[q].rest) /\ OpOf(Cur(q)) = q
        /\ Cur(q) = <<q, Head(op[q].rest)>> /\ Head(op[q].rest) \in Path
        /\ Head(op[q].rest) \in Range(op[q].rest)
  BY CurFacts
<1>3. /\ Range(op[q].req) \subseteq Path /\ Range(op[q].staged) \subseteq Path
      /\ Range(op[q].rest) \subseteq Path
  BY RangeFacts
<1>4. \A p \in Path :
        /\ Absent(<<q, p>>) => Absent(<<q, p>>)'
        /\ Vacated(<<q, p>>) => Vacated(<<q, p>>)'
        /\ Unstaged(<<q, p>>) => Unstaged(<<q, p>>)'
        /\ Fresh(<<q, p>>) => Fresh(<<q, p>>)'
        /\ Gone(<<q, p>>) => Gone(<<q, p>>)'
        /\ wal'[<<q, p>>] = wal[<<q, p>>]
  OBVIOUS
<1>5. \A p \in Path : lease[p] = q \/ (op[q].pc = "settle" /\ op[q].then = "settle") =>
        /\ Ours(<<q, p>>) => Ours(<<q, p>>)'
        /\ InPlace(<<q, p>>) => InPlace(<<q, p>>)'
        /\ Kept(<<q, p>>) => Kept(<<q, p>>)'
        /\ Snapped(<<q, p>>) => Snapped(<<q, p>>)'
  OBVIOUS
<1>6. \A p \in Path : lease[p] = q <=> lease'[p] = q
  OBVIOUS
<1>7. Cur(q)' = Cur(q)
  BY <1>1 DEF Cur
<1>8. FreshInv(q)'
  BY <1>1, <1>4 DEF OpInv, FreshInv
<1>9. LeaseInv(q)'
  <2>1. Wanted(q)' = Wanted(q)
    BY <1>1, <1>3, <1>6 DEF Wanted
  <2> QED BY <1>1, <1>3, <1>6, <2>1 DEF OpInv, LeaseInv
<1>10. KindInv(q)'
  BY <1>1, <1>4 DEF OpInv, KindInv, IsDir
<1>11. PrepareInv(q)'
  <2>1. op[q].rest # <<>> => /\ wal'[Cur(q)] = wal[Cur(q)]
                             /\ Unstaged(Cur(q)) => Unstaged(Cur(q))'
    BY <1>2, <1>4, <1>7 DEF Unstaged
  <2> QED BY <1>1, <1>3, <1>4, <1>7, <2>1 DEF OpInv, PrepareInv, Preparing
<1>12. CommitInv(q)'
  <2> SUFFICES ASSUME AtChild(q) PROVE CommitInv(q)'
    BY <1>1 DEF CommitInv, AtChild
  <2>1. op[q].pc \in Holding /\ op[q].rest # <<>>
    BY DEF AtChild, Holding, OpInv, CommitInv
  <2>2. \A p \in Range(op[q].staged) \cup Range(op[q].rest) : p \in Path /\ lease[p] = q
    BY <1>3, <2>1 DEF OpInv, LeaseInv
  <2>3. ChildInv(q)'
    <3>0. PICK h \in Path : h = Head(op[q].rest)
      BY <1>2, <2>1
    <3> DEFINE c == <<q, h>>
    <3>1. Cur(q) = c /\ lease[h] = q /\ PathOf(c) = h
      BY <1>2, <2>1, <2>2, <3>0
    <3>2. /\ Absent(c) => Absent(c)'
          /\ Vacated(c) => Vacated(c)'
          /\ Unstaged(c) => Unstaged(c)'
          /\ InPlace(c) => InPlace(c)'
          /\ Ours(c) => Ours(c)'
          /\ wal'[c] = wal[c]
      BY <1>4, <1>5, <3>1
    <3>4. c = Cur(q) /\ c = Cur(q)'
      BY <1>7, <3>1
    <3> HIDE DEF c
    <3>3. ChildInv(q)
      BY DEF OpInv, CommitInv
    <3> QED BY <1>1, <3>1, <3>2, <3>3, <3>4 DEF ChildInv, Vacated
  <2> QED BY <1>1, <1>3, <1>4, <1>5, <2>2, <2>3 DEF OpInv, CommitInv, AtChild
<1>13. UndoInv(q)'
  <2> SUFFICES ASSUME op[q].pc \in Undoing, ~AtChild(q) PROVE UndoInv(q)'
    BY <1>1 DEF UndoInv, AtChild
  <2>1. \A p \in Range(op[q].staged) : p \in Path /\ lease[p] = q
    BY <1>3 DEF OpInv, LeaseInv, Holding
  <2>2. op[q].rest # <<>> => (Unstaged(Cur(q)) => Unstaged(Cur(q))')
    BY <1>2, <1>4, <1>7 DEF Unstaged
  <2> QED BY <1>1, <1>3, <1>4, <1>5, <1>7, <2>1, <2>2 DEF OpInv, UndoInv, AtChild, CleanSoFar
<1>14. ReportInv(q)'
  BY <1>1, <1>3, <1>4, <1>5 DEF OpInv, ReportInv
<1>15. TargetInv(q)'
  <2>1. op[q].pc \in Holding => \A p \in Range(op[q].req) : p \in Path /\ lease[p] = q
    BY <1>3 DEF OpInv, LeaseInv
  <2>2. op[q].pc = "apply" => /\ op[q].rest # <<>>
                              /\ Head(op[q].rest) \in Range(op[q].req)
    BY <1>2 DEF OpInv, CommitInv, AtChild, CommitPcs, LeaseInv, Holding
  <2>3. op[q].pc = "apply" => (Aimed(Cur(q)) => Aimed(Cur(q))')
    <3> SUFFICES ASSUME op[q].pc = "apply" PROVE Aimed(Cur(q)) => Aimed(Cur(q))'
      OBVIOUS
    <3>1. PICK h \in Path : h = Head(op[q].rest) /\ Cur(q) = <<q, h>> /\ lease[h] = q
      BY <1>2, <2>1, <2>2 DEF Holding, CommitPcs
    <3>2. Aimed(<<q, h>>) => Aimed(<<q, h>>)'
      BY <3>1
    <3> DEFINE c == <<q, h>>
    <3>3. c = Cur(q) /\ c = Cur(q)' /\ (Aimed(c) => Aimed(c)')
      BY <1>7, <3>1, <3>2
    <3> HIDE DEF c
    <3> QED BY <3>3 DEF Aimed
  <2>4. op[q].pc \in (Preparing \cup {"prepared"} \cup CommitPcs) \ {"removed"} => op[q].pc \in Holding
    BY DEF Holding
  <2> QED BY <1>1, <1>5, <1>7, <2>1, <2>3, <2>4 DEF OpInv, TargetInv
<1> QED BY <1>8, <1>9, <1>10, <1>11, <1>12, <1>13, <1>14, <1>15 DEF OpInv

LEMMA Bystander ==
    ASSUME TypeInv, OneCommit, NEW o \in Op, OwnStep(o), NEW q \in Op, q # o, OpInv(q)
    PROVE  OpInv(q)'
<1>1. op'[q] = op[q] /\ raced' = raced
  BY DEF OwnStep
<1>2. \A p \in Path : lease[p] = q <=> lease'[p] = q
  BY OpAssumption DEF OwnStep
<1>3. \A p \in Path :
        /\ Absent(<<q, p>>) => Absent(<<q, p>>)'
        /\ Vacated(<<q, p>>) => Vacated(<<q, p>>)'
        /\ Unstaged(<<q, p>>) => Unstaged(<<q, p>>)'
        /\ Fresh(<<q, p>>) => Fresh(<<q, p>>)'
        /\ Gone(<<q, p>>) => Gone(<<q, p>>)'
        /\ wal'[<<q, p>>] = wal[<<q, p>>]
  BY BystanderTx
<1>4. op[q].pc = "settle" /\ op[q].then = "settle" => ~Committing(o)
  BY DEF OneCommit, Committing
<1>5. \A p \in Path : lease[p] = q \/ (op[q].pc = "settle" /\ op[q].then = "settle") =>
        /\ Ours(<<q, p>>) => Ours(<<q, p>>)'
        /\ InPlace(<<q, p>>) => InPlace(<<q, p>>)'
        /\ Kept(<<q, p>>) => Kept(<<q, p>>)'
        /\ Snapped(<<q, p>>) => Snapped(<<q, p>>)'
  BY <1>4, BystanderTx
<1>6. \A p \in Path : lease[p] = q => (Aimed(<<q, p>>) => Aimed(<<q, p>>)')
  BY BystanderTx
<1> QED BY <1>1, <1>2, <1>3, <1>5, <1>6, Onlooker

-----------------------------------------------------------------------------
(* Own steps: what each way of moving on does to the control state *)

\* Everything about o that a step leaves alone unless it says otherwise.
SameTask(o) == op'[o].kind = op[o].kind /\ op'[o].val = op[o].val /\ op'[o].req = op[o].req

OnlyMoves(o) ==
    /\ op' \in [Op -> OpRecords]
    /\ \A q \in Op : q # o => op'[q] = op[q]

LEMMA Becomes ==
    ASSUME TypeInv, NEW o \in Op, NEW x \in OpRecords, op' = [op EXCEPT ![o] = x],
           x.kind = op[o].kind, x.val = op[o].val, x.req = op[o].req
    PROVE  OnlyMoves(o) /\ SameTask(o) /\ op'[o] = x
BY DEF TypeInv, OnlyMoves, SameTask

LEMMA GoesFacts ==
    ASSUME TypeInv, NEW o \in Op, NEW pc \in Pcs, Goes(o, pc)
    PROVE  /\ OnlyMoves(o) /\ SameTask(o) /\ op'[o].pc = pc
           /\ op'[o].staged = op[o].staged /\ op'[o].rest = op[o].rest /\ op'[o].n = op[o].n
           /\ op'[o].then = op[o].then /\ op'[o].stop = op[o].stop /\ op'[o].bad = op[o].bad
<1> DEFINE x == [op[o] EXCEPT !.pc = pc]
<1>1. op' = [op EXCEPT ![o].pc = pc]
  BY DEF Goes
<1>2. op' = [op EXCEPT ![o] = x]
  BY ONLY <1>1
<1>3. op[o] \in OpRecords
  BY DEF TypeInv
<1>4. /\ x.pc = pc /\ x.rest = op[o].rest /\ x.stop = op[o].stop /\ x.then = op[o].then /\ x.n = op[o].n
      /\ x.kind = op[o].kind /\ x.val = op[o].val /\ x.req = op[o].req
      /\ x.staged = op[o].staged /\ x.bad = op[o].bad /\ x \in OpRecords
  BY <1>3 DEF OpRecords
<1> HIDE DEF x
<1>5. OnlyMoves(o) /\ SameTask(o) /\ op'[o] = x
  BY <1>2, <1>4, Becomes
<1> QED BY <1>4, <1>5

\* The updates of several fields at once.
LEMMA MovesFacts ==
    ASSUME TypeInv, NEW o \in Op, NEW pc \in Pcs, NEW rest \in Seq(Path), NEW stop \in Results,
           NEW then \in {"none", "own", "prepare", "reject", "settle"}, NEW n \in Nat,
           op' = [op EXCEPT ![o].pc = pc, ![o].rest = rest, ![o].stop = stop, ![o].then = then, ![o].n = n]
    PROVE  /\ OnlyMoves(o) /\ SameTask(o) /\ op'[o].pc = pc
           /\ op'[o].staged = op[o].staged /\ op'[o].rest = rest /\ op'[o].n = n
           /\ op'[o].then = then /\ op'[o].stop = stop /\ op'[o].bad = op[o].bad
<1>1. op[o] \in OpRecords
  BY DEF TypeInv
<1> DEFINE x == [op[o] EXCEPT !.pc = pc, !.rest = rest, !.stop = stop, !.then = then, !.n = n]
<1>2. op' = [op EXCEPT ![o] = x]
  BY ONLY op' = [op EXCEPT ![o].pc = pc, ![o].rest = rest, ![o].stop = stop, ![o].then = then, ![o].n = n]
<1>3. /\ x.pc = pc /\ x.rest = rest /\ x.stop = stop /\ x.then = then /\ x.n = n
      /\ x.kind = op[o].kind /\ x.val = op[o].val /\ x.req = op[o].req
      /\ x.staged = op[o].staged /\ x.bad = op[o].bad /\ x \in OpRecords
  BY <1>1 DEF OpRecords
<1> HIDE DEF x
<1> QED BY <1>2, <1>3, Becomes

LEMMA ReturnsFacts ==
    ASSUME TypeInv, NEW o \in Op, NEW r \in Results, Returns(o, r)
    PROVE  /\ OnlyMoves(o) /\ SameTask(o) /\ op'[o].pc = "settle"
           /\ op'[o].staged = op[o].staged /\ op'[o].rest = <<>> /\ op'[o].n = op[o].n
           /\ op'[o].then = op[o].then /\ op'[o].stop = r /\ op'[o].bad = op[o].bad
           /\ lease' \in [Path -> Op \cup {NoOp}]
           /\ \A p \in Path : lease'[p] = lease[p] \/ (lease[p] = o /\ lease'[p] = NoOp)
<1>1. "settle" \in Pcs /\ <<>> \in Seq(Path)
  BY DEF Pcs
<1>2. /\ OnlyMoves(o) /\ SameTask(o) /\ op'[o].pc = "settle"
      /\ op'[o].staged = op[o].staged /\ op'[o].rest = <<>> /\ op'[o].n = op[o].n
      /\ op'[o].then = op[o].then /\ op'[o].stop = r /\ op'[o].bad = op[o].bad
  <2> DEFINE x == [op[o] EXCEPT !.pc = "settle", !.stop = r, !.rest = <<>>]
  <2>1. op' = [op EXCEPT ![o].pc = "settle", ![o].stop = r, ![o].rest = <<>>] /\ op[o] \in OpRecords
    BY DEF Returns, TypeInv
  <2>2. op' = [op EXCEPT ![o] = x]
    BY ONLY <2>1
  <2>3. /\ x.pc = "settle" /\ x.rest = <<>> /\ x.stop = r /\ x.then = op[o].then /\ x.n = op[o].n
        /\ x.kind = op[o].kind /\ x.val = op[o].val /\ x.req = op[o].req
        /\ x.staged = op[o].staged /\ x.bad = op[o].bad /\ x \in OpRecords
    BY <1>1, <2>1 DEF OpRecords
  <2> HIDE DEF x
  <2> QED BY <2>2, <2>3, Becomes
<1> QED BY <1>2 DEF TypeInv, Returns, Released

LEMMA UnwindsFacts ==
    ASSUME TypeInv, NEW o \in Op, NEW rest \in Seq(Path), NEW stop \in Results,
           NEW then \in {"prepare", "reject"}, Unwinds(o, rest, stop, then)
    PROVE  /\ OnlyMoves(o) /\ SameTask(o) /\ op'[o].pc = "unwind"
           /\ op'[o].staged = op[o].staged /\ op'[o].rest = rest /\ op'[o].n = op[o].n
           /\ op'[o].then = then /\ op'[o].stop = stop /\ op'[o].bad = op[o].bad
<1>1. "unwind" \in Pcs /\ op[o] \in OpRecords
  BY DEF Pcs, Holding, Undoing, TypeInv
<1> DEFINE x == [op[o] EXCEPT !.pc = "unwind", !.rest = rest, !.stop = stop, !.then = then]
<1>2. op' = [op EXCEPT ![o].pc = "unwind", ![o].rest = rest, ![o].stop = stop, ![o].then = then]
  BY DEF Unwinds
<1>3. op' = [op EXCEPT ![o] = x]
  BY ONLY <1>2
<1>4. /\ x.pc = "unwind" /\ x.rest = rest /\ x.stop = stop /\ x.then = then /\ x.n = op[o].n
      /\ x.kind = op[o].kind /\ x.val = op[o].val /\ x.req = op[o].req
      /\ x.staged = op[o].staged /\ x.bad = op[o].bad /\ x \in OpRecords
  BY <1>1 DEF OpRecords
<1> HIDE DEF x
<1> QED BY <1>3, <1>4, Becomes

LEMMA ReceiptFacts ==
    ASSUME TypeInv, NEW o \in Op, NEW r \in Receipts, op[o].rest # <<>>, ChildReceipt(o, r)
    PROVE  /\ OnlyMoves(o) /\ SameTask(o) /\ op'[o].bad = op[o].bad
           /\ op'[o].staged = op[o].staged /\ op'[o].rest = Tail(op[o].rest)
           /\ op'[o].n = (IF r = "Applied" THEN op[o].n + 1 ELSE op[o].n)
           /\ \/ /\ r = "Applied" /\ Tail(op[o].rest) # <<>>
                 /\ op'[o].pc = "check" /\ op'[o].then = op[o].then /\ op'[o].stop = op[o].stop
              \/ /\ r = "Applied" => Tail(op[o].rest) = <<>>
                 /\ op'[o].pc = "unwind" /\ op'[o].then = "settle" /\ op'[o].stop = r
<1>1. "unwind" \in Pcs /\ "check" \in Pcs /\ r \in Results
  BY DEF Pcs, Holding, Undoing, CommitPcs, Results
<1>2. Tail(op[o].rest) \in Seq(Path) /\ op[o].n + 1 \in Nat /\ op[o] \in OpRecords
  BY DEF TypeInv, OpRecords
<1>3. CASE r = "Applied" /\ Tail(op[o].rest) # <<>>
  <2>1. op' = [op EXCEPT ![o].pc = "check", ![o].rest = Tail(op[o].rest), ![o].n = op[o].n + 1]
    BY <1>3 DEF ChildReceipt
  <2> DEFINE x == [op[o] EXCEPT !.pc = "check", !.rest = Tail(op[o].rest), !.n = op[o].n + 1]
  <2>2. op' = [op EXCEPT ![o] = x]
    BY ONLY <2>1
  <2>3. /\ x.pc = "check" /\ x.rest = Tail(op[o].rest) /\ x.stop = op[o].stop /\ x.then = op[o].then
        /\ x.n = op[o].n + 1 /\ x.kind = op[o].kind /\ x.val = op[o].val /\ x.req = op[o].req
        /\ x.staged = op[o].staged /\ x.bad = op[o].bad /\ x \in OpRecords
    BY <1>1, <1>2 DEF OpRecords
  <2> HIDE DEF x
  <2>4. OnlyMoves(o) /\ SameTask(o) /\ op'[o] = x
    BY <2>2, <2>3, Becomes
  <2> QED BY <1>3, <2>3, <2>4
<1>4. CASE ~(r = "Applied" /\ Tail(op[o].rest) # <<>>)
  <2>1. op' = [op EXCEPT ![o].pc = "unwind", ![o].rest = Tail(op[o].rest), ![o].stop = r,
                         ![o].then = "settle", ![o].n = IF r = "Applied" THEN op[o].n + 1 ELSE op[o].n]
    BY <1>4 DEF ChildReceipt
  <2> DEFINE n == IF r = "Applied" THEN op[o].n + 1 ELSE op[o].n
  <2>2. n \in Nat
    BY <1>2 DEF TypeInv, OpRecords
  <2>3. op' = [op EXCEPT ![o].pc = "unwind", ![o].rest = Tail(op[o].rest), ![o].stop = r,
                         ![o].then = "settle", ![o].n = n]
    BY <2>1
  <2> HIDE DEF n
  <2>4. /\ OnlyMoves(o) /\ SameTask(o) /\ op'[o].pc = "unwind"
        /\ op'[o].staged = op[o].staged /\ op'[o].rest = Tail(op[o].rest) /\ op'[o].n = n
        /\ op'[o].then = "settle" /\ op'[o].stop = r /\ op'[o].bad = op[o].bad
    <3> DEFINE rest == Tail(op[o].rest)
    <3>1. rest \in Seq(Path) /\ r \in Results /\ "unwind" \in Pcs
      BY <1>1, <1>2
    <3>2. op' = [op EXCEPT ![o].pc = "unwind", ![o].rest = rest, ![o].stop = r,
                           ![o].then = "settle", ![o].n = n]
      BY <2>3
    <3> HIDE DEF rest
    <3>3. /\ OnlyMoves(o) /\ SameTask(o) /\ op'[o].pc = "unwind"
          /\ op'[o].staged = op[o].staged /\ op'[o].rest = rest /\ op'[o].n = n
          /\ op'[o].then = "settle" /\ op'[o].stop = r /\ op'[o].bad = op[o].bad
      BY <2>2, <3>1, <3>2, MovesFacts
    <3> QED BY <3>3 DEF rest
  <2> QED BY <1>4, <2>4 DEF n
<1> QED BY <1>3, <1>4

LEMMA NotAppliedFacts ==
    ASSUME TypeInv, NEW o \in Op, SettlesNotApplied(o)
    PROVE  /\ OnlyMoves(o) /\ SameTask(o) /\ op'[o].pc = (IF IsDir(o) THEN "rollback" ELSE "cleanup")
           /\ op'[o].staged = op[o].staged /\ op'[o].rest = op[o].rest /\ op'[o].n = op[o].n
           /\ op'[o].then = "settle" /\ op'[o].stop = op[o].stop /\ op'[o].bad = op[o].bad
<1>1. {"rollback", "cleanup"} \subseteq Pcs
  BY DEF Pcs, Holding, Undoing
<1> DEFINE pc == IF IsDir(o) THEN "rollback" ELSE "cleanup"
           x == [op[o] EXCEPT !.pc = pc, !.then = "settle"]
<1>2. op' = [op EXCEPT ![o].pc = pc, ![o].then = "settle"] /\ pc \in Pcs
  BY <1>1 DEF SettlesNotApplied
<1> HIDE DEF pc
<1>3. op' = [op EXCEPT ![o] = x]
  BY ONLY <1>2
<1>4. /\ x.pc = pc /\ x.rest = op[o].rest /\ x.stop = op[o].stop /\ x.then = "settle" /\ x.n = op[o].n
      /\ x.kind = op[o].kind /\ x.val = op[o].val /\ x.req = op[o].req
      /\ x.staged = op[o].staged /\ x.bad = op[o].bad /\ x \in OpRecords
  <2>1. op[o] \in OpRecords
    BY DEF TypeInv
  <2> QED BY <1>2, <2>1 DEF OpRecords
<1> HIDE DEF x
<1>5. OnlyMoves(o) /\ SameTask(o) /\ op'[o] = x
  BY <1>3, <1>4, Becomes
<1> QED BY <1>4, <1>5 DEF pc

LEMMA UndoneFacts ==
    ASSUME TypeInv, NEW o \in Op, op[o].rest # <<>>, NEW ok \in BOOLEAN, Undone(o, ok)
    PROVE  \/ op[o].then = "own" /\ FailsPrepare(o, IF ok THEN "ToolError" ELSE "RecoveryRequired")
           \/ /\ op[o].then = "settle" /\ op[o].stop = "none"
              /\ ChildReceipt(o, IF ok THEN "NotApplied" ELSE "Unknown")
           \/ /\ op[o].then # "own" /\ ~(op[o].then = "settle" /\ op[o].stop = "none")
              /\ OnlyMoves(o) /\ SameTask(o) /\ op'[o].pc = "unwind"
              /\ op'[o].staged = op[o].staged /\ op'[o].rest = Tail(op[o].rest) /\ op'[o].n = op[o].n
              /\ op'[o].then = op[o].then /\ op'[o].stop = op[o].stop /\ op'[o].bad = (op[o].bad \/ ~ok)
<1>1. CASE op[o].then = "own"
  BY <1>1 DEF Undone
<1>2. CASE op[o].then = "settle" /\ op[o].stop = "none"
  BY <1>2 DEF Undone
<1>3. CASE op[o].then # "own" /\ ~(op[o].then = "settle" /\ op[o].stop = "none")
  <2> DEFINE b == op[o].bad \/ ~ok
  <2>1. op' = [op EXCEPT ![o].pc = "unwind", ![o].rest = Tail(op[o].rest), ![o].bad = b]
    BY <1>3 DEF Undone
  <2>2. "unwind" \in Pcs /\ Tail(op[o].rest) \in Seq(Path) /\ b \in BOOLEAN /\ op[o] \in OpRecords
    BY DEF Pcs, Holding, Undoing, TypeInv, OpRecords
  <2> HIDE DEF b
  <2> DEFINE x == [op[o] EXCEPT !.pc = "unwind", !.rest = Tail(op[o].rest), !.bad = b]
  <2>3. op' = [op EXCEPT ![o] = x]
    BY ONLY <2>1
  <2>4. /\ x.pc = "unwind" /\ x.rest = Tail(op[o].rest) /\ x.stop = op[o].stop /\ x.then = op[o].then
        /\ x.n = op[o].n /\ x.kind = op[o].kind /\ x.val = op[o].val /\ x.req = op[o].req
        /\ x.staged = op[o].staged /\ x.bad = b /\ x \in OpRecords
    BY <2>2 DEF OpRecords
  <2> HIDE DEF x
  <2>5. OnlyMoves(o) /\ SameTask(o) /\ op'[o] = x
    BY <2>3, <2>4, Becomes
  <2> QED BY <1>3, <2>4, <2>5 DEF b
<1> QED BY <1>1, <1>2, <1>3

-----------------------------------------------------------------------------
(* Own steps: what is left to show of one *)

\* A staging file has its intent.
Mapped(tx) == Unstaged(tx) \/ wal[tx] # "none"

\* Nobody else is committing when a commit starts.
MayCommit(o) == Committing(o)' => Committing(o) \/ \A q \in Op : ~Committing(q)

LEMMA Preserved ==
    ASSUME WorkspaceInv, NEW o \in Op, OwnStep(o), TypeInv', OpInv(o)',
           \A p \in Path : Mapped(<<o, p>>)', MayCommit(o)
    PROVE  WorkspaceInv'
<1>1. ASSUME NEW q \in Op PROVE OpInv(q)'
  <2>1. CASE q = o
    BY <2>1
  <2>2. CASE q # o
    BY <2>2, Bystander DEF WorkspaceInv
  <2> QED BY <2>1, <2>2
<1>2. OneCommit'
  <2>1. \A q \in Op : q # o => (Committing(q)' <=> Committing(q))
    BY DEF OwnStep, Committing
  <2>2. ASSUME NEW q \in Op, NEW r \in Op, Committing(q)', Committing(r)' PROVE q = r
    <3>1. CASE q # o /\ r # o
      BY <2>1, <2>2, <3>1 DEF WorkspaceInv, OneCommit
    <3>2. CASE q = o /\ r # o
      BY <2>1, <2>2, <3>2 DEF WorkspaceInv, OneCommit, MayCommit
    <3>3. CASE q # o /\ r = o
      BY <2>1, <2>2, <3>3 DEF WorkspaceInv, OneCommit, MayCommit
    <3> QED BY <3>1, <3>2, <3>3
  <2> QED BY <2>2 DEF OneCommit
<1>3. ASSUME NEW tx \in Tx PROVE {temp'[tx], tempDurable'[tx]} = {"none"} \/ wal'[tx] # "none"
  <2>1. PICK q \in Op, p \in Path : tx = <<q, p>>
    BY TxFacts
  <2>2. CASE q = o
    BY <2>1, <2>2 DEF Mapped, Unstaged
  <2>3. CASE q # o
    <3>1. {temp[tx], tempDurable[tx]} = {"none"} \/ wal[tx] # "none"
      BY DEF WorkspaceInv, StagingIsMapped
    <3>2. temp'[tx] = temp[tx] /\ tempDurable'[tx] \in {tempDurable[tx], temp[tx]} /\ wal'[tx] = wal[tx]
      BY <2>1, <2>3 DEF OwnStep
    <3> QED BY <3>1, <3>2
  <2> QED BY <2>2, <2>3
<1> QED BY <1>1, <1>2, <1>3 DEF WorkspaceInv, StagingIsMapped

LEMMA FaultType ==
    ASSUME TypeInv, Fault \/ NoFault
    PROVE  budget' \in [faults : Nat, crashes : Nat, foreign : Nat]
<1>1. CASE NoFault
  BY <1>1 DEF TypeInv, NoFault
<1>2. CASE Fault
  <2> DEFINE b == budget
  <2>1. b \in [faults : Nat, crashes : Nat, foreign : Nat] /\ b.faults - 1 \in Nat
    BY <1>2 DEF TypeInv, Fault
  <2>2. budget' = [b EXCEPT !.faults = b.faults - 1]
    BY <1>2 DEF Fault
  <2> HIDE DEF b
  <2> QED BY <2>1, <2>2
<1> QED BY <1>1, <1>2

\* Steps that touch neither the files, nor the journal, nor the plan.
Quiet == UNCHANGED <<fsVars, walVars, plan, history>>

LEMMA QuietTx ==
    ASSUME Quiet, NEW tx
    PROVE  /\ Absent(tx)' <=> Absent(tx)
           /\ Vacated(tx)' <=> Vacated(tx)
           /\ Unstaged(tx)' <=> Unstaged(tx)
           /\ Fresh(tx)' <=> Fresh(tx)
           /\ Gone(tx)' <=> Gone(tx)
           /\ InPlace(tx)' <=> InPlace(tx)
           /\ Kept(tx)' <=> Kept(tx)
           /\ Snapped(tx)' <=> Snapped(tx)
           /\ Mapped(tx)' <=> Mapped(tx)
           /\ wal'[tx] = wal[tx] /\ plan'[tx] = plan[tx]
           /\ disk' = disk /\ foreign' = foreign /\ raced' = raced
BY DEF Quiet, fsVars, walVars, history, Absent, Vacated, Unstaged, Fresh, Gone, InPlace, Kept, Snapped, Mapped

LEMMA QuietStep ==
    ASSUME WorkspaceInv, NEW o \in Op, Quiet, OnlyMoves(o),
           \A p \in Path : lease'[p] = lease[p] \/ {lease[p], lease'[p]} \subseteq {o, NoOp}
    PROVE  OwnStep(o) /\ \A p \in Path : Mapped(<<o, p>>)'
<1>1. OwnStep(o)
  BY DEF OwnStep, OnlyMoves, Quiet, fsVars, walVars, history
<1>2. \A p \in Path : Mapped(<<o, p>>)
  BY TxFacts DEF WorkspaceInv, StagingIsMapped, Mapped, Unstaged
<1> QED BY <1>1, <1>2, QuietTx

LEMMA QuietType ==
    ASSUME TypeInv, Quiet, op' \in [Op -> OpRecords], lease' \in [Path -> Op \cup {NoOp}],
           budget' \in [faults : Nat, crashes : Nat, foreign : Nat],
           open' \subseteq Op, started' \subseteq Op, fenced' \in BOOLEAN,
           phase' \in {"up", "recovering"}, verdict' \in [Op -> Verdicts]
    PROVE  TypeInv'
BY DEF TypeInv, Quiet, fsVars, walVars, history

LEMMA RequestFacts ==
    ASSUME NEW k, NEW req \in Requests(k)
    PROVE  req \in Seq(Path) /\ Range(req) # {} /\ IsInjective(req)
<1>1. Cardinality(Path) \in Nat
  BY PathAssumption, FS_CardinalityType
<1>2. PICK n \in Nat : n >= 1 /\ req \in [1..n -> Path] /\ IsInjective(req)
  <2>1. CASE k = "patch"
    BY <1>1, <2>1 DEF Requests
  <2>2. CASE k # "patch"
    <3>1. req \in [1..1 -> Path]
      BY <2>2 DEF Requests
    <3>2. IsInjective(req)
      BY <3>1 DEF IsInjective
    <3> QED BY <3>1, <3>2
  <2> QED BY <2>1, <2>2
<1>3. req \in Seq(Path)
  BY <1>2
<1>4. 1 \in DOMAIN req
  BY <1>2
<1> QED BY <1>2, <1>3, <1>4 DEF Range

LEMMA IdleFacts ==
    /\ Idle \in OpRecords /\ Idle.pc = "idle" /\ Idle.staged = <<>> /\ Idle.rest = <<>>
    /\ Idle.n = 0 /\ Idle.then = "none" /\ Idle.stop = "none" /\ Idle.bad = FALSE /\ Idle.kind = "patch"
<1>1. (CHOOSE v \in Val : TRUE) \in Val
  BY ValAssumption
<1>2. "idle" \in Pcs /\ "none" \in Results /\ <<>> \in Seq(Path)
  BY DEF Pcs, Results
<1> QED BY <1>1, <1>2 DEF Idle, OpRecords

LEMMA BeginInv ==
    ASSUME WorkspaceInv, NEW o \in Op, Begin(o)
    PROVE  WorkspaceInv'
<1>1. TypeInv /\ OpInv(o) /\ op[o].pc = "idle"
  BY DEF WorkspaceInv, Begin, At
<1>20. PICK k \in Kinds, v \in Val : \E req \in Requests(k) :
        op' = [op EXCEPT ![o] = [Idle EXCEPT !.pc = "lock", !.kind = k, !.val = v, !.req = req]]
  BY DEF Begin
<1>2. PICK req \in Requests(k) :
        op' = [op EXCEPT ![o] = [Idle EXCEPT !.pc = "lock", !.kind = k, !.val = v, !.req = req]]
  BY <1>20
<1> DEFINE x == [Idle EXCEPT !.pc = "lock", !.kind = k, !.val = v, !.req = req]
<1>3. req \in Seq(Path) /\ Range(req) # {} /\ IsInjective(req) /\ Range(req) \subseteq Path
  <2>1. req \in Seq(Path) /\ Range(req) # {} /\ IsInjective(req)
    BY RequestFacts
  <2> QED BY <2>1 DEF Range
<1>4. k \in {"patch", "write", "mkdir"} /\ "lock" \in Pcs /\ "none" \in Results
  BY BoundAssumption DEF Pcs, Results
<1>5. /\ x.pc = "lock" /\ x.kind = k /\ x.val = v /\ x.req = req /\ x.staged = <<>> /\ x.rest = <<>>
      /\ x.n = 0 /\ x.then = "none" /\ x.stop = "none" /\ x.bad = FALSE /\ x \in OpRecords
  BY <1>3, <1>4, IdleFacts DEF OpRecords
<1> HIDE DEF x
<1>6. op'[o] = x /\ OnlyMoves(o)
  BY <1>1, <1>2, <1>5 DEF TypeInv, OnlyMoves, x
<1>7. Quiet /\ lease' = lease /\ budget' = budget /\ open' = open \cup {o}
      /\ UNCHANGED <<started, fenced, phase, verdict>>
  BY DEF Begin, Quiet
<1>8. TypeInv'
  BY <1>1, <1>6, <1>7, QuietType DEF TypeInv, OnlyMoves
<1>9. OwnStep(o) /\ \A p \in Path : Mapped(<<o, p>>)'
  BY <1>6, <1>7, QuietStep
<1>10. MayCommit(o)
  BY <1>5, <1>6 DEF MayCommit, Committing, CommitPcs
<1>11. \A p \in Path : Fresh(<<o, p>>)' /\ Unstaged(<<o, p>>)'
  <2>1. \A p \in Path : Fresh(<<o, p>>)
    BY <1>1 DEF OpInv, FreshInv
  <2> QED BY <1>7, <2>1, QuietTx DEF Fresh
<1>12. LeaseInv(o)'
  <2>1. Wanted(o)' = Range(req)
    <3>1. \A p \in Path : lease'[p] # o
      BY <1>1, <1>7 DEF OpInv, LeaseInv
    <3> QED BY <1>3, <1>5, <1>6, <3>1 DEF Wanted
  <2> QED BY <1>3, <1>5, <1>6, <2>1 DEF LeaseInv, Holding, Preparing, CommitPcs, Undoing
<1>13. OpInv(o)'
  <2>1. FreshInv(o)'
    BY <1>5, <1>6, <1>11 DEF FreshInv
  <2>2. KindInv(o)'
    BY <1>5, <1>6, <1>11 DEF KindInv
  <2>3. PrepareInv(o)' /\ CommitInv(o)' /\ UndoInv(o)' /\ ReportInv(o)' /\ TargetInv(o)'
    BY <1>5, <1>6 DEF PrepareInv, CommitInv, UndoInv, ReportInv, TargetInv, AtChild, Preparing, CommitPcs, Undoing, Recovering
  <2> QED BY <1>12, <2>1, <2>2, <2>3 DEF OpInv
<1> QED BY <1>8, <1>9, <1>10, <1>13, Preserved

LEMMA LeastNat ==
    ASSUME NEW T, T \subseteq Nat, T # {}
    PROVE  \E n \in T : \A m \in T : n <= m
<1>1. PICK n \in T : \A m \in T : ~(<<m, n>> \in OpToRel(<, Nat))
  BY NatLessThanWellFounded, WFMin
<1>2. \A m \in T : ~(m < n)
  BY <1>1 DEF OpToRel
<1> QED BY <1>2

\* Sorted acquisition: there is a least key.
LEMMA NextKeyFacts ==
    ASSUME TypeInv, NEW o \in Op, Wanted(o) # {}
    PROVE  NextKey(o) \in Wanted(o) /\ Wanted(o) \subseteq Range(op[o].req) /\ Wanted(o) \subseteq Path
<1>1. Wanted(o) \subseteq Range(op[o].req) /\ Wanted(o) \subseteq Path
  BY RangeFacts DEF Wanted
<1>3. \E p \in Wanted(o) : \A q \in Wanted(o) : p <= q
  <2>1. Wanted(o) \subseteq Nat
    BY <1>1, PathAssumption
  <2> QED BY <2>1, LeastNat
<1> QED BY <1>1, <1>3 DEF NextKey

LEMMA LockInv ==
    ASSUME WorkspaceInv, NEW o \in Op, Lock(o)
    PROVE  WorkspaceInv'
<1>1. TypeInv /\ OpInv(o) /\ op[o].pc = "lock" /\ Wanted(o) # {}
  BY DEF WorkspaceInv, Lock, At, OpInv, LeaseInv
<1>2. PICK k \in Path : k = NextKey(o) /\ k \in Wanted(o)
  BY <1>1, NextKeyFacts
<1>3. /\ Wanted(o) \subseteq Path /\ Wanted(o) \subseteq Range(op[o].req) /\ IsFiniteSet(Wanted(o))
      /\ lease[k] = NoOp /\ lease' = [lease EXCEPT ![k] = o]
  <2>1. Wanted(o) \subseteq Path /\ Wanted(o) \subseteq Range(op[o].req)
    BY <1>1, NextKeyFacts
  <2> QED BY <1>2, <2>1, PathAssumption, FS_Subset DEF Lock
<1>4. Quiet /\ budget' = budget /\ UNCHANGED <<open, started, fenced, phase, verdict>>
  BY DEF Lock, Quiet, coreVars
<1>5. /\ OnlyMoves(o) /\ SameTask(o)
      /\ op'[o].staged = op[o].staged /\ op'[o].rest = op[o].rest /\ op'[o].n = op[o].n
      /\ op'[o].then = op[o].then /\ op'[o].stop = op[o].stop /\ op'[o].bad = op[o].bad
      /\ \/ op'[o].pc = "snapshot" /\ Cardinality(Wanted(o)) = 1
         \/ op'[o].pc = "lock" /\ Cardinality(Wanted(o)) # 1
  <2>1. "snapshot" \in Pcs
    BY DEF Pcs, Holding
  <2>2. CASE Cardinality(Wanted(o)) = 1
    <3>1. Goes(o, "snapshot")
      BY <2>2 DEF Lock
    <3> QED BY <1>1, <2>1, <2>2, <3>1, GoesFacts
  <2>3. CASE Cardinality(Wanted(o)) # 1
    BY <1>1, <2>3 DEF Lock, OnlyMoves, SameTask, TypeInv
  <2> QED BY <2>2, <2>3
<1>6. lease' \in [Path -> Op \cup {NoOp}] /\ lease'[k] = o /\ \A p \in Path : p # k => lease'[p] = lease[p]
  BY <1>1, <1>3 DEF TypeInv
<1>7. TypeInv'
  BY <1>1, <1>4, <1>5, <1>6, QuietType DEF TypeInv, OnlyMoves
<1>8. OwnStep(o) /\ \A p \in Path : Mapped(<<o, p>>)'
  <2>1. \A p \in Path : lease'[p] = lease[p] \/ {lease[p], lease'[p]} \subseteq {o, NoOp}
    BY <1>3, <1>6
  <2> QED BY <1>4, <1>5, <2>1, QuietStep
<1>9. MayCommit(o)
  BY <1>1, <1>5 DEF MayCommit, Committing, CommitPcs
<1>10. \A p \in Path : Fresh(<<o, p>>)' /\ Unstaged(<<o, p>>)'
  <2>1. \A p \in Path : Fresh(<<o, p>>)
    BY <1>1 DEF OpInv, FreshInv
  <2> QED BY <1>4, <2>1, QuietTx DEF Fresh
<1>11. LeaseInv(o)'
  <2>1. IsInjective(op'[o].req) /\ op[o].staged = <<>> /\ op[o].rest = <<>> /\ op'[o].req = op[o].req
    BY <1>1, <1>5 DEF OpInv, LeaseInv, FreshInv, SameTask
  <2>2. Wanted(o)' = Wanted(o) \ {k}
    BY <1>2, <1>3, <1>6, <2>1, RangeFacts, <1>1 DEF Wanted
  <2>3. CASE Cardinality(Wanted(o)) = 1
    <3>1. Wanted(o)' = {}
      BY <1>2, <1>3, <2>2, <2>3, FS_Singleton
    <3>2. \A p \in Range(op[o].req) : lease'[p] = o
      BY <2>1, <3>1 DEF Wanted
    <3> QED BY <1>5, <2>1, <2>3, <3>2, EmptyFacts DEF LeaseInv
  <2>4. CASE Cardinality(Wanted(o)) # 1
    <3>1. Wanted(o) # {k}
      BY <2>4, FS_Singleton
    <3>2. Wanted(o)' # {}
      BY <1>2, <2>2, <3>1
    <3> QED BY <1>5, <2>1, <2>4, <3>2 DEF LeaseInv, Holding, Preparing, CommitPcs, Undoing
  <2> QED BY <2>3, <2>4
<1>12. OpInv(o)'
  <2>0. op'[o].pc \in {"lock", "snapshot"} /\ op[o].pc = "lock"
    BY <1>1, <1>5
  <2>1. FreshInv(o)'
    BY <1>1, <1>5, <1>10, <2>0 DEF FreshInv, OpInv
  <2>2. KindInv(o)'
    BY <1>10, <2>0 DEF KindInv
  <2>3. PrepareInv(o)' /\ CommitInv(o)' /\ UndoInv(o)' /\ ReportInv(o)' /\ TargetInv(o)'
    BY <2>0 DEF PrepareInv, CommitInv, UndoInv, ReportInv, TargetInv, AtChild, Preparing, CommitPcs, Undoing, Recovering
  <2> QED BY <1>11, <2>1, <2>2, <2>3 DEF OpInv
<1> QED BY <1>7, <1>8, <1>9, <1>12, Preserved

-----------------------------------------------------------------------------
(* Own steps: which parts of OpInv say nothing after them *)

LEMMA OverParts ==
    ASSUME NEW o \in Op, op'[o].pc \in {"settle", "done", "lost"} \cup Recovering
    PROVE  /\ FreshInv(o)' /\ LeaseInv(o)' /\ PrepareInv(o)' /\ CommitInv(o)' /\ UndoInv(o)' /\ TargetInv(o)'
           /\ (IsDir(o)' => \A p \in Path : Unstaged(<<o, p>>)') => KindInv(o)'
<1>1. FreshInv(o)' /\ LeaseInv(o)' /\ TargetInv(o)'
  BY DEF FreshInv, LeaseInv, TargetInv, Holding, Preparing, CommitPcs, Undoing, Recovering
<1>2. PrepareInv(o)' /\ CommitInv(o)' /\ UndoInv(o)'
  BY DEF PrepareInv, CommitInv, UndoInv, AtChild, Preparing, CommitPcs, Undoing, Recovering
<1>3. (IsDir(o)' => \A p \in Path : Unstaged(<<o, p>>)') => KindInv(o)'
  BY DEF KindInv, Recovering
<1> QED BY <1>1, <1>2, <1>3

LEMMA UndoParts ==
    ASSUME NEW o \in Op, op'[o].pc \in Undoing, ~(op'[o].then = "settle" /\ op'[o].stop = "none")
    PROVE  FreshInv(o)' /\ PrepareInv(o)' /\ CommitInv(o)' /\ ReportInv(o)' /\ TargetInv(o)' /\ ~AtChild(o)'
BY DEF FreshInv, PrepareInv, CommitInv, ReportInv, TargetInv, AtChild, Preparing, CommitPcs, Undoing, Recovering

LEMMA SettlingParts ==
    ASSUME NEW o \in Op, op'[o].pc \in {"cleanup", "rollback"}, op'[o].then = "settle", op'[o].stop = "none"
    PROVE  FreshInv(o)' /\ PrepareInv(o)' /\ UndoInv(o)' /\ ReportInv(o)' /\ TargetInv(o)'
BY DEF FreshInv, PrepareInv, UndoInv, ReportInv, TargetInv, AtChild, Preparing, CommitPcs, Undoing, Recovering

LEMMA CommitParts ==
    ASSUME NEW o \in Op, op'[o].pc \in CommitPcs
    PROVE  FreshInv(o)' /\ PrepareInv(o)' /\ UndoInv(o)' /\ ReportInv(o)'
BY DEF FreshInv, PrepareInv, UndoInv, ReportInv, AtChild, Preparing, CommitPcs, Undoing, Recovering

LEMMA PrepareParts ==
    ASSUME NEW o \in Op, op'[o].pc \in Preparing \cup {"prepared"}
    PROVE  FreshInv(o)' /\ CommitInv(o)' /\ UndoInv(o)' /\ ReportInv(o)'
BY DEF FreshInv, CommitInv, UndoInv, ReportInv, AtChild, Preparing, CommitPcs, Undoing, Recovering

\* The lease group is kept while its holder goes on.
LEMMA LeaseKept ==
    ASSUME NEW o \in Op, LeaseInv(o), op[o].pc \in Holding, op'[o].pc \in Holding \ {"snapshot"},
           lease' = lease, SameTask(o),
           Range(op'[o].staged) \cup Range(op'[o].rest) \subseteq Range(op[o].req)
    PROVE  LeaseInv(o)'
BY DEF LeaseInv, SameTask, Holding, Preparing, CommitPcs, Undoing

\* A step that ends the call: Returns.
LEMMA ReturnStep ==
    ASSUME WorkspaceInv, NEW o \in Op, NEW r \in Results, Returns(o, r), Quiet, budget' = budget,
           UNCHANGED coreVars,
           op[o].pc \in {"snapshot", "unwind"},
           r = "Applied" => op[o].then = "settle" /\ \A p \in Range(op[o].staged) : Kept(<<o, p>>),
           r \in {"NotApplied", "RolledBack"} => \A p \in Range(op[o].staged) : Gone(<<o, p>>)
    PROVE  WorkspaceInv'
<1>1. TypeInv /\ OpInv(o)
  BY DEF WorkspaceInv
<1>2. /\ OnlyMoves(o) /\ SameTask(o) /\ op'[o].pc = "settle"
      /\ op'[o].staged = op[o].staged /\ op'[o].rest = <<>> /\ op'[o].n = op[o].n
      /\ op'[o].then = op[o].then /\ op'[o].stop = r /\ op'[o].bad = op[o].bad
      /\ lease' \in [Path -> Op \cup {NoOp}]
      /\ \A p \in Path : lease'[p] = lease[p] \/ (lease[p] = o /\ lease'[p] = NoOp)
  BY <1>1, ReturnsFacts
<1>3. TypeInv'
  BY <1>1, <1>2, QuietType DEF TypeInv, OnlyMoves, coreVars
<1>4. OwnStep(o) /\ \A p \in Path : Mapped(<<o, p>>)'
  <2>1. \A p \in Path : lease'[p] = lease[p] \/ {lease[p], lease'[p]} \subseteq {o, NoOp}
    BY <1>2
  <2> QED BY <1>2, <2>1, QuietStep
<1>5. MayCommit(o)
  BY <1>1, <1>2 DEF MayCommit, Committing, CommitPcs, OpInv, FreshInv
<1>6. KindInv(o)'
  <2>1. IsDir(o)' => \A p \in Path : Unstaged(<<o, p>>)'
    BY <1>1, <1>2, QuietTx DEF OpInv, KindInv, IsDir, SameTask
  <2> QED BY <1>2, <2>1, OverParts
<1>7. ReportInv(o)'
  <2>1. op'[o].staged = op[o].staged /\ Range(op[o].staged) \subseteq Path
    BY <1>1, <1>2, RangeFacts
  <2> QED BY <1>2, <2>1, QuietTx DEF ReportInv, Recovering
<1>8. OpInv(o)'
  BY <1>2, <1>6, <1>7, OverParts DEF OpInv
<1> QED BY <1>3, <1>4, <1>5, <1>8, Preserved

LEMMA SnapshotInv ==
    ASSUME WorkspaceInv, NEW o \in Op, Snapshot(o)
    PROVE  WorkspaceInv'
<1>1. TypeInv /\ OpInv(o) /\ op[o].pc = "snapshot"
  BY DEF WorkspaceInv, Snapshot, At
<1>2. /\ op[o].staged = <<>> /\ op[o].rest = <<>> /\ op[o].n = 0 /\ op[o].then = "none" /\ op[o].stop = "none"
      /\ ~op[o].bad /\ \A p \in Path : Fresh(<<o, p>>)
  BY <1>1 DEF OpInv, FreshInv
<1>3. ASSUME NEW r \in {"ToolError", "Value"}, Returns(o, r), UNCHANGED plan
      PROVE  WorkspaceInv'
  <2>1. Quiet /\ budget' = budget /\ UNCHANGED coreVars
    BY <1>3 DEF Snapshot, Quiet
  <2>2. r \in Results /\ r # "Applied" /\ r \notin {"NotApplied", "RolledBack"}
    BY DEF Results
  <2> QED BY <1>1, <1>3, <2>1, <2>2, ReturnStep
<1>4. ASSUME Admissible(o), ToStage(o) # {} PROVE WorkspaceInv'
  <2>1. PICK rest \in Selections(op[o].req, ToStage(o)) :
          op' = [op EXCEPT ![o].pc = "intent", ![o].rest = rest]
    BY <1>4 DEF Snapshot
  <2>2. /\ lease' = lease /\ UNCHANGED <<fsVars, walVars, coreVars, history, budget>>
        /\ plan' = [tx \in Tx |-> IF OpOf(tx) = o /\ PathOf(tx) \in Range(op[o].req)
                                  THEN [before |-> disk[PathOf(tx)].is,
                                        after |-> IF IsDir(o) THEN "dir" ELSE op[o].val]
                                  ELSE plan[tx]]
    BY <1>4 DEF Snapshot
  <2>3. rest \in Seq(Path) /\ rest # <<>> /\ IsInjective(rest) /\ Range(rest) \subseteq Range(op[o].req)
    <3>1. ToStage(o) \subseteq Range(op[o].req)
      BY DEF ToStage
    <3>2. op[o].req \in Seq(Path) /\ IsInjective(op[o].req)
      BY <1>1, RangeFacts DEF OpInv, LeaseInv
    <3> QED BY <1>4, <3>1, <3>2, SelectionFacts
  <2>4. /\ OnlyMoves(o) /\ SameTask(o) /\ op'[o].pc = "intent"
        /\ op'[o].staged = <<>> /\ op'[o].rest = rest /\ op'[o].n = 0
        /\ op'[o].then = "none" /\ op'[o].stop = "none" /\ ~op'[o].bad
    <3> DEFINE x == [op[o] EXCEPT !.pc = "intent", !.rest = rest]
    <3>1. op' = [op EXCEPT ![o] = x]
      BY ONLY <2>1
    <3>2. "intent" \in Pcs /\ op[o] \in OpRecords
      BY <1>1 DEF TypeInv, Pcs, Holding, Preparing
    <3>3. /\ x.pc = "intent" /\ x.rest = rest /\ x.stop = op[o].stop /\ x.then = op[o].then
          /\ x.n = op[o].n /\ x.kind = op[o].kind /\ x.val = op[o].val /\ x.req = op[o].req
          /\ x.staged = op[o].staged /\ x.bad = op[o].bad /\ x \in OpRecords
      BY <2>3, <3>2 DEF OpRecords
    <3> HIDE DEF x
    <3> QED BY <1>1, <1>2, <3>1, <3>3, Becomes
  <2>5. /\ plan' \in [Tx -> [before : Content, after : Content]]
        /\ \A q \in Op, p \in Path : q # o => plan'[<<q, p>>] = plan[<<q, p>>]
        /\ \A p \in Range(op[o].req) : plan'[<<o, p>>].before = disk[p].is
    <3>1. \A p \in Path : disk[p].is \in Content
      BY <1>1 DEF TypeInv, Entries
    <3>2. (IF IsDir(o) THEN "dir" ELSE op[o].val) \in Content
      BY <1>1 DEF TypeInv, OpRecords, Content
    <3>3. \A tx \in Tx : plan'[tx] \in [before : Content, after : Content]
      BY <1>1, <2>2, <3>1, <3>2, TxFacts DEF TypeInv
    <3>4. plan' \in [Tx -> [before : Content, after : Content]]
      BY <2>2, <3>3
    <3>5. \A q \in Op, p \in Path : q # o => plan'[<<q, p>>] = plan[<<q, p>>]
      BY <2>2, TxFacts
    <3>6. ASSUME NEW p \in Range(op[o].req) PROVE plan'[<<o, p>>].before = disk[p].is
      <4>1. p \in Path
        BY <1>1, RangeFacts
      <4> QED BY <2>2, <4>1, TxFacts
    <3> QED BY <3>4, <3>5, <3>6
  <2>6. TypeInv'
    BY <1>1, <2>2, <2>4, <2>5 DEF TypeInv, OnlyMoves, fsVars, walVars, coreVars, history
  <2>7. OwnStep(o)
    BY <2>2, <2>4, <2>5 DEF OwnStep, OnlyMoves, fsVars, walVars, history
  <2>8. \A p \in Path : Fresh(<<o, p>>)' /\ Absent(<<o, p>>)' /\ Unstaged(<<o, p>>)' /\ Mapped(<<o, p>>)'
    BY <1>2, <2>2 DEF Fresh, Absent, Unstaged, Mapped, fsVars, walVars
  <2>9. MayCommit(o)
    BY <2>4 DEF MayCommit, Committing, CommitPcs
  <2>10. LeaseInv(o)'
    <3>1. op[o].pc \in Holding /\ op'[o].pc \in Holding \ {"snapshot"}
      BY <1>1, <2>4 DEF Holding, Preparing
    <3> QED BY <1>1, <2>2, <2>3, <2>4, <3>1, LeaseKept, EmptyFacts DEF OpInv
  <2>11. KindInv(o)'
    BY <2>4, <2>8 DEF KindInv
  <2>12. PrepareInv(o)'
    BY <2>3, <2>4, <2>8, EmptyFacts DEF PrepareInv, Preparing
  <2>13. TargetInv(o)'
    <3>1. ASSUME NEW p \in Range(op[o].req) PROVE Snapped(<<o, p>>)'
      <4>1. p \in Path /\ PathOf(<<o, p>>) = p
        BY <1>1, RangeFacts, TxFacts
      <4> QED BY <2>2, <2>5, <4>1 DEF Snapped, fsVars
    <3> QED BY <2>4, <3>1 DEF TargetInv, SameTask, Preparing
  <2>14. OpInv(o)'
    BY <2>4, <2>10, <2>11, <2>12, <2>13, PrepareParts DEF OpInv, Preparing
  <2> QED BY <2>6, <2>7, <2>8, <2>9, <2>14, Preserved
<1> QED BY <1>3, <1>4 DEF Snapshot

-----------------------------------------------------------------------------
(* Own steps: work on one transaction *)

FilesTyped ==
    /\ disk \in [Path -> Entries] /\ diskDurable \in [Path -> Entries]
    /\ temp \in [Tx -> TempStates] /\ tempDurable \in [Tx -> TempStates]
    /\ wal \in [Tx -> TxStates] /\ mem \in [Tx -> TxStates] /\ walFailed \in BOOLEAN
    /\ budget \in [faults : Nat, crashes : Nat, foreign : Nat]

CoreTyped ==
    /\ open \subseteq Op /\ started \subseteq Op /\ fenced \in BOOLEAN
    /\ phase \in {"up", "recovering"} /\ verdict \in [Op -> Verdicts]

\* Whatever the step does to files and journal, it does to o's transaction
\* for h; a directory sync takes the other staging files of the directory
\* along.
Touches(o, h) ==
    /\ \A q \in Op, p \in Path : q # o \/ p # h =>
          /\ temp'[<<q, p>>] = temp[<<q, p>>]
          /\ tempDurable'[<<q, p>>] \in {tempDurable[<<q, p>>], temp[<<q, p>>]}
          /\ wal'[<<q, p>>] = wal[<<q, p>>] /\ mem'[<<q, p>>] = mem[<<q, p>>]
    /\ \A p \in Path : p # h => disk'[p] = disk[p] /\ diskDurable'[p] = diskDurable[p]
    /\ \/ disk'[h] = disk[h]
       \/ Committing(o) /\ lease[h] = o /\ disk'[h].by \in {<<o, h>>, NoTx}
    /\ diskDurable'[h] \in {diskDurable[h], disk'[h]}
    /\ plan' = plan /\ foreign' = foreign /\ raced' = raced

Works(o, h) ==
    /\ Touches(o, h) /\ FilesTyped' /\ CoreTyped' /\ lease' = lease
    /\ Mapped(<<o, h>>)' /\ (IsDir(o) => Unstaged(<<o, h>>)')

\* The other transactions of the operation.
LEMMA TouchOther ==
    ASSUME NEW o \in Op, NEW h \in Path, Touches(o, h), NEW p \in Path, p # h
    PROVE  /\ Absent(<<o, p>>) => Absent(<<o, p>>)'
           /\ Unstaged(<<o, p>>) => Unstaged(<<o, p>>)'
           /\ Fresh(<<o, p>>) => Fresh(<<o, p>>)'
           /\ Gone(<<o, p>>) => Gone(<<o, p>>)'
           /\ Kept(<<o, p>>) => Kept(<<o, p>>)'
           /\ Snapped(<<o, p>>) => Snapped(<<o, p>>)'
           /\ Mapped(<<o, p>>) => Mapped(<<o, p>>)'
           /\ wal'[<<o, p>>] = wal[<<o, p>>]
<1> DEFINE tx == <<o, p>>
<1>1. PathOf(tx) = p
  BY TxFacts
<1>2. /\ wal'[tx] = wal[tx] /\ mem'[tx] = mem[tx] /\ plan'[tx] = plan[tx] /\ temp'[tx] = temp[tx]
      /\ tempDurable'[tx] \in {tempDurable[tx], temp[tx]}
      /\ disk'[p] = disk[p] /\ diskDurable'[p] = diskDurable[p] /\ foreign' = foreign
  BY DEF Touches
<1> HIDE DEF tx
<1>3. (Absent(tx) => Absent(tx)') /\ (Unstaged(tx) => Unstaged(tx)')
  BY <1>1, <1>2 DEF Absent, Unstaged
<1>4. (Fresh(tx) => Fresh(tx)') /\ (Gone(tx) => Gone(tx)') /\ (Mapped(tx) => Mapped(tx)')
  BY <1>2, <1>3 DEF Fresh, Gone, Mapped
<1>5. (Kept(tx) => Kept(tx)') /\ (Snapped(tx) => Snapped(tx)')
  BY <1>1, <1>2 DEF Kept, InPlace, Snapped
<1> QED BY <1>2, <1>3, <1>4, <1>5 DEF tx

\* The transaction itself, while its target is left alone.
LEMMA TouchSame ==
    ASSUME NEW o \in Op, NEW h \in Path, Touches(o, h)
    PROVE  /\ Absent(<<o, h>>) /\ disk'[h].by # <<o, h>> => Absent(<<o, h>>)'
           /\ disk'[h] = disk[h] =>
                 /\ Absent(<<o, h>>) => Absent(<<o, h>>)'
                 /\ InPlace(<<o, h>>) => InPlace(<<o, h>>)'
                 /\ Snapped(<<o, h>>) => Snapped(<<o, h>>)'
<1> DEFINE tx == <<o, h>>
<1>1. PathOf(tx) = h
  BY TxFacts
<1>2. /\ plan'[tx] = plan[tx] /\ foreign' = foreign
      /\ diskDurable'[h] \in {diskDurable[h], disk'[h]}
  BY DEF Touches
<1> HIDE DEF tx
<1>3. Absent(tx) /\ disk'[h].by # tx => Absent(tx)'
  BY <1>1, <1>2 DEF Absent
<1>4. disk'[h] = disk[h] => (Absent(tx) => Absent(tx)') /\ (InPlace(tx) => InPlace(tx)') /\ (Snapped(tx) => Snapped(tx)')
  BY <1>1, <1>2 DEF Absent, InPlace, Snapped
<1> QED BY <1>3, <1>4 DEF tx

\* What is left to show of a step that works on one transaction.
LEMMA WorksFacts ==
    ASSUME WorkspaceInv, NEW o \in Op, NEW h \in Path, Works(o, h), OnlyMoves(o), SameTask(o)
    PROVE  /\ TypeInv' /\ OwnStep(o)
           /\ \A p \in Path : Mapped(<<o, p>>)'
           /\ IsDir(o)' => \A p \in Path : Unstaged(<<o, p>>)'
<1>1. TypeInv /\ OpInv(o) /\ Touches(o, h)
  BY DEF WorkspaceInv, Works
<1>2. TypeInv'
  BY <1>1 DEF TypeInv, Works, Touches, OnlyMoves, FilesTyped, CoreTyped
<1>3. OwnStep(o)
  BY <1>1 DEF OwnStep, Works, Touches, OnlyMoves
<1>4. ASSUME NEW p \in Path PROVE Mapped(<<o, p>>)'
  <2>1. CASE p = h
    BY <2>1 DEF Works
  <2>2. CASE p # h
    <3>1. Mapped(<<o, p>>)
      BY TxFacts DEF WorkspaceInv, StagingIsMapped, Mapped, Unstaged
    <3> QED BY <1>1, <2>2, <3>1, TouchOther
  <2> QED BY <2>1, <2>2
<1>5. ASSUME IsDir(o)', NEW p \in Path PROVE Unstaged(<<o, p>>)'
  <2>1. IsDir(o) /\ Unstaged(<<o, p>>)
    BY <1>1, <1>5 DEF OpInv, KindInv, IsDir, SameTask
  <2>2. CASE p = h
    BY <2>1, <2>2 DEF Works
  <2>3. CASE p # h
    BY <1>1, <2>1, <2>3, TouchOther
  <2> QED BY <2>2, <2>3
<1> QED BY <1>2, <1>3, <1>4, <1>5

LEMMA CoreKept ==
    ASSUME TypeInv, UNCHANGED coreVars
    PROVE  CoreTyped'
BY DEF TypeInv, CoreTyped, coreVars

\* Journal records about one transaction.
LEMMA JournalWorks ==
    ASSUME WorkspaceInv, NEW o \in Op, NEW h \in Path, NEW s \in TxStates, s # "none",
           wal' \in {wal, [wal EXCEPT ![<<o, h>>] = s]}, mem' \in {mem, [mem EXCEPT ![<<o, h>>] = s]},
           walFailed' \in BOOLEAN, Fault \/ NoFault,
           CoreTyped', UNCHANGED <<fsVars, plan, lease, history>>
    PROVE  /\ Works(o, h) /\ disk' = disk /\ diskDurable' = diskDurable
           /\ Unstaged(<<o, h>>)' <=> Unstaged(<<o, h>>)
<1> DEFINE c == <<o, h>>
<1>1. TypeInv /\ OpInv(o) /\ c \in Tx /\ \A q \in Op, p \in Path : <<q, p>> \in Tx
  BY TxFacts DEF WorkspaceInv
<1>2. FilesTyped'
  <2>1. wal' \in [Tx -> TxStates] /\ mem' \in [Tx -> TxStates]
    <3>1. wal \in [Tx -> TxStates] /\ mem \in [Tx -> TxStates]
      BY <1>1 DEF TypeInv
    <3>2. [wal EXCEPT ![<<o, h>>] = s] \in [Tx -> TxStates] /\ [mem EXCEPT ![<<o, h>>] = s] \in [Tx -> TxStates]
      BY <1>1, <3>1
    <3> QED BY <3>1, <3>2
  <2>2. budget' \in [faults : Nat, crashes : Nat, foreign : Nat]
    BY <1>1, FaultType
  <2> QED BY <1>1, <2>1, <2>2 DEF TypeInv, FilesTyped, fsVars
<1>3. \A q \in Op, p \in Path : q # o \/ p # h => wal'[<<q, p>>] = wal[<<q, p>>] /\ mem'[<<q, p>>] = mem[<<q, p>>]
  BY <1>1 DEF TypeInv
<1>4. disk' = disk /\ diskDurable' = diskDurable /\ temp' = temp /\ tempDurable' = tempDurable
  BY DEF fsVars
<1>5. Touches(o, h)
  BY <1>3, <1>4 DEF Touches, history
<1>6. Unstaged(c)' <=> Unstaged(c)
  BY <1>4 DEF Unstaged
<1>7. Mapped(c)'
  <2>1. Mapped(c)
    BY <1>1 DEF WorkspaceInv, StagingIsMapped, Mapped, Unstaged
  <2>2. wal'[c] \in {wal[c], s}
    BY <1>1 DEF TypeInv
  <2> HIDE DEF c
  <2> QED BY <1>6, <2>1, <2>2 DEF Mapped
<1>8. IsDir(o) => Unstaged(c)'
  BY <1>1, <1>6 DEF OpInv, KindInv
<1> QED BY <1>2, <1>4, <1>5, <1>6, <1>7, <1>8 DEF Works

\* File-system calls for one transaction.
LEMMA FileWorks ==
    ASSUME WorkspaceInv, NEW o \in Op, NEW h \in Path,
           NEW s \in TempStates, NEW d \in TempStates, NEW e \in Entries,
           {s, d} = {"none"} \/ (~IsDir(o) /\ wal[<<o, h>>] # "none"),
           temp' \in {temp, [temp EXCEPT ![<<o, h>>] = s]},
           disk' = disk \/ (/\ disk' = [disk EXCEPT ![h] = e] /\ e.by \in {<<o, h>>, NoTx}
                            /\ Committing(o) /\ lease[h] = o),
           \/ DirSynced(h)
           \/ diskDurable' = diskDurable /\ tempDurable' \in {tempDurable, [tempDurable EXCEPT ![<<o, h>>] = d]},
           Fault \/ NoFault, CoreTyped',
           UNCHANGED <<walVars, plan, lease, history>>
    PROVE  Works(o, h)
<1> DEFINE c == <<o, h>>
<1>1. /\ TypeInv /\ OpInv(o) /\ c \in Tx /\ PathOf(c) = h
      /\ \A q \in Op, p \in Path : <<q, p>> \in Tx /\ PathOf(<<q, p>>) = p
  BY TxFacts DEF WorkspaceInv
<1>2. disk' \in [Path -> Entries] /\ temp' \in [Tx -> TempStates]
  <2>1. disk \in [Path -> Entries] /\ temp \in [Tx -> TempStates]
    BY <1>1 DEF TypeInv
  <2>2. disk' \in [Path -> Entries]
    BY <2>1
  <2>3. temp' \in [Tx -> TempStates]
    BY <1>1, <2>1
  <2> QED BY <2>2, <2>3
<1>3. /\ \A q \in Op, p \in Path : q # o \/ p # h => temp'[<<q, p>>] = temp[<<q, p>>]
      /\ temp'[c] \in {temp[c], s}
  BY <1>1 DEF TypeInv
<1>4. /\ \A p \in Path : p # h => disk'[p] = disk[p]
      /\ disk'[h] = disk[h] \/ (Committing(o) /\ lease[h] = o /\ disk'[h].by \in {c, NoTx})
  BY <1>1 DEF TypeInv
<1>5. /\ diskDurable' \in [Path -> Entries] /\ tempDurable' \in [Tx -> TempStates]
      /\ \A p \in Path : p # h => diskDurable'[p] = diskDurable[p]
      /\ diskDurable'[h] \in {diskDurable[h], disk'[h]}
      /\ \A q \in Op, p \in Path : q # o \/ p # h =>
            tempDurable'[<<q, p>>] \in {tempDurable[<<q, p>>], temp[<<q, p>>]}
      /\ tempDurable'[c] \in {tempDurable[c], temp'[c], d}
  <2>0. diskDurable \in [Path -> Entries] /\ tempDurable \in [Tx -> TempStates] /\ temp \in [Tx -> TempStates]
    BY <1>1 DEF TypeInv
  <2>1. CASE DirSynced(h)
    <3>1. diskDurable' = [diskDurable EXCEPT ![h] = disk'[h]] /\ disk'[h] \in Entries
      BY <1>2, <2>1 DEF DirSynced
    <3>2. tempDurable' = [tx \in Tx |-> IF PathOf(tx) = h THEN temp'[tx] ELSE tempDurable[tx]]
      BY <2>1 DEF DirSynced
    <3>3. tempDurable' \in [Tx -> TempStates] /\ tempDurable'[c] = temp'[c]
      BY <1>1, <1>2, <2>0, <3>2
    <3>4. \A q \in Op, p \in Path : q # o \/ p # h =>
            tempDurable'[<<q, p>>] \in {tempDurable[<<q, p>>], temp[<<q, p>>]}
      BY <1>1, <1>3, <3>2
    <3>5. /\ diskDurable' \in [Path -> Entries] /\ diskDurable'[h] = disk'[h]
          /\ \A p \in Path : p # h => diskDurable'[p] = diskDurable[p]
      BY <2>0, <3>1
    <3> QED BY <3>3, <3>4, <3>5
  <2>2. CASE diskDurable' = diskDurable /\ tempDurable' \in {tempDurable, [tempDurable EXCEPT ![<<o, h>>] = d]}
    BY <1>1, <2>0, <2>2
  <2> QED BY <2>1, <2>2
<1>6. FilesTyped'
  <2>1. budget' \in [faults : Nat, crashes : Nat, foreign : Nat]
    BY <1>1, FaultType
  <2> QED BY <1>1, <1>2, <1>5, <2>1 DEF TypeInv, FilesTyped, walVars
<1>7. Touches(o, h)
  BY <1>3, <1>4, <1>5 DEF Touches, walVars, history
<1>8. {s, d} = {"none"} => (Unstaged(c) => Unstaged(c)')
  <2> HIDE DEF c
  <2> QED BY <1>3, <1>5 DEF Unstaged
<1>9. Mapped(c) /\ (IsDir(o) => Unstaged(c))
  BY <1>1 DEF WorkspaceInv, StagingIsMapped, Mapped, Unstaged, OpInv, KindInv
<1>10. Mapped(c)' /\ (IsDir(o) => Unstaged(c)')
  <2>1. wal'[c] = wal[c]
    BY DEF walVars
  <2>2. {s, d} = {"none"} \/ (~IsDir(o) /\ wal[c] # "none")
    OBVIOUS
  <2> HIDE DEF c
  <2> QED BY <1>8, <1>9, <2>1, <2>2 DEF Mapped
<1> QED BY <1>6, <1>7, <1>10 DEF Works

-----------------------------------------------------------------------------
(* Own steps: where a commit goes from the child it is at *)

\* The child being committed is under lease.
LEMMA ChildFacts ==
    ASSUME WorkspaceInv, NEW o \in Op, AtChild(o)
    PROVE  /\ TypeInv /\ OpInv(o) /\ Committing(o) /\ op[o].pc \in Holding /\ ChildInv(o)
           /\ op[o].rest # <<>> /\ op[o].rest \in Seq(Path) /\ IsInjective(op[o].rest)
           /\ op[o].stop = "none" /\ ~op[o].bad
           /\ \E h \in Path : /\ h = Head(op[o].rest) /\ Cur(o) = <<o, h>> /\ lease[h] = o
                              /\ PathOf(<<o, h>>) = h /\ h \in Range(op[o].rest) /\ h \in Range(op[o].req)
                              /\ <<o, h>> \in Tx
<1>1. TypeInv /\ OpInv(o) /\ CommitInv(o)
  BY DEF WorkspaceInv, OpInv
<1>2. /\ op[o].rest # <<>> /\ IsInjective(op[o].rest) /\ op[o].stop = "none" /\ ~op[o].bad
      /\ ChildInv(o) /\ op[o].pc # "unwind"
  BY <1>1 DEF CommitInv
<1>3. op[o].pc \in Holding /\ Committing(o)
  BY DEF AtChild, Holding, Committing, Undoing
<1>4. op[o].rest \in Seq(Path)
  BY <1>1, RangeFacts
<1>5. /\ Cur(o) = <<o, Head(op[o].rest)>> /\ Head(op[o].rest) \in Path
      /\ Head(op[o].rest) \in Range(op[o].rest)
  BY <1>1, <1>2, CurFacts
<1>6. Head(op[o].rest) \in Range(op[o].req) /\ lease[Head(op[o].rest)] = o
  BY <1>1, <1>3, <1>5 DEF OpInv, LeaseInv
<1> QED BY <1>1, <1>2, <1>3, <1>4, <1>5, <1>6, TxFacts

\* On to the next step for the same child.
LEMMA ForwardStep ==
    ASSUME WorkspaceInv, NEW o \in Op, NEW h \in Path, op[o].pc \in CommitPcs \ {"removed"},
           h = Head(op[o].rest), Works(o, h), NEW pc \in CommitPcs \ {"check"}, Goes(o, pc),
           ChildInv(o)', pc # "removed" => Snapped(<<o, h>>)', pc \in {"uncreate", "removed"} => IsDir(o),
           pc = "apply" => Aimed(<<o, h>>)'
    PROVE  WorkspaceInv'
<1>1. AtChild(o)
  BY DEF AtChild
<1>2. /\ TypeInv /\ OpInv(o) /\ Committing(o) /\ op[o].pc \in Holding
      /\ op[o].rest # <<>> /\ IsInjective(op[o].rest)
      /\ Cur(o) = <<o, h>> /\ PathOf(<<o, h>>) = h
  BY <1>1, ChildFacts
<1>3. pc \in Pcs /\ pc \in Holding \ {"snapshot"}
  BY DEF Pcs, Holding, CommitPcs
<1>4. /\ OnlyMoves(o) /\ SameTask(o) /\ op'[o].pc = pc
      /\ op'[o].staged = op[o].staged /\ op'[o].rest = op[o].rest /\ op'[o].n = op[o].n
      /\ op'[o].then = op[o].then /\ op'[o].stop = op[o].stop /\ op'[o].bad = op[o].bad
  BY <1>2, <1>3, GoesFacts
<1>5. /\ TypeInv' /\ OwnStep(o) /\ \A p \in Path : Mapped(<<o, p>>)'
      /\ IsDir(o)' => \A p \in Path : Unstaged(<<o, p>>)'
  BY <1>4, WorksFacts
<1>6. MayCommit(o)
  BY <1>2 DEF MayCommit
<1>7. LeaseInv(o)'
  BY <1>2, <1>3, <1>4, LeaseKept DEF OpInv, LeaseInv, Works
<1>8. KindInv(o)'
  BY <1>4, <1>5 DEF KindInv, CommitPcs, IsDir, SameTask
<1>9. \A p \in Path : p # h =>
         /\ Absent(<<o, p>>) => Absent(<<o, p>>)'
         /\ Kept(<<o, p>>) => Kept(<<o, p>>)'
         /\ Snapped(<<o, p>>) => Snapped(<<o, p>>)'
         /\ wal'[<<o, p>>] = wal[<<o, p>>]
  BY TouchOther DEF Works
<1>10. /\ Range(op[o].req) \subseteq Path /\ Range(op[o].staged) \subseteq Path
       /\ Range(op[o].rest) \subseteq Path /\ h \in Range(op[o].rest)
  BY <1>2, RangeFacts, CurFacts
<1>11. CommitInv(o)'
  <2>1. CommitInv(o) /\ op'[o].pc # "unwind"
    BY <1>2, <1>4 DEF OpInv, CommitPcs
  <2>2. \A p \in Range(op[o].staged) \ Range(op[o].rest) : Kept(<<o, p>>)'
    BY <1>1, <1>9, <1>10, <2>1 DEF CommitInv
  <2>3. \A p \in Range(op[o].rest) : p # h => Absent(<<o, p>>)' /\ wal'[<<o, p>>] = "prepared"
    BY <1>1, <1>9, <1>10, <2>1 DEF CommitInv
  <2> QED BY <1>1, <1>4, <2>1, <2>2, <2>3 DEF CommitInv
<1>12. TargetInv(o)'
  <2>1. \A p \in Range(op[o].req) : Snapped(<<o, p>>)
    BY <1>2 DEF OpInv, TargetInv
  <2>2. pc # "removed" => \A p \in Range(op[o].req) : Snapped(<<o, p>>)'
    BY <1>9, <1>10, <2>1
  <2>3. Cur(o)' = <<o, h>>
    BY <1>4 DEF Cur
  <2> QED BY <1>2, <1>4, <2>2, <2>3 DEF TargetInv, SameTask
<1>13. OpInv(o)'
  BY <1>4, <1>7, <1>8, <1>11, <1>12, CommitParts DEF OpInv
<1> QED BY <1>5, <1>6, <1>13, Preserved

\* The child did not land: its staging file and its intent are settled.
LEMMA SettlesStep ==
    ASSUME WorkspaceInv, NEW o \in Op, NEW h \in Path, op[o].pc \in CommitPcs, h = Head(op[o].rest),
           Works(o, h), SettlesNotApplied(o), Absent(<<o, h>>)', wal'[<<o, h>>] = "prepared"
    PROVE  WorkspaceInv'
<1>1. AtChild(o)
  BY DEF AtChild
<1>2. /\ TypeInv /\ OpInv(o) /\ Committing(o) /\ op[o].pc \in Holding
      /\ op[o].rest # <<>> /\ IsInjective(op[o].rest) /\ op[o].stop = "none" /\ ~op[o].bad
      /\ Cur(o) = <<o, h>> /\ PathOf(<<o, h>>) = h
  BY <1>1, ChildFacts
<1>4. /\ OnlyMoves(o) /\ SameTask(o) /\ op'[o].pc = (IF IsDir(o) THEN "rollback" ELSE "cleanup")
      /\ op'[o].staged = op[o].staged /\ op'[o].rest = op[o].rest /\ op'[o].n = op[o].n
      /\ op'[o].then = "settle" /\ op'[o].stop = "none" /\ op'[o].bad = op[o].bad
  BY <1>2, NotAppliedFacts
<1>5. /\ TypeInv' /\ OwnStep(o) /\ \A p \in Path : Mapped(<<o, p>>)'
      /\ IsDir(o)' => \A p \in Path : Unstaged(<<o, p>>)'
  BY <1>4, WorksFacts
<1>6. MayCommit(o)
  BY <1>2 DEF MayCommit
<1>7. LeaseInv(o)'
  <2>1. op'[o].pc \in Holding \ {"snapshot"}
    BY <1>4 DEF Holding, Undoing
  <2> QED BY <1>2, <2>1, <1>4, LeaseKept DEF OpInv, LeaseInv, Works
<1>8. KindInv(o)'
  BY <1>4, <1>5 DEF KindInv, IsDir, SameTask
<1>9. \A p \in Path : p # h =>
         /\ Absent(<<o, p>>) => Absent(<<o, p>>)'
         /\ Kept(<<o, p>>) => Kept(<<o, p>>)'
         /\ wal'[<<o, p>>] = wal[<<o, p>>]
  BY TouchOther DEF Works
<1>10. /\ Range(op[o].staged) \subseteq Path
       /\ Range(op[o].rest) \subseteq Path /\ h \in Range(op[o].rest)
  BY <1>2, RangeFacts, CurFacts
<1>11. CommitInv(o)'
  <2>1. CommitInv(o) /\ op'[o].pc # "unwind"
    BY <1>2, <1>4 DEF OpInv
  <2>2. \A p \in Range(op[o].staged) \ Range(op[o].rest) : Kept(<<o, p>>)'
    BY <1>1, <1>9, <1>10, <2>1 DEF CommitInv
  <2>3. \A p \in Range(op[o].rest) : p # h => Absent(<<o, p>>)' /\ wal'[<<o, p>>] = "prepared"
    BY <1>1, <1>9, <1>10, <2>1 DEF CommitInv
  <2>4. ChildInv(o)'
    <3>1. Cur(o)' = <<o, h>> /\ op'[o].pc \in Undoing
      BY <1>4 DEF Cur, Undoing
    <3>2. op'[o].pc = "rollback" => Unstaged(<<o, h>>)'
      BY <1>4, <1>5 DEF IsDir, SameTask
    <3> DEFINE c == <<o, h>>
    <3>3. c = Cur(o)' /\ wal'[c] = "prepared" /\ Absent(c)' /\ (op'[o].pc = "rollback" => Unstaged(c)')
      BY <3>1, <3>2
    <3> HIDE DEF c
    <3> QED BY <3>1, <3>3 DEF ChildInv, Undoing
  <2> QED BY <1>1, <1>2, <1>4, <2>1, <2>2, <2>3, <2>4 DEF CommitInv
<1>13. OpInv(o)'
  BY <1>4, <1>7, <1>8, <1>11, SettlingParts DEF OpInv
<1> QED BY <1>5, <1>6, <1>13, Preserved

\* The child's receipt: on to the next child, or to the unwinding of the
\* children not attempted.
LEMMA ReceiptStep ==
    ASSUME WorkspaceInv, NEW o \in Op, NEW h \in Path, AtChild(o), h = Head(op[o].rest),
           Works(o, h), NEW r \in Receipts, ChildReceipt(o, r),
           r = "Applied" => Kept(<<o, h>>)' /\ Snapped(<<o, h>>)' /\ op[o].pc \in CommitPcs \ {"removed"},
           r = "NotApplied" => Gone(<<o, h>>)'
    PROVE  WorkspaceInv'
<1>2. /\ TypeInv /\ OpInv(o) /\ Committing(o) /\ op[o].pc \in Holding
      /\ op[o].rest # <<>> /\ op[o].rest \in Seq(Path) /\ IsInjective(op[o].rest)
      /\ op[o].stop = "none" /\ ~op[o].bad
      /\ Cur(o) = <<o, h>> /\ PathOf(<<o, h>>) = h
  BY ChildFacts
<1>3. /\ Tail(op[o].rest) \in Seq(Path) /\ IsInjective(Tail(op[o].rest))
      /\ Range(Tail(op[o].rest)) = Range(op[o].rest) \ {h} /\ h \in Range(op[o].rest)
  BY <1>2, HeadTail
<1>4. /\ OnlyMoves(o) /\ SameTask(o) /\ op'[o].bad = op[o].bad
      /\ op'[o].staged = op[o].staged /\ op'[o].rest = Tail(op[o].rest)
      /\ op'[o].n = (IF r = "Applied" THEN op[o].n + 1 ELSE op[o].n)
      /\ \/ /\ r = "Applied" /\ Tail(op[o].rest) # <<>>
            /\ op'[o].pc = "check" /\ op'[o].then = op[o].then /\ op'[o].stop = op[o].stop
         \/ /\ r = "Applied" => Tail(op[o].rest) = <<>>
            /\ op'[o].pc = "unwind" /\ op'[o].then = "settle" /\ op'[o].stop = r
  BY <1>2, ReceiptFacts
<1>5. /\ TypeInv' /\ OwnStep(o) /\ \A p \in Path : Mapped(<<o, p>>)'
      /\ IsDir(o)' => \A p \in Path : Unstaged(<<o, p>>)'
  BY <1>4, WorksFacts
<1>6. MayCommit(o)
  BY <1>2 DEF MayCommit
<1>7. LeaseInv(o)'
  <2>1. op'[o].pc \in Holding \ {"snapshot"}
    BY <1>4 DEF Holding, Undoing, CommitPcs
  <2>2. Range(op'[o].staged) \cup Range(op'[o].rest) \subseteq Range(op[o].req)
    BY <1>2, <1>3, <1>4 DEF OpInv, LeaseInv
  <2> QED BY <1>2, <2>1, <1>4, <2>2, LeaseKept DEF OpInv, Works
<1>8. KindInv(o)'
  BY <1>4, <1>5 DEF KindInv
<1>9. \A p \in Path : p # h =>
         /\ Absent(<<o, p>>) => Absent(<<o, p>>)'
         /\ Kept(<<o, p>>) => Kept(<<o, p>>)'
         /\ Snapped(<<o, p>>) => Snapped(<<o, p>>)'
         /\ wal'[<<o, p>>] = wal[<<o, p>>]
  BY TouchOther DEF Works
<1>10. /\ Range(op[o].req) \subseteq Path /\ Range(op[o].staged) \subseteq Path
       /\ Range(op[o].rest) \subseteq Path
  BY <1>2, RangeFacts
<1>11. CommitInv(o) /\ op[o].n \in Nat
  BY <1>2 DEF OpInv, TypeInv, OpRecords
<1>12. \A p \in Range(op[o].staged) \ Range(op[o].rest) : Kept(<<o, p>>)'
  BY <1>9, <1>10, <1>11, <1>3 DEF CommitInv
<1>13. \A p \in Range(Tail(op[o].rest)) : Absent(<<o, p>>)' /\ wal'[<<o, p>>] = "prepared"
  BY <1>3, <1>9, <1>10, <1>11 DEF CommitInv
<1>14. r = "Applied" => \A p \in Range(op[o].staged) \ Range(Tail(op[o].rest)) : Kept(<<o, p>>)'
  BY <1>3, <1>12
<1>15. CASE op'[o].pc = "check"
  <2>1. /\ r = "Applied" /\ Tail(op[o].rest) # <<>> /\ op'[o].stop = "none" /\ ~op'[o].bad
        /\ op'[o].n # 0
    BY <1>2, <1>4, <1>11, <1>15
  <2>2. PICK g \in Path : g = Head(Tail(op[o].rest)) /\ g \in Range(Tail(op[o].rest))
    BY <1>3, <2>1, HeadTail
  <2>3. ChildInv(o)'
    <3> DEFINE c == <<o, g>>
    <3>1. c = Cur(o)' /\ wal'[c] = "prepared" /\ Absent(c)'
      BY <1>4, <1>13, <2>2 DEF Cur
    <3> HIDE DEF c
    <3> QED BY <1>15, <3>1 DEF ChildInv, Undoing
  <2>4. CommitInv(o)'
    BY <1>3, <1>4, <1>13, <1>14, <1>15, <2>1, <2>3 DEF CommitInv
  <2>5. TargetInv(o)'
    <3>1. \A p \in Range(op[o].req) : Snapped(<<o, p>>)
      BY <1>2, <2>1 DEF OpInv, TargetInv
    <3>2. \A p \in Range(op[o].req) : Snapped(<<o, p>>)'
      BY <1>9, <1>10, <2>1, <3>1
    <3> QED BY <1>4, <1>15, <3>2 DEF TargetInv, SameTask
  <2>6. OpInv(o)'
    BY <1>7, <1>8, <1>15, <2>4, <2>5, CommitParts DEF OpInv, CommitPcs
  <2> QED BY <1>5, <1>6, <2>6, Preserved
<1>16. CASE op'[o].pc # "check"
  <2>1. /\ op'[o].pc = "unwind" /\ op'[o].then = "settle" /\ op'[o].stop = r
        /\ r = "Applied" => Tail(op[o].rest) = <<>>
    BY <1>4, <1>16
  <2>2. op'[o].pc \in Undoing /\ r # "none"
    BY <2>1 DEF Undoing, Receipts
  <2>3. CleanSoFar(o)' => \A p \in Range(op[o].staged) \ Range(Tail(op[o].rest)) : Gone(<<o, p>>)'
    <3> SUFFICES ASSUME CleanSoFar(o)' PROVE \A p \in Range(op[o].staged) \ Range(Tail(op[o].rest)) : Gone(<<o, p>>)'
      OBVIOUS
    <3>1. r = "NotApplied" /\ op[o].n = 0
      BY <1>4, <2>1 DEF CleanSoFar
    <3>2. Range(op[o].staged) \subseteq Range(op[o].rest)
      BY <1>11, <3>1 DEF CommitInv
    <3> QED BY <1>3, <3>1, <3>2
  <2>4. r = "Applied" => Tail(op[o].rest) = <<>> /\ \A p \in Range(op[o].staged) : Kept(<<o, p>>)'
    BY <1>14, <2>1, EmptyFacts
  <2>5. UndoInv(o)'
    BY <1>3, <1>4, <1>13, <2>1, <2>3, <2>4 DEF UndoInv
  <2>6. OpInv(o)'
    BY <1>7, <1>8, <2>1, <2>2, <2>5, UndoParts DEF OpInv
  <2> QED BY <1>5, <1>6, <2>6, Preserved
<1> QED BY <1>15, <1>16

-----------------------------------------------------------------------------
(* Own steps: undoing *)

\* prepare fails: the targets staged so far are to be rolled back.
LEMMA FailsStep ==
    ASSUME WorkspaceInv, NEW o \in Op, NEW h \in Path, Works(o, h), disk' = disk, op[o].pc \in Holding,
           NEW r \in {"ToolError", "RecoveryRequired"}, FailsPrepare(o, r),
           IsInjective(op[o].staged), \A p \in Path : Absent(<<o, p>>)
    PROVE  WorkspaceInv'
<1>1. TypeInv /\ OpInv(o) /\ Touches(o, h)
  BY DEF WorkspaceInv, Works
<1>2. /\ op[o].staged \in Seq(Path) /\ Reverse(op[o].staged) \in Seq(Path) /\ IsInjective(Reverse(op[o].staged))
      /\ Range(Reverse(op[o].staged)) = Range(op[o].staged) /\ Range(op[o].staged) \subseteq Path
  BY <1>1, RangeFacts, ReverseFacts
<1>3. r \in Results
  BY DEF Results
<1>4. /\ OnlyMoves(o) /\ SameTask(o) /\ op'[o].pc = "unwind"
      /\ op'[o].staged = op[o].staged /\ op'[o].rest = Reverse(op[o].staged) /\ op'[o].n = op[o].n
      /\ op'[o].then = "prepare" /\ op'[o].stop = r /\ op'[o].bad = op[o].bad
  <2>1. Unwinds(o, Reverse(op[o].staged), r, "prepare")
    BY DEF FailsPrepare
  <2> QED BY <1>1, <1>2, <1>3, <2>1, UnwindsFacts
<1>5. /\ TypeInv' /\ OwnStep(o) /\ \A p \in Path : Mapped(<<o, p>>)'
      /\ IsDir(o)' => \A p \in Path : Unstaged(<<o, p>>)'
  BY <1>4, WorksFacts
<1>6. MayCommit(o)
  BY <1>4 DEF MayCommit, Committing, CommitPcs
<1>7. LeaseInv(o)'
  <2>1. op'[o].pc \in Holding \ {"snapshot"}
    BY <1>4 DEF Holding, Undoing
  <2>2. Range(op'[o].staged) \cup Range(op'[o].rest) \subseteq Range(op[o].req)
    BY <1>1, <1>2, <1>4 DEF OpInv, LeaseInv
  <2> QED BY <1>1, <1>4, <2>1, <2>2, LeaseKept DEF OpInv, Works
<1>8. KindInv(o)'
  BY <1>4, <1>5 DEF KindInv
<1>9. \A p \in Path : Absent(<<o, p>>)'
  BY <1>1, TouchOther, TouchSame
<1>10. UndoInv(o)'
  BY <1>2, <1>4, <1>9 DEF UndoInv, CleanSoFar
<1>11. op'[o].pc \in Undoing
  BY <1>4 DEF Undoing
<1>12. OpInv(o)'
  BY <1>4, <1>7, <1>8, <1>10, <1>11, UndoParts DEF OpInv
<1> QED BY <1>5, <1>6, <1>12, Preserved

\* The current target is undone, confirmed or not.
LEMMA UndoneStep ==
    ASSUME WorkspaceInv, NEW o \in Op, NEW h \in Path, op[o].pc \in {"cleanup", "rollback"},
           op[o].rest # <<>>, h = Head(op[o].rest), Works(o, h), disk' = disk,
           NEW ok \in BOOLEAN, Undone(o, ok), ok => Gone(<<o, h>>)'
    PROVE  WorkspaceInv'
<1>1. TypeInv /\ OpInv(o) /\ Touches(o, h) /\ op[o].pc \in Holding /\ op[o].pc \in Undoing
  BY DEF WorkspaceInv, Works, Holding, Undoing
<1>2. CASE op[o].then = "own" /\ FailsPrepare(o, IF ok THEN "ToolError" ELSE "RecoveryRequired")
  <2>1. ~AtChild(o)
    BY <1>1, <1>2 DEF AtChild, CommitPcs
  <2>2. IsInjective(op[o].staged) /\ \A p \in Path : Absent(<<o, p>>)
    BY <1>1, <1>2, <2>1 DEF OpInv, UndoInv
  <2>3. PICK r \in {"ToolError", "RecoveryRequired"} : FailsPrepare(o, r)
    BY <1>2
  <2> QED BY <1>1, <2>2, <2>3, FailsStep
<1>3. CASE /\ op[o].then = "settle" /\ op[o].stop = "none"
           /\ ChildReceipt(o, IF ok THEN "NotApplied" ELSE "Unknown")
  <2>1. AtChild(o)
    BY <1>1, <1>3 DEF AtChild
  <2>2. PICK r \in {"NotApplied", "Unknown"} : ChildReceipt(o, r) /\ (r = "NotApplied" => ok)
    BY <1>3
  <2>3. r \in Receipts
    BY DEF Receipts
  <2> QED BY <2>1, <2>2, <2>3, ReceiptStep
<1>4. CASE /\ op[o].then # "own" /\ ~(op[o].then = "settle" /\ op[o].stop = "none")
           /\ OnlyMoves(o) /\ SameTask(o) /\ op'[o].pc = "unwind"
           /\ op'[o].staged = op[o].staged /\ op'[o].rest = Tail(op[o].rest) /\ op'[o].n = op[o].n
           /\ op'[o].then = op[o].then /\ op'[o].stop = op[o].stop /\ op'[o].bad = (op[o].bad \/ ~ok)
  <2>1. ~AtChild(o) /\ UndoInv(o)
    BY <1>1, <1>4 DEF AtChild, CommitPcs, OpInv
  <2>2. op[o].rest \in Seq(Path) /\ IsInjective(op[o].rest)
    BY <1>1, <2>1, RangeFacts DEF UndoInv
  <2>3. /\ Tail(op[o].rest) \in Seq(Path) /\ IsInjective(Tail(op[o].rest))
        /\ Range(Tail(op[o].rest)) = Range(op[o].rest) \ {h} /\ h \in Range(op[o].rest)
    BY <2>2, HeadTail
  <2>4. Range(op[o].staged) \subseteq Path /\ Range(op[o].rest) \subseteq Path
    BY <1>1, RangeFacts
  <2>5. /\ TypeInv' /\ OwnStep(o) /\ \A p \in Path : Mapped(<<o, p>>)'
        /\ IsDir(o)' => \A p \in Path : Unstaged(<<o, p>>)'
    BY <1>4, WorksFacts
  <2>6. MayCommit(o)
    BY <1>1, <1>4 DEF MayCommit, Committing, CommitPcs
  <2>7. LeaseInv(o)'
    <3>1. op'[o].pc \in Holding \ {"snapshot"}
      BY <1>4 DEF Holding, Undoing
    <3>2. Range(op'[o].staged) \cup Range(op'[o].rest) \subseteq Range(op[o].req)
      BY <1>1, <1>4, <2>3 DEF OpInv, LeaseInv
    <3> QED BY <1>1, <1>4, <3>1, <3>2, LeaseKept DEF OpInv, Works
  <2>8. KindInv(o)'
    BY <1>4, <2>5 DEF KindInv
  <2>9. \A p \in Path : p # h => (Absent(<<o, p>>) => Absent(<<o, p>>)') /\ (Gone(<<o, p>>) => Gone(<<o, p>>)')
    BY <1>1, TouchOther
  <2>10. \A p \in Range(Tail(op[o].rest)) : Absent(<<o, p>>)'
    BY <1>1, <2>1, <2>3, <2>4, <2>9 DEF UndoInv
  <2>11. CleanSoFar(o)' => \A p \in Range(op[o].staged) \ Range(Tail(op[o].rest)) : Gone(<<o, p>>)'
    <3> SUFFICES ASSUME CleanSoFar(o)', NEW p \in Range(op[o].staged) \ Range(Tail(op[o].rest)) PROVE Gone(<<o, p>>)'
      OBVIOUS
    <3>1. CleanSoFar(o) /\ ok
      BY <1>4 DEF CleanSoFar
    <3>2. CASE p = h
      BY <3>1, <3>2
    <3>3. CASE p # h
      BY <1>1, <2>1, <2>3, <2>4, <2>9, <3>1, <3>3 DEF UndoInv
    <3> QED BY <3>2, <3>3
  <2>12. ~(op[o].then = "settle" /\ op[o].stop = "Applied")
    BY <1>1, <2>1 DEF UndoInv
  <2>13. UndoInv(o)'
    BY <1>1, <1>4, <2>1, <2>3, <2>10, <2>11, <2>12 DEF UndoInv
  <2>14. op'[o].pc \in Undoing
    BY <1>4 DEF Undoing
  <2>15. OpInv(o)'
    BY <1>4, <2>7, <2>8, <2>13, <2>14, UndoParts DEF OpInv
  <2> QED BY <2>5, <2>6, <2>15, Preserved
<1> QED BY <1>1, <1>2, <1>3, <1>4, UndoneFacts

\* An operation that is undoing has the target it is at, before commit or
\* in it.
LEMMA UndoingFacts ==
    ASSUME WorkspaceInv, NEW o \in Op, op[o].pc \in {"cleanup", "rollback"}
    PROVE  /\ TypeInv /\ OpInv(o) /\ op[o].rest # <<>> /\ op[o].pc \in Holding
           /\ \E h \in Path : /\ h = Head(op[o].rest) /\ Cur(o) = <<o, h>> /\ PathOf(<<o, h>>) = h
                              /\ <<o, h>> \in Tx /\ Absent(<<o, h>>)
                              /\ op[o].pc = "rollback" => Unstaged(<<o, h>>)
<1>1. TypeInv /\ OpInv(o) /\ op[o].pc \in Holding /\ op[o].pc \in Undoing /\ op[o].pc # "unwind"
  BY DEF WorkspaceInv, Holding, Undoing
<1>2. op[o].rest # <<>>
  BY <1>1 DEF OpInv, CommitInv, UndoInv
<1>3. PICK h \in Path : h = Head(op[o].rest) /\ Cur(o) = <<o, h>> /\ h \in Range(op[o].rest)
  BY <1>1, <1>2, CurFacts
<1>4. Absent(Cur(o)) /\ (op[o].pc = "rollback" => Unstaged(Cur(o)))
  <2>1. CASE AtChild(o)
    BY <1>1, <2>1 DEF OpInv, CommitInv, ChildInv
  <2>2. CASE ~AtChild(o)
    BY <1>1, <1>3, <2>2 DEF OpInv, UndoInv
  <2> QED BY <2>1, <2>2
<1> QED BY <1>1, <1>2, <1>3, <1>4, TxFacts

LEMMA RollBackInv ==
    ASSUME WorkspaceInv, NEW o \in Op, RollBack(o)
    PROVE  WorkspaceInv'
<1>1. op[o].pc = "rollback" /\ UNCHANGED <<fsVars, plan, lease, coreVars, history>>
  BY DEF RollBack, At
<1>2. TypeInv /\ OpInv(o) /\ op[o].rest # <<>>
  BY <1>1, UndoingFacts
<1>3. PICK h \in Path : /\ h = Head(op[o].rest) /\ Cur(o) = <<o, h>> /\ <<o, h>> \in Tx /\ PathOf(<<o, h>>) = h
                        /\ Absent(<<o, h>>) /\ Unstaged(<<o, h>>)
  BY <1>1, UndoingFacts
<1> DEFINE c == <<o, h>>
<1>4. PICK ok \in BOOLEAN :
        /\ Undone(o, ok) /\ walFailed' \in BOOLEAN /\ (Fault \/ NoFault)
        /\ wal' \in {wal, [wal EXCEPT ![c] = "rolledBack"]} /\ mem' \in {mem, [mem EXCEPT ![c] = "rolledBack"]}
        /\ ok => wal' = [wal EXCEPT ![c] = "rolledBack"]
  <2>1. walFailed \in BOOLEAN
    BY <1>2 DEF TypeInv
  <2>2. CASE Appended(c, "rolledBack") /\ Undone(o, TRUE)
    BY <2>1, <2>2 DEF Appended
  <2>3. CASE /\ Fault /\ Undone(o, FALSE) /\ UNCHANGED walFailed
             /\ wal' = [wal EXCEPT ![c] = "rolledBack"] /\ mem' = [mem EXCEPT ![c] = "rolledBack"]
    BY <2>1, <2>3
  <2>4. CASE NotAppended(c, "rolledBack") /\ Undone(o, FALSE)
    BY <2>1, <2>4 DEF NotAppended, walVars
  <2> QED BY <1>3, <2>2, <2>3, <2>4 DEF RollBack
<1>5. Works(o, h) /\ disk' = disk /\ (Unstaged(c)' <=> Unstaged(c))
  <2>1. "rolledBack" \in TxStates
    BY DEF TxStates
  <2> QED BY <1>1, <1>2, <1>4, <2>1, CoreKept, JournalWorks
<1>6. Absent(c)'
  BY <1>3, <1>5, TouchSame DEF Works
<1>7. ok => Gone(c)'
  <2>1. ok => wal'[c] = "rolledBack"
    BY <1>2, <1>3, <1>4 DEF TypeInv
  <2> HIDE DEF c
  <2> QED BY <1>3, <1>5, <1>6, <2>1 DEF Gone, c
<1> QED BY <1>1, <1>2, <1>3, <1>4, <1>5, <1>7, UndoneStep

LEMMA CleanupInv ==
    ASSUME WorkspaceInv, NEW o \in Op, Cleanup(o)
    PROVE  WorkspaceInv'
<1>1. op[o].pc = "cleanup" /\ disk' = disk /\ UNCHANGED <<walVars, plan, lease, coreVars, history>>
  BY DEF Cleanup, At
<1>2. TypeInv /\ OpInv(o) /\ op[o].rest # <<>> /\ op[o].pc \in Holding
  BY <1>1, UndoingFacts
<1>3. PICK h \in Path : /\ h = Head(op[o].rest) /\ Cur(o) = <<o, h>> /\ <<o, h>> \in Tx /\ PathOf(<<o, h>>) = h
                        /\ Absent(<<o, h>>)
  BY <1>1, UndoingFacts
<1> DEFINE c == <<o, h>>
<1>4. /\ temp' \in {temp, [temp EXCEPT ![c] = "none"]} /\ (Fault \/ NoFault)
      /\ DirSynced(h) \/ (diskDurable' = diskDurable /\ tempDurable' = tempDurable)
      /\ \/ Goes(o, "rollback") /\ temp' = [temp EXCEPT ![c] = "none"] /\ DirSynced(h)
         \/ Undone(o, FALSE)
  BY <1>3 DEF Cleanup
<1>5. Works(o, h)
  <2>1. CoreTyped'
    BY <1>1, <1>2 DEF CoreTyped, TypeInv, coreVars
  <2>2. "none" \in TempStates /\ disk[h] \in Entries
    BY <1>2 DEF TempStates, TypeInv
  <2> DEFINE s == "none"
  <2>3. s \in TempStates /\ {s, s} = {"none"} /\ temp' \in {temp, [temp EXCEPT ![c] = s]}
    BY <1>4, <2>2
  <2> HIDE DEF s
  <2> QED BY <1>1, <1>4, <2>1, <2>2, <2>3, FileWorks
<1>6. CASE Undone(o, FALSE)
  BY <1>1, <1>2, <1>3, <1>5, <1>6, UndoneStep
<1>7. CASE Goes(o, "rollback") /\ temp' = [temp EXCEPT ![c] = "none"] /\ DirSynced(h)
  <2>1. /\ OnlyMoves(o) /\ SameTask(o) /\ op'[o].pc = "rollback"
        /\ op'[o].staged = op[o].staged /\ op'[o].rest = op[o].rest /\ op'[o].n = op[o].n
        /\ op'[o].then = op[o].then /\ op'[o].stop = op[o].stop /\ op'[o].bad = op[o].bad
    <3>1. "rollback" \in Pcs
      BY DEF Pcs, Holding, Undoing
    <3> QED BY <1>2, <1>7, <3>1, GoesFacts
  <2>2. /\ TypeInv' /\ OwnStep(o) /\ \A p \in Path : Mapped(<<o, p>>)'
        /\ IsDir(o)' => \A p \in Path : Unstaged(<<o, p>>)'
    BY <1>5, <2>1, WorksFacts
  <2>3. MayCommit(o)
    BY <1>1, <2>1 DEF MayCommit, Committing, CommitPcs
  <2>4. Unstaged(c)' /\ Absent(c)' /\ wal'[c] = wal[c]
    <3>1. temp'[c] = "none" /\ tempDurable'[c] = "none"
      BY <1>2, <1>3, <1>7 DEF TypeInv, DirSynced
    <3>2. Absent(c)'
      BY <1>1, <1>3, <1>5, TouchSame DEF Works
    <3> HIDE DEF c
    <3> QED BY <1>1, <3>1, <3>2 DEF Unstaged, walVars
  <2>5. LeaseInv(o)'
    <3>1. op'[o].pc \in Holding \ {"snapshot"}
      BY <2>1 DEF Holding, Undoing
    <3> QED BY <1>1, <1>2, <2>1, <3>1, LeaseKept DEF OpInv, LeaseInv
  <2>6. KindInv(o)'
    BY <2>1, <2>2 DEF KindInv
  <2>7. \A p \in Path : /\ Absent(<<o, p>>) => Absent(<<o, p>>)'
                        /\ p # h => (Gone(<<o, p>>) => Gone(<<o, p>>)') /\ (Kept(<<o, p>>) => Kept(<<o, p>>)')
                        /\ wal'[<<o, p>>] = wal[<<o, p>>]
    BY <1>1, <1>5, TouchOther, TouchSame DEF Works, walVars
  <2>8. Range(op[o].staged) \subseteq Path /\ Range(op[o].rest) \subseteq Path /\ h \in Range(op[o].rest)
    BY <1>2, <1>3, RangeFacts, CurFacts
  <2>9. CASE AtChild(o)
    <3>1. op[o].then = "settle" /\ op[o].stop = "none"
      BY <1>1, <2>9 DEF AtChild, CommitPcs
    <3>2. CommitInv(o)
      BY <1>2 DEF OpInv
    <3>3. ChildInv(o)'
      <4>1. c = Cur(o)' /\ wal[c] = "prepared"
        BY <1>1, <1>3, <2>1, <2>9, <3>2 DEF Cur, CommitInv, ChildInv, Undoing
      <4> HIDE DEF c
      <4> QED BY <2>1, <2>4, <4>1 DEF ChildInv, Undoing
    <3>4. CommitInv(o)'
      <4>1. \A p \in Range(op[o].staged) \ Range(op[o].rest) : Kept(<<o, p>>)'
        BY <2>7, <2>8, <2>9, <3>2 DEF CommitInv
      <4>2. \A p \in Range(op[o].rest) : p # h => Absent(<<o, p>>)' /\ wal'[<<o, p>>] = "prepared"
        BY <1>3, <2>7, <2>8, <2>9, <3>2 DEF CommitInv
      <4> QED BY <1>3, <2>1, <2>9, <3>1, <3>2, <3>3, <4>1, <4>2 DEF CommitInv
    <3>5. OpInv(o)'
      BY <2>1, <2>5, <2>6, <3>1, <3>4, SettlingParts DEF OpInv
    <3> QED BY <2>2, <2>3, <3>5, Preserved
  <2>10. CASE ~AtChild(o)
    <3>1. UndoInv(o) /\ op[o].pc \in Undoing /\ ~(op[o].then = "settle" /\ op[o].stop = "none")
      BY <1>1, <1>2, <2>10 DEF OpInv, AtChild, Undoing
    <3>2. UndoInv(o)'
      <4>1. \A p \in Range(op[o].rest) : Absent(<<o, p>>)'
        BY <2>7, <2>8, <2>10, <3>1 DEF UndoInv
      <4>2. op[o].then = "own" => \A p \in Path : Absent(<<o, p>>)'
        BY <2>7, <2>10, <3>1 DEF UndoInv
      <4>3. CleanSoFar(o)' => \A p \in Range(op[o].staged) \ Range(op[o].rest) : Gone(<<o, p>>)'
        BY <2>1, <2>7, <2>8, <2>10, <3>1 DEF UndoInv, CleanSoFar
      <4>4. Unstaged(Cur(o))'
        <5>1. c = Cur(o)'
          BY <1>3, <2>1 DEF Cur
        <5> QED BY <2>4, <5>1
      <4>5. ~(op[o].then = "settle" /\ op[o].stop = "Applied")
        BY <1>2, <2>10, <3>1 DEF UndoInv
      <4> QED BY <1>1, <1>2, <2>1, <2>10, <3>1, <4>1, <4>2, <4>3, <4>4, <4>5 DEF UndoInv
    <3>3. op'[o].pc \in Undoing
      BY <2>1 DEF Undoing
    <3>4. OpInv(o)'
      BY <2>1, <2>5, <2>6, <3>1, <3>2, <3>3, UndoParts DEF OpInv
    <3> QED BY <2>2, <2>3, <3>4, Preserved
  <2> QED BY <2>9, <2>10
<1> QED BY <1>4, <1>6, <1>7

\* A step that leaves files and journal alone is work on any transaction.
LEMMA QuietWorks ==
    ASSUME WorkspaceInv, NEW o \in Op, NEW h \in Path, Quiet, lease' = lease, CoreTyped', Fault \/ NoFault
    PROVE  Works(o, h) /\ disk' = disk
<1>1. TypeInv /\ OpInv(o)
  BY DEF WorkspaceInv
<1>2. budget' \in [faults : Nat, crashes : Nat, foreign : Nat]
  BY <1>1, FaultType
<1>3. FilesTyped'
  BY <1>1, <1>2 DEF FilesTyped, TypeInv, Quiet, fsVars, walVars
<1>4. Touches(o, h)
  BY DEF Touches, Quiet, fsVars, walVars, history
<1>5. Mapped(<<o, h>>) /\ (IsDir(o) => Unstaged(<<o, h>>))
  BY <1>1, TxFacts DEF WorkspaceInv, StagingIsMapped, Mapped, Unstaged, OpInv, KindInv
<1>6. Mapped(<<o, h>>)' /\ (IsDir(o) => Unstaged(<<o, h>>)')
  BY <1>5, QuietTx
<1> QED BY <1>3, <1>4, <1>6 DEF Works, Quiet, fsVars

LEMMA UnwindInv ==
    ASSUME WorkspaceInv, NEW o \in Op, Unwind(o)
    PROVE  WorkspaceInv'
<1>1. /\ TypeInv /\ OpInv(o) /\ op[o].pc = "unwind" /\ op[o].rest # <<>> /\ lease' = lease
      /\ Goes(o, IF IsDir(o) THEN "rollback" ELSE "cleanup")
  BY DEF WorkspaceInv, Unwind, At
<1>2. Quiet /\ CoreTyped' /\ NoFault
  BY <1>1 DEF Unwind, Quiet, CoreTyped, TypeInv, coreVars, NoFault
<1>3. PICK pc \in {"rollback", "cleanup"} : Goes(o, pc) /\ (pc = "rollback" <=> IsDir(o))
  BY <1>1
<1>4. /\ OnlyMoves(o) /\ SameTask(o) /\ op'[o].pc = pc
      /\ op'[o].staged = op[o].staged /\ op'[o].rest = op[o].rest /\ op'[o].n = op[o].n
      /\ op'[o].then = op[o].then /\ op'[o].stop = op[o].stop /\ op'[o].bad = op[o].bad
  <2>1. pc \in Pcs
    BY DEF Pcs, Holding, Undoing
  <2> QED BY <1>1, <1>3, <2>1, GoesFacts
<1>5. /\ UndoInv(o) /\ op[o].pc \in Undoing /\ ~AtChild(o)
      /\ ~(op[o].then = "settle" /\ op[o].stop = "none") /\ op[o].pc \in Holding
  BY <1>1 DEF OpInv, CommitInv, AtChild, CommitPcs, Undoing, Holding
<1>6. PICK h \in Path : h = Head(op[o].rest) /\ Cur(o) = <<o, h>> /\ h \in Range(op[o].rest)
  BY <1>1, CurFacts
<1>7. Works(o, h)
  BY <1>1, <1>2, QuietWorks
<1>8. /\ TypeInv' /\ OwnStep(o) /\ \A p \in Path : Mapped(<<o, p>>)'
      /\ IsDir(o)' => \A p \in Path : Unstaged(<<o, p>>)'
  BY <1>4, <1>7, WorksFacts
<1>9. MayCommit(o)
  BY <1>1, <1>3, <1>4 DEF MayCommit, Committing, CommitPcs
<1>10. LeaseInv(o)'
  <2>1. op'[o].pc \in Holding \ {"snapshot"}
    BY <1>4 DEF Holding, Undoing
  <2> QED BY <1>1, <1>4, <1>5, <2>1, LeaseKept DEF OpInv, LeaseInv
<1>11. KindInv(o)'
  BY <1>3, <1>4, <1>8 DEF KindInv, IsDir, SameTask
<1>12. \A p \in Path : (Absent(<<o, p>>) => Absent(<<o, p>>)') /\ (Gone(<<o, p>>) => Gone(<<o, p>>)')
  BY <1>2, QuietTx
<1>13. Range(op[o].staged) \subseteq Path /\ Range(op[o].rest) \subseteq Path
  BY <1>1, RangeFacts
<1>14. UndoInv(o)'
  <2>1. op'[o].pc = "rollback" => Unstaged(Cur(o))'
    <3>1. Cur(o)' = <<o, h>>
      BY <1>4, <1>6 DEF Cur
    <3>2. op'[o].pc = "rollback" => Unstaged(<<o, h>>)'
      BY <1>3, <1>4, <1>8 DEF IsDir, SameTask
    <3> QED BY <3>1, <3>2 DEF Unstaged
  <2>2. \A p \in Range(op[o].rest) : Absent(<<o, p>>)'
    BY <1>5, <1>12, <1>13 DEF UndoInv
  <2>3. CleanSoFar(o)' => \A p \in Range(op[o].staged) \ Range(op[o].rest) : Gone(<<o, p>>)'
    BY <1>4, <1>5, <1>12, <1>13 DEF UndoInv, CleanSoFar
  <2>4. ~(op[o].then = "settle" /\ op[o].stop = "Applied") /\ op[o].then # "own"
    BY <1>1, <1>5 DEF UndoInv
  <2> QED BY <1>1, <1>4, <1>5, <2>1, <2>2, <2>3, <2>4 DEF UndoInv
<1>15. op'[o].pc \in Undoing
  BY <1>4 DEF Undoing
<1>16. OpInv(o)'
  BY <1>4, <1>5, <1>10, <1>11, <1>14, <1>15, UndoParts DEF OpInv
<1> QED BY <1>8, <1>9, <1>16, Preserved

LEMMA ReturnInv ==
    ASSUME WorkspaceInv, NEW o \in Op, Return(o)
    PROVE  WorkspaceInv'
<1>1. /\ TypeInv /\ OpInv(o) /\ op[o].pc = "unwind" /\ op[o].rest = <<>>
      /\ Returns(o, Outcome(o)) /\ Quiet /\ budget' = budget /\ UNCHANGED coreVars
  BY DEF WorkspaceInv, Return, At, Quiet
<1>2. /\ UndoInv(o) /\ op[o].pc \in Undoing /\ ~AtChild(o) /\ op[o].stop \in Results
  BY <1>1 DEF OpInv, CommitInv, AtChild, CommitPcs, Undoing, TypeInv, OpRecords
<1>3. Outcome(o) \in Results
  BY <1>2 DEF Outcome, Results, Receipts
<1>4. ASSUME Outcome(o) = "Applied"
      PROVE  op[o].then = "settle" /\ \A p \in Range(op[o].staged) : Kept(<<o, p>>)
  <2>1. op[o].then \in {"none", "own", "prepare", "reject", "settle"}
    BY <1>1 DEF TypeInv, OpRecords
  <2>2. op[o].then = "settle" /\ op[o].stop = "Applied"
    BY <1>1, <1>2, <1>4, <2>1 DEF Outcome, UndoInv
  <2> QED BY <1>2, <2>2 DEF UndoInv
<1>5. ASSUME Outcome(o) \in {"NotApplied", "RolledBack"}
      PROVE  \A p \in Range(op[o].staged) : Gone(<<o, p>>)
  <2>1. op[o].then \in {"none", "own", "prepare", "reject", "settle"} /\ op[o].n \in Nat /\ op[o].bad \in BOOLEAN
    BY <1>1 DEF TypeInv, OpRecords
  <2>2. CleanSoFar(o)
    BY <1>1, <1>2, <1>5, <2>1 DEF Outcome, UndoInv, CleanSoFar, Receipts
  <2> QED BY <1>1, <1>2, <2>2, EmptyFacts DEF UndoInv
<1> QED BY <1>1, <1>3, <1>4, <1>5, ReturnStep

LEMMA RejectInv ==
    ASSUME WorkspaceInv, NEW o \in Op, Reject(o)
    PROVE  WorkspaceInv'
<1>1. /\ TypeInv /\ OpInv(o) /\ op[o].pc = "prepared" /\ lease' = lease
      /\ Unwinds(o, Reverse(op[o].staged), "none", "reject")
  BY DEF WorkspaceInv, Reject, At
<1>2. Quiet /\ CoreTyped' /\ NoFault
  BY <1>1 DEF Reject, Quiet, CoreTyped, TypeInv, coreVars, NoFault
<1>3. /\ PrepareInv(o) /\ op[o].pc \in Holding
      /\ IsInjective(op[o].staged) /\ \A p \in Path : Absent(<<o, p>>)
  BY <1>1 DEF OpInv, PrepareInv, Holding
<1>4. /\ op[o].staged \in Seq(Path) /\ Reverse(op[o].staged) \in Seq(Path) /\ IsInjective(Reverse(op[o].staged))
      /\ Range(Reverse(op[o].staged)) = Range(op[o].staged) /\ Range(op[o].staged) \subseteq Path
  BY <1>1, <1>3, RangeFacts, ReverseFacts
<1>5. /\ OnlyMoves(o) /\ SameTask(o) /\ op'[o].pc = "unwind"
      /\ op'[o].staged = op[o].staged /\ op'[o].rest = Reverse(op[o].staged) /\ op'[o].n = op[o].n
      /\ op'[o].then = "reject" /\ op'[o].stop = "none" /\ op'[o].bad = op[o].bad
  <2>1. "none" \in Results
    BY DEF Results
  <2> QED BY <1>1, <1>4, <2>1, UnwindsFacts
<1>6. TypeInv'
  BY <1>1, <1>2, <1>5, QuietType DEF TypeInv, OnlyMoves, CoreTyped, NoFault
<1>7. OwnStep(o) /\ \A p \in Path : Mapped(<<o, p>>)'
  BY <1>1, <1>2, <1>5, QuietStep
<1>8. MayCommit(o)
  BY <1>5 DEF MayCommit, Committing, CommitPcs
<1>9. LeaseInv(o)'
  <2>1. op'[o].pc \in Holding \ {"snapshot"}
    BY <1>5 DEF Holding, Undoing
  <2>2. Range(op'[o].staged) \cup Range(op'[o].rest) \subseteq Range(op[o].req)
    BY <1>1, <1>3, <1>4, <1>5 DEF OpInv, LeaseInv
  <2> QED BY <1>1, <1>3, <1>5, <2>1, <2>2, LeaseKept DEF OpInv
<1>10. KindInv(o)'
  <2>1. IsDir(o)' => \A p \in Path : Unstaged(<<o, p>>)'
    BY <1>1, <1>2, <1>5, QuietTx DEF OpInv, KindInv, IsDir, SameTask
  <2> QED BY <1>5, <2>1 DEF KindInv
<1>11. \A p \in Path : Absent(<<o, p>>)'
  BY <1>2, <1>3, QuietTx
<1>12. UndoInv(o)'
  BY <1>4, <1>5, <1>11 DEF UndoInv
<1>13. op'[o].pc \in Undoing
  BY <1>5 DEF Undoing
<1>14. OpInv(o)'
  BY <1>5, <1>9, <1>10, <1>12, <1>13, UndoParts DEF OpInv
<1> QED BY <1>6, <1>7, <1>8, <1>14, Preserved

LEMMA StartCommitInv ==
    ASSUME WorkspaceInv, NEW o \in Op, StartCommit(o)
    PROVE  WorkspaceInv'
<1>1. /\ TypeInv /\ OpInv(o) /\ op[o].pc = "prepared" /\ lease' = lease
      /\ op' = [op EXCEPT ![o].pc = "check", ![o].rest = op[o].staged]
      /\ \A q \in Op : ~Committing(q)
  BY DEF WorkspaceInv, StartCommit, At
<1>2. Quiet /\ CoreTyped' /\ NoFault
  BY <1>1 DEF StartCommit, Quiet, CoreTyped, TypeInv, coreVars, NoFault
<1>3. /\ PrepareInv(o) /\ op[o].pc \in Holding /\ op[o].staged # <<>> /\ op[o].n = 0 /\ op[o].stop = "none"
      /\ ~op[o].bad /\ op[o].then = "none"
      /\ IsInjective(op[o].staged) /\ \A p \in Path : Absent(<<o, p>>)
      /\ \A p \in Range(op[o].staged) : wal[<<o, p>>] = "prepared"
  BY <1>1 DEF OpInv, PrepareInv, Holding
<1>4. op[o].staged \in Seq(Path) /\ Range(op[o].staged) \subseteq Path /\ Range(op[o].req) \subseteq Path
  BY <1>1, RangeFacts
<1>5. /\ OnlyMoves(o) /\ SameTask(o) /\ op'[o].pc = "check"
      /\ op'[o].staged = op[o].staged /\ op'[o].rest = op[o].staged /\ op'[o].n = 0
      /\ op'[o].then = "none" /\ op'[o].stop = "none" /\ ~op'[o].bad
  <2> DEFINE x == [op[o] EXCEPT !.pc = "check", !.rest = op[o].staged]
  <2>1. op' = [op EXCEPT ![o] = x]
    BY ONLY <1>1
  <2>2. "check" \in Pcs /\ op[o] \in OpRecords
    BY <1>1 DEF TypeInv, Pcs, Holding, CommitPcs
  <2>3. /\ x.pc = "check" /\ x.rest = op[o].staged /\ x.stop = op[o].stop /\ x.then = op[o].then
        /\ x.n = op[o].n /\ x.kind = op[o].kind /\ x.val = op[o].val /\ x.req = op[o].req
        /\ x.staged = op[o].staged /\ x.bad = op[o].bad /\ x \in OpRecords
    BY <1>4, <2>2 DEF OpRecords
  <2> HIDE DEF x
  <2> QED BY <1>1, <1>3, <2>1, <2>3, Becomes
<1>6. TypeInv'
  BY <1>1, <1>2, <1>5, QuietType DEF TypeInv, OnlyMoves, CoreTyped, NoFault
<1>7. OwnStep(o) /\ \A p \in Path : Mapped(<<o, p>>)'
  BY <1>1, <1>2, <1>5, QuietStep
<1>8. MayCommit(o)
  BY <1>1 DEF MayCommit
<1>9. LeaseInv(o)'
  <2>1. op'[o].pc \in Holding \ {"snapshot"}
    BY <1>5 DEF Holding, CommitPcs
  <2>2. Range(op'[o].staged) \cup Range(op'[o].rest) \subseteq Range(op[o].req)
    BY <1>1, <1>3, <1>5 DEF OpInv, LeaseInv
  <2> QED BY <1>1, <1>3, <1>5, <2>1, <2>2, LeaseKept DEF OpInv
<1>10. KindInv(o)'
  <2>1. IsDir(o)' => \A p \in Path : Unstaged(<<o, p>>)'
    BY <1>1, <1>2, <1>5, QuietTx DEF OpInv, KindInv, IsDir, SameTask
  <2> QED BY <1>5, <2>1 DEF KindInv
<1>11. \A p \in Path : Absent(<<o, p>>)' /\ wal'[<<o, p>>] = wal[<<o, p>>] /\ (Snapped(<<o, p>>) => Snapped(<<o, p>>)')
  BY <1>2, <1>3, QuietTx
<1>12. CommitInv(o)'
  <2>1. PICK h \in Path : h = Head(op[o].staged) /\ h \in Range(op[o].staged)
    BY <1>3, <1>4, HeadTail
  <2>2. ChildInv(o)'
    <3> DEFINE c == <<o, h>>
    <3>1. c = Cur(o)' /\ wal'[c] = "prepared" /\ Absent(c)'
      BY <1>3, <1>5, <1>11, <2>1 DEF Cur
    <3> HIDE DEF c
    <3> QED BY <1>5, <3>1 DEF ChildInv, Undoing
  <2> QED BY <1>3, <1>4, <1>5, <1>11, <2>2 DEF CommitInv
<1>13. TargetInv(o)'
  <2>1. \A p \in Range(op[o].req) : Snapped(<<o, p>>)
    BY <1>1 DEF OpInv, TargetInv
  <2> QED BY <1>4, <1>5, <1>11, <2>1 DEF TargetInv, SameTask
<1>14. OpInv(o)'
  BY <1>5, <1>9, <1>10, <1>12, <1>13, CommitParts DEF OpInv, CommitPcs
<1> QED BY <1>6, <1>7, <1>8, <1>14, Preserved

-----------------------------------------------------------------------------
(* Own steps: preparing *)

\* The target being prepared.
LEMMA PreparingFacts ==
    ASSUME WorkspaceInv, NEW o \in Op, op[o].pc \in Preparing
    PROVE  /\ TypeInv /\ OpInv(o) /\ PrepareInv(o) /\ op[o].pc \in Holding
           /\ op[o].rest # <<>> /\ op[o].rest \in Seq(Path) /\ IsInjective(op[o].rest)
           /\ op[o].staged \in Seq(Path) /\ IsInjective(op[o].staged)
           /\ op[o].n = 0 /\ op[o].then = "none" /\ op[o].stop = "none" /\ ~op[o].bad
           /\ \A p \in Path : Absent(<<o, p>>)
           /\ Range(op[o].req) \subseteq Path /\ Range(op[o].staged) \subseteq Path
           /\ \E h \in Path : /\ h = Head(op[o].rest) /\ Cur(o) = <<o, h>> /\ PathOf(<<o, h>>) = h
                              /\ <<o, h>> \in Tx /\ h \in Range(op[o].rest) /\ h \notin Range(op[o].staged)
                              /\ op[o].pc = "intent" => Fresh(<<o, h>>)
                              /\ op[o].pc # "intent" => wal[<<o, h>>] = "prepared"
                              /\ op[o].pc = "create" => Unstaged(<<o, h>>)
<1>1. TypeInv /\ OpInv(o) /\ PrepareInv(o) /\ op[o].pc \in Holding
  BY DEF WorkspaceInv, OpInv, Holding
<1>2. /\ op[o].rest # <<>> /\ IsInjective(op[o].rest) /\ IsInjective(op[o].staged)
      /\ op[o].n = 0 /\ op[o].then = "none" /\ op[o].stop = "none" /\ ~op[o].bad
      /\ \A p \in Path : Absent(<<o, p>>)
      /\ Range(op[o].staged) \cap Range(op[o].rest) = {}
  BY <1>1 DEF PrepareInv
<1>3. /\ op[o].rest \in Seq(Path) /\ op[o].staged \in Seq(Path)
      /\ Range(op[o].req) \subseteq Path /\ Range(op[o].staged) \subseteq Path
  BY <1>1, RangeFacts
<1>4. PICK h \in Path : h = Head(op[o].rest) /\ Cur(o) = <<o, h>> /\ h \in Range(op[o].rest)
  BY <1>1, <1>2, CurFacts
<1>5. h \notin Range(op[o].staged)
  BY <1>2, <1>4
<1>6. op[o].pc = "intent" => Fresh(<<o, h>>)
  BY <1>1, <1>5 DEF PrepareInv
<1>7. /\ op[o].pc # "intent" => wal[<<o, h>>] = "prepared"
      /\ op[o].pc = "create" => Unstaged(<<o, h>>)
  <2>1. /\ op[o].pc # "intent" => wal[Cur(o)] = "prepared"
        /\ op[o].pc = "create" => Unstaged(Cur(o))
    BY <1>1 DEF PrepareInv
  <2> QED BY <1>4, <2>1
<1> QED BY <1>1, <1>2, <1>3, <1>4, <1>5, <1>6, <1>7, TxFacts

\* On to the next step for the same target.
LEMMA PrepareStep ==
    ASSUME WorkspaceInv, NEW o \in Op, NEW h \in Path, op[o].pc \in Preparing, h = Head(op[o].rest),
           Works(o, h), disk' = disk, NEW pc \in {"create", "stage", "review"}, Goes(o, pc),
           wal'[<<o, h>>] = "prepared", pc # "review" => ~IsDir(o), pc = "create" => Unstaged(<<o, h>>)'
    PROVE  WorkspaceInv'
<1>1. /\ TypeInv /\ OpInv(o) /\ PrepareInv(o) /\ op[o].pc \in Holding /\ op[o].rest # <<>>
      /\ \A p \in Path : Absent(<<o, p>>)
      /\ Range(op[o].req) \subseteq Path /\ Range(op[o].staged) \subseteq Path
      /\ Cur(o) = <<o, h>> /\ h \in Range(op[o].rest) /\ h \notin Range(op[o].staged)
  BY PreparingFacts
<1>2. pc \in Pcs /\ pc \in Holding \ {"snapshot"} /\ pc \in Preparing \ {"intent"}
  BY DEF Pcs, Holding, Preparing
<1>3. /\ OnlyMoves(o) /\ SameTask(o) /\ op'[o].pc = pc
      /\ op'[o].staged = op[o].staged /\ op'[o].rest = op[o].rest /\ op'[o].n = op[o].n
      /\ op'[o].then = op[o].then /\ op'[o].stop = op[o].stop /\ op'[o].bad = op[o].bad
  BY <1>1, <1>2, GoesFacts
<1>4. /\ TypeInv' /\ OwnStep(o) /\ \A p \in Path : Mapped(<<o, p>>)'
      /\ IsDir(o)' => \A p \in Path : Unstaged(<<o, p>>)'
  BY <1>3, WorksFacts
<1>5. MayCommit(o)
  <2>1. op'[o].then = "none"
    BY <1>1, <1>3 DEF PrepareInv
  <2> QED BY <1>2, <1>3, <2>1 DEF MayCommit, Committing, CommitPcs, Preparing
<1>6. LeaseInv(o)'
  BY <1>1, <1>2, <1>3, LeaseKept DEF OpInv, LeaseInv, Works
<1>7. KindInv(o)'
  BY <1>3, <1>4 DEF KindInv, IsDir, SameTask
<1>8. \A p \in Path : Absent(<<o, p>>)' /\ (Snapped(<<o, p>>) => Snapped(<<o, p>>)')
  BY <1>1, TouchOther, TouchSame DEF Works
<1>9. \A p \in Path : p # h => (Fresh(<<o, p>>) => Fresh(<<o, p>>)') /\ wal'[<<o, p>>] = wal[<<o, p>>]
  BY TouchOther DEF Works
<1>10. PrepareInv(o)'
  <2>1. Cur(o)' = <<o, h>>
    BY <1>3 DEF Cur
  <2>2. \A p \in Range(op[o].staged) : wal'[<<o, p>>] = "prepared"
    BY <1>1, <1>9 DEF PrepareInv
  <2>3. \A p \in Path \ Range(op[o].staged) : Fresh(<<o, p>>)' \/ p = h
    BY <1>1, <1>9 DEF PrepareInv
  <2>4. wal'[Cur(o)'] = "prepared" /\ (pc = "create" => Unstaged(Cur(o))')
    <3>1. pc = "create" => Unstaged(<<o, h>>)'
      OBVIOUS
    <3> QED BY <2>1, <3>1 DEF Unstaged
  <2>5. op'[o].pc # "prepared" /\ op'[o].pc \in Preparing
    BY <1>2, <1>3 DEF Preparing
  <2> QED BY <1>1, <1>2, <1>3, <1>8, <2>2, <2>3, <2>4, <2>5 DEF PrepareInv
<1>11. TargetInv(o)'
  <2>1. \A p \in Range(op[o].req) : Snapped(<<o, p>>)
    BY <1>1 DEF OpInv, TargetInv, Preparing
  <2>2. op'[o].pc # "apply"
    BY <1>3
  <2> QED BY <1>1, <1>3, <1>8, <2>1, <2>2 DEF TargetInv, SameTask
<1>12. OpInv(o)'
  BY <1>2, <1>3, <1>6, <1>7, <1>10, <1>11, PrepareParts DEF OpInv
<1> QED BY <1>4, <1>5, <1>12, Preserved

\* A failure after the intent: the target itself is undone first.
LEMMA OwnUndoStep ==
    ASSUME WorkspaceInv, NEW o \in Op, NEW h \in Path, op[o].pc \in Preparing, h = Head(op[o].rest),
           Works(o, h), disk' = disk, NEW pc \in {"cleanup", "rollback"},
           op' = [op EXCEPT ![o].pc = pc, ![o].then = "own"],
           pc = "cleanup" => ~IsDir(o), pc = "rollback" => Unstaged(<<o, h>>)'
    PROVE  WorkspaceInv'
<1>1. /\ TypeInv /\ OpInv(o) /\ op[o].pc \in Holding /\ op[o].rest # <<>>
      /\ IsInjective(op[o].rest) /\ IsInjective(op[o].staged) /\ op[o].stop = "none" /\ ~op[o].bad
      /\ \A p \in Path : Absent(<<o, p>>)
      /\ Range(op[o].staged) \subseteq Path /\ Range(op[o].rest) \subseteq Path
  BY PreparingFacts, RangeFacts
<1>2. pc \in Pcs /\ pc \in Holding \ {"snapshot"} /\ pc \in Undoing
  BY DEF Pcs, Holding, Undoing
<1>3. /\ OnlyMoves(o) /\ SameTask(o) /\ op'[o].pc = pc
      /\ op'[o].staged = op[o].staged /\ op'[o].rest = op[o].rest /\ op'[o].n = op[o].n
      /\ op'[o].then = "own" /\ op'[o].stop = op[o].stop /\ op'[o].bad = op[o].bad
  <2> DEFINE x == [op[o] EXCEPT !.pc = pc, !.then = "own"]
  <2>0. op' = [op EXCEPT ![o].pc = pc, ![o].then = "own"]
    OBVIOUS
  <2>1. op' = [op EXCEPT ![o] = x]
    BY ONLY <2>0
  <2>2. op[o] \in OpRecords
    BY <1>1 DEF TypeInv
  <2>3. /\ x.pc = pc /\ x.rest = op[o].rest /\ x.stop = op[o].stop /\ x.then = "own"
        /\ x.n = op[o].n /\ x.kind = op[o].kind /\ x.val = op[o].val /\ x.req = op[o].req
        /\ x.staged = op[o].staged /\ x.bad = op[o].bad /\ x \in OpRecords
    BY <1>2, <2>2 DEF OpRecords
  <2> HIDE DEF x
  <2>4. OnlyMoves(o) /\ SameTask(o) /\ op'[o] = x
    BY <1>1, <2>1, <2>3, Becomes
  <2> QED BY <2>3, <2>4
<1>4. /\ TypeInv' /\ OwnStep(o) /\ \A p \in Path : Mapped(<<o, p>>)'
      /\ IsDir(o)' => \A p \in Path : Unstaged(<<o, p>>)'
  BY <1>3, WorksFacts
<1>5. MayCommit(o)
  BY <1>3 DEF MayCommit, Committing, CommitPcs
<1>6. LeaseInv(o)'
  BY <1>1, <1>2, <1>3, LeaseKept DEF OpInv, LeaseInv, Works
<1>7. KindInv(o)'
  BY <1>3, <1>4 DEF KindInv, IsDir, SameTask
<1>8. \A p \in Path : Absent(<<o, p>>)'
  BY <1>1, TouchOther, TouchSame DEF Works
<1>9. UndoInv(o)'
  <2>1. pc = "rollback" => Unstaged(Cur(o))'
    <3>1. Cur(o)' = <<o, h>>
      BY <1>3 DEF Cur
    <3>2. pc = "rollback" => Unstaged(<<o, h>>)'
      OBVIOUS
    <3> QED BY <3>1, <3>2 DEF Unstaged
  <2> QED BY <1>1, <1>3, <1>8, <2>1 DEF UndoInv, CleanSoFar
<1>10. OpInv(o)'
  BY <1>2, <1>3, <1>6, <1>7, <1>9, UndoParts DEF OpInv
<1> QED BY <1>4, <1>5, <1>10, Preserved

LEMMA AppendTyped ==
    ASSUME TypeInv, NEW tx, NEW s, Appended(tx, s) \/ NotAppended(tx, s)
    PROVE  /\ wal' \in {wal, [wal EXCEPT ![tx] = s]} /\ mem' \in {mem, [mem EXCEPT ![tx] = s]}
           /\ walFailed' \in BOOLEAN /\ (Fault \/ NoFault)
BY DEF TypeInv, Appended, NotAppended, walVars

LEMMA IntentInv ==
    ASSUME WorkspaceInv, NEW o \in Op, Intent(o)
    PROVE  WorkspaceInv'
<1>1. op[o].pc = "intent" /\ op[o].pc \in Preparing /\ UNCHANGED <<fsVars, plan, lease, coreVars, history>>
  BY DEF Intent, At, Preparing
<1>2. /\ TypeInv /\ OpInv(o) /\ op[o].pc \in Holding /\ IsInjective(op[o].staged)
      /\ \A p \in Path : Absent(<<o, p>>)
  BY <1>1, PreparingFacts
<1>3. PICK h \in Path : /\ h = Head(op[o].rest) /\ Cur(o) = <<o, h>> /\ <<o, h>> \in Tx
                        /\ Fresh(<<o, h>>)
  BY <1>1, PreparingFacts
<1> DEFINE c == <<o, h>>
<1>4. "prepared" \in TxStates
  BY DEF TxStates
<1>5. Appended(c, "prepared") \/ NotAppended(c, "prepared")
  BY <1>3 DEF Intent
<1>6. Works(o, h) /\ disk' = disk /\ (Unstaged(c)' <=> Unstaged(c))
  BY <1>1, <1>2, <1>4, <1>5, CoreKept, AppendTyped, JournalWorks
<1>7. CASE Appended(c, "prepared") /\ Goes(o, IF IsDir(o) THEN "review" ELSE "create")
  <2>1. wal'[c] = "prepared"
    BY <1>2, <1>3, <1>7 DEF Appended, TypeInv
  <2>2. PICK pc \in {"create", "stage", "review"} : Goes(o, pc) /\ (pc = "review" <=> IsDir(o))
    BY <1>7
  <2>3. Unstaged(c)'
    <3> HIDE DEF c
    <3> QED BY <1>3, <1>6 DEF Fresh, c
  <2> QED BY <1>1, <1>3, <1>6, <2>1, <2>2, <2>3, PrepareStep
<1>8. CASE FailsPrepare(o, IF AppendRefused /\ ~walFailed THEN "RecoveryRequired" ELSE "ToolError")
  <2>1. PICK r \in {"ToolError", "RecoveryRequired"} : FailsPrepare(o, r)
    BY <1>8
  <2> QED BY <1>2, <1>6, <2>1, FailsStep
<1> QED BY <1>3, <1>7, <1>8 DEF Intent

LEMMA CreateInv ==
    ASSUME WorkspaceInv, NEW o \in Op, Create(o)
    PROVE  WorkspaceInv'
<1>1. /\ op[o].pc = "create" /\ op[o].pc \in Preparing
      /\ UNCHANGED <<disk, diskDurable, tempDurable, walVars, plan, lease, coreVars, history>>
  BY DEF Create, At, Preparing
<1>2. TypeInv /\ OpInv(o) /\ ~IsDir(o)
  BY <1>1, PreparingFacts DEF OpInv, KindInv
<1>3. PICK h \in Path : /\ h = Head(op[o].rest) /\ Cur(o) = <<o, h>> /\ <<o, h>> \in Tx
                        /\ Unstaged(<<o, h>>) /\ wal[<<o, h>>] = "prepared"
  BY <1>1, PreparingFacts
<1> DEFINE c == <<o, h>>
<1>4. Works(o, h) /\ wal'[c] = "prepared"
  <2>1. CoreTyped' /\ wal'[c] = wal[c]
    BY <1>1, <1>2 DEF CoreTyped, TypeInv, coreVars, walVars
  <2>2. "partial" \in TempStates /\ disk[h] \in Entries
    BY <1>2 DEF TempStates, TypeInv
  <2>3. temp' \in {temp, [temp EXCEPT ![c] = "partial"]} /\ (Fault \/ NoFault)
    BY <1>3 DEF Create
  <2> QED BY <1>1, <1>2, <1>3, <2>1, <2>2, <2>3, FileWorks
<1>5. CASE Goes(o, "stage")
  BY <1>1, <1>2, <1>3, <1>4, <1>5, PrepareStep
<1>6. CASE temp' = temp /\ op' = [op EXCEPT ![o].pc = "rollback", ![o].then = "own"]
  <2>1. Unstaged(c)'
    BY <1>1, <1>3, <1>6 DEF Unstaged
  <2> QED BY <1>1, <1>3, <1>4, <1>6, <2>1, OwnUndoStep
<1> QED BY <1>5, <1>6 DEF Create

LEMMA StageInv ==
    ASSUME WorkspaceInv, NEW o \in Op, Stage(o)
    PROVE  WorkspaceInv'
<1>1. /\ op[o].pc = "stage" /\ op[o].pc \in Preparing
      /\ UNCHANGED <<disk, diskDurable, walVars, plan, lease, coreVars, history>>
  BY DEF Stage, At, Preparing
<1>2. TypeInv /\ OpInv(o) /\ ~IsDir(o)
  BY <1>1, PreparingFacts DEF OpInv, KindInv
<1>3. PICK h \in Path : /\ h = Head(op[o].rest) /\ Cur(o) = <<o, h>> /\ <<o, h>> \in Tx
                        /\ wal[<<o, h>>] = "prepared"
  BY <1>1, PreparingFacts
<1> DEFINE c == <<o, h>>
<1>4. Works(o, h) /\ wal'[c] = "prepared"
  <2>1. CoreTyped' /\ wal'[c] = wal[c]
    BY <1>1, <1>2 DEF CoreTyped, TypeInv, coreVars, walVars
  <2>2. "full" \in TempStates /\ disk[h] \in Entries
    BY <1>2 DEF TempStates, TypeInv
  <2>3. /\ temp' \in {temp, [temp EXCEPT ![c] = "full"]} /\ (Fault \/ NoFault)
        /\ tempDurable' \in {tempDurable, [tempDurable EXCEPT ![c] = "full"]}
    BY <1>3 DEF Stage
  <2> QED BY <1>1, <1>2, <1>3, <2>1, <2>2, <2>3, FileWorks
<1>5. CASE Goes(o, "review")
  BY <1>1, <1>2, <1>3, <1>4, <1>5, PrepareStep
<1>6. CASE op' = [op EXCEPT ![o].pc = "cleanup", ![o].then = "own"]
  BY <1>1, <1>2, <1>3, <1>4, <1>6, OwnUndoStep
<1> QED BY <1>5, <1>6 DEF Stage

LEMMA ReviewInv ==
    ASSUME WorkspaceInv, NEW o \in Op, Review(o)
    PROVE  WorkspaceInv'
<1>1. /\ op[o].pc = "review" /\ op[o].pc \in Preparing /\ lease' = lease /\ UNCHANGED coreVars
  BY DEF Review, At, Preparing
<1>2. /\ TypeInv /\ OpInv(o) /\ PrepareInv(o) /\ op[o].pc \in Holding
      /\ op[o].rest # <<>> /\ op[o].rest \in Seq(Path) /\ IsInjective(op[o].rest)
      /\ op[o].staged \in Seq(Path) /\ IsInjective(op[o].staged)
      /\ op[o].n = 0 /\ op[o].then = "none" /\ op[o].stop = "none" /\ ~op[o].bad
      /\ \A p \in Path : Absent(<<o, p>>)
      /\ Range(op[o].req) \subseteq Path /\ Range(op[o].staged) \subseteq Path
  BY <1>1, PreparingFacts
<1>3. PICK h \in Path : /\ h = Head(op[o].rest) /\ Cur(o) = <<o, h>>
                        /\ h \in Range(op[o].rest) /\ h \notin Range(op[o].staged)
                        /\ wal[<<o, h>>] = "prepared"
  BY <1>1, PreparingFacts
<1>4. Quiet /\ CoreTyped' /\ (Fault \/ NoFault)
  BY <1>1, <1>2 DEF Review, Quiet, CoreTyped, TypeInv, coreVars
<1>5. Works(o, h) /\ disk' = disk
  BY <1>1, <1>4, QuietWorks
<1>6. CASE op' = [op EXCEPT ![o].pc = IF IsDir(o) THEN "rollback" ELSE "cleanup", ![o].then = "own"]
  <2>1. PICK pc \in {"cleanup", "rollback"} :
          op' = [op EXCEPT ![o].pc = pc, ![o].then = "own"] /\ (pc = "rollback" <=> IsDir(o))
    BY <1>6
  <2>2. IsDir(o) => Unstaged(<<o, h>>)'
    BY <1>5 DEF Works
  <2> QED BY <1>1, <1>3, <1>5, <2>1, <2>2, OwnUndoStep
<1>7. CASE op' = [op EXCEPT ![o].pc = IF Tail(op[o].rest) = <<>> THEN "prepared" ELSE "intent",
                            ![o].rest = Tail(op[o].rest), ![o].staged = Append(op[o].staged, Head(op[o].rest))]
  <2>1. PICK pc \in {"prepared", "intent"} :
          /\ pc = "prepared" <=> Tail(op[o].rest) = <<>>
          /\ op' = [op EXCEPT ![o].pc = pc, ![o].rest = Tail(op[o].rest), ![o].staged = Append(op[o].staged, h)]
    BY <1>3, <1>7
  <2>2. /\ Tail(op[o].rest) \in Seq(Path) /\ IsInjective(Tail(op[o].rest))
        /\ Range(Tail(op[o].rest)) = Range(op[o].rest) \ {h}
    BY <1>2, <1>3, HeadTail
  <2>3. /\ Append(op[o].staged, h) \in Seq(Path) /\ IsInjective(Append(op[o].staged, h))
        /\ Range(Append(op[o].staged, h)) = Range(op[o].staged) \cup {h} /\ Append(op[o].staged, h) # <<>>
    <3>1. Append(op[o].staged, h) # <<>>
      BY <1>2
    <3> QED BY <1>2, <1>3, <3>1, AppendFacts
  <2>4. PICK st \in Seq(Path) : st = Append(op[o].staged, h)
    BY <2>3
  <2>5. PICK rs \in Seq(Path) : rs = Tail(op[o].rest)
    BY <2>2
  <2>6. /\ OnlyMoves(o) /\ SameTask(o) /\ op'[o].pc = pc /\ op'[o].rest = rs /\ op'[o].staged = st
        /\ op'[o].n = 0 /\ op'[o].then = "none" /\ op'[o].stop = "none" /\ ~op'[o].bad
    <3> DEFINE x == [op[o] EXCEPT !.pc = pc, !.rest = rs, !.staged = st]
    <3>1. op' = [op EXCEPT ![o].pc = pc, ![o].rest = rs, ![o].staged = st]
      BY <2>1, <2>4, <2>5
    <3>2. op' = [op EXCEPT ![o] = x]
      BY ONLY <3>1
    <3>3. pc \in Pcs /\ op[o] \in OpRecords
      BY <1>2 DEF TypeInv, Pcs, Holding, Preparing
    <3>4. /\ x.pc = pc /\ x.rest = rs /\ x.stop = op[o].stop /\ x.then = op[o].then
          /\ x.n = op[o].n /\ x.kind = op[o].kind /\ x.val = op[o].val /\ x.req = op[o].req
          /\ x.staged = st /\ x.bad = op[o].bad /\ x \in OpRecords
      BY <3>3 DEF OpRecords
    <3> HIDE DEF x
    <3> QED BY <1>2, <3>2, <3>4, Becomes
  <2>7. /\ TypeInv' /\ OwnStep(o) /\ \A p \in Path : Mapped(<<o, p>>)'
        /\ IsDir(o)' => \A p \in Path : Unstaged(<<o, p>>)'
    BY <1>5, <2>6, WorksFacts
  <2>8. MayCommit(o)
    BY <2>6 DEF MayCommit, Committing, CommitPcs
  <2>9. LeaseInv(o)'
    <3>1. op'[o].pc \in Holding \ {"snapshot"}
      BY <2>6 DEF Holding, Preparing
    <3>2. Range(op'[o].staged) \cup Range(op'[o].rest) \subseteq Range(op[o].req)
      BY <1>2, <1>3, <2>2, <2>3, <2>4, <2>5, <2>6 DEF OpInv, LeaseInv
    <3> QED BY <1>1, <1>2, <2>6, <3>1, <3>2, LeaseKept DEF OpInv
  <2>10. KindInv(o)'
    BY <2>6, <2>7 DEF KindInv
  <2>11. \A p \in Path : /\ Absent(<<o, p>>)' /\ (Snapped(<<o, p>>) => Snapped(<<o, p>>)')
                         /\ (Fresh(<<o, p>>) => Fresh(<<o, p>>)') /\ wal'[<<o, p>>] = wal[<<o, p>>]
    BY <1>2, <1>4, QuietTx
  <2>12. PrepareInv(o)'
    <3>1. \A p \in Range(st) : wal'[<<o, p>>] = "prepared"
      BY <1>1, <1>2, <1>3, <2>3, <2>4, <2>11 DEF PrepareInv
    <3>2. \A p \in Path \ Range(st) : Fresh(<<o, p>>)'
      BY <1>1, <1>2, <1>3, <2>3, <2>4, <2>11 DEF PrepareInv
    <3>3. Range(st) \cap Range(rs) = {}
      BY <1>1, <1>2, <1>3, <2>2, <2>3, <2>4, <2>5 DEF PrepareInv
    <3>4. op'[o].pc \in Preparing <=> rs # <<>>
      BY <2>1, <2>5, <2>6 DEF Preparing
    <3>5. IsInjective(st) /\ IsInjective(rs) /\ st # <<>>
      BY <2>2, <2>3, <2>4, <2>5
    <3>6. op'[o].pc \notin Preparing \ {"intent"} /\ op'[o].pc # "create"
      BY <2>6 DEF Preparing
    <3> QED BY <2>6, <2>11, <3>1, <3>2, <3>3, <3>4, <3>5, <3>6 DEF PrepareInv
  <2>13. TargetInv(o)'
    <3>1. \A p \in Range(op[o].req) : Snapped(<<o, p>>)
      BY <1>1, <1>2 DEF OpInv, TargetInv
    <3> QED BY <1>2, <2>6, <2>11, <3>1 DEF TargetInv, SameTask
  <2>14. OpInv(o)'
    BY <2>6, <2>9, <2>10, <2>12, <2>13, PrepareParts DEF OpInv, Preparing
  <2> QED BY <2>7, <2>8, <2>14, Preserved
<1> QED BY <1>6, <1>7 DEF Review

LEMMA DropEffectInv ==
    ASSUME WorkspaceInv, NEW o \in Op, DropEffect(o)
    PROVE  WorkspaceInv'
<1>1. /\ TypeInv /\ OpInv(o) /\ op[o].pc = "prepared" /\ Goes(o, "lost") /\ lease' = Released(o)
      /\ (Fault \/ NoFault)
      /\ UNCHANGED <<disk, diskDurable, walVars, plan, coreVars, history>>
  BY DEF WorkspaceInv, DropEffect, At
<1>2. /\ OnlyMoves(o) /\ SameTask(o) /\ op'[o].pc = "lost"
      /\ op'[o].staged = op[o].staged /\ op'[o].rest = op[o].rest
  <2>1. "lost" \in Pcs
    BY DEF Pcs
  <2> QED BY <1>1, <2>1, GoesFacts
<1>3. PICK S : temp' = [tx \in Tx |-> IF OpOf(tx) = o /\ PathOf(tx) \in S THEN "none" ELSE temp[tx]]
  BY DEF DropEffect
<1>4. /\ temp' \in [Tx -> TempStates]
      /\ \A q \in Op, p \in Path : q # o => temp'[<<q, p>>] = temp[<<q, p>>]
      /\ \A p \in Path : temp'[<<o, p>>] \in {temp[<<o, p>>], "none"}
  <2>1. temp \in [Tx -> TempStates] /\ "none" \in TempStates
    BY <1>1 DEF TypeInv, TempStates
  <2> QED BY <1>3, <2>1, TxFacts
<1>5. /\ tempDurable' \in [Tx -> TempStates]
      /\ \A q \in Op, p \in Path : q # o => tempDurable'[<<q, p>>] = tempDurable[<<q, p>>]
      /\ \A p \in Path : tempDurable'[<<o, p>>] \in {tempDurable[<<o, p>>], "none"}
  <2>1. tempDurable \in [Tx -> TempStates] /\ "none" \in TempStates
    BY <1>1 DEF TypeInv, TempStates
  <2>2. CASE tempDurable' = tempDurable
    BY <2>1, <2>2
  <2>3. CASE tempDurable' = [tx \in Tx |-> IF OpOf(tx) = o THEN "none" ELSE tempDurable[tx]]
    BY <2>1, <2>3, TxFacts
  <2> QED BY <2>2, <2>3 DEF DropEffect
<1>6. lease' \in [Path -> Op \cup {NoOp}] /\ \A p \in Path : lease'[p] = lease[p] \/ (lease[p] = o /\ lease'[p] = NoOp)
  BY <1>1 DEF TypeInv, Released
<1>7. TypeInv'
  <2>1. budget' \in [faults : Nat, crashes : Nat, foreign : Nat]
    BY <1>1, FaultType
  <2> QED BY <1>1, <1>2, <1>4, <1>5, <1>6, <2>1 DEF TypeInv, OnlyMoves, walVars, coreVars, history
<1>8. OwnStep(o)
  BY <1>1, <1>2, <1>4, <1>5, <1>6 DEF OwnStep, OnlyMoves, walVars, history
<1>9. ASSUME NEW p \in Path PROVE Mapped(<<o, p>>)' /\ (Unstaged(<<o, p>>) => Unstaged(<<o, p>>)')
  <2>1. Mapped(<<o, p>>)
    BY TxFacts DEF WorkspaceInv, StagingIsMapped, Mapped, Unstaged
  <2>2. Unstaged(<<o, p>>) => Unstaged(<<o, p>>)'
    BY <1>4, <1>5 DEF Unstaged
  <2> QED BY <1>1, <2>1, <2>2 DEF Mapped, walVars
<1>10. MayCommit(o)
  BY <1>2 DEF MayCommit, Committing, CommitPcs
<1>11. KindInv(o)'
  <2>1. IsDir(o)' => \A p \in Path : Unstaged(<<o, p>>)'
    BY <1>1, <1>2, <1>9 DEF OpInv, KindInv, IsDir, SameTask
  <2> QED BY <1>2, <2>1, OverParts
<1>12. ReportInv(o)'
  BY <1>2 DEF ReportInv, Recovering
<1>13. OpInv(o)'
  BY <1>2, <1>11, <1>12, OverParts DEF OpInv
<1> QED BY <1>7, <1>8, <1>9, <1>10, <1>13, Preserved

-----------------------------------------------------------------------------
(* Own steps: committing *)

LEMMA CheckInv ==
    ASSUME WorkspaceInv, NEW o \in Op, Check(o)
    PROVE  WorkspaceInv'
<1>1. op[o].pc = "check" /\ op[o].pc \in CommitPcs /\ AtChild(o) /\ lease' = lease /\ UNCHANGED coreVars
  BY DEF Check, At, CommitPcs, AtChild
<1>2. TypeInv /\ OpInv(o) /\ ChildInv(o)
  BY <1>1, ChildFacts
<1>3. PICK h \in Path : h = Head(op[o].rest) /\ Cur(o) = <<o, h>> /\ PathOf(<<o, h>>) = h /\ h \in Range(op[o].req)
  BY <1>1, ChildFacts
<1>4. Quiet /\ CoreTyped' /\ (Fault \/ NoFault)
  BY <1>1, <1>2 DEF Check, Quiet, CoreTyped, TypeInv, coreVars
<1>5. Works(o, h) /\ disk' = disk
  BY <1>1, <1>4, QuietWorks
<1>6. wal[<<o, h>>] = "prepared" /\ Absent(<<o, h>>) /\ Snapped(<<o, h>>)
  BY <1>1, <1>2, <1>3 DEF ChildInv, OpInv, TargetInv
<1>7. wal'[<<o, h>>] = "prepared" /\ Absent(<<o, h>>)' /\ Snapped(<<o, h>>)' /\ plan' = plan
  BY <1>4, <1>6, QuietTx DEF Quiet
<1>8. CASE SettlesNotApplied(o)
  BY <1>1, <1>3, <1>5, <1>7, <1>8, SettlesStep
<1>9. CASE PreconditionHolds(o) /\ Goes(o, "apply")
  <2>1. Aimed(<<o, h>>)'
    <3>1. disk'[h].is = plan'[<<o, h>>].before
      BY <1>3, <1>5, <1>7, <1>9 DEF PreconditionHolds
    <3> QED BY <1>3, <3>1 DEF Aimed
  <2>2. op'[o].pc = "apply" /\ op'[o].rest = op[o].rest
    <3>1. "apply" \in Pcs
      BY DEF Pcs, Holding, CommitPcs
    <3> QED BY <1>2, <1>9, <3>1, GoesFacts
  <2>3. ChildInv(o)'
    <3> DEFINE c == <<o, h>>
    <3>1. c = Cur(o)' /\ wal'[c] = "prepared" /\ Absent(c)'
      BY <1>3, <1>7, <2>2 DEF Cur
    <3> HIDE DEF c
    <3> QED BY <2>2, <3>1 DEF ChildInv, Undoing
  <2>4. "apply" \in CommitPcs \ {"check"}
    BY DEF CommitPcs
  <2> QED BY <1>1, <1>3, <1>5, <1>7, <1>9, <2>1, <2>3, <2>4, ForwardStep
<1> QED BY <1>8, <1>9 DEF Check

LEMMA ApplyInv ==
    ASSUME WorkspaceInv, NEW o \in Op, Apply(o)
    PROVE  WorkspaceInv'
<1>1. /\ op[o].pc = "apply" /\ op[o].pc \in CommitPcs /\ AtChild(o) /\ (Fault \/ NoFault)
      /\ UNCHANGED <<diskDurable, tempDurable, walVars, plan, lease, coreVars, history>>
  BY DEF Apply, At, CommitPcs, AtChild
<1>2. TypeInv /\ OpInv(o) /\ ChildInv(o) /\ Committing(o)
  BY <1>1, ChildFacts
<1>3. PICK h \in Path : /\ h = Head(op[o].rest) /\ Cur(o) = <<o, h>> /\ PathOf(<<o, h>>) = h
                        /\ h \in Range(op[o].req) /\ lease[h] = o /\ <<o, h>> \in Tx
  BY <1>1, ChildFacts
<1> DEFINE c == <<o, h>>
           e == Entry(plan[c].after, c)
<1>4. e \in Entries /\ e.by = c
  BY <1>2, <1>3 DEF Entry, Entries, TypeInv
<1>5. CoreTyped' /\ wal'[c] = "prepared" /\ Absent(c) /\ Snapped(c)
  <2>1. CoreTyped' /\ wal' = wal
    BY <1>1, <1>2 DEF CoreTyped, TypeInv, coreVars, walVars
  <2>2. wal[c] = "prepared" /\ Absent(c) /\ Snapped(c)
    BY <1>1, <1>2, <1>3 DEF ChildInv, OpInv, TargetInv
  <2> QED BY <2>1, <2>2
<1>6. CASE SettlesNotApplied(o) /\ UNCHANGED <<disk, temp>>
  <2>1. Quiet
    BY <1>1, <1>6 DEF Quiet, fsVars
  <2>2. Works(o, h)
    BY <1>1, <1>5, <2>1, QuietWorks
  <2>3. Absent(c)'
    BY <1>5, <2>1, QuietTx
  <2> QED BY <1>1, <1>3, <1>5, <1>6, <2>2, <2>3, SettlesStep
<1>7. ASSUME Landed(o) PROVE Works(o, h) /\ disk'[h] = e
  <2>1. disk' = [disk EXCEPT ![h] = e] /\ temp' = [temp EXCEPT ![c] = "none"]
    BY <1>3, <1>7 DEF Landed
  <2>2. disk'[h] = e
    BY <1>2, <2>1 DEF TypeInv
  <2> HIDE DEF e
  <2> DEFINE s == "none"
  <2>3. s \in TempStates /\ {s, s} = {"none"} /\ temp' \in {temp, [temp EXCEPT ![c] = s]}
    BY <2>1 DEF TempStates
  <2> HIDE DEF s
  <2>4. Works(o, h)
    BY <1>1, <1>2, <1>3, <1>4, <1>5, <2>1, <2>3, FileWorks
  <2> QED BY <2>2, <2>4
<1>8. CASE Landed(o) /\ Goes(o, "verify")
  <2>1. Works(o, h) /\ disk'[h].by = c
    BY <1>4, <1>7, <1>8
  <2>2. op'[o].pc = "verify" /\ op'[o].rest = op[o].rest
    <3>1. "verify" \in Pcs
      BY DEF Pcs, Holding, CommitPcs
    <3> QED BY <1>2, <1>8, <3>1, GoesFacts
  <2>3. ChildInv(o)' /\ Snapped(c)'
    <3>1. c = Cur(o)' /\ PathOf(c) = h
      BY <1>3, <2>2 DEF Cur
    <3> HIDE DEF c
    <3> QED BY <1>5, <2>1, <2>2, <3>1 DEF ChildInv, Undoing, Snapped, Ours
  <2>4. "verify" \in CommitPcs \ {"check"}
    BY DEF CommitPcs
  <2> QED BY <1>1, <1>3, <1>8, <2>1, <2>3, <2>4, ForwardStep
<1>9. CASE Landed(o) /\ ChildReceipt(o, "Unknown")
  <2>1. "Unknown" \in Receipts
    BY DEF Receipts
  <2> QED BY <1>1, <1>3, <1>7, <1>9, <2>1, ReceiptStep
<1> QED BY <1>6, <1>8, <1>9 DEF Apply

LEMMA VerifyInv ==
    ASSUME WorkspaceInv, NEW o \in Op, Verify(o)
    PROVE  WorkspaceInv'
<1>1. op[o].pc = "verify" /\ op[o].pc \in CommitPcs /\ AtChild(o) /\ lease' = lease /\ UNCHANGED coreVars
  BY DEF Verify, At, CommitPcs, AtChild
<1>2. TypeInv /\ OpInv(o) /\ ChildInv(o)
  BY <1>1, ChildFacts
<1>3. PICK h \in Path : h = Head(op[o].rest) /\ Cur(o) = <<o, h>> /\ PathOf(<<o, h>>) = h /\ h \in Range(op[o].req)
  BY <1>1, ChildFacts
<1> DEFINE c == <<o, h>>
<1>4. Quiet /\ CoreTyped' /\ (Fault \/ NoFault)
  BY <1>1, <1>2 DEF Verify, Quiet, CoreTyped, TypeInv, coreVars
<1>5. Works(o, h) /\ disk' = disk
  BY <1>1, <1>4, QuietWorks
<1>6. wal[c] = "prepared" /\ (disk[h].by = c \/ h \in foreign) /\ Snapped(c)
  BY <1>1, <1>2, <1>3 DEF ChildInv, OpInv, TargetInv, Ours
<1>7. wal'[c] = "prepared" /\ (disk'[h].by = c \/ h \in foreign') /\ Snapped(c)'
  BY <1>4, <1>5, <1>6, QuietTx
<1>8. CASE ChildReceipt(o, "Unknown")
  <2>1. "Unknown" \in Receipts
    BY DEF Receipts
  <2> QED BY <1>1, <1>3, <1>5, <1>8, <2>1, ReceiptStep
<1>9. CASE Goes(o, "sync") \/ (IsDir(o) /\ Goes(o, "uncreate"))
  <2>1. PICK pc \in {"sync", "uncreate"} : Goes(o, pc) /\ (pc = "uncreate" => IsDir(o))
    BY <1>9
  <2>2. op'[o].pc = pc /\ op'[o].rest = op[o].rest
    <3>1. pc \in Pcs
      BY DEF Pcs, Holding, CommitPcs
    <3> QED BY <1>2, <2>1, <3>1, GoesFacts
  <2>3. ChildInv(o)'
    <3>1. c = Cur(o)' /\ PathOf(c) = h
      BY <1>3, <2>2 DEF Cur
    <3> HIDE DEF c
    <3> QED BY <1>7, <2>2, <3>1 DEF ChildInv, Undoing, Ours
  <2>4. pc \in CommitPcs \ {"check"}
    BY DEF CommitPcs
  <2> QED BY <1>1, <1>3, <1>5, <1>7, <2>1, <2>3, <2>4, ForwardStep
<1> QED BY <1>8, <1>9 DEF Verify

LEMMA SyncInv ==
    ASSUME WorkspaceInv, NEW o \in Op, Sync(o)
    PROVE  WorkspaceInv'
<1>1. /\ op[o].pc = "sync" /\ op[o].pc \in CommitPcs /\ AtChild(o) /\ (Fault \/ NoFault)
      /\ UNCHANGED <<disk, temp, walVars, plan, lease, coreVars, history>>
  BY DEF Sync, At, CommitPcs, AtChild
<1>2. TypeInv /\ OpInv(o) /\ ChildInv(o)
  BY <1>1, ChildFacts
<1>3. PICK h \in Path : h = Head(op[o].rest) /\ Cur(o) = <<o, h>> /\ PathOf(<<o, h>>) = h /\ h \in Range(op[o].req)
  BY <1>1, ChildFacts
<1> DEFINE c == <<o, h>>
<1>4. DirSynced(h) \/ (diskDurable' = diskDurable /\ tempDurable' = tempDurable)
  BY <1>3 DEF Sync
<1>5. Works(o, h)
  <2>1. CoreTyped'
    BY <1>1, <1>2 DEF CoreTyped, TypeInv, coreVars
  <2>2. disk[h] \in Entries
    BY <1>2 DEF TypeInv
  <2> DEFINE s == "none"
  <2>3. s \in TempStates /\ {s, s} = {"none"}
    BY DEF TempStates
  <2> HIDE DEF s
  <2> QED BY <1>1, <1>4, <2>1, <2>2, <2>3, FileWorks
<1>6. wal'[c] = "prepared" /\ (disk'[h].by = c \/ h \in foreign') /\ Snapped(c)'
  <2>1. wal[c] = "prepared" /\ (disk[h].by = c \/ h \in foreign) /\ Snapped(c)
    BY <1>1, <1>2, <1>3 DEF ChildInv, OpInv, TargetInv, Ours
  <2>2. wal' = wal /\ disk' = disk /\ foreign' = foreign
    BY <1>1 DEF walVars, history
  <2>3. Snapped(c)'
    BY <1>5, <2>1, <2>2, TouchSame DEF Works
  <2> QED BY <2>1, <2>2, <2>3
<1>7. CASE ChildReceipt(o, "DurabilityFailed")
  <2>1. "DurabilityFailed" \in Receipts
    BY DEF Receipts
  <2> QED BY <1>1, <1>3, <1>5, <1>7, <2>1, ReceiptStep
<1>8. CASE (DirSynced(h) /\ Goes(o, "record")) \/ (IsDir(o) /\ Goes(o, "uncreate"))
  <2>1. PICK pc \in {"record", "uncreate"} :
          Goes(o, pc) /\ (pc = "uncreate" => IsDir(o)) /\ (pc = "record" => DirSynced(h))
    BY <1>8
  <2>2. op'[o].pc = pc /\ op'[o].rest = op[o].rest
    <3>1. pc \in Pcs
      BY DEF Pcs, Holding, CommitPcs
    <3> QED BY <1>2, <2>1, <3>1, GoesFacts
  <2>3. ChildInv(o)'
    <3>1. c = Cur(o)' /\ PathOf(c) = h
      BY <1>3, <2>2 DEF Cur
    <3>2. pc = "record" => diskDurable'[h] = disk'[h]
      BY <1>2, <2>1 DEF DirSynced, TypeInv
    <3> HIDE DEF c
    <3> QED BY <1>6, <2>2, <3>1, <3>2 DEF ChildInv, Undoing, InPlace, Ours
  <2>4. pc \in CommitPcs \ {"check"}
    BY DEF CommitPcs
  <2> QED BY <1>1, <1>3, <1>5, <1>6, <2>1, <2>3, <2>4, ForwardStep
<1> QED BY <1>3, <1>7, <1>8 DEF Sync

LEMMA UncreateInv ==
    ASSUME WorkspaceInv, NEW o \in Op, Uncreate(o)
    PROVE  WorkspaceInv'
<1>1. /\ op[o].pc = "uncreate" /\ op[o].pc \in CommitPcs \ {"removed"} /\ AtChild(o) /\ (Fault \/ NoFault)
      /\ UNCHANGED <<diskDurable, temp, tempDurable, walVars, plan, lease, coreVars, history>>
  BY DEF Uncreate, At, CommitPcs, AtChild
<1>2. TypeInv /\ OpInv(o) /\ ChildInv(o) /\ Committing(o)
  BY <1>1, ChildFacts
<1>3. PICK h \in Path : /\ h = Head(op[o].rest) /\ Cur(o) = <<o, h>> /\ PathOf(<<o, h>>) = h
                        /\ <<o, h>> \in Tx /\ lease[h] = o
  BY <1>1, ChildFacts
<1> DEFINE c == <<o, h>>
<1>4. /\ disk' = disk \/ disk' = [disk EXCEPT ![h] = Missing]
      /\ \/ ChildReceipt(o, "Unknown")
         \/ disk' = [disk EXCEPT ![h] = Missing] /\ Goes(o, "removed")
  BY <1>3 DEF Uncreate
<1>5. Missing \in Entries /\ Missing.by = NoTx /\ NoTx # c
  BY <1>3, TxFacts DEF Missing, Entry, Entries, Content
<1>6. Works(o, h)
  <2>1. CoreTyped'
    BY <1>1, <1>2 DEF CoreTyped, TypeInv, coreVars
  <2> DEFINE s == "none"
             e == Missing
  <2>2. s \in TempStates /\ {s, s} = {"none"}
    BY DEF TempStates
  <2>3. e \in Entries /\ e.by = NoTx /\ (disk' = disk \/ disk' = [disk EXCEPT ![h] = e])
    BY <1>4, <1>5
  <2> HIDE DEF s, e
  <2> QED BY <1>1, <1>2, <1>3, <2>1, <2>2, <2>3, FileWorks
<1>7. CASE ChildReceipt(o, "Unknown")
  <2>1. "Unknown" \in Receipts
    BY DEF Receipts
  <2> QED BY <1>1, <1>3, <1>6, <1>7, <2>1, ReceiptStep
<1>8. CASE disk' = [disk EXCEPT ![h] = Missing] /\ Goes(o, "removed")
  <2>1. disk'[h].by # c /\ wal'[c] = "prepared"
    BY <1>1, <1>2, <1>3, <1>5, <1>8 DEF ChildInv, walVars, TypeInv
  <2>2. op'[o].pc = "removed" /\ op'[o].rest = op[o].rest
    <3>1. "removed" \in Pcs
      BY DEF Pcs, Holding, CommitPcs
    <3> QED BY <1>2, <1>8, <3>1, GoesFacts
  <2>3. ChildInv(o)'
    <3>1. c = Cur(o)' /\ PathOf(c) = h
      BY <1>3, <2>2 DEF Cur
    <3> HIDE DEF c
    <3> QED BY <2>1, <2>2, <3>1 DEF ChildInv, Undoing, Vacated
  <2>4. "removed" \in CommitPcs \ {"check"} /\ IsDir(o)
    BY <1>1, <1>2 DEF CommitPcs, OpInv, KindInv
  <2> QED BY <1>1, <1>3, <1>6, <1>8, <2>3, <2>4, ForwardStep
<1> QED BY <1>4, <1>7, <1>8

LEMMA SyncRemovalInv ==
    ASSUME WorkspaceInv, NEW o \in Op, SyncRemoval(o)
    PROVE  WorkspaceInv'
<1>1. /\ op[o].pc = "removed" /\ op[o].pc \in CommitPcs /\ AtChild(o) /\ (Fault \/ NoFault)
      /\ UNCHANGED <<disk, temp, walVars, plan, lease, coreVars, history>>
  BY DEF SyncRemoval, At, CommitPcs, AtChild
<1>2. TypeInv /\ OpInv(o) /\ ChildInv(o)
  BY <1>1, ChildFacts
<1>3. PICK h \in Path : h = Head(op[o].rest) /\ Cur(o) = <<o, h>> /\ PathOf(<<o, h>>) = h
  BY <1>1, ChildFacts
<1> DEFINE c == <<o, h>>
<1>4. /\ DirSynced(h) \/ (diskDurable' = diskDurable /\ tempDurable' = tempDurable)
      /\ ChildReceipt(o, "Unknown") \/ (DirSynced(h) /\ SettlesNotApplied(o))
  BY <1>3 DEF SyncRemoval
<1>5. Works(o, h)
  <2>1. CoreTyped'
    BY <1>1, <1>2 DEF CoreTyped, TypeInv, coreVars
  <2>2. disk[h] \in Entries
    BY <1>2 DEF TypeInv
  <2> DEFINE s == "none"
  <2>3. s \in TempStates /\ {s, s} = {"none"}
    BY DEF TempStates
  <2> HIDE DEF s
  <2> QED BY <1>1, <1>4, <2>1, <2>2, <2>3, FileWorks
<1>6. CASE ChildReceipt(o, "Unknown")
  <2>1. "Unknown" \in Receipts
    BY DEF Receipts
  <2> QED BY <1>1, <1>3, <1>5, <1>6, <2>1, ReceiptStep
<1>7. CASE DirSynced(h) /\ SettlesNotApplied(o)
  <2>1. wal'[c] = "prepared" /\ disk[h].by # c /\ disk' = disk
    BY <1>1, <1>2, <1>3 DEF ChildInv, Vacated, walVars
  <2>2. diskDurable'[h] = disk[h]
    BY <1>2, <1>7, <2>1 DEF DirSynced, TypeInv
  <2>3. Absent(c)'
    <3>1. PathOf(c) = h
      BY <1>3
    <3> HIDE DEF c
    <3> QED BY <2>1, <2>2, <3>1 DEF Absent
  <2> QED BY <1>1, <1>3, <1>5, <1>7, <2>1, <2>3, SettlesStep
<1> QED BY <1>4, <1>6, <1>7

LEMMA RecordInv ==
    ASSUME WorkspaceInv, NEW o \in Op, Record(o)
    PROVE  WorkspaceInv'
<1>1. /\ op[o].pc = "record" /\ op[o].pc \in CommitPcs /\ AtChild(o)
      /\ UNCHANGED <<fsVars, plan, lease, coreVars, history>>
  BY DEF Record, At, CommitPcs, AtChild
<1>2. TypeInv /\ OpInv(o) /\ ChildInv(o)
  BY <1>1, ChildFacts
<1>3. PICK h \in Path : /\ h = Head(op[o].rest) /\ Cur(o) = <<o, h>> /\ PathOf(<<o, h>>) = h
                        /\ h \in Range(op[o].req) /\ <<o, h>> \in Tx
  BY <1>1, ChildFacts
<1> DEFINE c == <<o, h>>
<1>4. Appended(c, "committed") \/ NotAppended(c, "committed")
  BY <1>3 DEF Record
<1>5. Works(o, h) /\ disk' = disk
  <2>1. "committed" \in TxStates
    BY DEF TxStates
  <2> QED BY <1>1, <1>2, <1>4, <2>1, CoreKept, AppendTyped, JournalWorks
<1>6. InPlace(c)' /\ Snapped(c)'
  <2>1. InPlace(c) /\ Snapped(c)
    BY <1>1, <1>2, <1>3 DEF ChildInv, OpInv, TargetInv
  <2> QED BY <1>5, <2>1, TouchSame DEF Works
<1>7. CASE ChildReceipt(o, "DurabilityFailed")
  <2>1. "DurabilityFailed" \in Receipts
    BY DEF Receipts
  <2> QED BY <1>1, <1>3, <1>5, <1>7, <2>1, ReceiptStep
<1>8. CASE Appended(c, "committed") /\ Goes(o, "ack")
  <2>1. op'[o].pc = "ack" /\ op'[o].rest = op[o].rest
    <3>1. "ack" \in Pcs
      BY DEF Pcs, Holding, CommitPcs
    <3> QED BY <1>2, <1>8, <3>1, GoesFacts
  <2>2. wal'[c] = "committed"
    BY <1>2, <1>3, <1>8 DEF Appended, TypeInv
  <2>3. ChildInv(o)'
    <3>1. c = Cur(o)'
      BY <1>3, <2>1 DEF Cur
    <3> HIDE DEF c
    <3> QED BY <1>6, <2>1, <2>2, <3>1 DEF ChildInv, Undoing
  <2>4. "ack" \in CommitPcs \ {"check"}
    BY DEF CommitPcs
  <2> QED BY <1>1, <1>3, <1>5, <1>6, <1>8, <2>3, <2>4, ForwardStep
<1> QED BY <1>3, <1>7, <1>8 DEF Record

LEMMA AcknowledgeInv ==
    ASSUME WorkspaceInv, NEW o \in Op, Acknowledge(o)
    PROVE  WorkspaceInv'
<1>1. op[o].pc = "ack" /\ op[o].pc \in CommitPcs /\ AtChild(o) /\ lease' = lease /\ UNCHANGED coreVars
  BY DEF Acknowledge, At, CommitPcs, AtChild
<1>2. TypeInv /\ OpInv(o) /\ ChildInv(o)
  BY <1>1, ChildFacts
<1>3. PICK h \in Path : h = Head(op[o].rest) /\ Cur(o) = <<o, h>> /\ h \in Range(op[o].req)
  BY <1>1, ChildFacts
<1> DEFINE c == <<o, h>>
<1>4. Quiet /\ CoreTyped' /\ (Fault \/ NoFault)
  BY <1>1, <1>2 DEF Acknowledge, Quiet, CoreTyped, TypeInv, coreVars
<1>5. Works(o, h)
  BY <1>1, <1>4, QuietWorks
<1>6. Kept(c)' /\ Snapped(c)'
  <2>1. Kept(c) /\ Snapped(c)
    BY <1>1, <1>2, <1>3 DEF ChildInv, Kept, OpInv, TargetInv
  <2> QED BY <1>4, <2>1, QuietTx
<1>7. PICK r \in {"Applied", "DurabilityFailed"} : ChildReceipt(o, r)
  BY DEF Acknowledge
<1>8. r \in Receipts
  BY DEF Receipts
<1> QED BY <1>1, <1>3, <1>5, <1>6, <1>7, <1>8, ReceiptStep

-----------------------------------------------------------------------------
(* Core's side, and the startup pass *)

\* A step of an operation that is over, or in the hands of recovery.
LEMMA OverStep ==
    ASSUME WorkspaceInv, NEW o \in Op, OnlyMoves(o),
           op'[o].pc \in {"done", "lost"} \cup Recovering,
           TypeInv', OwnStep(o), \A p \in Path : Mapped(<<o, p>>)',
           IsDir(o)' => \A p \in Path : Unstaged(<<o, p>>)', ReportInv(o)'
    PROVE  WorkspaceInv'
<1>1. OpInv(o)'
  BY OverParts DEF OpInv
<1>2. MayCommit(o)
  BY DEF MayCommit, Committing, CommitPcs, Recovering
<1> QED BY <1>1, <1>2, Preserved

LEMMA OverQuietStep ==
    ASSUME WorkspaceInv, NEW o \in Op, OnlyMoves(o), SameTask(o),
           op'[o].pc \in {"done", "lost"} \cup Recovering,
           Quiet, lease' = lease, CoreTyped', Fault \/ NoFault, ReportInv(o)'
    PROVE  WorkspaceInv'
<1>1. TypeInv /\ OpInv(o)
  BY DEF WorkspaceInv
<1>2. budget' \in [faults : Nat, crashes : Nat, foreign : Nat]
  BY <1>1, FaultType
<1>3. TypeInv'
  BY <1>1, <1>2, QuietType DEF TypeInv, OnlyMoves, CoreTyped
<1>4. OwnStep(o) /\ \A p \in Path : Mapped(<<o, p>>)'
  BY QuietStep
<1>5. IsDir(o)' => \A p \in Path : Unstaged(<<o, p>>)'
  BY <1>1, QuietTx DEF OpInv, KindInv, IsDir, SameTask
<1> QED BY <1>3, <1>4, <1>5, OverStep

LEMMA SettleInv ==
    ASSUME WorkspaceInv, NEW o \in Op, Settle(o)
    PROVE  WorkspaceInv'
<1>1. /\ TypeInv /\ OpInv(o) /\ op[o].pc = "settle" /\ lease' = lease /\ Quiet /\ (Fault \/ NoFault)
  BY DEF WorkspaceInv, Settle, At, Quiet
<1>2. CoreTyped'
  <2>0. fenced' = NeedsRecovery(op[o].stop) \/ fenced' = TRUE
    BY DEF Settle
  <2>1. fenced' \in BOOLEAN
    <3>1. NeedsRecovery(op[o].stop) \in BOOLEAN
      BY DEF NeedsRecovery
    <3> QED BY <2>0, <3>1, Zenon
  <2>2. open' \subseteq Op
    BY <1>1 DEF Settle, TypeInv
  <2> QED BY <1>1, <2>1, <2>2 DEF Settle, CoreTyped, TypeInv
<1>3. PICK pc \in {"done", "lost"} : Goes(o, pc)
  BY DEF Settle
<1>4. /\ OnlyMoves(o) /\ SameTask(o) /\ op'[o].pc = pc
      /\ op'[o].staged = op[o].staged /\ op'[o].rest = op[o].rest /\ op'[o].stop = op[o].stop
  <2>1. pc \in Pcs
    BY DEF Pcs
  <2> QED BY <1>1, <1>3, <2>1, GoesFacts
<1>5. ReportInv(o)'
  <2>1. \A p \in Path : Gone(<<o, p>>) => Gone(<<o, p>>)'
    BY <1>1, QuietTx
  <2>2. Range(op[o].staged) \subseteq Path
    BY <1>1, RangeFacts
  <2> QED BY <1>1, <1>4, <2>1, <2>2 DEF ReportInv, OpInv, Recovering
<1> QED BY <1>1, <1>2, <1>4, <1>5, OverQuietStep

\* The order in which recovery cleans up is some order of the transactions.
LEMMA SetToSeqFacts ==
    ASSUME NEW S, S \subseteq Path
    PROVE  SetToSeq(S) \in Seq(Path) /\ IsInjective(SetToSeq(S)) /\ Range(SetToSeq(S)) \subseteq S
<1>1. IsFiniteSet(S)
  BY PathAssumption, FS_Subset
<1>2. Cardinality(S) \in Nat /\ ExistsBijection(1..Cardinality(S), S)
  BY <1>1, FS_CardinalityType
<1>3. \E f \in [1..Cardinality(S) -> S] : IsInjective(f)
  BY <1>2 DEF ExistsBijection, Bijection, Injection, IsInjective
<1>4. SetToSeq(S) \in [1..Cardinality(S) -> S] /\ IsInjective(SetToSeq(S))
  BY <1>3 DEF SetToSeq
<1>5. Range(SetToSeq(S)) \subseteq S
  BY <1>4 DEF Range
<1> QED BY <1>2, <1>4, <1>5

\* A verdict is reached.
LEMMA JudgedFacts ==
    ASSUME TypeInv, NEW o \in Op, NEW v \in Verdicts, Judged(o, v)
    PROVE  /\ OnlyMoves(o) /\ SameTask(o) /\ op'[o].pc = "judged"
           /\ op'[o].staged = op[o].staged /\ op'[o].rest = <<>>
           /\ verdict' \in [Op -> Verdicts] /\ verdict'[o] = v
<1>1. op' = [op EXCEPT ![o].pc = "judged", ![o].rest = <<>>] /\ op[o] \in OpRecords
  BY DEF Judged, TypeInv
<1> DEFINE x == [op[o] EXCEPT !.pc = "judged", !.rest = <<>>]
<1>2. op' = [op EXCEPT ![o] = x]
  BY ONLY <1>1
<1>3. "judged" \in Pcs /\ <<>> \in Seq(Path)
  BY DEF Pcs, Recovering
<1>4. /\ x.pc = "judged" /\ x.rest = <<>> /\ x.kind = op[o].kind /\ x.val = op[o].val /\ x.req = op[o].req
      /\ x.staged = op[o].staged /\ x \in OpRecords
  BY <1>1, <1>3 DEF OpRecords
<1> HIDE DEF x
<1>5. OnlyMoves(o) /\ SameTask(o) /\ op'[o] = x
  BY <1>2, <1>4, Becomes
<1> QED BY <1>4, <1>5 DEF Judged, TypeInv

LEMMA InspectInv ==
    ASSUME WorkspaceInv, NEW o \in Op, Inspect(o)
    PROVE  WorkspaceInv'
<1>1. /\ TypeInv /\ OpInv(o) /\ op[o].pc = "dead" /\ lease' = lease /\ Quiet /\ (Fault \/ NoFault)
      /\ UNCHANGED <<open, started, fenced, phase>>
  BY DEF WorkspaceInv, Inspect, At, Quiet
<1>2. op[o].staged = <<>>
  BY <1>1 DEF OpInv, ReportInv, Recovering
<1>3. ASSUME NEW v \in Verdicts, Judged(o, v) PROVE WorkspaceInv'
  <2>1. /\ OnlyMoves(o) /\ SameTask(o) /\ op'[o].pc = "judged"
        /\ op'[o].staged = <<>> /\ verdict' \in [Op -> Verdicts]
    BY <1>1, <1>2, <1>3, JudgedFacts
  <2>2. CoreTyped' /\ op'[o].pc \in {"done", "lost"} \cup Recovering
    BY <1>1, <2>1 DEF CoreTyped, TypeInv, Recovering
  <2>3. ReportInv(o)'
    BY <2>1 DEF ReportInv
  <2> QED BY <1>1, <2>1, <2>2, <2>3, OverQuietStep
<1>4. ASSUME NEW S, S \subseteq Path,
             op' = [op EXCEPT ![o].pc = "clean", ![o].rest = SetToSeq(S), ![o].stop = Judgement(o)],
             verdict' = verdict
      PROVE  WorkspaceInv'
  <2>1. PICK r \in Seq(Path) : r = SetToSeq(S)
    BY <1>4, SetToSeqFacts
  <2>2. PICK j \in {"Applied", "DurabilityFailed", "NotApplied"} : j = Judgement(o)
    BY DEF Judgement
  <2> DEFINE x == [op[o] EXCEPT !.pc = "clean", !.rest = r, !.stop = j]
  <2>3. op' = [op EXCEPT ![o].pc = "clean", ![o].rest = r, ![o].stop = j]
    BY <1>4, <2>1, <2>2
  <2>4. op' = [op EXCEPT ![o] = x]
    BY ONLY <2>3
  <2>5. "clean" \in Pcs /\ j \in Results /\ op[o] \in OpRecords
    BY <1>1 DEF Pcs, Recovering, Results, Receipts, TypeInv
  <2>6. /\ x.pc = "clean" /\ x.rest = r /\ x.kind = op[o].kind /\ x.val = op[o].val /\ x.req = op[o].req
        /\ x.staged = op[o].staged /\ x.stop = j /\ x \in OpRecords
    BY <2>5 DEF OpRecords
  <2> HIDE DEF x
  <2>7. OnlyMoves(o) /\ SameTask(o) /\ op'[o] = x
    BY <1>1, <2>4, <2>6, Becomes
  <2>8. CoreTyped' /\ op'[o].pc \in {"done", "lost"} \cup Recovering
    BY <1>1, <1>4, <2>6, <2>7 DEF CoreTyped, TypeInv, Recovering
  <2>9. ReportInv(o)'
    BY <1>2, <2>6, <2>7 DEF ReportInv
  <2> QED BY <1>1, <2>7, <2>8, <2>9, OverQuietStep
<1> DEFINE nots == {PathOf(tx) : tx \in {t \in TxsOf(o) : Class(t) = "not"}}
<1>5. nots \subseteq Path
  BY TxFacts DEF TxsOf
<1>6. {"NotManaged", "Ambiguous"} \subseteq Verdicts
  BY DEF Verdicts
<1>7. \/ Judged(o, "NotManaged") \/ Judged(o, "Ambiguous")
      \/ /\ op' = [op EXCEPT ![o].pc = "clean", ![o].rest = SetToSeq(nots), ![o].stop = Judgement(o)]
         /\ verdict' = verdict
  BY DEF Inspect
<1> QED BY <1>3, <1>4, <1>5, <1>6, <1>7

LEMMA CleanInv ==
    ASSUME WorkspaceInv, NEW o \in Op, Clean(o)
    PROVE  WorkspaceInv'
<1>1. /\ TypeInv /\ OpInv(o) /\ op[o].pc = "clean" /\ op[o].rest # <<>> /\ disk' = disk
      /\ lease' = lease /\ UNCHANGED <<walVars, plan, lease, open, started, fenced, phase, history>>
  BY DEF WorkspaceInv, Clean, At
<1>2. PICK h \in Path : h = Head(op[o].rest) /\ Cur(o) = <<o, h>> /\ PathOf(<<o, h>>) = h
  BY <1>1, CurFacts, TxFacts
<1> DEFINE c == <<o, h>>
<1>3. /\ temp' \in {temp, [temp EXCEPT ![c] = "none"]} /\ (Fault \/ NoFault)
      /\ DirSynced(h) \/ (diskDurable' = diskDurable /\ tempDurable' = tempDurable)
      /\ (Goes(o, "mark") /\ verdict' = verdict) \/ Judged(o, "Ambiguous")
  BY <1>2 DEF Clean
<1>4. /\ op[o].staged = <<>> /\ op[o].stop \in {"Applied", "DurabilityFailed", "NotApplied"}
  BY <1>1 DEF OpInv, ReportInv, Recovering
<1>5. /\ OnlyMoves(o) /\ SameTask(o) /\ op'[o].pc \in {"mark", "judged"} /\ op'[o].staged = <<>>
      /\ verdict' \in [Op -> Verdicts]
      /\ op'[o].pc = "mark" => op'[o].rest = op[o].rest /\ op'[o].stop = op[o].stop
  <2>1. CASE Goes(o, "mark") /\ verdict' = verdict
    <3>1. "mark" \in Pcs
      BY DEF Pcs, Recovering
    <3>2. verdict' \in [Op -> Verdicts]
      BY <1>1, <2>1 DEF TypeInv
    <3> QED BY <1>1, <1>4, <2>1, <3>1, <3>2, GoesFacts
  <2>2. CASE Judged(o, "Ambiguous")
    <3>1. "Ambiguous" \in Verdicts
      BY DEF Verdicts
    <3> QED BY <1>1, <1>4, <2>2, <3>1, JudgedFacts
  <2> QED BY <1>3, <2>1, <2>2
<1>6. Works(o, h)
  <2>1. CoreTyped'
    BY <1>1, <1>5 DEF CoreTyped, TypeInv
  <2>2. disk[h] \in Entries
    BY <1>1 DEF TypeInv
  <2> DEFINE s == "none"
  <2>3. s \in TempStates /\ {s, s} = {"none"} /\ temp' \in {temp, [temp EXCEPT ![c] = s]}
    BY <1>3 DEF TempStates
  <2> HIDE DEF s
  <2> QED BY <1>1, <1>3, <2>1, <2>2, <2>3, FileWorks
<1>7. /\ TypeInv' /\ OwnStep(o) /\ \A p \in Path : Mapped(<<o, p>>)'
      /\ IsDir(o)' => \A p \in Path : Unstaged(<<o, p>>)'
  BY <1>5, <1>6, WorksFacts
<1>8. ReportInv(o)' /\ op'[o].pc \in {"done", "lost"} \cup Recovering
  BY <1>1, <1>4, <1>5 DEF ReportInv, Recovering
<1> QED BY <1>5, <1>7, <1>8, OverStep

LEMMA MarkInv ==
    ASSUME WorkspaceInv, NEW o \in Op, Mark(o)
    PROVE  WorkspaceInv'
<1>1. /\ TypeInv /\ OpInv(o) /\ op[o].pc = "mark" /\ lease' = lease
      /\ UNCHANGED <<fsVars, plan, lease, open, started, fenced, phase, history>>
  BY DEF WorkspaceInv, Mark, At
<1>2. /\ op[o].staged = <<>> /\ op[o].stop \in {"Applied", "DurabilityFailed", "NotApplied"} /\ op[o].rest # <<>>
  BY <1>1 DEF OpInv, ReportInv, Recovering
<1>3. PICK h \in Path : h = Head(op[o].rest) /\ Cur(o) = <<o, h>>
  BY <1>1, <1>2, CurFacts
<1> DEFINE c == <<o, h>>
<1>4. /\ Appended(c, "rolledBack") \/ NotAppended(c, "rolledBack")
      /\ \/ verdict' = verdict /\ op' = [op EXCEPT ![o].pc = "clean", ![o].rest = Tail(op[o].rest)]
         \/ Judged(o, "Ambiguous")
  BY <1>3 DEF Mark
<1>5. /\ OnlyMoves(o) /\ SameTask(o) /\ op'[o].pc \in {"clean", "judged"} /\ op'[o].staged = <<>>
      /\ verdict' \in [Op -> Verdicts]
      /\ op'[o].pc = "clean" => op'[o].stop = op[o].stop
  <2>1. CASE verdict' = verdict /\ op' = [op EXCEPT ![o].pc = "clean", ![o].rest = Tail(op[o].rest)]
    <3>0. Tail(op[o].rest) \in Seq(Path)
      BY <1>1, <1>2 DEF TypeInv, OpRecords
    <3>1. PICK r \in Seq(Path) : r = Tail(op[o].rest)
      BY <3>0
    <3> DEFINE x == [op[o] EXCEPT !.pc = "clean", !.rest = r]
    <3>2. op' = [op EXCEPT ![o].pc = "clean", ![o].rest = r]
      BY <2>1, <3>1
    <3>3. op' = [op EXCEPT ![o] = x]
      BY ONLY <3>2
    <3>4. "clean" \in Pcs /\ op[o] \in OpRecords /\ verdict' \in [Op -> Verdicts]
      BY <1>1, <2>1 DEF Pcs, Recovering, TypeInv
    <3>5. /\ x.pc = "clean" /\ x.rest = r /\ x.kind = op[o].kind /\ x.val = op[o].val /\ x.req = op[o].req
          /\ x.staged = op[o].staged /\ x.stop = op[o].stop /\ x \in OpRecords
      BY <3>4 DEF OpRecords
    <3> HIDE DEF x
    <3>6. OnlyMoves(o) /\ SameTask(o) /\ op'[o] = x
      BY <1>1, <3>3, <3>5, Becomes
    <3> QED BY <1>2, <3>4, <3>5, <3>6
  <2>2. CASE Judged(o, "Ambiguous")
    <3>1. "Ambiguous" \in Verdicts
      BY DEF Verdicts
    <3> QED BY <1>1, <1>2, <2>2, <3>1, JudgedFacts
  <2> QED BY <1>4, <2>1, <2>2
<1>6. Works(o, h)
  <2>1. CoreTyped'
    BY <1>1, <1>5 DEF CoreTyped, TypeInv
  <2>2. "rolledBack" \in TxStates
    BY DEF TxStates
  <2> QED BY <1>1, <1>4, <2>1, <2>2, AppendTyped, JournalWorks
<1>7. /\ TypeInv' /\ OwnStep(o) /\ \A p \in Path : Mapped(<<o, p>>)'
      /\ IsDir(o)' => \A p \in Path : Unstaged(<<o, p>>)'
  BY <1>5, <1>6, WorksFacts
<1>8. ReportInv(o)' /\ op'[o].pc \in {"done", "lost"} \cup Recovering
  BY <1>1, <1>2, <1>5 DEF ReportInv, Recovering
<1> QED BY <1>5, <1>7, <1>8, OverStep

LEMMA ConcludeInv ==
    ASSUME WorkspaceInv, NEW o \in Op, Conclude(o)
    PROVE  WorkspaceInv'
<1>1. /\ TypeInv /\ OpInv(o) /\ op[o].pc = "clean" /\ lease' = lease /\ Quiet /\ NoFault
      /\ UNCHANGED <<open, started, fenced, phase>> /\ Judged(o, op[o].stop)
  BY DEF WorkspaceInv, Conclude, At, Quiet, NoFault
<1>2. op[o].staged = <<>> /\ op[o].stop \in Verdicts
  BY <1>1 DEF OpInv, ReportInv, Recovering, Verdicts
<1>3. /\ OnlyMoves(o) /\ SameTask(o) /\ op'[o].pc = "judged"
      /\ op'[o].staged = <<>> /\ verdict' \in [Op -> Verdicts]
  BY <1>1, <1>2, JudgedFacts
<1>4. CoreTyped' /\ op'[o].pc \in {"done", "lost"} \cup Recovering
  BY <1>1, <1>3 DEF CoreTyped, TypeInv, Recovering
<1>5. ReportInv(o)'
  BY <1>3 DEF ReportInv
<1> QED BY <1>1, <1>3, <1>4, <1>5, OverQuietStep

LEMMA CloseInv ==
    ASSUME WorkspaceInv, NEW o \in Op, Close(o)
    PROVE  WorkspaceInv'
<1>1. /\ TypeInv /\ OpInv(o) /\ op[o].pc = "judged" /\ lease' = lease /\ Quiet /\ (Fault \/ NoFault)
      /\ UNCHANGED <<started, phase, verdict>>
  BY DEF WorkspaceInv, Close, At, Quiet
<1>2. op[o].staged = <<>>
  BY <1>1 DEF OpInv, ReportInv, Recovering
<1>3. CoreTyped'
  <2>1. fenced' \in BOOLEAN /\ open' \subseteq Op
    BY <1>1 DEF Close, NeedsRecovery, TypeInv
  <2> QED BY <1>1, <2>1 DEF CoreTyped, TypeInv
<1>4. OnlyMoves(o) /\ SameTask(o) /\ op'[o].pc \in {"done", "lost"} /\ op'[o].staged = <<>>
  <2>1. CASE Goes(o, "lost")
    <3>1. "lost" \in Pcs
      BY DEF Pcs
    <3> QED BY <1>1, <1>2, <2>1, <3>1, GoesFacts
  <2>2. CASE /\ verdict[o] \in {"Applied", "DurabilityFailed", "NotApplied"}
             /\ op' = [op EXCEPT ![o].pc = "done", ![o].stop = verdict[o]]
    <3>1. PICK v \in {"Applied", "DurabilityFailed", "NotApplied"} : v = verdict[o]
      BY <2>2
    <3> DEFINE x == [op[o] EXCEPT !.pc = "done", !.stop = v]
    <3>2. op' = [op EXCEPT ![o].pc = "done", ![o].stop = v]
      BY <2>2, <3>1
    <3>3. op' = [op EXCEPT ![o] = x]
      BY ONLY <3>2
    <3>4. "done" \in Pcs /\ v \in Results /\ op[o] \in OpRecords
      BY <1>1 DEF Pcs, Results, Receipts, TypeInv
    <3>5. /\ x.pc = "done" /\ x.kind = op[o].kind /\ x.val = op[o].val /\ x.req = op[o].req
          /\ x.staged = op[o].staged /\ x \in OpRecords
      BY <3>4 DEF OpRecords
    <3> HIDE DEF x
    <3>6. OnlyMoves(o) /\ SameTask(o) /\ op'[o] = x
      BY <1>1, <3>3, <3>5, Becomes
    <3> QED BY <1>2, <3>5, <3>6
  <2> QED BY <2>1, <2>2 DEF Close
<1>5. ReportInv(o)'
  BY <1>4, EmptyFacts DEF ReportInv, Recovering
<1> QED BY <1>1, <1>3, <1>4, <1>5, OverQuietStep

-----------------------------------------------------------------------------
(* Steps of nobody in particular *)

LEMMA FinishStartupInv ==
    ASSUME WorkspaceInv, FinishStartup
    PROVE  WorkspaceInv'
<1>1. /\ TypeInv /\ Quiet /\ lease' = lease /\ op' = op /\ budget' = budget /\ phase' = "up"
      /\ UNCHANGED <<open, started, verdict>>
      /\ fenced' = (fenced \/ \E o \in Op : At(o, "done") /\ NeedsRecovery(op[o].stop))
  BY DEF WorkspaceInv, FinishStartup, Quiet
<1>2. TypeInv'
  BY <1>1, QuietType DEF TypeInv
<1>3. ASSUME NEW q \in Op PROVE OpInv(q)'
  <2>1. OpInv(q)
    BY DEF WorkspaceInv
  <2>2. \A p \in Path : /\ Ours(<<q, p>>) => Ours(<<q, p>>)'
                        /\ Aimed(<<q, p>>) => Aimed(<<q, p>>)'
    BY <1>1 DEF Quiet, fsVars, history, Ours, Aimed
  <2> QED BY <1>1, <2>1, <2>2, QuietTx, Onlooker
<1>4. OneCommit'
  BY <1>1 DEF WorkspaceInv, OneCommit, Committing
<1>5. StagingIsMapped'
  BY <1>1 DEF WorkspaceInv, StagingIsMapped, Quiet, fsVars, walVars
<1> QED BY <1>2, <1>3, <1>4, <1>5 DEF WorkspaceInv

\* What a death or a power loss does to one transaction: nothing that was
\* gone for good comes back.
LEMMA CrashTx ==
    ASSUME TypeInv, Crash, NEW o \in Op, NEW p \in Path
    PROVE  /\ disk'[p] \in {disk[p], diskDurable[p]} /\ diskDurable'[p] \in {disk'[p], diskDurable[p]}
           /\ temp'[<<o, p>>] \in {temp[<<o, p>>], tempDurable[<<o, p>>]}
           /\ tempDurable'[<<o, p>>] \in {temp'[<<o, p>>], tempDurable[<<o, p>>]}
           /\ Absent(<<o, p>>) => Absent(<<o, p>>)'
           /\ Unstaged(<<o, p>>) => Unstaged(<<o, p>>)'
           /\ Fresh(<<o, p>>) => Fresh(<<o, p>>)'
           /\ Gone(<<o, p>>) => Gone(<<o, p>>)'
           /\ Mapped(<<o, p>>) => Mapped(<<o, p>>)'
<1> DEFINE tx == <<o, p>>
<1>1. tx \in Tx /\ PathOf(tx) = p
  BY TxFacts
<1>2. /\ disk'[p] \in {disk[p], diskDurable[p]} /\ diskDurable'[p] \in {disk'[p], diskDurable[p]}
      /\ temp'[tx] \in {temp[tx], tempDurable[tx]} /\ tempDurable'[tx] \in {temp'[tx], tempDurable[tx]}
  <2>1. CASE UNCHANGED fsVars
    BY <2>1 DEF fsVars
  <2>2. CASE /\ \E R \in SUBSET Path :
                   /\ disk' = [x \in Path |-> IF x \in R THEN diskDurable[x] ELSE disk[x]]
                   /\ temp' = [t \in Tx |-> IF PathOf(t) \in R THEN tempDurable[t] ELSE temp[t]]
             /\ diskDurable' = disk' /\ tempDurable' = temp'
    <3>1. PICK R \in SUBSET Path :
             /\ disk' = [x \in Path |-> IF x \in R THEN diskDurable[x] ELSE disk[x]]
             /\ temp' = [t \in Tx |-> IF PathOf(t) \in R THEN tempDurable[t] ELSE temp[t]]
      BY <2>2
    <3>2. disk'[p] \in {disk[p], diskDurable[p]}
      BY <3>1
    <3>3. temp'[tx] \in {temp[tx], tempDurable[tx]}
      BY <1>1, <3>1
    <3> QED BY <2>2, <3>2, <3>3
  <2> QED BY <2>1, <2>2 DEF Crash
<1>3. wal'[tx] = wal[tx] /\ mem'[tx] = wal[tx]
  BY DEF Crash
<1> HIDE DEF tx
<1>4. (Absent(tx) => Absent(tx)') /\ (Unstaged(tx) => Unstaged(tx)')
  BY <1>1, <1>2 DEF Absent, Unstaged
<1>5. (Fresh(tx) => Fresh(tx)') /\ (Gone(tx) => Gone(tx)') /\ (Mapped(tx) => Mapped(tx)')
  BY <1>3, <1>4 DEF Fresh, Gone, Mapped
<1> QED BY <1>2, <1>4, <1>5 DEF tx

LEMMA CrashInv ==
    ASSUME WorkspaceInv, Crash
    PROVE  WorkspaceInv'
<1>1. /\ TypeInv /\ mem' = wal /\ walFailed' = FALSE /\ lease' = [p \in Path |-> NoOp]
      /\ op' = [o \in Op |-> IF op[o].pc \in {"idle", "done"} THEN op[o] ELSE [Idle EXCEPT !.pc = "dead"]]
      /\ phase' = "recovering" /\ fenced' = FALSE
      /\ UNCHANGED <<wal, plan, open, started, verdict, history>>
  BY DEF WorkspaceInv, Crash
<1> DEFINE x == [Idle EXCEPT !.pc = "dead"]
<1>2. x \in OpRecords /\ x.pc = "dead" /\ x.kind = "patch" /\ x.staged = <<>>
  <2>1. "dead" \in Pcs
    BY DEF Pcs, Recovering
  <2> QED BY <2>1, IdleFacts DEF OpRecords
<1> HIDE DEF x
<1>3. \A q \in Op : \/ op[q].pc \in {"idle", "done"} /\ op'[q] = op[q]
                    \/ op[q].pc \notin {"idle", "done"} /\ op'[q] = x
  BY <1>1 DEF x
<1>4. op' \in [Op -> OpRecords]
  <2>1. \A q \in Op : op'[q] \in OpRecords
    BY <1>1, <1>2, <1>3 DEF TypeInv
  <2> QED BY <1>1, <2>1
<1>5. TypeInv'
  <2>1. /\ disk' \in [Path -> Entries] /\ diskDurable' \in [Path -> Entries]
        /\ temp' \in [Tx -> TempStates] /\ tempDurable' \in [Tx -> TempStates]
    <3>0. /\ disk \in [Path -> Entries] /\ diskDurable \in [Path -> Entries]
          /\ temp \in [Tx -> TempStates] /\ tempDurable \in [Tx -> TempStates]
      BY <1>1 DEF TypeInv
    <3>1. CASE UNCHANGED fsVars
      BY <3>0, <3>1 DEF fsVars
    <3>2. CASE /\ \E R \in SUBSET Path :
                     /\ disk' = [y \in Path |-> IF y \in R THEN diskDurable[y] ELSE disk[y]]
                     /\ temp' = [t \in Tx |-> IF PathOf(t) \in R THEN tempDurable[t] ELSE temp[t]]
               /\ diskDurable' = disk' /\ tempDurable' = temp'
      <4>1. disk' \in [Path -> Entries]
        BY <3>0, <3>2
      <4>2. temp' \in [Tx -> TempStates]
        BY <3>0, <3>2
      <4> QED BY <3>2, <4>1, <4>2
    <3> QED BY <3>1, <3>2 DEF Crash
  <2>2. lease' \in [Path -> Op \cup {NoOp}] /\ fenced' \in BOOLEAN /\ walFailed' \in BOOLEAN
    BY <1>1
  <2>3. budget' \in [faults : Nat, crashes : Nat, foreign : Nat]
    <3> DEFINE b == budget
    <3>1. b \in [faults : Nat, crashes : Nat, foreign : Nat] /\ b.crashes - 1 \in Nat
      BY <1>1 DEF TypeInv, Crash
    <3>2. budget' = [b EXCEPT !.crashes = b.crashes - 1]
      BY DEF Crash
    <3> HIDE DEF b
    <3> QED BY <3>1, <3>2
  <2> QED BY <1>1, <1>4, <2>1, <2>2, <2>3 DEF TypeInv, history
<1>6. ASSUME NEW q \in Op PROVE OpInv(q)'
  <2>1. OpInv(q)
    BY DEF WorkspaceInv
  <2>2. \A p \in Path : /\ Unstaged(<<q, p>>) => Unstaged(<<q, p>>)'
                        /\ Fresh(<<q, p>>) => Fresh(<<q, p>>)'
                        /\ Gone(<<q, p>>) => Gone(<<q, p>>)'
    BY <1>1, CrashTx
  <2>3. Range(op[q].staged) \subseteq Path
    BY <1>1, RangeFacts
  <2>4. CASE op[q].pc = "idle" /\ op'[q] = op[q]
    <3>1. FreshInv(q)'
      BY <2>1, <2>2, <2>4 DEF OpInv, FreshInv
    <3>2. LeaseInv(q)'
      BY <1>1, <2>4, OpAssumption DEF LeaseInv, Holding, Preparing, CommitPcs, Undoing
    <3>3. KindInv(q)'
      BY <2>1, <2>2, <2>4 DEF OpInv, KindInv, IsDir
    <3>4. PrepareInv(q)' /\ CommitInv(q)' /\ UndoInv(q)' /\ ReportInv(q)' /\ TargetInv(q)'
      BY <2>4 DEF PrepareInv, CommitInv, UndoInv, ReportInv, TargetInv, AtChild, Preparing, CommitPcs, Undoing, Recovering
    <3> QED BY <3>1, <3>2, <3>3, <3>4 DEF OpInv
  <2>5. CASE op[q].pc = "done" /\ op'[q] = op[q]
    <3>1. KindInv(q)'
      <4>1. IsDir(q)' => \A p \in Path : Unstaged(<<q, p>>)'
        BY <2>1, <2>2, <2>5 DEF OpInv, KindInv, IsDir
      <4> QED BY <2>5, <4>1, OverParts
    <3>2. ReportInv(q)'
      BY <2>1, <2>2, <2>3, <2>5 DEF OpInv, ReportInv, Recovering
    <3> QED BY <2>5, <3>1, <3>2, OverParts DEF OpInv
  <2>6. CASE op'[q] = x
    <3>1. ~IsDir(q)'
      BY <1>2, <2>6 DEF IsDir
    <3>2. op'[q].pc \in {"settle", "done", "lost"} \cup Recovering
      BY <1>2, <2>6 DEF Recovering
    <3>3. ReportInv(q)'
      BY <1>2, <2>6 DEF ReportInv
    <3> QED BY <3>1, <3>2, <3>3, OverParts DEF OpInv
  <2> QED BY <1>3, <2>4, <2>5, <2>6
<1>7. OneCommit'
  <2>1. \A q \in Op : op'[q].pc \in {"idle", "done", "dead"}
    BY <1>2, <1>3
  <2> QED BY <2>1 DEF OneCommit, Committing, CommitPcs
<1>8. StagingIsMapped'
  <2>1. ASSUME NEW tx \in Tx PROVE {temp'[tx], tempDurable'[tx]} = {"none"} \/ wal'[tx] # "none"
    <3>1. PICK q \in Op, p \in Path : tx = <<q, p>>
      BY TxFacts
    <3>2. Mapped(<<q, p>>)
      BY <3>1 DEF WorkspaceInv, StagingIsMapped, Mapped, Unstaged
    <3>3. Mapped(<<q, p>>)'
      BY <1>1, <3>2, CrashTx
    <3> QED BY <3>1, <3>3 DEF Mapped, Unstaged
  <2> QED BY <2>1 DEF StagingIsMapped
<1> QED BY <1>5, <1>6, <1>7, <1>8 DEF WorkspaceInv

\* What a foreign program does to one transaction.
LEMMA ForeignTx ==
    ASSUME TypeInv, ForeignWrite, NEW o \in Op, NEW p \in Path
    PROVE  /\ Absent(<<o, p>>) => Absent(<<o, p>>)'
           /\ Vacated(<<o, p>>) => Vacated(<<o, p>>)'
           /\ Unstaged(<<o, p>>) => Unstaged(<<o, p>>)'
           /\ Fresh(<<o, p>>) => Fresh(<<o, p>>)'
           /\ Gone(<<o, p>>) => Gone(<<o, p>>)'
           /\ Ours(<<o, p>>) => Ours(<<o, p>>)'
           /\ InPlace(<<o, p>>) => InPlace(<<o, p>>)'
           /\ Kept(<<o, p>>) => Kept(<<o, p>>)'
           /\ Snapped(<<o, p>>) => Snapped(<<o, p>>)'
           /\ Mapped(<<o, p>>) => Mapped(<<o, p>>)'
           /\ op[o].pc = "apply" /\ Cur(o) = <<o, p>> => (Aimed(<<o, p>>) => Aimed(<<o, p>>)')
           /\ wal'[<<o, p>>] = wal[<<o, p>>]
<1> DEFINE tx == <<o, p>>
<1>1. tx \in Tx /\ PathOf(tx) = p /\ OpOf(tx) = o /\ tx # NoTx
  BY TxFacts
<1>2. wal'[tx] = wal[tx] /\ mem'[tx] = mem[tx] /\ plan'[tx] = plan[tx]
  BY DEF ForeignWrite, walVars
<1> DEFINE Outcomes ==
              /\ \/ disk'[p] = disk[p] /\ diskDurable'[p] = diskDurable[p]
                 \/ /\ disk'[p].by = NoTx /\ diskDurable'[p] = disk'[p] /\ p \in foreign'
                    /\ op[o].pc = "apply" /\ Cur(o) = tx => tx \in raced'
              /\ Unstaged(tx) => temp'[tx] = "none" /\ tempDurable'[tx] = "none"
              /\ foreign \subseteq foreign' /\ raced \subseteq raced'
<1>3. Outcomes
  <2>0. /\ disk \in [Path -> Entries] /\ diskDurable \in [Path -> Entries]
        /\ temp \in [Tx -> TempStates] /\ tempDurable \in [Tx -> TempStates]
    BY DEF TypeInv
  <2>1. ASSUME NEW r \in Path, NEW e, disk' = [disk EXCEPT ![r] = Entry(e, NoTx)], temp' = temp,
               DirSynced(r), foreign' = foreign \cup {r},
               raced' = raced \cup {t \in Tx : PathOf(t) = r /\ At(OpOf(t), "apply") /\ Cur(OpOf(t)) = t}
        PROVE  Outcomes
    <3>1. Entry(e, NoTx).by = NoTx
      BY DEF Entry
    <3>2. CASE p = r
      <4>1. disk'[p] = Entry(e, NoTx) /\ diskDurable'[p] = disk'[p] /\ tempDurable'[tx] = temp[tx]
        BY <1>1, <2>0, <2>1, <3>2 DEF DirSynced
      <4>2. op[o].pc = "apply" /\ Cur(o) = tx => tx \in raced'
        BY <1>1, <2>1, <3>2 DEF At
      <4>3. Unstaged(tx) => temp'[tx] = "none" /\ tempDurable'[tx] = "none"
        BY <2>1, <4>1 DEF Unstaged
      <4> QED BY <2>1, <3>1, <3>2, <4>1, <4>2, <4>3
    <3>3. CASE p # r
      <4>1. disk'[p] = disk[p] /\ diskDurable'[p] = diskDurable[p] /\ tempDurable'[tx] = tempDurable[tx]
        BY <1>1, <2>0, <2>1, <3>3 DEF DirSynced
      <4>2. Unstaged(tx) => temp'[tx] = "none" /\ tempDurable'[tx] = "none"
        BY <2>1, <4>1 DEF Unstaged
      <4> QED BY <2>1, <4>1, <4>2
    <3> QED BY <3>2, <3>3
  <2>2. ASSUME NEW t \in Tx, temp[t] = "full", temp' = [temp EXCEPT ![t] = "partial"],
               tempDurable' = [tempDurable EXCEPT ![t] = "partial"],
               foreign' = foreign \cup {PathOf(t)}, UNCHANGED <<disk, diskDurable, raced>>
        PROVE  Outcomes
    <3>1. Unstaged(tx) => tx # t
      BY <2>2 DEF Unstaged
    <3>2. tx # t => temp'[tx] = temp[tx] /\ tempDurable'[tx] = tempDurable[tx]
      BY <1>1, <2>0, <2>2
    <3>3. Unstaged(tx) => temp'[tx] = "none" /\ tempDurable'[tx] = "none"
      BY <3>1, <3>2 DEF Unstaged
    <3> QED BY <2>2, <3>3
  <2> QED BY <2>1, <2>2 DEF ForeignWrite
<1> HIDE DEF tx
<1>4. (Absent(tx) => Absent(tx)') /\ (Vacated(tx) => Vacated(tx)') /\ (Unstaged(tx) => Unstaged(tx)')
  BY <1>1, <1>3 DEF Absent, Vacated, Unstaged
<1>5. (Fresh(tx) => Fresh(tx)') /\ (Gone(tx) => Gone(tx)') /\ (Mapped(tx) => Mapped(tx)')
  BY <1>2, <1>4 DEF Fresh, Gone, Mapped
<1>6. (Ours(tx) => Ours(tx)') /\ (InPlace(tx) => InPlace(tx)') /\ (Kept(tx) => Kept(tx)') /\ (Snapped(tx) => Snapped(tx)')
  BY <1>1, <1>2, <1>3 DEF Ours, InPlace, Kept, Snapped
<1>7. op[o].pc = "apply" /\ Cur(o) = tx => (Aimed(tx) => Aimed(tx)')
  BY <1>1, <1>2, <1>3 DEF Aimed
<1> QED BY <1>2, <1>4, <1>5, <1>6, <1>7 DEF tx

LEMMA ForeignWriteInv ==
    ASSUME WorkspaceInv, ForeignWrite
    PROVE  WorkspaceInv'
<1>1. TypeInv /\ UNCHANGED <<walVars, plan, lease, op, coreVars>>
  BY DEF WorkspaceInv, ForeignWrite
<1>2. TypeInv'
  <2>0. /\ disk \in [Path -> Entries] /\ diskDurable \in [Path -> Entries]
        /\ temp \in [Tx -> TempStates] /\ tempDurable \in [Tx -> TempStates]
        /\ foreign \subseteq Path /\ raced \subseteq Tx
    BY <1>1 DEF TypeInv
  <2> DEFINE Shapes == /\ disk' \in [Path -> Entries] /\ diskDurable' \in [Path -> Entries]
                       /\ temp' \in [Tx -> TempStates] /\ tempDurable' \in [Tx -> TempStates]
                       /\ foreign' \subseteq Path /\ raced' \subseteq Tx
  <2>1. Shapes
    <3>1. ASSUME NEW r \in Path, NEW c \in Content, disk' = [disk EXCEPT ![r] = Entry(c, NoTx)], temp' = temp,
                 DirSynced(r), foreign' = foreign \cup {r},
                 raced' = raced \cup {t \in Tx : PathOf(t) = r /\ At(OpOf(t), "apply") /\ Cur(OpOf(t)) = t}
          PROVE  Shapes
      <4>1. Entry(c, NoTx) \in Entries
        BY DEF Entry, Entries
      <4>2. disk' \in [Path -> Entries] /\ disk'[r] \in Entries
        BY <2>0, <3>1, <4>1
      <4>3. diskDurable' \in [Path -> Entries]
        BY <2>0, <3>1, <4>2 DEF DirSynced
      <4>4. temp' \in [Tx -> TempStates] /\ tempDurable' \in [Tx -> TempStates]
        BY <2>0, <3>1 DEF DirSynced
      <4> QED BY <2>0, <3>1, <4>2, <4>3, <4>4
    <3>2. ASSUME NEW t \in Tx, temp' = [temp EXCEPT ![t] = "partial"],
                 tempDurable' = [tempDurable EXCEPT ![t] = "partial"],
                 foreign' = foreign \cup {PathOf(t)}, UNCHANGED <<disk, diskDurable, raced>>
          PROVE  Shapes
      <4>1. "partial" \in TempStates /\ PathOf(t) \in Path
        BY TxFacts DEF TempStates
      <4> QED BY <2>0, <3>2, <4>1
    <3> QED BY <3>1, <3>2 DEF ForeignWrite
  <2>2. budget' \in [faults : Nat, crashes : Nat, foreign : Nat]
    <3> DEFINE b == budget
    <3>1. b \in [faults : Nat, crashes : Nat, foreign : Nat] /\ b.foreign - 1 \in Nat
      BY <1>1 DEF TypeInv, ForeignWrite
    <3>2. budget' = [b EXCEPT !.foreign = b.foreign - 1]
      BY DEF ForeignWrite
    <3> HIDE DEF b
    <3> QED BY <3>1, <3>2
  <2> QED BY <1>1, <2>1, <2>2 DEF TypeInv, walVars, coreVars
<1>3. ASSUME NEW q \in Op PROVE OpInv(q)'
  <2>1. OpInv(q) /\ op'[q] = op[q] /\ lease' = lease
    BY <1>1 DEF WorkspaceInv
  <2> QED BY <1>1, <2>1, ForeignTx, Onlooker
<1>4. OneCommit'
  BY <1>1 DEF WorkspaceInv, OneCommit, Committing
<1>5. StagingIsMapped'
  <2>1. ASSUME NEW tx \in Tx PROVE {temp'[tx], tempDurable'[tx]} = {"none"} \/ wal'[tx] # "none"
    <3>1. PICK q \in Op, p \in Path : tx = <<q, p>>
      BY TxFacts
    <3>2. Mapped(<<q, p>>)
      BY <3>1 DEF WorkspaceInv, StagingIsMapped, Mapped, Unstaged
    <3>3. Mapped(<<q, p>>)'
      BY <1>1, <3>2, ForeignTx
    <3> QED BY <3>1, <3>3 DEF Mapped, Unstaged
  <2> QED BY <2>1 DEF StagingIsMapped
<1> QED BY <1>2, <1>3, <1>4, <1>5 DEF WorkspaceInv

-----------------------------------------------------------------------------
(* The invariant is inductive *)

LEMMA InitInv == Init => WorkspaceInv
<1> SUFFICES ASSUME Init PROVE WorkspaceInv
  OBVIOUS
<1>1. disk \in [Path -> Entries] /\ \A p \in Path : disk[p].by = NoTx
  <2>1. (CHOOSE v \in Val : TRUE) \in Val
    BY ValAssumption
  <2>2. \A e \in {Missing, Entry(CHOOSE v \in Val : TRUE, NoTx)} : e \in Entries /\ e.by = NoTx
    BY <2>1 DEF Missing, Entry, Entries, Content
  <2>3. disk \in [Path -> {Missing, Entry(CHOOSE v \in Val : TRUE, NoTx)}]
    BY DEF Init
  <2> QED BY <2>2, <2>3
<1>2. diskDurable = disk /\ op = [o \in Op |-> Idle] /\ lease = [p \in Path |-> NoOp]
  BY DEF Init
<1>3. TypeInv
  <2>1. /\ temp \in [Tx -> TempStates] /\ tempDurable \in [Tx -> TempStates]
        /\ wal \in [Tx -> TxStates] /\ mem \in [Tx -> TxStates] /\ walFailed \in BOOLEAN
    BY DEF Init, TempStates, TxStates
  <2>2. plan \in [Tx -> [before : Content, after : Content]] /\ verdict \in [Op -> Verdicts]
    BY DEF Init, Content, Verdicts
  <2>3. op \in [Op -> OpRecords] /\ lease \in [Path -> Op \cup {NoOp}]
    BY <1>2, IdleFacts
  <2>4. budget \in [faults : Nat, crashes : Nat, foreign : Nat]
    BY BoundAssumption DEF Init
  <2> QED BY <1>1, <1>2, <2>1, <2>2, <2>3, <2>4 DEF Init, TypeInv
<1>4. \A tx \in Tx : Fresh(tx)
  <2> SUFFICES ASSUME NEW tx \in Tx PROVE Fresh(tx)
    OBVIOUS
  <2>1. PathOf(tx) \in Path /\ tx # NoTx
    BY TxFacts
  <2>2. wal[tx] = "none" /\ mem[tx] = "none" /\ temp[tx] = "none" /\ tempDurable[tx] = "none"
    BY DEF Init
  <2> QED BY <1>1, <1>2, <2>1, <2>2 DEF Fresh, Unstaged, Absent
<1>5. ASSUME NEW o \in Op PROVE OpInv(o)
  <2>1. op[o] = Idle
    BY <1>2
  <2>2. op[o].pc = "idle" /\ op[o].kind = "patch"
    BY <2>1, IdleFacts
  <2>3. FreshInv(o)
    BY <1>4, <2>1, IdleFacts, TxFacts DEF FreshInv
  <2>4. LeaseInv(o)
    BY <1>2, <2>2, OpAssumption DEF LeaseInv, Holding, Preparing, CommitPcs, Undoing
  <2>5. KindInv(o)
    BY <2>2 DEF KindInv, IsDir
  <2>6. PrepareInv(o) /\ CommitInv(o) /\ UndoInv(o) /\ ReportInv(o) /\ TargetInv(o)
    BY <2>2 DEF PrepareInv, CommitInv, UndoInv, ReportInv, TargetInv, AtChild, Preparing, CommitPcs, Undoing, Recovering
  <2> QED BY <2>3, <2>4, <2>5, <2>6 DEF OpInv
<1>6. OneCommit
  <2>1. \A o \in Op : op[o].pc = "idle"
    BY <1>2, IdleFacts
  <2> QED BY <2>1 DEF OneCommit, Committing, CommitPcs
<1>7. StagingIsMapped
  BY <1>4 DEF StagingIsMapped, Fresh, Unstaged
<1> QED BY <1>3, <1>5, <1>6, <1>7 DEF WorkspaceInv

LEMMA StutterInv ==
    ASSUME WorkspaceInv, UNCHANGED vars
    PROVE  WorkspaceInv'
<1>1. /\ TypeInv /\ Quiet /\ lease' = lease /\ op' = op /\ budget' = budget
      /\ UNCHANGED <<open, started, fenced, phase, verdict>>
  BY DEF WorkspaceInv, vars, Quiet, coreVars
<1>2. TypeInv'
  BY <1>1, QuietType DEF TypeInv
<1>3. ASSUME NEW q \in Op PROVE OpInv(q)'
  <2>1. OpInv(q)
    BY DEF WorkspaceInv
  <2>2. \A p \in Path : /\ Ours(<<q, p>>) => Ours(<<q, p>>)'
                        /\ Aimed(<<q, p>>) => Aimed(<<q, p>>)'
    BY <1>1 DEF Quiet, fsVars, history, Ours, Aimed
  <2> QED BY <1>1, <2>1, <2>2, QuietTx, Onlooker
<1>4. OneCommit'
  BY <1>1 DEF WorkspaceInv, OneCommit, Committing
<1>5. StagingIsMapped'
  BY <1>1 DEF WorkspaceInv, StagingIsMapped, Quiet, fsVars, walVars
<1> QED BY <1>2, <1>3, <1>4, <1>5 DEF WorkspaceInv

LEMMA NextInv == WorkspaceInv /\ [Next]_vars => WorkspaceInv'
<1> SUFFICES ASSUME WorkspaceInv, [Next]_vars PROVE WorkspaceInv'
  OBVIOUS
<1>1. ASSUME NEW o \in Op, ToolStep(o) PROVE WorkspaceInv'
  BY <1>1, LockInv, SnapshotInv, IntentInv, CreateInv, StageInv, ReviewInv,
     CleanupInv, RollBackInv, UnwindInv, ReturnInv DEF ToolStep
<1>2. ASSUME NEW o \in Op, CommitStep(o) PROVE WorkspaceInv'
  BY <1>2, StartCommitInv, CheckInv, ApplyInv, VerifyInv, SyncInv,
     UncreateInv, SyncRemovalInv, RecordInv, AcknowledgeInv, SettleInv DEF CommitStep
<1>3. ASSUME NEW o \in Op, RecoveryStep(o) PROVE WorkspaceInv'
  BY <1>3, InspectInv, CleanInv, MarkInv, ConcludeInv, CloseInv DEF RecoveryStep
<1>4. CASE UNCHANGED vars
  BY <1>4, StutterInv
<1> QED BY <1>1, <1>2, <1>3, <1>4, BeginInv, RejectInv, DropEffectInv,
           FinishStartupInv, CrashInv, ForeignWriteInv DEF Next

\* The whole workspace invariant: leases, targets, staging files, records and
\* control state stay in step over failures, deaths, power losses and foreign
\* writes.
THEOREM WorkspaceInvariant == Spec => []WorkspaceInv
<1> QED BY InitInv, NextInv, PTL DEF Spec

\* The state of the workspace journal and of the operations keeps its type.
THEOREM WorkspaceTypes == Spec => []TypeOK
<1>1. WorkspaceInv => TypeOK
  <2> SUFFICES ASSUME WorkspaceInv PROVE TypeOK
    OBVIOUS
  <2>1. TypeInv
    BY DEF WorkspaceInv
  <2>2. \A o \in Op : Range(op[o].req) \cup Range(op[o].staged) \cup Range(op[o].rest) \subseteq Path
    BY <2>1, RangeFacts
  <2> QED BY <2>1, <2>2 DEF TypeInv, TypeOK
<1> QED BY <1>1, WorkspaceInvariant, PTL

\* "Every staging entry that can survive a crash is already mapped by durable
\* authority evidence": the intent is durable before create_new_file, and
\* stays.
THEOREM StagingMapped == Spec => []StagingIsMapped
<1>1. WorkspaceInv => StagingIsMapped
  BY DEF WorkspaceInv
<1> QED BY <1>1, WorkspaceInvariant, PTL

\* acquire_mutation_keys keeps every in-process writer out: from the snapshot
\* to the check of the last sibling a target is as it was snapshotted, unless
\* it has been replaced by its own transaction or by a foreign program.
THEOREM LeaseProtects == Spec => []LeaseProtectsSnapshot
<1>1. WorkspaceInv => LeaseProtectsSnapshot
  <2> SUFFICES ASSUME WorkspaceInv, NEW o \in Op,
                      op[o].pc \in {"intent", "create", "stage", "review", "prepared", "check"},
                      NEW i \in DOMAIN op[o].req
               PROVE  LET tx == <<o, op[o].req[i]>> IN
                      \/ disk[PathOf(tx)].is = plan[tx].before
                      \/ disk[PathOf(tx)].by = tx
                      \/ PathOf(tx) \in foreign
    BY DEF LeaseProtectsSnapshot
  <2>1. op[o].req[i] \in Range(op[o].req)
    BY DEF Range
  <2>2. op[o].pc \in (Preparing \cup {"prepared"} \cup CommitPcs) \ {"removed"}
    BY DEF Preparing, CommitPcs
  <2>3. Snapped(<<o, op[o].req[i]>>)
    BY <2>1, <2>2 DEF WorkspaceInv, OpInv, TargetInv
  <2> QED BY <2>3 DEF Snapped
<1> QED BY <1>1, WorkspaceInvariant, PTL

\* What Effect::commit and Effect::rollback report, for one target or for a
\* whole batch, is true and no later crash, power loss or sibling takes it
\* back: Applied is backed by a Committed record and a synced entry of every
\* child; NotApplied and RolledBack leave neither entry nor staging file.
THEOREM ReceiptsTrue == Spec => []ReceiptIsTrue
<1>1. WorkspaceInv => DurableReceiptHolds
  <2> SUFFICES ASSUME WorkspaceInv, NEW o \in Op, op[o].pc = "settle", op[o].stop = "Applied",
                      NEW i \in DOMAIN op[o].staged
               PROVE  LET tx == <<o, op[o].staged[i]>> IN
                      /\ wal[tx] = "committed"
                      /\ diskDurable[PathOf(tx)].by = tx \/ PathOf(tx) \in foreign
    BY DEF DurableReceiptHolds, At
  <2>1. op[o].staged[i] \in Range(op[o].staged)
    BY DEF Range
  <2>2. Kept(<<o, op[o].staged[i]>>)
    BY <2>1 DEF WorkspaceInv, OpInv, ReportInv
  <2> QED BY <2>2 DEF Kept, InPlace
<1>2. WorkspaceInv => RefusalIsClean
  <2> SUFFICES ASSUME WorkspaceInv, NEW o \in Op, op[o].pc \in {"settle", "done"},
                      op[o].stop \in {"NotApplied", "RolledBack"}, NEW i \in DOMAIN op[o].staged
               PROVE  LET tx == <<o, op[o].staged[i]>> IN
                      /\ wal[tx] = "rolledBack"
                      /\ temp[tx] = "none" /\ tempDurable[tx] = "none"
                      /\ tx \notin {disk[PathOf(tx)].by, diskDurable[PathOf(tx)].by}
    BY DEF RefusalIsClean
  <2>1. op[o].staged[i] \in Range(op[o].staged)
    BY DEF Range
  <2>2. Gone(<<o, op[o].staged[i]>>)
    BY <2>1 DEF WorkspaceInv, OpInv, ReportInv
  <2> QED BY <2>2 DEF Gone, Unstaged, Absent
<1> QED BY <1>1, <1>2, WorkspaceInvariant, PTL DEF ReceiptIsTrue

-----------------------------------------------------------------------------
(* Replacing a target *)

\* The steps that change a target's entry.
LEMMA DiskChanges ==
    ASSUME Next
    PROVE  \/ disk' = disk
           \/ \E o \in Op : At(o, "apply") /\ Landed(o)
           \/ \E o \in Op : disk' = [disk EXCEPT ![PathOf(Cur(o))] = Missing]
           \/ \E p \in Path, c \in Content : disk' = [disk EXCEPT ![p] = Entry(c, NoTx)]
           \/ phase' = "recovering"
<1> DEFINE Changes ==
              \/ disk' = disk
              \/ \E o \in Op : At(o, "apply") /\ Landed(o)
              \/ \E o \in Op : disk' = [disk EXCEPT ![PathOf(Cur(o))] = Missing]
              \/ \E p \in Path, c \in Content : disk' = [disk EXCEPT ![p] = Entry(c, NoTx)]
              \/ phase' = "recovering"
<1>1. ASSUME NEW o \in Op, ToolStep(o) PROVE Changes
  BY <1>1 DEF ToolStep, Lock, Snapshot, Intent, Create, Stage, Review, Cleanup, RollBack, Unwind, Return, fsVars
<1>2. ASSUME NEW o \in Op, CommitStep(o) PROVE Changes
  <2>1. CASE Apply(o)
    BY <2>1 DEF Apply
  <2>2. CASE Uncreate(o)
    BY <2>2 DEF Uncreate
  <2>3. CASE \/ StartCommit(o) \/ Check(o) \/ Verify(o) \/ Sync(o) \/ SyncRemoval(o)
             \/ Record(o) \/ Acknowledge(o) \/ Settle(o)
    BY <2>3 DEF StartCommit, Check, Verify, Sync, SyncRemoval, Record, Acknowledge, Settle, fsVars
  <2> QED BY <1>2, <2>1, <2>2, <2>3 DEF CommitStep
<1>3. ASSUME NEW o \in Op, RecoveryStep(o) PROVE Changes
  BY <1>3 DEF RecoveryStep, Inspect, Clean, Mark, Conclude, Close, fsVars
<1>4. ASSUME NEW o \in Op, Begin(o) \/ Reject(o) \/ DropEffect(o) PROVE Changes
  BY <1>4 DEF Begin, Reject, DropEffect, fsVars
<1>5. CASE FinishStartup \/ Crash
  BY <1>5 DEF FinishStartup, Crash, fsVars
<1>6. CASE ForeignWrite
  BY <1>6 DEF ForeignWrite
<1> QED BY <1>1, <1>2, <1>3, <1>4, <1>5, <1>6 DEF Next

LEMMA UpdateKept ==
    ASSUME WorkspaceInv, [Next]_vars, NEW tx \in Tx, phase' = "up",
           disk[PathOf(tx)].by # tx, disk'[PathOf(tx)].by = tx
    PROVE  disk[PathOf(tx)].is = plan[tx].before \/ tx \in raced
<1>1. TypeInv /\ PathOf(tx) \in Path /\ tx # NoTx
  BY TxFacts DEF WorkspaceInv
<1>2. disk \in [Path -> Entries]
  BY <1>1 DEF TypeInv
<1>3. disk' # disk
  OBVIOUS
<1>4. Next
  BY <1>3 DEF vars, fsVars
<1>5. ASSUME NEW p, NEW c, disk' = [disk EXCEPT ![p] = Entry(c, NoTx)] PROVE FALSE
  <2>1. Entry(c, NoTx).by = NoTx
    BY DEF Entry
  <2>2. disk'[PathOf(tx)] \in {disk[PathOf(tx)], Entry(c, NoTx)}
    BY <1>1, <1>2, <1>5
  <2> QED BY <1>1, <2>1, <2>2
<1>6. PICK o \in Op : At(o, "apply") /\ Landed(o)
  BY <1>3, <1>4, <1>5, DiskChanges DEF Missing
<1>7. OpInv(o) /\ Aimed(Cur(o))
  BY <1>6 DEF WorkspaceInv, OpInv, TargetInv, At
<1>8. tx = Cur(o)
  <2>1. disk'[PathOf(tx)] \in {disk[PathOf(tx)], Entry(plan[Cur(o)].after, Cur(o))}
    BY <1>1, <1>2, <1>6 DEF Landed
  <2>2. Entry(plan[Cur(o)].after, Cur(o)).by = Cur(o)
    BY DEF Entry
  <2> QED BY <2>1, <2>2
<1> QED BY <1>7, <1>8 DEF Aimed

\* target_still_matches_snapshot: a target that was changed since the snapshot
\* is never replaced, unless the change fell between that check and the rename.
THEOREM UpdatesKept == Spec => NoLostUpdate
<1>1. WorkspaceInv /\ [Next]_vars =>
        [\A tx \in Tx :
            phase' = "up" /\ disk[PathOf(tx)].by # tx /\ disk'[PathOf(tx)].by = tx
              => disk[PathOf(tx)].is = plan[tx].before \/ tx \in raced]_vars
  BY UpdateKept
<1> QED BY <1>1, WorkspaceInvariant, PTL DEF Spec, NoLostUpdate
=============================================================================
