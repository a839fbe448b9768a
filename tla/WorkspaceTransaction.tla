------------------------ MODULE WorkspaceTransaction ------------------------
(***************************************************************************)
(* Workspace effects (agent-workspace/src/{lib,journal}.rs): a tool leases *)
(* its paths, snapshots them, journals an intent per target, stages the    *)
(* new content in a hidden file, and hands the prepared effect to Core,    *)
(* which commits it (rename, verify, sync, journal, acknowledge) or rolls  *)
(* it back.  Several targets form one composite effect committed in order. *)
(* At startup Core asks the journal and the file system what became of     *)
(* every operation it left open; CoreAuthority takes the answer as         *)
(* evidence, and this module is where that evidence is shown to be true.   *)
(*                                                                         *)
(* Any system call may fail, the process may die and the machine may lose  *)
(* power between any two steps, and a program that does not take leases    *)
(* may change a target at any moment.                                      *)
(*                                                                         *)
(* Contents stand for their digests.  An entry's `by` is its identity (the *)
(* inode): the transaction that renamed or created it, or nobody.  One     *)
(* operation owns at most one transaction per path, so a transaction is    *)
(* the pair.  Core is reduced to the set of its open operations and its    *)
(* fence; Runtime awaits one commit at a time.  The limit of 16            *)
(* transactions per effect equals the limit of 16 files per patch and is   *)
(* left out, as are the Windows-only permission restore and review text.   *)
(*                                                                         *)
(* Assumed of the file system: rename and mkdir are atomic, a directory    *)
(* sync makes the entries of that directory durable, and an entry written  *)
(* by somebody else is durable with every earlier change to its directory. *)
(* The directory sync is the Unix branch of ConfinedDir::sync_all; on      *)
(* Windows it does nothing, and what is said here of a power loss does not *)
(* hold (of a process death it does).  Writing a staging file and syncing  *)
(* it, and removing it and syncing that, are one step each: a death in     *)
(* between leaves files that a death before or after, or the failing       *)
(* outcome, leaves too, and no property tells them apart.                  *)
(***************************************************************************)
EXTENDS Integers, Sequences, FiniteSets, SequencesExt

CONSTANTS
    Op,          \* operations, one effect context each
    NoOp,        \* nobody
    Path,        \* targets; their order is the order of their lock keys
    Val,         \* file contents
    Kinds,       \* tool families in use: "patch", "write", "mkdir"
    MaxRecords,  \* MAX_RECORDS of the workspace effect journal
    MaxFaults,   \* bound on failing system calls
    MaxCrashes,  \* bound on process deaths and power losses
    MaxForeign   \* bound on changes by programs that take no lease

ASSUME OpAssumption == NoOp \notin Op
ASSUME PathAssumption == Path \subseteq Nat /\ IsFiniteSet(Path)
ASSUME ValAssumption == Val # {} /\ {"missing", "dir"} \cap Val = {}
ASSUME BoundAssumption ==
    /\ {MaxRecords, MaxFaults, MaxCrashes, MaxForeign} \subseteq Nat
    /\ Kinds \subseteq {"patch", "write", "mkdir"}

VARIABLES
    disk, diskDurable,   \* the target entries, and what a power loss leaves
    temp, tempDurable,   \* the staging file of each transaction, likewise
    wal,        \* the effect journal file: where it leaves each transaction
    mem,        \* the process's fold of it
    walFailed,  \* writer.failed: an append failed, all later ones are refused
    plan,       \* before and after state of each transaction
    lease,      \* holder of each path's mutation lock
    op,         \* each operation's control state
    open,       \* operations without a terminal record in Core
    started,    \* operations with a durable CommitStarted in Core
    fenced,     \* Core refuses new work
    phase,      \* "up", or "recovering" after a restart
    verdict,    \* what reconciliation last said of each operation
    foreign,    \* history: paths somebody else has changed
    raced,      \* history: transactions whose target somebody else changed
                \* after its last check and before it was replaced
    budget      \* what is left of the bounds

fsVars == <<disk, diskDurable, temp, tempDurable>>
walVars == <<wal, mem, walFailed>>
coreVars == <<open, started, fenced, phase, verdict>>
history == <<foreign, raced>>
vars == <<fsVars, walVars, plan, lease, op, coreVars, history, budget>>

-----------------------------------------------------------------------------
(* Entries, transactions and the journal *)

Tx == Op \X Path
OpOf(tx) == tx[1]
PathOf(tx) == tx[2]

Content == Val \cup {"missing", "dir"}
NoTx == <<NoOp, 0>>
Entry(c, by) == [is |-> c, by |-> by]
Missing == Entry("missing", NoTx)
Entries == [is : Content, by : Tx \cup {NoTx}]

TempStates == {"none", "partial", "full"}
TxStates == {"none", "prepared", "committed", "rolledBack"}

\* Records in the folded journal: an intent, and a terminal if there is one.
Records(j) == Cardinality({tx \in Tx : j[tx] # "none"})
            + Cardinality({tx \in Tx : j[tx] \in {"committed", "rolledBack"}})

Fault == budget.faults > 0 /\ budget' = [budget EXCEPT !.faults = @ - 1]
NoFault == UNCHANGED budget

\* append refuses without writing: sticky failure, or the record limit.
AppendRefused == walFailed \/ Records(mem) >= MaxRecords

\* WorkspaceEffectJournal::append behind its stable-storage barrier.
Appended(tx, s) ==
    /\ ~AppendRefused /\ NoFault
    /\ wal' = [wal EXCEPT ![tx] = s] /\ mem' = [mem EXCEPT ![tx] = s]
    /\ UNCHANGED walFailed

\* ... or it returns an error; a failed write may still be in the file, and
\* no later append of this process is tried.
NotAppended(tx, s) ==
    \/ AppendRefused /\ NoFault /\ UNCHANGED walVars
    \/ /\ ~AppendRefused /\ Fault
       /\ wal' \in {wal, [wal EXCEPT ![tx] = s]}
       /\ walFailed' = TRUE /\ UNCHANGED mem

\* sync_all of the directory that holds p.
DirSynced(p) ==
    /\ diskDurable' = [diskDurable EXCEPT ![p] = disk'[p]]
    /\ tempDurable' = [tx \in Tx |-> IF PathOf(tx) = p THEN temp'[tx] ELSE tempDurable[tx]]

-----------------------------------------------------------------------------
(* The operation's control state *)

Idle == [pc |-> "idle", kind |-> "patch", val |-> CHOOSE v \in Val : TRUE, req |-> <<>>,
         staged |-> <<>>, rest |-> <<>>, n |-> 0, then |-> "none", stop |-> "none", bad |-> FALSE]

At(o, pc) == op[o].pc = pc
Cur(o) == <<o, Head(op[o].rest)>>
IsDir(o) == op[o].kind = "mkdir"
Goes(o, pc) == op' = [op EXCEPT ![o].pc = pc]

CommitPcs == {"check", "apply", "verify", "sync", "uncreate", "removed", "record", "ack"}

\* A commit is in progress until Core has recorded its receipt.
Committing(o) ==
    \/ op[o].pc \in CommitPcs
    \/ op[o].then = "settle" /\ op[o].pc \in {"cleanup", "rollback", "unwind", "settle"}

\* The effect, and with it the last share of the lease group, is gone.
Released(o) == [p \in Path |-> IF lease[p] = o THEN NoOp ELSE lease[p]]

\* The call ends with result r, which Core has still to record.
Returns(o, r) ==
    /\ op' = [op EXCEPT ![o].pc = "settle", ![o].stop = r, ![o].rest = <<>>]
    /\ lease' = Released(o)

\* Rolls back, in the order of rest, what is still prepared; stop is the
\* reason, then names the caller.
Unwinds(o, rest, stop, then) ==
    op' = [op EXCEPT ![o].pc = "unwind", ![o].rest = rest, ![o].stop = stop, ![o].then = then]

\* The receipt of the child being committed (Effect for Vec, commit): a
\* durable application goes on to the next child, anything else stops and
\* rolls back the children not attempted.
ChildReceipt(o, r) ==
    LET rest == Tail(op[o].rest) IN
    IF r = "Applied" /\ rest # <<>>
    THEN op' = [op EXCEPT ![o].pc = "check", ![o].rest = rest, ![o].n = @ + 1]
    ELSE op' = [op EXCEPT ![o].pc = "unwind", ![o].rest = rest, ![o].stop = r,
                          ![o].then = "settle", ![o].n = IF r = "Applied" THEN @ + 1 ELSE @]

\* settle_not_applied of the child being committed: the staged file first,
\* then the RolledBack record.
SettlesNotApplied(o) ==
    op' = [op EXCEPT ![o].pc = IF IsDir(o) THEN "rollback" ELSE "cleanup", ![o].then = "settle"]

\* prepare failed at the current target with `own` (its own error); the
\* targets staged before it are rolled back in reverse.
FailsPrepare(o, own) == Unwinds(o, Reverse(op[o].staged), own, "prepare")

-----------------------------------------------------------------------------
(* Leases and snapshots *)

Requests(kind) ==
    IF kind = "patch"
    THEN {s \in UNION {[1..n -> Path] : n \in 1..Cardinality(Path)} : IsInjective(s)}
    ELSE [1..1 -> Path]

\* Core publishes the operation and the tool starts.
Begin(o) ==
    /\ phase = "up" /\ ~fenced /\ At(o, "idle")
    /\ \E k \in Kinds, v \in Val : \E req \in Requests(k) :
          op' = [op EXCEPT ![o] = [Idle EXCEPT !.pc = "lock", !.kind = k, !.val = v, !.req = req]]
    /\ open' = open \cup {o}
    /\ UNCHANGED <<fsVars, walVars, plan, lease, started, fenced, phase, verdict, history, budget>>

Wanted(o) == {p \in Range(op[o].req) : lease[p] # o}

\* Mutant: the keys are taken in request order.
NextKey_RequestOrder(o) ==
    op[o].req[CHOOSE i \in DOMAIN op[o].req :
                 /\ lease[op[o].req[i]] # o
                 /\ \A j \in 1..i - 1 : lease[op[o].req[j]] = o]

\* acquire_mutation_keys takes the sorted keys one by one.
NextKey(o) == CHOOSE p \in Wanted(o) : \A q \in Wanted(o) : p <= q

\* Mutant: the lease is not exclusive.
Lock_Shared(o) ==
    /\ At(o, "lock")
    /\ lease' = [lease EXCEPT ![NextKey(o)] = o]
    /\ IF Cardinality(Wanted(o)) = 1 THEN Goes(o, "snapshot") ELSE UNCHANGED op
    /\ UNCHANGED <<fsVars, walVars, plan, coreVars, history, budget>>

\* acquire_key: waits until the path's lock is free.
Lock(o) ==
    /\ At(o, "lock") /\ lease[NextKey(o)] = NoOp
    /\ lease' = [lease EXCEPT ![NextKey(o)] = o]
    /\ IF Cardinality(Wanted(o)) = 1 THEN Goes(o, "snapshot") ELSE UNCHANGED op
    /\ UNCHANGED <<fsVars, walVars, plan, coreVars, history, budget>>

\* What the tool makes of its snapshots: an error, a value with nothing to
\* do, or the targets it will stage.
Admissible(o) ==
    CASE op[o].kind = "patch" -> \A p \in Range(op[o].req) : disk[p].is \in Val
      [] op[o].kind = "mkdir" -> disk[op[o].req[1]].is \notin Val
      [] OTHER -> TRUE
ToStage(o) ==
    CASE op[o].kind = "patch" -> {p \in Range(op[o].req) : disk[p].is # op[o].val}
      [] op[o].kind = "mkdir" -> {p \in Range(op[o].req) : disk[p].is = "missing"}
      [] OTHER -> Range(op[o].req)

\* The subsequence of s that has the members of S (as a set of one).
Selections(s, S) ==
    LET at == {i \in DOMAIN s : s[i] \in S}
        rising == {f \in [1..Cardinality(at) -> at] : \A i, j \in DOMAIN f : i < j => f[i] < f[j]}
    IN  {[i \in DOMAIN f |-> s[f[i]]] : f \in rising}

\* begin_existing_mutations, begin_mutation, or the inspection of
\* prepare_directory_creation.
Snapshot(o) ==
    /\ At(o, "snapshot")
    /\ IF ~Admissible(o) THEN Returns(o, "ToolError") /\ UNCHANGED plan
       ELSE IF ToStage(o) = {} THEN Returns(o, "Value") /\ UNCHANGED plan
       ELSE /\ \E rest \in Selections(op[o].req, ToStage(o)) :
                 op' = [op EXCEPT ![o].pc = "intent", ![o].rest = rest]
            /\ plan' = [tx \in Tx |-> IF OpOf(tx) = o /\ PathOf(tx) \in Range(op[o].req)
                                      THEN [before |-> disk[PathOf(tx)].is,
                                            after |-> IF IsDir(o) THEN "dir" ELSE op[o].val]
                                      ELSE plan[tx]]
            /\ UNCHANGED lease
    /\ UNCHANGED <<fsVars, walVars, coreVars, history, budget>>

-----------------------------------------------------------------------------
(* Prepare: intent, staging file, review record *)

\* Mutant: the staging file is created before its intent is journaled.
Intent_AfterCreate(o) ==
    /\ At(o, "intent")
    /\ IF ~IsDir(o) /\ temp[Cur(o)] = "none"
       THEN /\ temp' = [temp EXCEPT ![Cur(o)] = "partial"]
            /\ UNCHANGED <<walVars, op, budget>>
       ELSE /\ \/ Appended(Cur(o), "prepared") /\ Goes(o, IF IsDir(o) THEN "review" ELSE "create")
               \/ NotAppended(Cur(o), "prepared") /\ FailsPrepare(o, "ToolError")
            /\ UNCHANGED temp
    /\ UNCHANGED <<disk, diskDurable, tempDurable, plan, lease, coreVars, history>>

\* append_prepared; an exhausted journal is a RecoveryRequired error.
Intent(o) ==
    /\ At(o, "intent")
    /\ \/ Appended(Cur(o), "prepared") /\ Goes(o, IF IsDir(o) THEN "review" ELSE "create")
       \/ /\ NotAppended(Cur(o), "prepared")
          /\ FailsPrepare(o, IF AppendRefused /\ ~walFailed THEN "RecoveryRequired" ELSE "ToolError")
    /\ UNCHANGED <<fsVars, plan, lease, coreVars, history>>

\* create_new_file under the pinned parent.
Create(o) ==
    /\ At(o, "create")
    /\ \/ /\ NoFault /\ Goes(o, "stage")
          /\ temp' = [temp EXCEPT ![Cur(o)] = "partial"]
       \/ /\ Fault /\ UNCHANGED temp
          /\ op' = [op EXCEPT ![o].pc = "rollback", ![o].then = "own"]
    /\ UNCHANGED <<disk, diskDurable, tempDurable, walVars, plan, lease, coreVars, history>>

\* Writing and syncing the staged content.
Stage(o) ==
    /\ At(o, "stage")
    /\ \/ /\ NoFault /\ Goes(o, "review")
          /\ temp' = [temp EXCEPT ![Cur(o)] = "full"]
          /\ tempDurable' = [tempDurable EXCEPT ![Cur(o)] = "full"]
       \/ /\ Fault /\ UNCHANGED <<temp, tempDurable>>
          /\ op' = [op EXCEPT ![o].pc = "cleanup", ![o].then = "own"]
    /\ UNCHANGED <<disk, diskDurable, walVars, plan, lease, coreVars, history>>

\* The review record; then the next target, or the prepared effect.
Review(o) ==
    LET rest == Tail(op[o].rest)
        staged == Append(op[o].staged, Head(op[o].rest)) IN
    /\ At(o, "review")
    /\ \/ /\ NoFault
          /\ op' = [op EXCEPT ![o].pc = IF rest = <<>> THEN "prepared" ELSE "intent",
                              ![o].rest = rest, ![o].staged = staged]
       \/ /\ Fault
          /\ op' = [op EXCEPT ![o].pc = IF IsDir(o) THEN "rollback" ELSE "cleanup",
                              ![o].then = "own"]
    /\ UNCHANGED <<fsVars, walVars, plan, lease, coreVars, history>>

-----------------------------------------------------------------------------
(* Undoing a preparation *)

\* What follows the undoing of the current target, confirmed or not.
Undone(o, ok) ==
    CASE op[o].then = "own" -> FailsPrepare(o, IF ok THEN "ToolError" ELSE "RecoveryRequired")
      [] op[o].then = "settle" /\ op[o].stop = "none" -> ChildReceipt(o, IF ok THEN "NotApplied" ELSE "Unknown")
      [] OTHER -> op' = [op EXCEPT ![o].pc = "unwind", ![o].rest = Tail(@), ![o].bad = @ \/ ~ok]

\* cleanup_staged_file: removed and the removal synced; or not confirmed, in
\* which case dropping the effect tries once more and nobody looks.
Cleanup(o) ==
    /\ At(o, "cleanup")
    /\ UNCHANGED disk
    /\ \/ /\ NoFault /\ Goes(o, "rollback")
          /\ temp' = [temp EXCEPT ![Cur(o)] = "none"] /\ DirSynced(PathOf(Cur(o)))
       \/ /\ Fault /\ Undone(o, FALSE)
          /\ \/ temp' \in {temp, [temp EXCEPT ![Cur(o)] = "none"]}
                /\ UNCHANGED <<diskDurable, tempDurable>>
             \/ temp' = [temp EXCEPT ![Cur(o)] = "none"] /\ DirSynced(PathOf(Cur(o)))
    /\ UNCHANGED <<walVars, plan, lease, coreVars, history>>

\* append_rolled_back; outside prepare the review record follows, and its
\* failure is reported like that of the append.
RollBack(o) ==
    /\ At(o, "rollback")
    /\ \/ Appended(Cur(o), "rolledBack") /\ Undone(o, TRUE)
       \/ /\ ~AppendRefused /\ op[o].then # "own" /\ Fault /\ Undone(o, FALSE)
          /\ wal' = [wal EXCEPT ![Cur(o)] = "rolledBack"]
          /\ mem' = [mem EXCEPT ![Cur(o)] = "rolledBack"] /\ UNCHANGED walFailed
       \/ NotAppended(Cur(o), "rolledBack") /\ Undone(o, FALSE)
    /\ UNCHANGED <<fsVars, plan, lease, coreVars, history>>

\* rollback_all and rollback_staged_effects: the next prepared child.
Unwind(o) ==
    /\ At(o, "unwind") /\ op[o].rest # <<>>
    /\ Goes(o, IF IsDir(o) THEN "rollback" ELSE "cleanup")
    /\ UNCHANGED <<fsVars, walVars, plan, lease, coreVars, history, budget>>

\* The aggregate of the children: nothing that follows an application may
\* say NotApplied, nothing unconfirmed may say NotApplied either.
Outcome(o) ==
    LET x == op[o] IN
    CASE x.then = "settle" /\ x.stop = "NotApplied" ->
            IF x.n > 0 THEN "DurabilityFailed" ELSE IF x.bad THEN "Unknown" ELSE "NotApplied"
      [] x.then = "settle" /\ x.stop = "Unknown" ->
            IF x.n > 0 THEN "DurabilityFailed" ELSE "Unknown"
      [] x.then = "prepare" -> IF x.bad THEN "RecoveryRequired" ELSE x.stop
      [] x.then = "reject" -> IF x.bad THEN "RecoveryRequired" ELSE "RolledBack"
      [] OTHER -> x.stop

Return(o) ==
    /\ At(o, "unwind") /\ op[o].rest = <<>>
    /\ Returns(o, Outcome(o))
    /\ UNCHANGED <<fsVars, walVars, plan, coreVars, history, budget>>

-----------------------------------------------------------------------------
(* Commit, one child at a time *)

\* Core's commit barrier is behind it; Runtime awaits each commit in turn.
StartCommit(o) ==
    /\ phase = "up" /\ ~fenced /\ At(o, "prepared")
    /\ \A q \in Op : ~Committing(q)
    /\ op' = [op EXCEPT ![o].pc = "check", ![o].rest = op[o].staged]
    /\ started' = started \cup {o}
    /\ UNCHANGED <<fsVars, walVars, plan, lease, open, fenced, phase, verdict, history, budget>>

\* Effect::rollback: Core rejected the completion.
Reject(o) ==
    /\ At(o, "prepared")
    /\ Unwinds(o, Reverse(op[o].staged), "none", "reject")
    /\ UNCHANGED <<fsVars, walVars, plan, lease, coreVars, history, budget>>

\* The prepared effect is dropped with its owner: each staged file is
\* removed if possible, nothing is recorded, the operation stays open.
DropEffect(o) ==
    LET removes(S) == [tx \in Tx |-> IF OpOf(tx) = o /\ PathOf(tx) \in S THEN "none" ELSE temp[tx]] IN
    /\ At(o, "prepared")
    /\ Goes(o, "lost") /\ lease' = Released(o)
    /\ \/ NoFault /\ temp' = removes(Range(op[o].staged))
          /\ tempDurable' = [tx \in Tx |-> IF OpOf(tx) = o THEN "none" ELSE tempDurable[tx]]
       \/ Fault /\ \E S \in SUBSET Range(op[o].staged) : temp' = removes(S)
          /\ UNCHANGED tempDurable
    /\ UNCHANGED <<disk, diskDurable, walVars, plan, coreVars, history>>

\* Mutant: the snapshot is not compared again.
PreconditionHolds_NoRevision(o) == IsDir(o) \/ temp[Cur(o)] = "full"

\* target_still_matches_snapshot and staged_file_matches_expected; of a
\* directory, that the name is still free.
PreconditionHolds(o) ==
    /\ disk[PathOf(Cur(o))].is = plan[Cur(o)].before
    /\ IsDir(o) \/ temp[Cur(o)] = "full"

Check(o) ==
    /\ At(o, "check")
    /\ \/ PreconditionHolds(o) /\ NoFault /\ Goes(o, "apply")
       \/ ~PreconditionHolds(o) /\ NoFault /\ SettlesNotApplied(o)
       \/ Fault /\ SettlesNotApplied(o)
    /\ UNCHANGED <<fsVars, walVars, plan, lease, coreVars, history>>

\* Whether the system call can succeed: rename does not replace a directory,
\* mkdir replaces nothing.
Applicable(o) == LET e == disk[PathOf(Cur(o))] IN IF IsDir(o) THEN e.is = "missing" ELSE e.is # "dir"

\* Mutant: the entry is identified by its operation only.
Landed_OpIdentity(o) ==
    /\ disk' = [disk EXCEPT ![PathOf(Cur(o))] = Entry(plan[Cur(o)].after, o)]
    /\ temp' = [temp EXCEPT ![Cur(o)] = "none"]

\* The new entry under the target's name; the staging name is gone.
Landed(o) ==
    /\ disk' = [disk EXCEPT ![PathOf(Cur(o))] = Entry(plan[Cur(o)].after, Cur(o))]
    /\ temp' = [temp EXCEPT ![Cur(o)] = "none"]

\* Mutant: the Committed record is written before the target is replaced.
Apply_RecordFirst(o) ==
    /\ At(o, "apply") /\ Applicable(o)
    /\ IF mem[Cur(o)] = "prepared"
       THEN Appended(Cur(o), "committed") /\ UNCHANGED <<op, disk, temp>>
       ELSE Landed(o) /\ Goes(o, "verify") /\ UNCHANGED <<walVars, budget>>
    /\ UNCHANGED <<diskDurable, tempDurable, plan, lease, coreVars, history>>

\* replace_file, or create_workspace_child_dir, whose failure after the
\* mkdir (may_have_created) is reported as Unknown.
Apply(o) ==
    /\ At(o, "apply")
    /\ \/ Applicable(o) /\ NoFault /\ Landed(o) /\ Goes(o, "verify")
       \/ ~Applicable(o) /\ NoFault /\ SettlesNotApplied(o) /\ UNCHANGED <<disk, temp>>
       \/ Fault /\ SettlesNotApplied(o) /\ UNCHANGED <<disk, temp>>
       \/ IsDir(o) /\ Applicable(o) /\ Fault /\ Landed(o) /\ ChildReceipt(o, "Unknown")
    /\ UNCHANGED <<diskDurable, tempDurable, walVars, plan, lease, coreVars, history>>

\* The target is the entry that was put there (named_entry_matches_file).
StillOurs(o) == disk[PathOf(Cur(o))] = Entry(plan[Cur(o)].after, Cur(o))

\* committed_target_matches_staged; a directory that is not verified is
\* removed again.
Verify(o) ==
    LET unsure == IF IsDir(o) THEN Goes(o, "uncreate") ELSE ChildReceipt(o, "Unknown") IN
    /\ At(o, "verify")
    /\ \/ StillOurs(o) /\ NoFault /\ Goes(o, "sync")
       \/ ~StillOurs(o) /\ NoFault /\ unsure
       \/ Fault /\ unsure
    /\ UNCHANGED <<fsVars, walVars, plan, lease, coreVars, history>>

\* Mutant: a failed directory sync is ignored.
Sync_Ignored(o) ==
    /\ At(o, "sync") /\ UNCHANGED <<disk, temp>>
    /\ \/ NoFault /\ DirSynced(PathOf(Cur(o)))
       \/ Fault /\ UNCHANGED <<diskDurable, tempDurable>>
    /\ Goes(o, "record")
    /\ UNCHANGED <<walVars, plan, lease, coreVars, history>>

\* parent.sync_all
Sync(o) ==
    /\ At(o, "sync") /\ UNCHANGED <<disk, temp>>
    /\ \/ NoFault /\ DirSynced(PathOf(Cur(o))) /\ Goes(o, "record")
       \/ /\ Fault
          /\ DirSynced(PathOf(Cur(o))) \/ UNCHANGED <<diskDurable, tempDurable>>
          /\ IF IsDir(o) THEN Goes(o, "uncreate") ELSE ChildReceipt(o, "DurabilityFailed")
    /\ UNCHANGED <<walVars, plan, lease, coreVars, history>>

\* remove_created takes away only the directory this transaction made
\* (remove_open_dir) ...
Uncreate(o) ==
    /\ At(o, "uncreate") /\ UNCHANGED <<diskDurable, temp, tempDurable>>
    /\ \/ /\ StillOurs(o) /\ NoFault /\ Goes(o, "removed")
          /\ disk' = [disk EXCEPT ![PathOf(Cur(o))] = Missing]
       \/ ~StillOurs(o) /\ NoFault /\ UNCHANGED disk /\ ChildReceipt(o, "Unknown")
       \/ Fault /\ UNCHANGED disk /\ ChildReceipt(o, "Unknown")
    /\ UNCHANGED <<walVars, plan, lease, coreVars, history>>

\* ... and then syncs its parent.
SyncRemoval(o) ==
    /\ At(o, "removed") /\ UNCHANGED <<disk, temp>>
    /\ \/ NoFault /\ DirSynced(PathOf(Cur(o))) /\ SettlesNotApplied(o)
       \/ /\ Fault /\ ChildReceipt(o, "Unknown")
          /\ DirSynced(PathOf(Cur(o))) \/ UNCHANGED <<diskDurable, tempDurable>>
    /\ UNCHANGED <<walVars, plan, lease, coreVars, history>>

\* append_committed, append_directory_committed
Record(o) ==
    /\ At(o, "record")
    /\ \/ Appended(Cur(o), "committed") /\ Goes(o, "ack")
       \/ NotAppended(Cur(o), "committed") /\ ChildReceipt(o, "DurabilityFailed")
    /\ UNCHANGED <<fsVars, plan, lease, coreVars, history>>

\* The review record and the final verification of the target.
Acknowledge(o) ==
    /\ At(o, "ack")
    /\ \/ StillOurs(o) /\ NoFault /\ ChildReceipt(o, "Applied")
       \/ ~StillOurs(o) /\ NoFault /\ ChildReceipt(o, "DurabilityFailed")
       \/ Fault /\ ChildReceipt(o, "DurabilityFailed")
    /\ UNCHANGED <<fsVars, walVars, plan, lease, coreVars, history>>

-----------------------------------------------------------------------------
(* Core's side: terminal records, and the startup pass *)

NeedsRecovery(r) == r \in {"DurabilityFailed", "Unknown"}

\* finish_operation_effect and its relatives.  An unconfirmed rollback, a
\* failed append or an earlier fence leaves the operation open.
Settle(o) ==
    LET r == op[o].stop IN
    /\ At(o, "settle") /\ phase = "up"
    /\ \/ /\ ~fenced /\ r # "RecoveryRequired" /\ NoFault
          /\ open' = open \ {o} /\ Goes(o, "done") /\ fenced' = NeedsRecovery(r)
       \/ /\ \/ (fenced \/ r = "RecoveryRequired") /\ NoFault
             \/ ~fenced /\ r # "RecoveryRequired" /\ Fault
          /\ Goes(o, "lost") /\ fenced' = TRUE /\ UNCHANGED open
    /\ UNCHANGED <<fsVars, walVars, plan, lease, started, phase, verdict, history>>

\* The process dies and another opens the workspace: leases and handles are
\* gone, the journal is folded again.  A power loss also takes the
\* directories R back to what was synced.
Crash ==
    /\ budget.crashes > 0 /\ budget' = [budget EXCEPT !.crashes = @ - 1]
    /\ \/ UNCHANGED fsVars
       \/ /\ \E R \in SUBSET Path :
                /\ disk' = [p \in Path |-> IF p \in R THEN diskDurable[p] ELSE disk[p]]
                /\ temp' = [tx \in Tx |-> IF PathOf(tx) \in R THEN tempDurable[tx] ELSE temp[tx]]
          /\ diskDurable' = disk' /\ tempDurable' = temp'
    /\ mem' = wal /\ walFailed' = FALSE
    /\ lease' = [p \in Path |-> NoOp]
    /\ op' = [o \in Op |-> IF op[o].pc \in {"idle", "done"} THEN op[o] ELSE [Idle EXCEPT !.pc = "dead"]]
    /\ phase' = "recovering" /\ fenced' = FALSE
    /\ UNCHANGED <<wal, plan, open, started, verdict, history>>

\* Mutant: an uncommitted target in its after state still counts as before.
Class_IntentOnly(tx) ==
    CASE mem[tx] = "committed" -> "durable"
      [] mem[tx] = "rolledBack" -> "rolledBack"
      [] OTHER -> "not"

\* reconcile_workspace_effect's reading of one transaction.
Class(tx) ==
    LET e == disk[PathOf(tx)]
        dir == plan[tx].after = "dir"
        after == IF dir THEN e = Entry("dir", tx) ELSE e.is = plan[tx].after
        before == e.is = plan[tx].before /\ e.is # "dir"
    IN  CASE mem[tx] = "committed" -> IF after THEN "durable" ELSE "ambiguous"
          [] mem[tx] = "rolledBack" -> IF before \/ dir THEN "rolledBack" ELSE "ambiguous"
          [] mem[tx] = "prepared" ->
                IF before THEN "not" ELSE IF after /\ ~dir THEN "applied" ELSE "ambiguous"

TxsOf(o) == {tx \in Tx : OpOf(tx) = o /\ mem[tx] # "none"}

\* Mutant: one committed target vouches for the whole composite.
Judgement_AnyDurable(o) ==
    LET is(c) == {tx \in TxsOf(o) : Class(tx) = c} IN
    IF is("durable") # {} THEN "Applied"
    ELSE IF is("applied") # {} THEN "DurabilityFailed" ELSE "NotApplied"

\* The verdict when no transaction is ambiguous.
Judgement(o) ==
    LET is(c) == {tx \in TxsOf(o) : Class(tx) = c} IN
    IF is("durable") = TxsOf(o) THEN "Applied"
    ELSE IF is("durable") \cup is("applied") # {} THEN "DurabilityFailed" ELSE "NotApplied"

Judged(o, v) ==
    /\ verdict' = [verdict EXCEPT ![o] = v]
    /\ op' = [op EXCEPT ![o].pc = "judged", ![o].rest = <<>>]

\* reconcile_workspace_effect up to the cleanup; an unreadable target is an
\* error, which Core treats like Ambiguous.
Inspect(o) ==
    LET nots == {PathOf(tx) : tx \in {t \in TxsOf(o) : Class(t) = "not"}} IN
    /\ phase = "recovering" /\ At(o, "dead")
    /\ \A q \in Op : op[q].pc \notin {"clean", "mark", "judged"}
    /\ \/ NoFault /\ TxsOf(o) = {} /\ Judged(o, "NotManaged")
       \/ /\ NoFault /\ TxsOf(o) # {}
          /\ IF walFailed \/ \E tx \in TxsOf(o) : Class(tx) = "ambiguous" THEN Judged(o, "Ambiguous")
             ELSE /\ op' = [op EXCEPT ![o].pc = "clean", ![o].rest = SetToSeq(nots), ![o].stop = Judgement(o)]
                  /\ UNCHANGED verdict
       \/ Fault /\ Judged(o, "Ambiguous")
    /\ UNCHANGED <<fsVars, walVars, plan, lease, open, started, fenced, phase, history>>

\* remove_verified_staged_file removes only the journaled after state.
Removable(tx) == temp[tx] = "full"

\* The cleanup of one transaction that did not land.
Clean(o) ==
    /\ At(o, "clean") /\ op[o].rest # <<>>
    /\ UNCHANGED disk
    /\ \/ /\ temp[Cur(o)] = "none" /\ NoFault /\ Goes(o, "mark")
          /\ UNCHANGED <<diskDurable, temp, tempDurable, verdict>>
       \/ /\ temp[Cur(o)] # "none" /\ Removable(Cur(o)) /\ NoFault /\ Goes(o, "mark")
          /\ temp' = [temp EXCEPT ![Cur(o)] = "none"] /\ DirSynced(PathOf(Cur(o)))
          /\ UNCHANGED verdict
       \/ /\ temp[Cur(o)] # "none" /\ ~Removable(Cur(o)) /\ NoFault /\ Judged(o, "Ambiguous")
          /\ UNCHANGED <<diskDurable, temp, tempDurable>>
       \/ /\ temp[Cur(o)] # "none" /\ Fault /\ Judged(o, "Ambiguous")
          /\ temp' \in {temp, [temp EXCEPT ![Cur(o)] = "none"]}
          /\ UNCHANGED <<diskDurable, tempDurable>>
    /\ UNCHANGED <<walVars, plan, lease, open, started, fenced, phase, history>>

\* ... and its RolledBack record.
Mark(o) ==
    /\ At(o, "mark")
    /\ \/ /\ Appended(Cur(o), "rolledBack") /\ UNCHANGED verdict
          /\ op' = [op EXCEPT ![o].pc = "clean", ![o].rest = Tail(@)]
       \/ NotAppended(Cur(o), "rolledBack") /\ Judged(o, "Ambiguous")
    /\ UNCHANGED <<fsVars, plan, lease, open, started, fenced, phase, history>>

Conclude(o) ==
    /\ At(o, "clean") /\ op[o].rest = <<>>
    /\ Judged(o, op[o].stop)
    /\ UNCHANGED <<fsVars, walVars, plan, lease, open, started, fenced, phase, history, budget>>

\* recover_terminal: the definite verdicts close the operation; the others,
\* and a failed append, leave it open behind the fence.
Close(o) ==
    /\ At(o, "judged")
    /\ \/ /\ verdict[o] \in {"Applied", "DurabilityFailed", "NotApplied"} /\ NoFault
          /\ open' = open \ {o} /\ fenced' = (fenced \/ NeedsRecovery(verdict[o]))
          /\ op' = [op EXCEPT ![o].pc = "done", ![o].stop = verdict[o]]
       \/ /\ IF verdict[o] \in {"Applied", "DurabilityFailed", "NotApplied"} THEN Fault ELSE NoFault
          /\ fenced' = TRUE /\ Goes(o, "lost") /\ UNCHANGED open
    /\ UNCHANGED <<fsVars, walVars, plan, lease, started, phase, verdict, history>>

\* Recovered terminals that need recovery keep the fence up.
FinishStartup ==
    /\ phase = "recovering"
    /\ \A o \in Op : op[o].pc \in {"idle", "done", "lost"}
    /\ phase' = "up"
    /\ fenced' = (fenced \/ \E o \in Op : At(o, "done") /\ NeedsRecovery(op[o].stop))
    /\ UNCHANGED <<fsVars, walVars, plan, lease, op, open, started, verdict, history, budget>>

-----------------------------------------------------------------------------
\* A program that takes no lease replaces or removes a target, or damages a
\* staging file.
ForeignWrite ==
    /\ budget.foreign > 0 /\ budget' = [budget EXCEPT !.foreign = @ - 1]
    /\ \/ \E p \in Path, c \in Content :
             /\ disk[p] # Entry(c, NoTx)
             /\ disk' = [disk EXCEPT ![p] = Entry(c, NoTx)] /\ UNCHANGED temp
             /\ DirSynced(p) /\ foreign' = foreign \cup {p}
             /\ raced' = raced \cup {tx \in Tx : PathOf(tx) = p /\ At(OpOf(tx), "apply") /\ Cur(OpOf(tx)) = tx}
       \/ \E tx \in Tx :
             /\ temp[tx] = "full"
             /\ temp' = [temp EXCEPT ![tx] = "partial"]
             /\ tempDurable' = [tempDurable EXCEPT ![tx] = "partial"]
             /\ foreign' = foreign \cup {PathOf(tx)} /\ UNCHANGED <<disk, diskDurable, raced>>
    /\ UNCHANGED <<walVars, plan, lease, op, coreVars>>

Init ==
    /\ disk \in [Path -> {Missing, Entry(CHOOSE v \in Val : TRUE, NoTx)}] /\ diskDurable = disk
    /\ temp = [tx \in Tx |-> "none"] /\ tempDurable = temp
    /\ wal = [tx \in Tx |-> "none"] /\ mem = wal /\ walFailed = FALSE
    /\ plan = [tx \in Tx |-> [before |-> "missing", after |-> "missing"]]
    /\ lease = [p \in Path |-> NoOp]
    /\ op = [o \in Op |-> Idle]
    /\ open = {} /\ started = {} /\ fenced = FALSE /\ phase = "up"
    /\ verdict = [o \in Op |-> "none"]
    /\ foreign = {} /\ raced = {}
    /\ budget = [faults |-> MaxFaults, crashes |-> MaxCrashes, foreign |-> MaxForeign]

ToolStep(o) ==
    \/ Lock(o) \/ Snapshot(o) \/ Intent(o) \/ Create(o) \/ Stage(o) \/ Review(o)
    \/ Cleanup(o) \/ RollBack(o) \/ Unwind(o) \/ Return(o)

CommitStep(o) ==
    \/ StartCommit(o) \/ Check(o) \/ Apply(o) \/ Verify(o) \/ Sync(o)
    \/ Uncreate(o) \/ SyncRemoval(o) \/ Record(o) \/ Acknowledge(o) \/ Settle(o)

RecoveryStep(o) == Inspect(o) \/ Clean(o) \/ Mark(o) \/ Conclude(o) \/ Close(o)

Next ==
    \/ \E o \in Op : \/ Begin(o) \/ ToolStep(o) \/ CommitStep(o) \/ RecoveryStep(o)
                     \/ Reject(o) \/ DropEffect(o)
    \/ FinishStartup \/ Crash \/ ForeignWrite

Spec == Init /\ [][Next]_vars

\* A started tool, commit or startup pass runs; a prepared effect is
\* committed or rejected; death and foreign writers are not promised.
FairSpec ==
    /\ Spec
    /\ \A o \in Op : WF_vars(ToolStep(o)) /\ WF_vars(CommitStep(o) \/ Reject(o)) /\ WF_vars(RecoveryStep(o))
    /\ WF_vars(FinishStartup)

-----------------------------------------------------------------------------
(* Properties *)

\* Every variable has the shape the code gives it.
TypeOK ==
    /\ {disk, diskDurable} \subseteq [Path -> Entries]
    /\ {temp, tempDurable} \subseteq [Tx -> TempStates]
    /\ {wal, mem} \subseteq [Tx -> TxStates] /\ walFailed \in BOOLEAN
    /\ plan \in [Tx -> [before : Content, after : Content]]
    /\ lease \in [Path -> Op \cup {NoOp}]
    /\ open \subseteq Op /\ started \subseteq Op /\ fenced \in BOOLEAN /\ phase \in {"up", "recovering"}
    /\ \A o \in Op : Range(op[o].req) \cup Range(op[o].staged) \cup Range(op[o].rest) \subseteq Path
    /\ foreign \subseteq Path /\ raced \subseteq Tx

\* What reconcile_workspace_effect answers is true of the world and stays
\* true after a power loss: NotApplied means that no target carries the
\* operation's entry (a write that changes nothing apart), Applied that all
\* do durably, DurabilityFailed that one does.  CoreAuthority's Evidence
\* assumes this of a transactional tool: the last only once its commit had
\* started, because a target may hold the after state for other reasons (a
\* foreign writer, or a power loss that undoes the write it was to revert).
\* One exception: once a call has failed, a created directory may have been
\* removed and its removal not synced, and recovery takes it for gone.
EvidenceIsTrue ==
    \A o \in Op : At(o, "judged") =>
        CASE verdict[o] = "NotApplied" ->
                \A tx \in TxsOf(o) : disk[PathOf(tx)].by = tx =>
                    \/ plan[tx].before = plan[tx].after
                    \/ plan[tx].after = "dir" /\ budget.faults < MaxFaults
          [] verdict[o] = "Applied" ->
                \A tx \in TxsOf(o) : PathOf(tx) \in foreign \/ diskDurable[PathOf(tx)].by = tx
          [] verdict[o] = "DurabilityFailed" /\ o \in started ->
                \E tx \in TxsOf(o) : PathOf(tx) \in foreign \/ disk[PathOf(tx)].by = tx
          [] OTHER -> TRUE

\* A receipt that says Applied/Durable, single or composite, is backed by a
\* Committed record and a synced entry for every child, so no crash or power
\* loss takes it back.
DurableReceiptHolds ==
    \A o \in Op : At(o, "settle") /\ op[o].stop = "Applied" =>
        \A i \in DOMAIN op[o].staged : LET tx == <<o, op[o].staged[i]>> IN
            /\ wal[tx] = "committed"
            /\ diskDurable[PathOf(tx)].by = tx \/ PathOf(tx) \in foreign

\* NotApplied and a confirmed rollback mean it: no child has landed, none
\* left a staging file, and the journal says so ("there is nothing to
\* recover", EffectReceipt::NotApplied).
RefusalIsClean ==
    \A o \in Op : op[o].pc \in {"settle", "done"} /\ op[o].stop \in {"NotApplied", "RolledBack"} =>
        \A i \in DOMAIN op[o].staged : LET tx == <<o, op[o].staged[i]>> IN
            /\ wal[tx] = "rolledBack"
            /\ temp[tx] = "none" /\ tempDurable[tx] = "none"
            /\ tx \notin {disk[PathOf(tx)].by, diskDurable[PathOf(tx)].by}

\* What a commit or a rollback reported is true, and stays true over crashes.
ReceiptIsTrue == DurableReceiptHolds /\ RefusalIsClean

\* "Every staging entry that can survive a crash is already mapped by
\* durable authority evidence" (MutationTransaction).
StagingIsMapped ==
    \A tx \in Tx : {temp[tx], tempDurable[tx]} = {"none"} \/ wal[tx] # "none"

\* The lease group of a batch keeps every in-process writer out from the
\* snapshot to the last sibling's commit: until its own turn comes, a staged
\* target is what was snapshotted, whatever other operations do.
LeaseProtectsSnapshot ==
    \A o \in Op : op[o].pc \in {"intent", "create", "stage", "review", "prepared", "check"} =>
        \A i \in DOMAIN op[o].req : LET tx == <<o, op[o].req[i]>> IN
            \/ disk[PathOf(tx)].is = plan[tx].before
            \/ disk[PathOf(tx)].by = tx
            \/ PathOf(tx) \in foreign

\* target_still_matches_snapshot: a target that was changed since the
\* snapshot is not overwritten, unless the change fell between the check and
\* the rename.
NoLostUpdate ==
    [][\A tx \in Tx :
          phase' = "up" /\ disk[PathOf(tx)].by # tx /\ disk'[PathOf(tx)].by = tx
            => disk[PathOf(tx)].is = plan[tx].before \/ tx \in raced]_vars

\* Recovery decides: with no foreign writer and no failing call, a process
\* death or power loss anywhere in the commit of files leaves a state that is
\* not Ambiguous, except for an exhausted journal.  (An operation that was
\* rolled back before its commit can be Ambiguous: a later writer of the path
\* hides the before state a RolledBack file must show.)
CrashIsDecidable ==
    \A o \in started : At(o, "judged") /\ verdict[o] = "Ambiguous" =>
        \/ foreign # {} \/ budget.faults < MaxFaults \/ Records(mem) >= MaxRecords
        \/ \E tx \in TxsOf(o) : "dir" \in {plan[tx].before, plan[tx].after}

\* Sorted lease acquisition cannot deadlock ("two reversed multi-file
\* batches"), and every call that started reaches its end.
OperationEnds == \A o \in Op : At(o, "lock") ~> op[o].pc \in {"done", "lost"}
=============================================================================
