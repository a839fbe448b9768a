# A TLA+ model of the agent's Trusted Core

The repository is a coding agent whose model and tools are not trusted. What it
does to the world goes through a small Trusted Core that keeps a durable record of
every tool operation and of the effect it commits. This directory models that core
and the parts that have to tell it the truth: the journal file below it, the
workspace's file transactions, the supervision of child processes, the effect
broker, and the gate that lets a call run. TLC checks each on small instances;
TLAPS proves every safety property of the passing runs for every value of the
constants, under the assumptions section 4 names.

Paths below are relative to `src/crates/`. `PROJECT.json` maps every definition
to the lines it models and lists the hazards, line by line, that the properties
are for.

## 1. The system

| Component | State | Operations | What makes it correct | Module |
|---|---|---|---|---|
| Operation registry (`agent-core/src/operation.rs`) | `records`, `terminal_order`, the `seen` filter, `leases`, `recovery_required` | accept, transitions, cancel, cancel with an epoch advance, recover, eviction | answers only from durable truth; a seen id never runs again | `CoreAuthority` |
| Core kernel (`agent-core/src/kernel/mod.rs`) | the authority epoch, the registry | admit, publish, execute, finish a value, startup reconciliation | an operation left open by a dead process is settled or fences Core | `CoreAuthority` |
| Core port (`agent-core/src/port.rs`) | none of its own | `commit_effect`, `rollback_effect`, `settle_rejected_effect` | no effect without a durable commit claim, none twice, none denied | `CoreAuthority`, `EffectBroker` |
| Operation journal (`agent-storage/src/lib.rs`, `FileOperationJournal`) | a lock file, metadata, one WAL per generation, a cache | open, append, compact, take and validate a checkpoint marker | a confirmed append survives; one writer; the file stays readable | `OperationJournal` |
| Workspace transactions (`agent-workspace/src/lib.rs`, `journal.rs`) | leases, staging files, the effect journal | lease, snapshot, stage, commit, roll back, reconcile | receipts and evidence are true of the files | `WorkspaceTransaction` |
| Process tools and journals (`agent-workspace/src/process_journal.rs`, `tool-runtime/src/supervision.rs`, `tools/`) | spawn and exit records, the host-child ledger | spawn, lease, record, reap, recover | a restart leaves no recorded child running and strikes nobody else | `ProcessSupervision` |
| Effect broker (`agent-core/src/broker.rs`) | the reservation journal | reserve, dispatch, acknowledge, reconcile | its answers after a crash are true | `EffectBroker` |
| Checkpoints and restore (`agent-runtime/src/actor/safepoint.rs`, `restore.rs`) | debts and fence carried by envelopes | capture, prepare, finalize | a debt is not forgotten | `EffectBroker` (debts), `OperationJournal` (markers) |
| Approval gate (`agent-core/src/approval.rs`) | standing grants, pending requests | grant, revoke, authorize, respond | nothing runs without consent; every call gets a verdict | `ApprovalGate` |
| RuntimeActor (`agent-runtime/src/actor/`) | turn, tool calls, its fence | the only caller of Core | stale completions are dropped | its calls, in any order |
| Task and execution state, event journal, capability and plugin admission, process host, context engine, tools, providers, hosts, evaluation | | | | not modelled, section 6 |

How they interact. RuntimeActor calls Core: admit, publish, execute. Core asks the
approval gate, then runs the tool; a value is recorded, or a prepared effect is
held until RuntimeActor commits it or rolls it back. Core appends to the operation
journal *before* it changes its registry. At commit, Core claims the slot
durably, reserves it with the effect broker, lets the workspace apply the effect,
and acknowledges; an acknowledgement that fails is a debt RuntimeActor carries in
its checkpoints. At startup Core recovers the journal, advances the epoch so that
everything an older process issued is stale, and asks the workspace, the broker and
the process journal for evidence about every open operation.

What is hard. There is an await between almost any two transitions: a cancel, an
epoch advance, an eviction or a crash can come there. An append can fail with its
record on the disk. A terminal record is evicted while a call still carries its
permit. A process may die between any two system calls, and a power loss keeps
any prefix of what was not synced. A PID comes back as another process. A reply
gets lost after the request was carried out. An operator's answer, a time limit and
a cancel reach a waiting call at the same time.

## 2. Modules

Each module's state and actions carry the names of the code; an action is one
stretch of code without an await or, where a death can come between two system
calls, one system call. `MC*` modules hold constants for TLC.

### CoreAuthority, OperationStates, AtMostOnceEffect

`OperationStates` has the states of one operation and the order the journal's
reader accepts. In `CoreAuthority`, `wal` and `walEpoch` are what a reopening
process would fold from the journal; `records`, `order`, `seen`, `leases`,
`fenced` are the registry's fields with `order` for `terminal_order`; `phase`,
`epoch`, `todo` are the process; `pc[o]` is where the calls that carry operation
`o`'s permit stand; `applied[o]` counts how often its effect reached the world and
is a history variable the code cannot read.

`Admit`, `PublishOperation`, `Authorize`, `RecordLease`, `MarkExecuting`,
`RejectRequest`, `DirectEffect`, `ToolReturns`, `MarkPrepared`, `Unstage` and
`FinishValue` walk `execute_published_tool`; `CommitEffect`, `BeginCommit`,
`Reserve`, `Dispatch`, `FinishEffect`, `SettleRejected` and `RollbackEffect` walk
the port; `AbandonPermit`, `CancelOperation`, `CancelAndAdvance` and
`AdvanceEpoch` are the calls RuntimeActor may make at any time; `Crash`, `Restart`,
`RestartFails`, `Reconcile` and `FinishStartup` are the process. Every append may
fail before and after the record reached the disk (`AppendFails`), and either
fences Core. `AtMostOnceEffect` is what Core promises, without records, registries
or processes.

Abstractions: ids, tools and arguments are integers of three kinds: read-only,
staged, and *direct* (a process or remote tool that acts while it runs, before any
commit). The approval verdict, what a tool returns, the broker's and the effect
body's answers are chosen freely. The tombstone filter is exact; in the code a
collision refuses an operation that was never seen, which loses availability only.
`Evidence`, what the journals say at startup, is truthful or says that it does not
know; which journal earns that is said below. RuntimeActor's own recovery fence
(`actor/tools.rs:2349-2357`) is left out, so Core is called more often than in the
program. `wal` is an atomic map; that a file can play this part is what
`OperationJournal` checks.

### OperationJournal

`lock`, `meta` and `wal` are the files `<base>.lock`, `<base>.meta.json` and the
WAL of each generation; `wal[g].synced` and `metaDurable` are what a power loss
must leave; `handle[p]` is a process's `FileOperationJournal` with its cached
recovery and its position between two system calls; `acked` and `tried` are
history; `held` is the last marker a checkpoint took.

Abstractions: a snapshot is its position in the operation's life; frames have one
size, so the byte limit counts frames; a digest is the truth it digests; the second
lock, on the WAL file itself, is left out, since the code calls it defence against
programs that do not use `open`. The file system is assumed to make a file's
earlier writes and its own directory entry durable at `sync_all`, and to rename
atomically. Whether syncing a file also commits earlier renames is the constant
`FileSyncCommitsRenames`.

`Reopenable` is about published journals: whichever metadata are left name a
readable file, and a journal that has confirmed anything keeps its metadata. A first
open that ends before its metadata are durable is outside of it; the WAL it leaves
is refused (`OpenRefused`, section 5).

### WorkspaceTransaction

One transaction is an operation and a path. `disk` and `temp` are the targets and
the staging files, each with what a power loss would leave (`diskDurable`,
`tempDurable`); `wal` and `mem` are the effect journal and the process's fold of it.
A patch leases its paths in key order (`Lock`), snapshots, and per target journals
its intent, creates and fills the staging file (`Intent`, `Create`, `Stage`); the
commit checks, renames, verifies, syncs, journals and acknowledges each child
(`Check` ... `Acknowledge`); a directory whose sync failed is removed and then the
removal synced (`Uncreate`, `SyncRemoval`); `Unwind`, `Cleanup` and `RollBack` walk
back; `Inspect`, `Clean`, `Mark`, `Conclude` and `Close` are reconciliation at startup, which can
itself fail or die. `ForeignWrite` is a program that takes no lease.

Abstractions: contents stand for their digests and an entry's `by` for its inode;
path confinement, artifacts, permissions and review text are left out; Core is
reduced to the set of its open operations and its fence. Writing a staging file and
syncing it, and removing it and syncing that, are one step each: the failing
outcomes of the step, and deaths before and after it, leave the same files, and no
property tells them apart.

The directory sync (`DirSynced`) is the Unix branch of `ConfinedDir::sync_all`
(`agent-workspace/src/confined.rs:166-177`). The Windows branch returns `Ok(())`, a
power-loss window the repository documents (`confined.rs:162-165`,
`docs/ARCHITECTURE.md:211-213`, `848-851`). What is said here of power losses holds
for Unix only; what is said of process deaths holds for both.

`EvidenceIsTrue` discharges `CoreAuthority`'s assumption on `Evidence` for files,
and for directories with one exception: once a call has failed, `NotApplied` says
nothing about a created directory (section 5).
`DurabilityFailed` is true only once the commit had started, which is when Core asks
for it to matter.

### ProcessSupervision

`os` is the process table with PIDs that come back and creation identities that do
not. An invocation is a shell, an exec tool, a session or a host proof; it spawns,
takes a lease in the host-child ledger, records the spawn, reaps and records the
exit (`Spawn`, `Lease`, `RecordSpawn`, `Reap`, `RecordExit`), or is aborted, polled
after its end or stopped after its end. `Restart` walks the ledger, reconciles open
operations and looks for orphans (`LedgerVisit`, `ReconcileVisit`, `OrphanVisit`,
each with its signal as a step of its own). Identity is compared before a signal;
`PinsPid` says that a handle keeps the PID from coming back in between (Windows).

Abstractions: output, time limits and the process group are left out; the ledger is
a set of rows; the remote journal is not modelled. A child that Windows cannot
resume after its lease (`tools/process.rs:1080-1103`) is killed without a record and
without a sticky failure; the closest action is `RecordSpawnFails`.

### EffectBroker

Two brokers share the reservation journal: `journaled` appends in process,
`process` asks a coordinator over an RPC that may time out after the work was done.
`Call`, `Handle`, `Timeout` and `ReserveReturns`, `DispatchReturns`, `AckReturns`
are the three broker calls, `Apply` the effect, `FinishRecorded` and `FinishFailed`
Core's terminal. A failed acknowledgement leaves a debt and a fence in the actor.
`Capture` takes a checkpoint, at a safe point of a turn even while fenced and by an
idle actor only without a fence; `PrepareRestore`, `PrepareRestoreFails` and
`FinalizeRestore` are the two phases of restore; `ReconcileEffect` is startup. The
ghost `owed` has the debts nobody reconciled, `known` those of the history the
actor's present state stems from.

Abstractions: the record format and the coordinator's framing are left out; one
effect is in flight at a time, as the actor runs one tool at a time; context, task
and capability data of a checkpoint are absent. The actor keeps only its newest
eight debts (`actor/tools.rs:2341-2347`), which is left out: a debt fences the
effects that could add more.

`TerminalIsTrue` and `BrokerEvidenceIsTrue` discharge `CoreAuthority`'s assumption
for brokered effects. For process tools it does not hold: finding 2.

### ApprovalGate

`book`, `expires` and `used` are the standing grants; a call reads the clock
(`Authorize`), matches and counts under the lock (`Match`), and otherwise asks the
gate below: a fixed policy (`AskPolicy`), or an operator (`Ask`, `Push`, then
`Answered` or `GiveUp`, `DropSender`, `Unlist`). `Respond`, `RespondRemoves`,
`RespondSends` are the operator's answer with its awaits, and `RespondDropped` the
work-control deadline that cuts it short. `by` and `through` are history.

Abstractions: a call makes one request; the scope test is the relation `Covers`; a
cancel and the answer timer are one step, `GiveUp`, since they have the same
effect; calls whose specification is read-only never get here; the clock does not
go backwards; the audit ring and the shadow verdict are left out. Establishing and
listing grants read the clock before they lock the book (`approval.rs:327`, `349`);
in the model the two are one step, since every match tests the expiry again. In
the run every call that is not a poll is in the grant's scope, a fourth call being
too much for TLC; that nothing outside it is let through is the theorem
`GateEnvelope`.

## 3. What TLC checks

| Run | Instance | Properties |
|---|---|---|
| `core_safety` | a staged, a direct and a read-only operation, two registry slots, epochs up to 3, a broker that may refuse (1.4 M states) | `JournalFirst`, `NoEffectBeforeCommit`, `AppliedIsTrue`, `DeadGenerationIsStale`, `JournalStaysReadable`, and the refinement of `AtMostOnceEffect` |
| `core_liveness` | two operations, capacity 3, epochs up to 5, a broker that does not refuse (211 k) | `OpenIsOwned`, `UnknownOutcomeFences`, `CoreProgress` |
| `journal_safety` | two processes, two operations of two records, four generations, 3 frames, one remembered ancestor (338 k) | `RecoveredTruth`, `NoStaleWriter`, `CacheIsFile`, `Reopenable`, `MarkerStaysValid` |
| `workspace_safety` | two patches of one or two of two paths, one failing call, two deaths or power losses (815 k) | `EvidenceIsTrue`, `ReceiptIsTrue`, `StagingIsMapped`, `LeaseProtectsSnapshot`, `CrashIsDecidable`, `OperationEnds` |
| `workspace_foreign` | a write and a directory creation on one path, a foreign writer, a full journal, one failing call, two deaths or power losses (1.5 M) | `EvidenceIsTrue`, `NoLostUpdate` |
| `process_supervision` | a session, an exec tool and a proof, two PIDs, three processes, two crashes, faults (4.3 M) | `ExitIsItsOwnButSessions`, `NoSupervisedLeftover`, `LeaseCoversChild`, `RecoverySparesOthers` |
| `effect_broker` | two effects, one unknown to the reconciler, both brokers, 5 records, two checkpoints, two crashes (375 k) | `BrokerEvidenceIsTrue`, `TerminalIsTrue`, `DebtHoldsFence`, `CallsReturn` |
| `approval_gate` | two process calls and a poll, a grant of one run, three gates below, one tick (350 k) | `AllowIsConsented`, `NoRequestLeaks`, `GrantEnvelope`, `AuthorizeReturns` |
| `core_unknown_evicted`, `process_spawn_gap`, `effect_broker_debt`, `approval_delivered` | see section 5 | what a comment says and the code does not do |

Every passing run but the two whose module's `TypeOK` another run has checks it
too.

Why these bounds are enough to be interesting. Core's operations interact only
through the registry's slots, the epoch and the journal; two show every pairwise
race and the third with two slots makes an eviction happen under a call in flight.
An epoch is one process life or one advance. In the journal, two processes let one
open while the other compacts; three frames make the file fill during ordinary
appends; four generations with one remembered ancestor make an ancestor fall out.
Two patches over two paths, named in either order, are what a lock-order deadlock
and a half-committed composite need; two deaths let the second one hit recovery.
Two PIDs for three processes force a PID to come back while a row names it. Five
journal records for two effects of three frames put the record limit in the middle
of the second one. One run and two process calls make the cap contested, and one
tick lets the grant expire between a call's clock reading and its match.
`MaxEpoch`, `MaxGen`, `MaxVer`, `MaxBorn`, `MaxTime`, `MaxCheckpoints`, `MaxFaults`,
`MaxForeign` and `MaxCrashes` are bounds of the models; `Capacity`, `MaxRecords`,
`MaxFrames` and `MaxAncestors` are limits of the code at a small value.

Deadlock is checked only for the operation journal, where a process can always exit
or reopen. Elsewhere everything may be settled at a bound with nothing left to do;
that nobody waits for ever is what the liveness properties say instead.

Fairness, and why the code justifies it:

- Core: weak fairness of `Reserve`, `Dispatch` and `FinishEffect`, and of the
  startup loop. RuntimeActor awaits `commit_effect` in line
  (`actor/tools.rs:1248-1264`), without a select or an abort that could drop it; the
  effect body is a local file commit of which it is assumed that it returns; startup
  is a finite loop in `try_new`. Nothing is assumed of RuntimeActor's calls, crashes
  or restarts, so `CoreProgress` allows a fence or a crash as the way out.
- Workspace: a tool that started, a commit and a recovery pass run; a prepared
  effect is committed or rejected. A lock is taken as soon as it is free for the
  caller, by weak fairness: no queue order is assumed.
- Broker: the in-process journal answers; the coordinator need not, but the clock
  of the RPC runs. Startup is a loop.
- Approval: the runtime polls a call that can move, and the answer timer runs.
  Nothing is assumed of operators.

## 4. What is proved

`CoreAuthorityProofs`, for every finite set of integer ids, every capacity and
epoch bound above zero, every choice of read-only and direct ids, and a broker
that may or may not refuse:

- `TypeCorrect`: `Spec => []TypeOK`.
- `EffectSafety`: `JournalFirst`, `AtMostOnce`, `NoEffectBeforeCommit` and
  `AppliedIsTrue` are invariants; `RegistryAnswersTruth`, `CommitBarrier` and
  `AppliedTruth` state three of them alone.
- `JournalReadable`: every append is one the journal's reader accepts.
- `CoreImplementsAtMostOnce`: `CoreAuthority` implements `AtMostOnceEffect`, with
  durable records mapped to the truth about an effect.

The inductive invariant is `TypeOK /\ EffectInv`. None of the safety properties is
inductive alone. `AtMostOnce` needs to know that a call which may dispatch has
applied nothing yet (`CallInv`), which at admission needs that a record once applied
is still refused after its eviction, and that is the absent case of `JournalFirst`,
which in turn needs the filter to cover every retained record (`SeenInv`).
`NoEffectBeforeCommit` needs that a claimed slot is claimed in the registry *and*
durably (`CallInv`), so that a cancel, which looks only at the registry, cannot deny
it. `JournalReadable` needs that the effect id appears with `Executing` and stays
(`ShapeInv`), for the reader compares it. `PhaseInv` lets a restart begin from the
journal alone. The proof has one lemma per action, and the facts they share (what a
publication, an insertion with eviction, a failed append and a cancel preserve) are
lemmas of their own.

`EffectBrokerProofs`, for every set of effects, both brokers and every bound:

- `BrokerTypes`, `EvidenceTruth` (`BrokerEvidenceIsTrue`), `TerminalTruth`
  (`TerminalIsTrue`) from `JournalInv`: what each step of a commit implies about the
  journal's frame, the process's fold, Core's record and the target. The fold is
  the disk unless the journal is broken: a frame that landed although its append
  failed, or whose reply was lost, stops every later append of that process, and
  this is what makes it harmless.
- `DebtFence` (`DebtHoldsFence`) from `DebtInv`: every debt of the actor's lineage
  that is still owed is among its live debts, and each checkpoint carries the debts
  of its own lineage, so that restoring it brings them back.

`ApprovalGateProofs`, for every finite set of calls, every set of grants, every
scope and cap, and all three gates below:

- `GateConsent` (`AllowIsConsented`), `GateLeaksNothing` (`NoRequestLeaks`),
  `GateEnvelope` (`GrantEnvelope`), all from `GateInvariant`. `GateInv` adds to the
  properties what a call's position says about its request and its answer
  (`CallInv`: a sender is taken at most once, and the channel holds what that one
  sender sent) and that a grant's counter is the number of processes it let through
  (`GrantInv`, which needs the test of the cap and the count to be one step).

`GateTypes` states the type invariant of the gate alone.

`CoreRecoveryProofs` goes on from `CoreAuthorityProofs`, with `RecoveryInv`:

- `DeadGenerationFenced` (`DeadGenerationIsStale`): needs that neither the process
  nor any record is ahead of the journal's epoch (`GenerationInv`).
- `OpenOperationsOwned` (`OpenIsOwned`), for `~BrokerMayRefuse`: needs *which* call
  answers for each open tag (`Owns`), and that during startup every open operation is
  still on the list of the pass (`OwnerInv`). With a broker that refuses it is false,
  section 5.
- `UnknownOutcomesFence` (`UnknownOutcomeFences`), for `Cardinality(OpId) < Capacity`:
  otherwise it is false, finding 1.

`OperationJournalProofs`, for every set of processes and ids and all limits, from
`JournalInv`:

- `JournalTypes`, `OneWriter` (`NoStaleWriter`), `CacheMatchesFile` (`CacheIsFile`),
  `JournalReopens` (`Reopenable`: published journals, the first open excluded),
  without further assumptions;
- `ConfirmedSurvives` (`RecoveredTruth`) and `MarkersProvable` (`MarkerStaysValid`),
  for `FileSyncCommitsRenames`: otherwise they are false, section 5.

The invariant speaks of the published metadata and of those a power loss leaves at
once: each names a readable file (`Named`), has everything confirmed synced in that
file and nothing in it that was not tried (`Backed`), and proves the marker that was
taken (`Marked`); `Caches` ties a handle to its file in the middle of an append and
of a compaction. What a file folds to is `Recover`, a recursive function, and the
facts needed of it (a fold of an extended file, of a prefix, of a compacted file) are
inductions over the frames. The library's induction theorems cannot be used, because
the provers do not instantiate their operator parameter, so each induction is a
minimal counterexample: the set of lengths that fail, if not empty, has a least
element (`LeastNat`, from the well-foundedness of `<`).

`ProcessSupervisionProofs`, for every set of invocations and PIDs, every kind of
tool, with and without reuse of PIDs, unreadable identities and faults, from
`SupervisionInv`:

- `SupervisionTypes`, `ExitIsItsOwn` (`ExitIsItsOwnButSessions`),
  `StartupLeavesNoChild` (`NoSupervisedLeftover`), `LeaseCovers`
  (`LeaseCoversChild`); `RecoverySpares` (`RecoverySparesOthers`) for
  `PinsPid \/ ~Reuse`, without which it is false (section 5).

The central part is `CoverInv`: a child that the next startup must find is in the
ledger or has an open spawn record, and what each stage of startup has already
looked at names no live child. It rests on creation identities being unique
(`IdentityInv`), on records being about the invocation's own child (`EvidenceInv`),
and on there being one open spawn per PID (`OpenInv`), which is what makes closing
records by PID harmless.

`WorkspaceTransactionProofs`, for every set of operations, paths and contents, every
journal limit and any number of failing calls, deaths, power losses and foreign
writes, from `WorkspaceInv`:

- `WorkspaceTypes`, `StagingMapped` (`StagingIsMapped`), `LeaseProtects`
  (`LeaseProtectsSnapshot`), `ReceiptsTrue` (`ReceiptIsTrue`), and the action
  property `UpdatesKept` (`NoLostUpdate`).

`OpInv` says, per operation, what its position implies: the leases it holds, which
targets are staged, committed, undone or untouched, what the child at hand looks
like, and what has been reported. A step of one operation keeps to its own
transactions and its leased paths (`OwnStep`), so it preserves what is said of the
others (`Onlooker`, `Bystander`); for the operation itself there is one lemma per
action.

`WorkspaceRecoveryProofs`, from `RecoveryInv`, with the same generality:

- `EvidenceTrue` (`EvidenceIsTrue`): what startup answers is true, now and after a
  power loss, except that `NotApplied` does not speak of a created directory once a
  call has failed (section 5 shows that it could not);
- `CrashDecidable` (`CrashIsDecidable`): startup can decide whatever a death or a
  power loss interrupted.

That a verdict is true takes more than the files of the operation it is about. At
most one commit is without a terminal record, across any number of restarts, because
Core stays fenced over it (`OneUnfinished`, `CoreInv`); so nobody else replaces its
targets before it is settled, and each is the snapshot or its own entry, in memory and
on the disk, as the journal says (`PlacedInv`). For the snapshot to be what a power
loss brings back, a commit must start from targets whose content is synced
(`SyncedInv`), which holds because a commit that leaves an unsynced entry ends in an
outcome that fences Core. `FoldInv` ties the process's fold to the file, `ChildrenInv`
says what is recorded of the children still to be dealt with, and `ClaimInv` that a
verdict stays true while recovery is still removing staging files and recording
rollbacks. A created directory is removed again only over a failed call (`SpentInv`),
and its removal may be lost. Everything the invariant says of an entry therefore
allows for a directory that is back behind its transaction's record, once a call has
failed (`Odd`, `OddBoth`, `Returned`); the allowance is for entries that are
directories, so what is claimed of files stands. Without a failed call nothing is odd,
and `NotApplied` holds for directories too.

Only model-checked: the liveness properties (`CoreProgress`, `OperationEnds`,
`CallsReturn`, `AuthorizeReturns`), since fairness is out of the prover's reach.
`CrashIsDecidable` makes no claim about directories.

## 5. Findings

Four runs exhibit a disagreement between the code and what the repository says:

1. `core_unknown_evicted`: recovery evicts terminals down to capacity before the
   startup pass looks for unknown outcomes, so one that was evicted installs no
   fence, although `agent-core/src/kernel/mod.rs:182-184` says unknown outcomes do.
   `core_liveness` has a capacity above the number of operations for this reason.
2. `process_spawn_gap`: the child is started before its spawn record is written
   (`tool-runtime/src/tools/shell.rs:310-317`); a crash in between makes
   reconciliation answer "process never spawned"
   (`agent-workspace/src/process_journal.rs:236`) for a child that ran.
3. `effect_broker_debt`: `restore.rs:77` installs a checkpoint's debts before the
   restore is certain, because "any restore failure path fences mutation anyway";
   a restore the context engine refuses leaves the debts and raises no fence.
4. `approval_delivered`: `approval.rs:139` ignores whether its answer found a
   receiver and reports success; the platform protocol (`work.rs:1351`) says that
   the waiter received the decision. The call is denied, so nothing runs.

Met while modelling, and not runs of their own:

- A broker that refuses a reservation leaves the operation `CommitStarted` in an
  unfenced Core until the next start, although `port.rs:192-195` says it is settled
  as not applied. `core_liveness` assumes a broker that does not refuse.
- A `Cancelled` record can be evicted while its staged effect is outstanding; the
  later rollback fences Core (`port.rs:940`).
- A process that dies in the very first open of the operation journal, after the
  WAL is created and before the metadata is published, leaves a journal that every
  later open refuses (`agent-storage/src/lib.rs:184`). Compaction keeps every
  operation, so a journal of 65,535 operations refuses later appends (`:669`). With
  `FileSyncCommitsRenames = FALSE`, a power loss undoes a metadata rename whose
  directory sync failed, and with it the appends confirmed since.
- After a rollback, a later writer of the path makes recovery answer `Ambiguous`
  where nothing was applied; a staging file that was removed may come back after a
  power loss, behind a `RolledBack` record (`agent-workspace/src/journal.rs:973`).
- `NotApplied` can be false of a created directory. Its sync reports an error although
  it took effect (`agent-workspace/src/lib.rs:1966`); `remove_created` removes the
  directory (`:1861`), and the process dies before it syncs the parent (`:1871`).
  Recovery finds the directory missing and records `RolledBack`; it syncs the removal
  of staging files only (`journal.rs:1131-1146`). A power loss brings the directory
  back, and the next start answers `NotApplied`, since `journal.rs:1049` says that "a
  rolled-back directory effect durably proves that this transaction did not leave a
  directory behind". One failing call is enough: this is the exception in
  `EvidenceIsTrue`, and without it TLC finds exactly these steps in
  `workspace_foreign`.
- A poll or stop of a finished session can close the exit record of another child
  that has its PID by now (`tool-runtime/src/tools/session.rs:776`); this is the
  exception in `ExitIsItsOwnButSessions`. An abort after the reap signals a PID that
  is free. Without a pinned PID (Unix), recovery compares the identity and then
  signals, and the PID may change owner in between
  (`agent-process/src/lifecycle.rs:144`); the run has `PinsPid = TRUE`.
- Restoring an older checkpoint, or restarting without one, forgets a debt. The
  process broker never answers for a single effect id, so its debts never resolve. A
  debt whose acknowledgement never reached the journal stays ambiguous for ever. A
  composition uses the broker without a journal unless it opts in
  (`agent-compose/src/lib.rs:1018-1023`).
- The gate reads the clock before it locks the grants (`approval.rs:555`), so a
  grant that expired while the call waited for the lock still matches, although
  `:557` says that an expired grant never does; `GrantEnvelope` states what holds.
  The reason `GrantExhausted` is computed before the operator is asked and may be
  stale when the denial is returned.

## 6. Not modelled, and what is next

- RuntimeActor's turns, tool calls and stale completions. The models let it make
  its calls in any order, which covers more than it does; what is missing is that it
  drops what it should and that a cancelled turn leaves nothing behind.
- The event journal: rows sit in a buffer until a flush barrier
  (`agent-storage/src/lib.rs:1671`), and nothing that is modelled reads them back.
- Task and execution state, capability and plugin admission (they reach Core as a
  rejected commit), the process host's framing, deadlines and restart circuit.
- The remote journal, path confinement, artifacts.
- Context engine, tool bodies, providers, hosts, the desktop client and
  evaluation: data and I/O around the contracts modelled here. With them the
  repository has some 340,000 lines; the map covers the few thousand that carry the
  authority over effects, and it will stay a small share of the whole.

Worth doing next: `EvidenceIsTrue` without its exception, once recovery syncs the
parent of a directory it finds gone; the remote journal; and RuntimeActor's handling of stale completions, as a module that
composes with `CoreAuthority`.
