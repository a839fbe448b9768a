------------------------- MODULE OperationJournal -------------------------
(***************************************************************************)
(* FileOperationJournal (agent-storage/src/lib.rs): the write-ahead file   *)
(* below CoreAuthority's `wal`.  Processes open it under a lifecycle lock, *)
(* append one record at a time behind a stable-storage barrier, and        *)
(* compact it into the next generation, whose publication is a metadata    *)
(* rename.  A process may die between any two system calls, and the        *)
(* machine may lose power, keeping of every file what was synced and any   *)
(* prefix of the rest.                                                     *)
(*                                                                         *)
(* An operation snapshot is its position in the operation's life, 1 being  *)
(* the first record (Accepted, or a cancellation reservation).  All frames *)
(* have one size, so the byte capacity is a number of frames.  The digest  *)
(* of a checkpoint marker is the truth it digests, and the one journal id  *)
(* is left out.  The second lock, on the WAL file itself, is defence       *)
(* against programs that do not open the journal through `open`.           *)
(*                                                                         *)
(* Assumed of the file system: a successful sync_all makes every earlier   *)
(* write of that file, and the file's own directory entry, durable; a      *)
(* rename is atomic.                                                       *)
(***************************************************************************)
EXTENDS Integers, Sequences, FiniteSets, FiniteSetsExt

CONSTANTS
    Proc,           \* processes (or handles of one process)
    NoProc,         \* the lock is free
    Id,             \* operation ids
    MaxVer,         \* bound on the records of one operation
    MaxEpoch,       \* bound on the authority epoch
    MaxGen,         \* bound on compactions
    MaxRecords,     \* MAX_OPERATION_JOURNAL_RECOVERY_RECORDS
    MaxFrames,      \* MAX_OPERATION_JOURNAL_FILE_BYTES, in frames
    MaxAncestors,   \* MAX_AUTHORITY_JOURNAL_ANCESTORS
    TakesMarkers,   \* whether Runtime takes checkpoint markers
    FileSyncCommitsRenames  \* syncing a file also commits earlier renames,
                            \* as on a journaling file system

ASSUME ProcAssumption == NoProc \notin Proc
ASSUME IdAssumption == Id \subseteq Nat /\ IsFiniteSet(Id)
ASSUME LimitAssumption ==
    /\ {MaxVer, MaxEpoch, MaxGen, MaxRecords, MaxFrames, MaxAncestors} \subseteq Nat \ {0}
    /\ {TakesMarkers, FileSyncCommitsRenames} \subseteq BOOLEAN

VARIABLES
    lock,         \* holder of <base>.lock
    meta,         \* <base>.meta.json as a reader sees it; gen 0: no file
    metaDurable,  \* what a power loss leaves of it
    wal,          \* the WAL file of each generation
    handle,       \* each process's FileOperationJournal
    acked,        \* history: the truth the last successful call confirmed
    tried,        \* history: ... advanced by every unconfirmed append since
    held          \* the last checkpoint marker Runtime took

vars == <<lock, meta, metaDurable, wal, handle, acked, tried, held>>

Gens == 1..MaxGen

NoOps == [i \in Id |-> 0]
NoMarker == [gen |-> 0, seq |-> 0, epoch |-> 0, ops |-> NoOps]
NoRecord == [kind |-> "none"]
NoMeta == [gen |-> 0, anc |-> <<>>]
NoWal == [exists |-> FALSE, frames |-> <<>>, synced |-> 0, torn |-> FALSE]

\* The transitions Core appends.
EpochAdvanced(from) == [kind |-> "epoch", from |-> from]
OperationUpsert(id, ver) == [kind |-> "upsert", id |-> id, ver |-> ver]
Compacted(prev) == [kind |-> "compacted", prev |-> prev]

-----------------------------------------------------------------------------
(* What a WAL file says *)

\* OperationJournalRecovery::default
EmptyRecovery == [epoch |-> 1, ops |-> NoOps, from |-> NoMarker, seq |-> 0, corrupt |-> FALSE]

\* valid_recovered_transition
Monotonic(ver, next) == next \in {ver, ver + 1}

\* Whether fold_operation_record accepts r; a compacted file starts with the
\* operations as they were.
FoldAccepts(rec, r) ==
    CASE r.kind = "epoch" -> rec.epoch = r.from
      [] r.kind = "upsert" ->
            IF rec.ops[r.id] = 0 THEN rec.from # NoMarker \/ r.ver = 1
                                 ELSE Monotonic(rec.ops[r.id], r.ver)
      [] r.kind = "compacted" -> rec.seq = 0

\* apply_cached_record, and the updates of fold_operation_record.
ApplyRecord(rec, r) ==
    CASE r.kind = "epoch" -> [rec EXCEPT !.epoch = r.from + 1, !.seq = @ + 1]
      [] r.kind = "upsert" -> [rec EXCEPT !.ops[r.id] = r.ver, !.seq = @ + 1]
      [] r.kind = "compacted" ->
            [rec EXCEPT !.epoch = r.prev.epoch, !.from = r.prev, !.seq = @ + 1]

FoldRecord(rec, r) == [ApplyRecord(rec, r) EXCEPT !.corrupt = @ \/ ~FoldAccepts(rec, r)]

\* recover_operation_file_until over the complete frames.
Recover(frames) ==
    LET upTo[n \in 0..Len(frames)] ==
            IF n = 0 THEN EmptyRecovery ELSE FoldRecord(upTo[n - 1], frames[n])
    IN  upTo[Len(frames)]

\* authority_checkpoint_marker
Marker(gen, rec) == [gen |-> gen, seq |-> rec.seq, epoch |-> rec.epoch, ops |-> rec.ops]

Truth(rec) == [epoch |-> rec.epoch, ops |-> rec.ops]

\* Truths only advance: the epoch and every operation's snapshot.
NoEarlier(t, u) == t.epoch >= u.epoch /\ \A i \in Id : t.ops[i] >= u.ops[i]

Join(t, u) == [epoch |-> Max({t.epoch, u.epoch}),
               ops |-> [i \in Id |-> Max({t.ops[i], u.ops[i]})]]

\* validate_recovered_generation
LineageMatches(gen, rec) ==
    IF gen = 1 THEN rec.from = NoMarker ELSE rec.from.gen + 1 = gen

\* Everything open requires of a published generation.
Readable(gen, w) ==
    LET rec == Recover(w.frames) IN
    /\ w.exists
    /\ Len(w.frames) <= MaxFrames /\ rec.seq <= MaxRecords
    /\ ~rec.corrupt
    /\ LineageMatches(gen, rec)

Remnants == {g \in Gens : wal[g].exists}

-----------------------------------------------------------------------------
(* The file system *)

\* Mutant: the barrier is skipped.
Synced_Skipped(w) == w

\* sync_all of a WAL file.
Synced(w) == [w EXCEPT !.synced = Len(w.frames)]

\* ... and what it does to a rename that was not synced yet.
SyncsRenames ==
    metaDurable' = IF FileSyncCommitsRenames THEN meta ELSE metaDurable

-----------------------------------------------------------------------------
(* Opening *)

Closed == [pc |-> "closed", rec |-> EmptyRecovery, gen |-> 0, anc |-> <<>>,
           pend |-> NoRecord, ready |-> FALSE]

Opened(rec, m) == [pc |-> "open", rec |-> rec, gen |-> m.gen, anc |-> m.anc,
                   pend |-> NoRecord, ready |-> FALSE]

At(p, pc) == handle[p].pc = pc
Goes(p, pc) == handle' = [handle EXCEPT ![p].pc = pc]

\* The handle is dropped, or open returned an error.
Leaves(p) ==
    /\ handle' = [handle EXCEPT ![p] = Closed]
    /\ lock' = IF lock = p THEN NoProc ELSE lock

\* Mutant: the lifecycle lock is not exclusive.
OpenLock_Shared(p) ==
    /\ At(p, "closed")
    /\ lock' = p /\ Goes(p, "locked")
    /\ UNCHANGED <<meta, metaDurable, wal, acked, tried, held>>

\* open_journal_lock, before any journal truth is read.
OpenLock(p) ==
    /\ At(p, "closed") /\ lock = NoProc
    /\ lock' = p /\ Goes(p, "locked")
    /\ UNCHANGED <<meta, metaDurable, wal, acked, tried, held>>

\* open returns RecoveryRequired: WAL files without metadata, or metadata
\* whose WAL is missing, corrupt, oversized or of another lineage.
OpenRefused(p) ==
    /\ At(p, "locked")
    /\ IF meta.gen = 0 THEN Remnants # {} ELSE ~Readable(meta.gen, wal[meta.gen])
    /\ Leaves(p)
    /\ UNCHANGED <<meta, metaDurable, wal, acked, tried, held>>

\* A first open: the generation-1 WAL is created and synced.
OpenCreateWal(p) ==
    /\ At(p, "locked") /\ meta.gen = 0 /\ Remnants = {}
    /\ wal' = [wal EXCEPT ![1] = [NoWal EXCEPT !.exists = TRUE]]
    /\ Goes(p, "creating")
    /\ UNCHANGED <<lock, meta, metaDurable, acked, tried, held>>

\* load_or_create_authority_metadata of a first open: published and synced;
\* renamed but the directory sync fails; or it fails before the rename.
OpenCreateMeta(p) ==
    LET first == [gen |-> 1, anc |-> <<>>] IN
    /\ At(p, "creating")
    /\ \/ /\ meta' = first /\ metaDurable' = first
          /\ handle' = [handle EXCEPT ![p] = Opened(EmptyRecovery, first)]
          /\ UNCHANGED lock
       \/ meta' = first /\ Leaves(p) /\ UNCHANGED metaDurable
       \/ Leaves(p) /\ UNCHANGED <<meta, metaDurable>>
    /\ UNCHANGED <<wal, acked, tried, held>>

\* open of a published journal; a torn final frame is cut off and synced.
OpenRecover(p) ==
    /\ At(p, "locked") /\ meta.gen # 0 /\ Readable(meta.gen, wal[meta.gen])
    /\ LET w == wal[meta.gen] IN
       /\ handle' = [handle EXCEPT ![p] = Opened(Recover(w.frames), meta)]
       /\ \/ /\ w.torn
             /\ wal' = [wal EXCEPT ![meta.gen] = Synced([w EXCEPT !.torn = FALSE])]
             /\ SyncsRenames
          \/ ~w.torn /\ UNCHANGED <<wal, metaDurable>>
    /\ UNCHANGED <<lock, meta, acked, tried, held>>

\* The handle is dropped or its process dies, at any point.
Exit(p) ==
    /\ ~At(p, "closed")
    /\ Leaves(p)
    /\ UNCHANGED <<meta, metaDurable, wal, acked, tried, held>>

-----------------------------------------------------------------------------
(* append_and_sync *)

\* validate_cached_record, for the records Core proposes within the bounds.
Appendable(rec) ==
    {r \in {EpochAdvanced(rec.epoch)} : rec.epoch < MaxEpoch}
      \cup {OperationUpsert(i, rec.ops[i] + 1) : i \in {j \in Id : rec.ops[j] < MaxVer}}

\* next_seq beyond the record limit, or the projected size beyond capacity.
Full(p) ==
    \/ handle[p].rec.seq + 1 > MaxRecords
    \/ Len(wal[handle[p].gen].frames) + 1 > MaxFrames

\* persist_operation_frame up to its sync: the frame is in the file, or the
\* write failed and left a torn tail, which fences the writer.
WriteFrame(p, r) ==
    LET g == handle[p].gen IN
    \/ /\ wal' = [wal EXCEPT ![g].frames = Append(@, r)]
       /\ handle' = [handle EXCEPT ![p].pc = "writing", ![p].pend = r]
       /\ tried' = Join(tried, Truth(ApplyRecord(handle[p].rec, r)))
       /\ held' = [held EXCEPT !.tip = FALSE]
    \/ /\ wal' = [wal EXCEPT ![g].torn = TRUE]
       /\ Goes(p, "failed")
       /\ UNCHANGED <<tried, held>>

\* A full file is compacted first.
AppendRecord(p) ==
    /\ At(p, "open")
    /\ \E r \in Appendable(handle[p].rec) :
          \/ ~Full(p) /\ WriteFrame(p, r)
          \/ /\ Full(p)
             /\ handle' = [handle EXCEPT ![p].pc = "compacting", ![p].pend = r]
             /\ UNCHANGED <<wal, tried, held>>
    /\ UNCHANGED <<lock, meta, metaDurable, acked>>

\* The stable-storage barrier, then the cached truth; or a sync failure,
\* which fences the writer and leaves the frame's fate open.
AppendSync(p) ==
    LET g == handle[p].gen
        rec == ApplyRecord(handle[p].rec, handle[p].pend) IN
    /\ At(p, "writing")
    /\ \/ /\ wal' = [wal EXCEPT ![g] = Synced(@)]
          /\ SyncsRenames
          /\ handle' = [handle EXCEPT ![p].pc = "open", ![p].rec = rec,
                                      ![p].pend = NoRecord, ![p].ready = TRUE]
          /\ acked' = Truth(rec) /\ tried' = Truth(rec)
       \/ Goes(p, "failed") /\ UNCHANGED <<wal, metaDurable, acked, tried>>
    /\ UNCHANGED <<lock, meta, held>>

\* The single retry after a compaction: it fits, or it is refused and the
\* writer stays healthy.  With one frame size only the limit that filled the
\* file can still be exceeded, so the retries of both limits are one action.
AppendRetry(p) ==
    /\ At(p, "retrying")
    /\ \/ ~Full(p) /\ WriteFrame(p, handle[p].pend)
       \/ /\ Full(p)
          /\ handle' = [handle EXCEPT ![p].pc = "open", ![p].pend = NoRecord]
          /\ UNCHANGED <<wal, tried, held>>
    /\ UNCHANGED <<lock, meta, metaDurable, acked>>

-----------------------------------------------------------------------------
(* compact_locked *)

\* The (one) order in which compaction lists the operations S.
SortedIds(S) == {s \in [1..Cardinality(S) -> S] : \A i, j \in DOMAIN s : i < j => s[i] < s[j]}

\* The file of generation gen + 1: a baseline and every operation.
CompactedRecords(gen, rec, ids) ==
    <<Compacted(Marker(gen, rec))>>
      \o [k \in DOMAIN ids |-> OperationUpsert(ids[k], rec.ops[ids[k]])]

Compactions(gen, rec) ==
    {CompactedRecords(gen, rec, ids) : ids \in SortedIds({i \in Id : rec.ops[i] > 0})}

\* Mutant: a saturated compaction is not refused.
RecoverableLength_Unchecked(records) == TRUE

\* A longer WAL could not be opened again.
RecoverableLength(records) == Len(records) <= MaxRecords

\* compact, which Core calls; of an empty journal it does nothing.
Compact(p) ==
    /\ At(p, "open") /\ handle[p].rec.seq > 0
    /\ Goes(p, "compacting")
    /\ UNCHANGED <<lock, meta, metaDurable, wal, acked, tried, held>>

\* The candidate of the next generation: refused by the record limit before
\* any file is touched; written and synced; or left behind unpublished by
\* the byte limit or an I/O failure.  Only the name of such a leftover counts:
\* the next compaction clears it.
CompactWrite(p) ==
    LET next == handle[p].gen + 1
        healthy == [handle EXCEPT ![p].pc = "open", ![p].pend = NoRecord] IN
    /\ At(p, "compacting") /\ next \in Gens
    /\ \E records \in Compactions(handle[p].gen, handle[p].rec) :
          \/ /\ ~RecoverableLength(records)
             /\ handle' = healthy /\ UNCHANGED <<wal, metaDurable>>
          \/ /\ RecoverableLength(records) /\ Len(records) <= MaxFrames
             /\ wal' = [wal EXCEPT ![next] = Synced([NoWal EXCEPT !.exists = TRUE, !.frames = records])]
             /\ SyncsRenames
             /\ Goes(p, "candidate")
          \/ /\ RecoverableLength(records)
             /\ wal' = [wal EXCEPT ![next] = [NoWal EXCEPT !.exists = TRUE]]
             /\ handle' = healthy /\ UNCHANGED metaDurable
    /\ UNCHANGED <<lock, meta, acked, tried, held>>

\* Mutant: the superseded tip is not remembered.
NextAncestors_Dropped(p) == handle[p].anc

\* Mutant: the ancestor list is not drained.
NextAncestors_Unbounded(p) ==
    Append(handle[p].anc, Marker(handle[p].gen, handle[p].rec))

\* The newest MaxAncestors generation tips.
NextAncestors(p) ==
    LET all == Append(handle[p].anc, Marker(handle[p].gen, handle[p].rec)) IN
    IF Len(all) > MaxAncestors THEN SubSeq(all, Len(all) - MaxAncestors + 1, Len(all)) ELSE all

\* The writer after a successful publication.
Swapped(p, m) ==
    [handle[p] EXCEPT !.pc = IF handle[p].pend = NoRecord THEN "open" ELSE "retrying",
                      !.gen = m.gen, !.anc = m.anc, !.ready = TRUE,
                      !.rec = [@ EXCEPT !.seq = Len(wal[m.gen].frames),
                                        !.from = Marker(handle[p].gen, handle[p].rec)]]

\* Mutant: an uncertain publication leaves the writer on the old generation.
AfterUncertainPublish_Healthy(p) == [handle[p] EXCEPT !.pc = "open", !.pend = NoRecord]

\* A directory sync that fails after the rename fences the writer.
AfterUncertainPublish(p) == [handle[p] EXCEPT !.pc = "failed"]

\* persist_authority_metadata and what follows: published, swapped and the
\* old WAL removed if that succeeds (a leftover's bytes are never read
\* again, so only its name is kept); renamed but not synced; or failed
\* before the rename, which leaves the writer healthy on the old generation.
CompactPublish(p) ==
    LET old == handle[p].gen
        next == [gen |-> old + 1, anc |-> NextAncestors(p)] IN
    /\ At(p, "candidate")
    /\ \/ /\ meta' = next /\ metaDurable' = next
          /\ handle' = [handle EXCEPT ![p] = Swapped(p, next)]
          /\ \E left \in BOOLEAN : wal' = [wal EXCEPT ![old] = [NoWal EXCEPT !.exists = left]]
          /\ acked' = Truth(handle[p].rec) /\ tried' = Truth(handle[p].rec)
       \/ /\ meta' = next
          /\ handle' = [handle EXCEPT ![p] = AfterUncertainPublish(p)]
          /\ UNCHANGED <<metaDurable, wal, acked, tried>>
       \/ /\ handle' = [handle EXCEPT ![p].pc = "open", ![p].pend = NoRecord]
          /\ UNCHANGED <<meta, metaDurable, wal, acked, tried>>
    /\ UNCHANGED <<lock, held>>

-----------------------------------------------------------------------------
(* Checkpoint markers and power loss *)

\* Runtime takes a marker into a checkpoint.  Core lets it only after its
\* startup epoch record was appended.
TakeMarker(p) ==
    /\ TakesMarkers /\ At(p, "open") /\ handle[p].ready
    /\ held' = [marker |-> Marker(handle[p].gen, handle[p].rec), tip |-> TRUE]
    /\ UNCHANGED <<lock, meta, metaDurable, wal, handle, acked, tried>>

\* validate_authority_checkpoint_marker
Validates(p, m) ==
    LET h == handle[p] IN
    IF m.gen = h.gen
    THEN /\ m.seq <= h.rec.seq /\ m.epoch <= h.rec.epoch
         /\ Marker(h.gen, Recover(SubSeq(wal[h.gen].frames, 1, m.seq))) = m
    ELSE \E k \in DOMAIN h.anc : h.anc[k] = m

\* What may be left of a WAL: the synced frames and any prefix of the rest.
Survivors(w) ==
    UNION {{[exists |-> w.exists, frames |-> SubSeq(w.frames, 1, n), synced |-> n, torn |-> torn] :
              torn \in IF w.torn \/ w.synced < Len(w.frames) THEN BOOLEAN ELSE {FALSE}} :
            n \in w.synced..Len(w.frames)}

\* The machine stops.  An unsynced rename may be undone.
PowerLoss ==
    LET dirty == {g \in Gens : wal[g].torn \/ wal[g].synced < Len(wal[g].frames)} IN
    /\ lock' = NoProc /\ handle' = [p \in Proc |-> Closed]
    /\ \E m \in {meta, metaDurable} : meta' = m /\ metaDurable' = m
    /\ \E w \in [dirty -> UNION {Survivors(wal[g]) : g \in dirty}] :
          /\ \A g \in dirty : w[g] \in Survivors(wal[g])
          /\ wal' = [g \in Gens |-> IF g \in dirty THEN w[g] ELSE wal[g]]
    /\ UNCHANGED <<acked, tried, held>>

-----------------------------------------------------------------------------
\* An empty directory.
Init ==
    /\ lock = NoProc /\ meta = NoMeta /\ metaDurable = NoMeta
    /\ wal = [g \in Gens |-> NoWal]
    /\ handle = [p \in Proc |-> Closed]
    /\ acked = Truth(EmptyRecovery) /\ tried = Truth(EmptyRecovery)
    /\ held = [marker |-> NoMarker, tip |-> FALSE]

Step(p) ==
    \/ OpenLock(p) \/ OpenRefused(p) \/ OpenCreateWal(p) \/ OpenCreateMeta(p)
    \/ OpenRecover(p) \/ Exit(p)
    \/ AppendRecord(p) \/ AppendSync(p) \/ AppendRetry(p)
    \/ Compact(p) \/ CompactWrite(p) \/ CompactPublish(p) \/ TakeMarker(p)

Next == (\E p \in Proc : Step(p)) \/ PowerLoss

Spec == Init /\ [][Next]_vars

-----------------------------------------------------------------------------
(* Properties *)

Recoveries == [epoch : 1..MaxEpoch, ops : [Id -> 0..MaxVer], seq : 0..MaxRecords, corrupt : {FALSE},
               from : [gen : 0..MaxGen, seq : 0..MaxRecords, epoch : 0..MaxEpoch, ops : [Id -> 0..MaxVer]]]

\* Every handle holds a recoverable truth, and neither it nor the metadata
\* remembers more than MaxAncestors generation tips.
TypeOK ==
    /\ lock \in Proc \cup {NoProc}
    /\ \A m \in {meta, metaDurable} : m.gen \in 0..MaxGen /\ Len(m.anc) <= MaxAncestors
    /\ \A g \in Gens : wal[g].synced \in 0..Len(wal[g].frames) /\ wal[g].torn \in BOOLEAN
    /\ \A p \in Proc : /\ handle[p].rec \in Recoveries
                       /\ Len(handle[p].anc) <= MaxAncestors

\* Processes that believe they may append.
Writer(p) == handle[p].pc \in {"open", "writing", "retrying", "compacting", "candidate"}

\* "every successful append crosses an OS stable-storage barrier" (the type's
\* doc): whatever crashes, torn tails, compactions and failed syncs came in
\* between, a journal opens with everything the last successful call
\* confirmed, and with nothing that was not appended since.
RecoveredTruth ==
    \A p \in Proc : Writer(p) =>
        NoEarlier(Truth(handle[p].rec), acked) /\ NoEarlier(tried, Truth(handle[p].rec))

\* The writer-identity contract: no healthy writer holds a generation other
\* than the one the published metadata names, and there is one writer.
NoStaleWriter ==
    \A p \in Proc : Writer(p) =>
        handle[p].gen = meta.gen /\ \A q \in Proc \ {p} : ~Writer(q)

\* recover() answers from a cache that append and compact maintain by hand:
\* it is what a fresh read of the file would say.
CacheIsFile ==
    \A p \in Proc : handle[p].pc = "open" =>
        LET w == wal[handle[p].gen] IN
        ~w.torn /\ Recover(w.frames) = handle[p].rec

\* Nothing a writer, a crash or a power loss does makes a published journal
\* unreadable, whichever metadata are left (the saturation check and the
\* order of compact_locked); durable metadata are not lost, and a journal
\* that has confirmed anything has them.  Excluded is a first open that ends
\* before its metadata are durable: open refuses the WAL it leaves.
Reopenable ==
    /\ \A m \in {meta, metaDurable} : m.gen # 0 => Readable(m.gen, wal[m.gen])
    /\ metaDurable.gen # 0 => meta.gen # 0
    /\ FileSyncCommitsRenames /\ acked # Truth(EmptyRecovery) => metaDurable.gen # 0

\* A checkpoint's marker stays provable: while its generation lives, and for
\* MaxAncestors compactions if nothing was written after it.
MarkerStaysValid ==
    \A p \in Proc : handle[p].pc = "open" /\ held.marker # NoMarker =>
        LET age == handle[p].gen - held.marker.gen IN
        /\ age >= 0
        /\ age = 0 \/ (held.tip /\ age <= MaxAncestors) => Validates(p, held.marker)
=============================================================================
