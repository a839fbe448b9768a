----------------------- MODULE OperationJournalProofs -----------------------
(***************************************************************************)
(* Proofs about OperationJournal for any processes, operations, limits and *)
(* number of compactions: what a file folds to, and that neither crashes   *)
(* nor power losses, compactions, torn tails or failed syncs separate what *)
(* a writer answers from what the next open would read.                    *)
(*                                                                         *)
(* The library's induction theorems take an operator, which no installed   *)
(* backend can instantiate.  The inductions over the frames of a file use  *)
(* the least element of a set of naturals instead (LeastNat), a            *)
(* first-order consequence of the well-foundedness of <.                   *)
(***************************************************************************)
EXTENDS OperationJournal, FiniteSetTheorems, WellFoundedInduction, TLAPS

-----------------------------------------------------------------------------
(* The inductive invariant, as conditions on the values of the variables *)

Tips == [gen : Gens, seq : 0..MaxRecords, epoch : 1..MaxEpoch, ops : [Id -> 0..MaxVer]]

Frames == [kind : {"epoch"}, from : 1..(MaxEpoch - 1)]
            \cup [kind : {"upsert"}, id : Id, ver : 1..MaxVer]
            \cup [kind : {"compacted"}, prev : Tips]

\* What a handle may cache of a file.
Cached == [epoch : 1..MaxEpoch, ops : [Id -> 0..MaxVer], from : Tips \cup {NoMarker},
           seq : 0..MaxRecords, corrupt : {FALSE}]

Pcs == {"closed", "locked", "creating", "open", "writing", "retrying", "compacting",
        "candidate", "failed"}

Writing == {"open", "writing", "retrying", "compacting", "candidate"}

Metas == [gen : 0..MaxGen, anc : Seq(Tips)]
Truths == [epoch : 1..MaxEpoch, ops : [Id -> 0..MaxVer]]
Files == [exists : BOOLEAN, frames : Seq(Frames), synced : Nat, torn : BOOLEAN]
Handles == [pc : Pcs, rec : Cached, gen : 0..MaxGen, anc : Seq(Tips),
            pend : Frames \cup {NoRecord}, ready : BOOLEAN]
Helds == [marker : Tips \cup {NoMarker}, tip : BOOLEAN]

\* What the next open needs of the file w of generation g; a compacted file
\* was published with its baseline record synced.
Sound(g, w) ==
    /\ w.exists /\ (g > 1 => w.synced >= 1)
    /\ Len(w.frames) <= MaxFrames /\ Len(w.frames) <= MaxRecords
    /\ ~Recover(w.frames).corrupt /\ LineageMatches(g, Recover(w.frames))

\* Metadata m names a readable file and remembers the newest tips, one for
\* each generation.
Named(m, files) ==
    /\ Len(m.anc) <= MaxAncestors
    /\ m.gen = 0 => m.anc = <<>>
    /\ m.gen # 0 => /\ Sound(m.gen, files[m.gen])
                    /\ Len(m.anc) < m.gen
                    /\ Len(m.anc) = m.gen - 1 \/ Len(m.anc) = MaxAncestors

\* The truth of what a power loss is sure to leave of a file.
SyncedTruth(w) == Truth(Recover(SubSeq(w.frames, 1, w.synced)))

\* What was confirmed (a) is synced in the file that m names, and what the
\* file holds beyond it was tried (t).
Backed(m, files, a, t) ==
    IF m.gen = 0 THEN a = Truth(EmptyRecovery)
    ELSE /\ NoEarlier(SyncedTruth(files[m.gen]), a)
         /\ NoEarlier(t, Truth(Recover(files[m.gen].frames)))

\* The checkpoint marker k names a synced prefix of the file m names; a
\* marker of the tip is the whole file, or a tip that m remembers.
Marked(m, files, k) ==
    k.marker # NoMarker =>
        LET age == m.gen - k.marker.gen IN
        /\ age >= 0
        /\ age = 0 => LET w == files[m.gen] IN
                      /\ k.marker.seq <= w.synced
                      /\ Marker(m.gen, Recover(SubSeq(w.frames, 1, k.marker.seq))) = k.marker
                      /\ k.tip => k.marker.seq = Len(w.frames)
        /\ age > 0 /\ k.tip /\ age <= MaxAncestors =>
              /\ age <= Len(m.anc)
              /\ m.anc[Len(m.anc) - age + 1] = k.marker

\* The published metadata m and the durable metadata d; the file system has
\* to commit renames in order for the confirmed truth to be in both.
FilesOK(m, d, files, a, t, k) ==
    /\ m \in Metas /\ d \in Metas /\ files \in [Gens -> Files]
    /\ \A g \in Gens : files[g].synced <= Len(files[g].frames)
    /\ a \in Truths /\ t \in Truths /\ k \in Helds
    /\ d.gen <= m.gen /\ (d.gen = m.gen => d = m)
    /\ Named(m, files) /\ Named(d, files)
    /\ FileSyncCommitsRenames => /\ Backed(m, files, a, t) /\ Backed(d, files, a, t)
                                 /\ Marked(m, files, k) /\ Marked(d, files, k)

\* The candidate of a compaction, written and synced.
Candidate(h, files) ==
    /\ h.gen + 1 \in Gens
    /\ \E records \in Compactions(h.gen, h.rec) :
          /\ Len(records) <= MaxRecords /\ Len(records) <= MaxFrames
          /\ files[h.gen + 1] = [exists |-> TRUE, frames |-> records, synced |-> Len(records), torn |-> FALSE]

\* What a healthy writer h caches about its file w.
Caches(h, m, d, w) ==
    /\ m.gen # 0 /\ h.gen = m.gen /\ h.anc = m.anc /\ ~w.torn
    /\ Recover(w.frames) = IF h.pc = "writing" THEN ApplyRecord(h.rec, h.pend) ELSE h.rec
    /\ h.pc = "open" => h.pend = NoRecord
    /\ h.pc \in {"writing", "retrying"} => h.pend \in Appendable(h.rec)
    /\ h.pc \in {"compacting", "candidate"} => h.pend \in Appendable(h.rec) \cup {NoRecord}
    /\ h.ready /\ h.pc # "writing" => w.synced = Len(w.frames)
    /\ h.ready /\ FileSyncCommitsRenames => d = m

HandleOK(h, m, d, files, a, t) ==
    /\ h \in Handles /\ Len(h.anc) <= MaxAncestors
    /\ h.pc = "creating" =>
          m.gen = 0 /\ files[1] = [exists |-> TRUE, frames |-> <<>>, synced |-> 0, torn |-> FALSE]
    /\ h.pc \in Writing =>
          /\ Caches(h, m, d, files[m.gen])
          /\ FileSyncCommitsRenames => NoEarlier(Truth(h.rec), a) /\ NoEarlier(t, Truth(h.rec))
    /\ h.pc = "candidate" => Candidate(h, files)

\* The lifecycle lock: whoever has the journal open holds it.
LockInv ==
    /\ lock \in Proc \cup {NoProc} /\ handle \in [Proc -> Handles]
    /\ \A p \in Proc : handle[p].pc # "closed" => lock = p

JournalInv ==
    /\ LockInv
    /\ FilesOK(meta, metaDurable, wal, acked, tried, held)
    /\ \A p \in Proc : HandleOK(handle[p], meta, metaDurable, wal, acked, tried)

-----------------------------------------------------------------------------
(* What a sequence of frames folds to *)

\* A set of naturals has a least element: induction, for first-order provers.
LEMMA LeastNat ==
    ASSUME NEW T, T \subseteq Nat, T # {}
    PROVE  \E n \in T : \A m \in T : n <= m
<1>1. PICK n \in T : \A m \in T : ~(<<m, n>> \in OpToRel(<, Nat))
  BY NatLessThanWellFounded, WFMin
<1>2. \A m \in T : ~(m < n)
  BY <1>1 DEF OpToRel
<1> QED BY <1>2

\* f is the fold of the first k frames of s, for every prefix.
Folds(f, s, k) == f = [n \in 0..k |-> IF n = 0 THEN EmptyRecovery ELSE FoldRecord(f[n - 1], s[n])]

\* The recursive function in Recover exists.
LEMMA FoldExists ==
    ASSUME NEW s, NEW l \in Nat
    PROVE  \E f : Folds(f, s, l)
<1> DEFINE T == {k \in Nat : ~\E f : Folds(f, s, k)}
<1>1. SUFFICES ASSUME ~\E f : Folds(f, s, l) PROVE FALSE
  OBVIOUS
<1>2. T # {} /\ T \subseteq Nat
  BY <1>1
<1>3. PICK k \in T : \A m \in T : k <= m
  <2> HIDE DEF T
  <2> QED BY <1>2, LeastNat
<1>4. CASE k = 0
  <2> DEFINE f == [n \in 0..0 |-> EmptyRecovery]
  <2>1. Folds(f, s, 0)
    BY DEF Folds
  <2> HIDE DEF f
  <2> QED BY <1>4, <2>1
<1>5. CASE k # 0
  <2>1. k \in Nat /\ k - 1 \in Nat
    BY <1>5
  <2>2. PICK f : Folds(f, s, k - 1)
    BY <1>3, <2>1
  <2> DEFINE g == [n \in 0..k |-> IF n = k THEN FoldRecord(f[k - 1], s[k]) ELSE f[n]]
  <2>3. \A n \in 0..(k - 1) : g[n] = f[n]
    BY <2>1
  <2>4. g = [n \in 0..k |-> g[n]]
    OBVIOUS
  <2>5. ASSUME NEW n \in 0..k PROVE g[n] = IF n = 0 THEN EmptyRecovery ELSE FoldRecord(g[n - 1], s[n])
    <3>1. CASE n = k
      BY <1>5, <2>1, <2>3, <3>1
    <3>2. CASE n # k
      <4>1. n \in 0..(k - 1) /\ (n # 0 => n - 1 \in 0..(k - 1))
        BY <2>1, <3>2
      <4>2. f[n] = IF n = 0 THEN EmptyRecovery ELSE FoldRecord(f[n - 1], s[n])
        BY <2>2, <4>1 DEF Folds
      <4> QED BY <2>3, <4>1, <4>2
    <3> QED BY <3>1, <3>2
  <2> HIDE DEF g
  <2>6. Folds(g, s, k)
    BY <2>4, <2>5 DEF Folds
  <2> QED BY <2>1, <2>6
<1> QED BY <1>4, <1>5

Agree(f, g, a, b) == \A n \in a..b : f[n] = g[n]

\* ... and is the only one: two folds agree where their frames do.
LEMMA FoldUnique ==
    ASSUME NEW s, NEW t, NEW k \in Nat, NEW l \in Nat, k <= l,
           NEW f, Folds(f, s, k), NEW g, Folds(g, t, l), Agree(s, t, 1, k)
    PROVE  Agree(f, g, 0, k)
<1> DEFINE T == {n \in 0..k : f[n] # g[n]}
<1>1. SUFFICES ASSUME T # {} PROVE FALSE
  BY DEF Agree
<1>2. T \subseteq Nat
  OBVIOUS
<1>3. PICK n \in T : \A m \in T : n <= m
  <2> HIDE DEF T
  <2> QED BY <1>1, <1>2, LeastNat
<1>4. CASE n = 0
  BY <1>4 DEF Folds
<1>5. CASE n # 0
  <2>1. n \in 1..k /\ n - 1 \in 0..k /\ n \in 1..l
    BY <1>5
  <2>2. f[n - 1] = g[n - 1]
    BY <1>3, <2>1
  <2>3. f[n] = FoldRecord(f[n - 1], s[n]) /\ g[n] = FoldRecord(g[n - 1], t[n])
    BY <2>1 DEF Folds
  <2> QED BY <2>1, <2>2, <2>3 DEF Agree
<1> QED BY <1>4, <1>5

\* Recover is the last value of the fold.
LEMMA RecoverFolds ==
    ASSUME NEW s, Len(s) \in Nat
    PROVE  \E f : Folds(f, s, Len(s)) /\ Recover(s) = f[Len(s)]
<1> DEFINE f == CHOOSE f : f = [n \in 0..Len(s) |->
                                  IF n = 0 THEN EmptyRecovery ELSE FoldRecord(f[n - 1], s[n])]
<1>1. f = [n \in 0..Len(s) |-> IF n = 0 THEN EmptyRecovery ELSE FoldRecord(f[n - 1], s[n])]
  BY FoldExists DEF Folds
<1>2. Recover(s) = f[Len(s)]
  BY DEF Recover
<1> HIDE DEF f
<1> QED BY <1>1, <1>2 DEF Folds

\* An empty file says nothing.
LEMMA RecoverEmpty == Recover(<<>>) = EmptyRecovery
<1>1. Len(<<>>) = 0
  OBVIOUS
<1>2. PICK f : Folds(f, <<>>, 0) /\ Recover(<<>>) = f[0]
  BY <1>1, RecoverFolds
<1> QED BY <1>2 DEF Folds

\* The fold of a prefix, one frame at a time.
LEMMA RecoverStep ==
    ASSUME NEW S, NEW s \in Seq(S), NEW n \in 1..Len(s)
    PROVE  Recover(SubSeq(s, 1, n)) = FoldRecord(Recover(SubSeq(s, 1, n - 1)), s[n])
<1> DEFINE t == SubSeq(s, 1, n)
           u == SubSeq(s, 1, n - 1)
<1>1. /\ Len(t) = n /\ Len(u) = n - 1 /\ n \in Nat /\ n - 1 \in Nat
      /\ (\A i \in 1..n : t[i] = s[i]) /\ (\A i \in 1..(n - 1) : u[i] = s[i])
  OBVIOUS
<1> HIDE DEF t, u
<1>2. PICK f : Folds(f, t, n) /\ Recover(t) = f[n]
  BY <1>1, RecoverFolds
<1>3. PICK g : Folds(g, u, n - 1) /\ Recover(u) = g[n - 1]
  BY <1>1, RecoverFolds
<1>4. g[n - 1] = f[n - 1]
  <2>1. \A i \in 1..(n - 1) : u[i] = t[i]
    BY <1>1
  <2>2. \A i \in 0..(n - 1) : g[i] = f[i]
    <3>1. Agree(u, t, 1, n - 1) /\ n - 1 \in Nat /\ n \in Nat /\ n - 1 <= n
      BY <1>1, <2>1 DEF Agree
    <3>2. Agree(g, f, 0, n - 1)
      BY ONLY <1>2, <1>3, <3>1, FoldUnique
    <3> QED BY <3>2 DEF Agree
  <2> QED BY <1>1, <2>2
<1>5. f[n] = FoldRecord(f[n - 1], t[n])
  BY <1>1, <1>2 DEF Folds
<1> QED BY <1>1, <1>2, <1>3, <1>4, <1>5 DEF t, u

\* Appending a frame folds it onto what the file said.
LEMMA RecoverAppend ==
    ASSUME NEW S, NEW s \in Seq(S), NEW r \in S
    PROVE  Recover(Append(s, r)) = FoldRecord(Recover(s), r)
<1> DEFINE t == Append(s, r)
           n == Len(s) + 1
<1>1. t \in Seq(S) /\ n \in 1..Len(t) /\ t[n] = r
  OBVIOUS
<1>2. SubSeq(t, 1, n) = t /\ SubSeq(t, 1, n - 1) = s
  OBVIOUS
<1> HIDE DEF t, n
<1>3. Recover(SubSeq(t, 1, n)) = FoldRecord(Recover(SubSeq(t, 1, n - 1)), t[n])
  BY <1>1, RecoverStep
<1> QED BY <1>1, <1>2, <1>3 DEF t

-----------------------------------------------------------------------------
(* Types and order of what files fold to *)

\* What any sequence of frames folds to.
Folded == [epoch : 1..MaxEpoch, ops : [Id -> 0..MaxVer], from : Tips \cup {NoMarker},
           seq : Nat, corrupt : BOOLEAN]

LEMMA EmptyFolded == EmptyRecovery \in Folded /\ ~EmptyRecovery.corrupt /\ EmptyRecovery.seq = 0
BY LimitAssumption DEF EmptyRecovery, Folded, NoOps

\* What each kind of record changes.
LEMMA ApplyFields ==
    ASSUME NEW rec \in Folded, NEW r \in Frames
    PROVE  /\ r.kind = "epoch" =>
                 /\ r.from \in 1..(MaxEpoch - 1)
                 /\ ApplyRecord(rec, r) = [epoch |-> r.from + 1, ops |-> rec.ops, from |-> rec.from,
                                           seq |-> rec.seq + 1, corrupt |-> rec.corrupt]
           /\ r.kind = "upsert" =>
                 /\ r.id \in Id /\ r.ver \in 1..MaxVer
                 /\ ApplyRecord(rec, r) = [epoch |-> rec.epoch, ops |-> [rec.ops EXCEPT ![r.id] = r.ver],
                                           from |-> rec.from, seq |-> rec.seq + 1, corrupt |-> rec.corrupt]
           /\ r.kind = "compacted" =>
                 /\ r.prev \in Tips
                 /\ ApplyRecord(rec, r) = [epoch |-> r.prev.epoch, ops |-> rec.ops, from |-> r.prev,
                                           seq |-> rec.seq + 1, corrupt |-> rec.corrupt]
           /\ r.kind \in {"epoch", "upsert", "compacted"}
<1>1. CASE r.kind = "epoch"
  BY <1>1 DEF Folded, Frames, ApplyRecord
<1>2. CASE r.kind = "upsert"
  BY <1>2 DEF Folded, Frames, ApplyRecord
<1>3. CASE r.kind = "compacted"
  BY <1>3 DEF Folded, Frames, ApplyRecord
<1>4. r.kind \in {"epoch", "upsert", "compacted"}
  BY DEF Frames
<1> QED BY <1>1, <1>2, <1>3, <1>4

\* Applying a record gives a folded file again.
LEMMA ApplyFolded ==
    ASSUME NEW rec \in Folded, NEW r \in Frames
    PROVE  /\ ApplyRecord(rec, r) \in Folded /\ ApplyRecord(rec, r).seq = rec.seq + 1
           /\ ApplyRecord(rec, r).corrupt = rec.corrupt
<1>1. CASE r.kind = "epoch"
  <2>1. r.from + 1 \in 1..MaxEpoch
    BY <1>1, ApplyFields, LimitAssumption
  <2> QED BY <1>1, <2>1, ApplyFields DEF Folded
<1>2. CASE r.kind = "upsert"
  <2>1. [rec.ops EXCEPT ![r.id] = r.ver] \in [Id -> 0..MaxVer]
    BY <1>2, ApplyFields, LimitAssumption DEF Folded
  <2> QED BY <1>2, <2>1, ApplyFields DEF Folded
<1>3. CASE r.kind = "compacted"
  <2>1. r.prev.epoch \in 1..MaxEpoch
    BY <1>3, ApplyFields DEF Tips
  <2> QED BY <1>3, <2>1, ApplyFields DEF Folded
<1> QED BY <1>1, <1>2, <1>3, ApplyFields

\* Folding a record is applying it, and remembering if it was not acceptable.
LEMMA FoldIsApply ==
    ASSUME NEW rec \in Folded, NEW r \in Frames
    PROVE  /\ FoldRecord(rec, r) \in Folded
           /\ FoldRecord(rec, r).seq = rec.seq + 1
           /\ Truth(FoldRecord(rec, r)) = Truth(ApplyRecord(rec, r))
           /\ FoldRecord(rec, r).from = ApplyRecord(rec, r).from
           /\ FoldRecord(rec, r).corrupt <=> rec.corrupt \/ ~FoldAccepts(rec, r)
           /\ FoldAccepts(rec, r) => FoldRecord(rec, r) = ApplyRecord(rec, r)
<1> DEFINE a == ApplyRecord(rec, r)
           b == rec.corrupt \/ ~FoldAccepts(rec, r)
<1>1. a \in Folded /\ a.seq = rec.seq + 1 /\ a.corrupt = rec.corrupt /\ b \in BOOLEAN
  BY ApplyFolded
<1>2. FoldRecord(rec, r) = [a EXCEPT !.corrupt = b]
  BY <1>1 DEF FoldRecord
<1>3. FoldAccepts(rec, r) => b = a.corrupt
  BY <1>1 DEF Folded
<1> HIDE DEF a, b
<1>4. FoldRecord(rec, r) = [epoch |-> a.epoch, ops |-> a.ops, from |-> a.from, seq |-> a.seq, corrupt |-> b]
  BY <1>1, <1>2 DEF Folded
<1>5. a = [epoch |-> a.epoch, ops |-> a.ops, from |-> a.from, seq |-> a.seq, corrupt |-> a.corrupt]
  BY <1>1 DEF Folded
<1>6. FoldRecord(rec, r) \in Folded
  BY <1>1, <1>4 DEF Folded
<1>7. /\ FoldRecord(rec, r).corrupt = b /\ FoldRecord(rec, r).from = a.from
      /\ FoldRecord(rec, r).seq = a.seq /\ Truth(FoldRecord(rec, r)) = Truth(a)
  BY <1>4 DEF Truth
<1>8. FoldAccepts(rec, r) => FoldRecord(rec, r) = a
  BY <1>3, <1>4, <1>5
<1>9. FoldRecord(rec, r).corrupt <=> rec.corrupt \/ ~FoldAccepts(rec, r)
  BY <1>7 DEF b
<1> QED BY <1>1, <1>6, <1>7, <1>8, <1>9 DEF a

\* An accepted record keeps the lineage (but for a baseline, which comes
\* first) and takes no truth back.
LEMMA AcceptedAdvances ==
    ASSUME NEW rec \in Folded, NEW r \in Frames, FoldAccepts(rec, r), rec.seq = 0 => rec = EmptyRecovery
    PROVE  /\ NoEarlier(Truth(ApplyRecord(rec, r)), Truth(rec))
           /\ rec.seq > 0 => ApplyRecord(rec, r).from = rec.from
<1>0. rec.epoch \in Nat /\ \A i \in Id : rec.ops[i] \in Nat
  BY LimitAssumption DEF Folded
<1>1. CASE r.kind = "epoch"
  BY <1>0, <1>1, ApplyFields DEF FoldAccepts, NoEarlier, Truth
<1>2. CASE r.kind = "upsert"
  <2>1. r.ver >= rec.ops[r.id]
    BY <1>0, <1>2, ApplyFields DEF FoldAccepts, Monotonic
  <2> QED BY <1>0, <1>2, <2>1, ApplyFields DEF NoEarlier, Truth, Folded
<1>3. CASE r.kind = "compacted"
  <2>1. rec.seq = 0 /\ rec.epoch = 1 /\ r.prev.epoch >= 1
    BY <1>3, ApplyFields DEF FoldAccepts, EmptyRecovery, Tips
  <2> QED BY <1>0, <1>3, <2>1, ApplyFields DEF NoEarlier, Truth
<1> QED BY <1>1, <1>2, <1>3, ApplyFields

\* The file as far as its first n frames.
UpTo(s, n) == Recover(SubSeq(s, 1, n))

\* A file folds to a typed truth that counts its frames.
LEMMA RecoverTyped ==
    ASSUME NEW s \in Seq(Frames), NEW n \in 0..Len(s)
    PROVE  UpTo(s, n) \in Folded /\ UpTo(s, n).seq = n
<1> DEFINE T == {k \in 0..Len(s) : ~(UpTo(s, k) \in Folded /\ UpTo(s, k).seq = k)}
<1>1. SUFFICES ASSUME T # {} PROVE FALSE
  OBVIOUS
<1>2. T \subseteq Nat
  OBVIOUS
<1>3. PICK k \in T : \A m \in T : k <= m
  <2> HIDE DEF T
  <2> QED BY <1>1, <1>2, LeastNat
<1>4. CASE k = 0
  <2>1. SubSeq(s, 1, 0) = <<>>
    OBVIOUS
  <2> QED BY <1>4, <2>1, RecoverEmpty, EmptyFolded DEF UpTo
<1>5. CASE k # 0
  <2>1. k \in 1..Len(s) /\ k - 1 \in 0..Len(s) /\ s[k] \in Frames
    BY <1>5
  <2>2. UpTo(s, k - 1) \in Folded /\ UpTo(s, k - 1).seq = k - 1
    BY <1>3, <2>1
  <2>3. UpTo(s, k) = FoldRecord(UpTo(s, k - 1), s[k])
    BY <2>1, RecoverStep DEF UpTo
  <2> QED BY <2>1, <2>2, <2>3, FoldIsApply
<1> QED BY <1>4, <1>5

\* A readable file has only readable prefixes: along it truth advances, and
\* its first frame settles the lineage.
LEMMA PrefixReadable ==
    ASSUME NEW s \in Seq(Frames), NEW n \in 0..Len(s), ~UpTo(s, n).corrupt, NEW m \in 0..n
    PROVE  /\ ~UpTo(s, m).corrupt
           /\ NoEarlier(Truth(UpTo(s, n)), Truth(UpTo(s, m)))
           /\ m > 0 => UpTo(s, m).from = UpTo(s, n).from
<1> DEFINE Good(k) == /\ ~UpTo(s, k).corrupt
                      /\ NoEarlier(Truth(UpTo(s, n)), Truth(UpTo(s, k)))
                      /\ k > 0 => UpTo(s, k).from = UpTo(s, n).from
           T == {d \in 0..n : ~Good(n - d)}
<1>1. SUFFICES ASSUME ~Good(m) PROVE FALSE
  OBVIOUS
<1> HIDE DEF Good
<1>2. n - m \in T /\ T \subseteq Nat
  <2>1. n - (n - m) = m /\ n - m \in 0..n
    OBVIOUS
  <2> QED BY <1>1, <2>1
<1>3. PICK d \in T : \A e \in T : d <= e
  <2> HIDE DEF T
  <2> QED BY <1>2, LeastNat
<1>4. \A k \in 0..Len(s) : UpTo(s, k) \in Folded /\ UpTo(s, k).seq = k
  BY RecoverTyped
<1>5. Good(n)
  BY <1>4 DEF Good, NoEarlier, Truth, Folded
<1>6. CASE d = 0
  <2>1. n - d = n
    BY <1>6
  <2> QED BY <1>5, <2>1
<1>7. CASE d # 0
  <2> DEFINE k == n - d
  <2>1. /\ k \in 0..Len(s) /\ k + 1 \in 1..Len(s) /\ (k + 1) - 1 = k /\ s[k + 1] \in Frames
        /\ d - 1 \in 0..n /\ n - (d - 1) = k + 1 /\ d - 1 < d
    BY <1>7
  <2>2. Good(k + 1)
    <3>1. Good(n - (d - 1))
      <4>1. d - 1 \notin T
        <5>1. d \in Nat
          OBVIOUS
        <5> HIDE DEF T
        <5>2. ~(d <= d - 1)
          BY <5>1
        <5> QED BY <1>3, <5>2
      <4> QED BY <2>1, <4>1
    <3> QED BY <2>1, <3>1
  <2>3. ~Good(k)
    OBVIOUS
  <2> HIDE DEF k
  <2>4. UpTo(s, k + 1) = FoldRecord(UpTo(s, k), s[k + 1])
    BY <2>1, RecoverStep DEF UpTo
  <2>5. ~UpTo(s, k).corrupt /\ FoldAccepts(UpTo(s, k), s[k + 1])
    BY <1>4, <2>1, <2>2, <2>4, FoldIsApply DEF Good
  <2>6. k = 0 => UpTo(s, k) = EmptyRecovery
    <3>1. SubSeq(s, 1, 0) = <<>>
      OBVIOUS
    <3> QED BY <3>1, RecoverEmpty DEF UpTo
  <2>7. /\ NoEarlier(Truth(UpTo(s, k + 1)), Truth(UpTo(s, k)))
        /\ k > 0 => UpTo(s, k + 1).from = UpTo(s, k).from
    <3> DEFINE rec == UpTo(s, k)
               r == s[k + 1]
    <3>1. rec \in Folded /\ rec.seq = k /\ r \in Frames /\ (rec.seq = 0 => rec = EmptyRecovery)
      BY <1>4, <2>1, <2>6
    <3>2. FoldAccepts(rec, r) /\ UpTo(s, k + 1) = FoldRecord(rec, r)
      BY <2>4, <2>5
    <3> HIDE DEF rec, r
    <3>3. UpTo(s, k + 1) = ApplyRecord(rec, r)
      BY <3>1, <3>2, FoldIsApply
    <3>4. /\ NoEarlier(Truth(ApplyRecord(rec, r)), Truth(rec))
          /\ rec.seq > 0 => ApplyRecord(rec, r).from = rec.from
      BY <3>1, <3>2, AcceptedAdvances
    <3> QED BY <3>1, <3>3, <3>4 DEF rec
  <2>8. NoEarlier(Truth(UpTo(s, n)), Truth(UpTo(s, k)))
    BY <1>4, <2>1, <2>2, <2>7 DEF Good, NoEarlier, Truth, Folded
  <2> QED BY <2>1, <2>2, <2>3, <2>5, <2>7, <2>8 DEF Good
<1> QED BY <1>6, <1>7

\* The whole file is its longest prefix.
LEMMA WholeFile ==
    ASSUME NEW s \in Seq(Frames)
    PROVE  /\ UpTo(s, Len(s)) = Recover(s) /\ Len(s) \in Nat
           /\ Recover(s) \in Folded /\ Recover(s).seq = Len(s)
<1>1. SubSeq(s, 1, Len(s)) = s /\ Len(s) \in 0..Len(s) /\ Len(s) \in Nat
  OBVIOUS
<1>2. UpTo(s, Len(s)) = Recover(s)
  BY <1>1 DEF UpTo
<1> QED BY <1>1, <1>2, RecoverTyped

\* The sorted ids list every operation once.
LEMMA SortedIdsList ==
    ASSUME NEW S \in SUBSET Id, NEW ids \in SortedIds(S)
    PROVE  /\ Cardinality(S) \in Nat /\ ids \in [1..Cardinality(S) -> S]
           /\ \A i, j \in 1..Cardinality(S) : ids[i] = ids[j] => i = j
           /\ \A x \in S : \E i \in 1..Cardinality(S) : ids[i] = x
<1> DEFINE c == Cardinality(S)
<1>1. IsFiniteSet(S) /\ c \in Nat
  BY IdAssumption, FS_Subset, FS_CardinalityType
<1>2. ids \in [1..c -> S] /\ \A i, j \in 1..c : i < j => ids[i] < ids[j]
  BY DEF SortedIds
<1>3. \A i, j \in 1..c : ids[i] = ids[j] => i = j
  <2> SUFFICES ASSUME NEW i \in 1..c, NEW j \in 1..c, ids[i] = ids[j] PROVE i = j
    OBVIOUS
  <2>1. ids[i] \in Nat /\ ids[j] \in Nat
    BY <1>2, IdAssumption
  <2>2. ~(i < j) /\ ~(j < i)
    BY <1>2, <2>1
  <2> QED BY <1>1, <2>2
<1> HIDE DEF c
<1>4. ids \in Injection(1..c, S)
  BY <1>2, <1>3 DEF Injection, IsInjective
<1>5. Cardinality(1..c) = Cardinality(S)
  BY <1>1, FS_Interval DEF c
<1>6. ids \in Surjection(1..c, S)
  BY <1>1, <1>4, <1>5, FS_Injection
<1>7. \A x \in S : \E i \in 1..c : ids[i] = x
  BY <1>6 DEF Surjection
<1> QED BY <1>1, <1>2, <1>3, <1>7 DEF c

\* A compacted file: its baseline, then every operation.
\* ids lists c live operations of rec, none of them twice.
ListsLive(rec, ids, c) ==
    /\ c \in Nat /\ ids \in [1..c -> {i \in Id : rec.ops[i] > 0}]
    /\ \A i, j \in 1..c : ids[i] = ids[j] => i = j

LEMMA CompactedFrames ==
    ASSUME NEW gen \in Gens, NEW rec \in Recoveries, NEW ids, NEW c,
           ListsLive(rec, ids, c)
    PROVE  LET s == CompactedRecords(gen, rec, ids) IN
           /\ s \in Seq(Frames) /\ Len(s) = c + 1
           /\ s[1] = Compacted(Marker(gen, rec))
           /\ \A k \in 1..c : s[k + 1] = OperationUpsert(ids[k], rec.ops[ids[k]])
<1> DEFINE u == [k \in DOMAIN ids |-> OperationUpsert(ids[k], rec.ops[ids[k]])]
           b == Compacted(Marker(gen, rec))
<1>0. c \in Nat /\ ids \in [1..c -> {i \in Id : rec.ops[i] > 0}]
  BY DEF ListsLive
<1>1. DOMAIN ids = 1..c
  BY <1>0
<1>2. \A k \in 1..c : OperationUpsert(ids[k], rec.ops[ids[k]]) \in Frames
  <2> SUFFICES ASSUME NEW k \in 1..c PROVE OperationUpsert(ids[k], rec.ops[ids[k]]) \in Frames
    OBVIOUS
  <2>1. ids[k] \in Id /\ rec.ops[ids[k]] \in 1..MaxVer
    <3>1. rec.ops \in [Id -> 0..MaxVer]
      BY DEF Recoveries
    <3>2. ids[k] \in Id /\ rec.ops[ids[k]] > 0
      BY <1>0
    <3> QED BY <3>1, <3>2, LimitAssumption
  <2> QED BY <2>1 DEF OperationUpsert, Frames
<1>3. b \in Frames
  BY LimitAssumption DEF Compacted, Marker, Frames, Tips, Recoveries
<1>4. u \in [1..c -> Frames] /\ \A k \in 1..c : u[k] = OperationUpsert(ids[k], rec.ops[ids[k]])
  BY <1>1, <1>2
<1>5. CompactedRecords(gen, rec, ids) = <<b>> \o u
  BY DEF CompactedRecords
<1> HIDE DEF u, b
<1>6. u \in Seq(Frames) /\ Len(u) = c
  BY <1>0, <1>4
<1>7. /\ <<b>> \o u \in Seq(Frames) /\ Len(<<b>> \o u) = c + 1 /\ (<<b>> \o u)[1] = b
      /\ \A k \in 1..c : (<<b>> \o u)[k + 1] = u[k]
  BY <1>3, <1>6
<1> QED BY <1>4, <1>5, <1>7 DEF b

\* What a compacted file says up to its k-th operation.
Baseline(gen, rec, ids, k) ==
    [epoch |-> rec.epoch, from |-> Marker(gen, rec), seq |-> k + 1, corrupt |-> FALSE,
     ops |-> [i \in Id |-> IF \E j \in 1..k : ids[j] = i THEN rec.ops[i] ELSE 0]]

LEMMA BaselineStep ==
    ASSUME NEW gen \in Gens, NEW rec \in Recoveries, NEW ids, NEW c,
           ListsLive(rec, ids, c),
           NEW k \in 0..(c - 1)
    PROVE  LET r == OperationUpsert(ids[k + 1], rec.ops[ids[k + 1]]) IN
           FoldRecord(Baseline(gen, rec, ids, k), r) = Baseline(gen, rec, ids, k + 1)
<1> DEFINE x == ids[k + 1]
           r == OperationUpsert(x, rec.ops[x])
           a == Baseline(gen, rec, ids, k)
           o == [i \in Id |-> IF \E j \in 1..k : ids[j] = i THEN rec.ops[i] ELSE 0]
<1>0. /\ c \in Nat /\ ids \in [1..c -> {i \in Id : rec.ops[i] > 0}]
      /\ \A i, j \in 1..c : ids[i] = ids[j] => i = j
  BY DEF ListsLive
<1>1. /\ k + 1 \in 1..c /\ x \in Id /\ rec.ops[x] \in 1..MaxVer /\ rec.ops \in [Id -> 0..MaxVer]
      /\ rec.epoch \in 1..MaxEpoch
  <2>1. k + 1 \in 1..c
    BY <1>0
  <2>2. rec.ops \in [Id -> 0..MaxVer] /\ rec.epoch \in 1..MaxEpoch
    BY DEF Recoveries
  <2>3. x \in Id /\ rec.ops[x] > 0
    BY <1>0, <2>1
  <2>4. rec.ops[x] \in 0..MaxVer
    BY <2>2, <2>3
  <2>5. rec.ops[x] \in 1..MaxVer
    BY ONLY <2>3, <2>4, LimitAssumption
  <2> QED BY <2>1, <2>2, <2>3, <2>5
<1>2. Marker(gen, rec) \in Tips
  BY LimitAssumption DEF Marker, Tips, Recoveries
<1>3. Marker(gen, rec) # NoMarker
  BY DEF Marker, NoMarker, Gens
<1>4. o \in [Id -> 0..MaxVer]
  BY <1>1, LimitAssumption
<1>5. a = [epoch |-> rec.epoch, from |-> Marker(gen, rec), seq |-> k + 1, corrupt |-> FALSE, ops |-> o]
  BY DEF Baseline
<1>6. a \in Folded
  BY <1>1, <1>2, <1>4, <1>5 DEF Folded
<1>7. r \in Frames /\ r.kind = "upsert" /\ r.id = x /\ r.ver = rec.ops[x]
  BY <1>1 DEF Frames, OperationUpsert
<1>8. o[x] = 0
  BY <1>0, <1>1
<1>9. FoldAccepts(a, r)
  BY <1>3, <1>5, <1>7, <1>8 DEF FoldAccepts
<1>10. [o EXCEPT ![x] = rec.ops[x]] = [i \in Id |-> IF \E j \in 1..(k + 1) : ids[j] = i THEN rec.ops[i] ELSE 0]
  <2>1. \A i \in Id : (\E j \in 1..(k + 1) : ids[j] = i) <=> (i = x \/ \E j \in 1..k : ids[j] = i)
    OBVIOUS
  <2> QED BY <2>1, <1>1
<1> HIDE DEF o, a, r, x
<1>11. ApplyRecord(a, r) = [epoch |-> rec.epoch, ops |-> [o EXCEPT ![x] = rec.ops[x]], from |-> Marker(gen, rec),
                            seq |-> (k + 1) + 1, corrupt |-> FALSE]
  <2>1. /\ a.epoch = rec.epoch /\ a.ops = o /\ a.from = Marker(gen, rec) /\ a.seq = k + 1
        /\ a.corrupt = FALSE
    BY <1>5
  <2>2. ApplyRecord(a, r) = [epoch |-> a.epoch, ops |-> [a.ops EXCEPT ![r.id] = r.ver],
                             from |-> a.from, seq |-> a.seq + 1, corrupt |-> a.corrupt]
    BY <1>6, <1>7, ApplyFields
  <2> QED BY <1>7, <2>1, <2>2
<1>12. FoldRecord(a, r) = Baseline(gen, rec, ids, k + 1)
  <2>1. FoldRecord(a, r) = ApplyRecord(a, r)
    BY <1>6, <1>7, <1>9, FoldIsApply
  <2> QED BY <1>10, <1>11, <2>1 DEF Baseline
<1> QED BY <1>12 DEF a, r, x

\* A compacted file says what its predecessor said, with its predecessor's
\* tip as lineage.
LEMMA CompactionFolds ==
    ASSUME NEW gen \in Gens, NEW rec \in Recoveries, NEW s \in Compactions(gen, rec)
    PROVE  /\ s \in Seq(Frames) /\ Len(s) >= 1
           /\ Recover(s) = [epoch |-> rec.epoch, ops |-> rec.ops, from |-> Marker(gen, rec),
                            seq |-> Len(s), corrupt |-> FALSE]
<1> DEFINE S == {i \in Id : rec.ops[i] > 0}
           c == Cardinality(S)
<1>1. PICK ids \in SortedIds(S) : s = CompactedRecords(gen, rec, ids)
  BY DEF Compactions
<1>2. /\ c \in Nat /\ ids \in [1..c -> S] /\ (\A i, j \in 1..c : ids[i] = ids[j] => i = j)
      /\ \A x \in S : \E i \in 1..c : ids[i] = x
  BY SortedIdsList
<1>9. ListsLive(rec, ids, c)
  BY <1>2 DEF ListsLive
<1> HIDE DEF c
<1>3. /\ s \in Seq(Frames) /\ Len(s) = c + 1 /\ s[1] = Compacted(Marker(gen, rec))
      /\ \A k \in 1..c : s[k + 1] = OperationUpsert(ids[k], rec.ops[ids[k]])
  <2> HIDE DEF S
  <2> QED BY <1>1, <1>9, CompactedFrames
<1> DEFINE T == {k \in 0..c : UpTo(s, k + 1) # Baseline(gen, rec, ids, k)}
<1>4. UpTo(s, 1) = Baseline(gen, rec, ids, 0)
  <2>1. SubSeq(s, 1, 0) = <<>> /\ 1 \in 1..Len(s) /\ 1 - 1 = 0
    BY <1>2, <1>3
  <2>2. UpTo(s, 1) = FoldRecord(EmptyRecovery, s[1])
    BY <1>3, <2>1, RecoverStep, RecoverEmpty DEF UpTo
  <2>3. Marker(gen, rec) \in Tips
    BY LimitAssumption DEF Marker, Tips, Recoveries
  <2>4. s[1] \in Frames /\ s[1].kind = "compacted" /\ s[1].prev = Marker(gen, rec)
    BY <1>3, <2>3 DEF Compacted, Frames
  <2>5. FoldAccepts(EmptyRecovery, s[1])
    BY <2>4 DEF FoldAccepts, EmptyRecovery
  <2>6. UpTo(s, 1) = ApplyRecord(EmptyRecovery, s[1])
    BY <2>2, <2>4, <2>5, FoldIsApply, EmptyFolded
  <2>7. ApplyRecord(EmptyRecovery, s[1]) = [epoch |-> Marker(gen, rec).epoch, ops |-> NoOps, from |-> Marker(gen, rec),
                                            seq |-> 1, corrupt |-> FALSE]
    <3>1. /\ EmptyRecovery.ops = NoOps /\ EmptyRecovery.seq + 1 = 1 /\ EmptyRecovery.corrupt = FALSE
      BY DEF EmptyRecovery
    <3>2. ApplyRecord(EmptyRecovery, s[1]) =
            [epoch |-> s[1].prev.epoch, ops |-> EmptyRecovery.ops, from |-> s[1].prev,
             seq |-> EmptyRecovery.seq + 1, corrupt |-> EmptyRecovery.corrupt]
      BY <2>4, EmptyFolded, ApplyFields
    <3> QED BY ONLY <2>4, <3>1, <3>2
  <2>8. NoOps = [i \in Id |-> IF \E j \in 1..0 : ids[j] = i THEN rec.ops[i] ELSE 0]
    BY DEF NoOps
  <2>9. Marker(gen, rec).epoch = rec.epoch
    BY DEF Marker
  <2> QED BY <2>6, <2>7, <2>8, <2>9 DEF Baseline
<1>5. T = {}
  <2>1. SUFFICES ASSUME T # {} PROVE FALSE
    OBVIOUS
  <2>2. T \subseteq Nat
    OBVIOUS
  <2>3. PICK k \in T : \A m \in T : k <= m
    <3> HIDE DEF T
    <3> QED BY <2>1, <2>2, LeastNat
  <2>4. k # 0 /\ k \in 0..c
    BY <1>4
  <2> DEFINE l == k - 1
  <2>5. l \in 0..(c - 1) /\ l \in 0..c /\ l + 1 = k /\ k \in 1..c /\ k + 1 \in 1..Len(s) /\ (k + 1) - 1 = k
    BY <1>2, <1>3, <2>4
  <2>6. UpTo(s, k) = Baseline(gen, rec, ids, l)
    <3>1. l \notin T
      <4>1. ~(k <= l) /\ k \in Nat
        BY <2>4
      <4> HIDE DEF T, l
      <4> QED BY <2>3, <4>1
    <3> HIDE DEF l
    <3> QED BY <2>5, <3>1
  <2> HIDE DEF l
  <2>7. UpTo(s, k + 1) = FoldRecord(UpTo(s, k), s[k + 1])
    BY <1>3, <2>5, RecoverStep DEF UpTo
  <2>8. s[k + 1] = OperationUpsert(ids[l + 1], rec.ops[ids[l + 1]])
    BY <1>3, <2>5
  <2>9. FoldRecord(Baseline(gen, rec, ids, l), s[k + 1]) = Baseline(gen, rec, ids, l + 1)
    <3>1. l \in 0..(c - 1)
      BY <2>5
    <3>2. FoldRecord(Baseline(gen, rec, ids, l), OperationUpsert(ids[l + 1], rec.ops[ids[l + 1]]))
            = Baseline(gen, rec, ids, l + 1)
      <4> HIDE DEF S, T
      <4> QED BY <1>9, <3>1, BaselineStep
    <3> QED BY <2>8, <3>2
  <2> QED BY <2>5, <2>6, <2>7, <2>9
<1>6. Recover(s) = Baseline(gen, rec, ids, c)
  <2>1. c \in 0..c /\ c + 1 = Len(s)
    BY <1>2, <1>3
  <2>2. UpTo(s, c + 1) = Baseline(gen, rec, ids, c)
    BY <1>5, <2>1
  <2> QED BY <1>3, <2>1, <2>2, WholeFile
<1>7. rec.ops = [i \in Id |-> IF \E j \in 1..c : ids[j] = i THEN rec.ops[i] ELSE 0]
  <2>1. rec.ops \in [Id -> 0..MaxVer]
    BY DEF Recoveries
  <2>2. \A i \in Id : rec.ops[i] = IF \E j \in 1..c : ids[j] = i THEN rec.ops[i] ELSE 0
    <3> SUFFICES ASSUME NEW i \in Id, ~\E j \in 1..c : ids[j] = i PROVE rec.ops[i] = 0
      OBVIOUS
    <3>1. i \notin S
      BY <1>2
    <3> QED BY <2>1, <3>1, LimitAssumption
  <2> QED BY <2>1, <2>2
<1>8. Baseline(gen, rec, ids, c) = [epoch |-> rec.epoch, ops |-> rec.ops, from |-> Marker(gen, rec),
                                    seq |-> Len(s), corrupt |-> FALSE]
  BY <1>3, <1>7 DEF Baseline
<1> QED BY <1>2, <1>3, <1>6, <1>8

-----------------------------------------------------------------------------
(* Truths *)

LEMMA CachedTypes == Cached \subseteq Recoveries /\ Cached \subseteq Folded
<1>1. Tips \cup {NoMarker} \subseteq [gen : 0..MaxGen, seq : 0..MaxRecords, epoch : 0..MaxEpoch, ops : [Id -> 0..MaxVer]]
  BY LimitAssumption DEF Tips, NoMarker, NoOps, Gens
<1>2. Cached \subseteq Recoveries
  BY <1>1 DEF Cached, Recoveries
<1>3. Cached \subseteq Folded
  <2>1. 0..MaxRecords \subseteq Nat /\ {FALSE} \subseteq BOOLEAN
    BY LimitAssumption
  <2> QED BY <2>1, Zenon DEF Cached, Folded
<1> QED BY <1>2, <1>3

LEMMA TruthTyped ==
    ASSUME NEW rec, rec \in Cached \/ rec \in Folded
    PROVE  /\ Truth(rec) \in Truths /\ Truth(rec).epoch = rec.epoch /\ Truth(rec).ops = rec.ops
           /\ NoEarlier(Truth(rec), Truth(rec)) /\ NoEarlier(Truth(rec), Truth(EmptyRecovery))
<1>1. rec.epoch \in 1..MaxEpoch /\ rec.ops \in [Id -> 0..MaxVer]
  BY DEF Cached, Folded
<1>2. Truth(rec) \in Truths /\ Truth(rec).epoch = rec.epoch /\ Truth(rec).ops = rec.ops
  BY <1>1 DEF Truth, Truths
<1>3. rec.epoch >= 1 /\ \A i \in Id : rec.ops[i] >= 0 /\ rec.ops[i] >= rec.ops[i]
  BY <1>1, LimitAssumption
<1>4. Truth(EmptyRecovery).epoch = 1 /\ Truth(EmptyRecovery).ops = [i \in Id |-> 0]
  BY DEF Truth, EmptyRecovery, NoOps
<1> QED BY <1>1, <1>2, <1>3, <1>4 DEF NoEarlier

LEMMA EmptyTruth ==
    /\ Truth(EmptyRecovery) \in Truths /\ NoEarlier(Truth(EmptyRecovery), Truth(EmptyRecovery))
    /\ \A t \in Truths : NoEarlier(t, Truth(EmptyRecovery))
<1>1. Truth(EmptyRecovery) \in Truths /\ NoEarlier(Truth(EmptyRecovery), Truth(EmptyRecovery))
  BY TruthTyped, EmptyFolded
<1>2. Truth(EmptyRecovery).epoch = 1 /\ Truth(EmptyRecovery).ops = [i \in Id |-> 0]
  BY DEF Truth, EmptyRecovery, NoOps
<1>3. ASSUME NEW t \in Truths PROVE NoEarlier(t, Truth(EmptyRecovery))
  <2>1. t.epoch >= 1 /\ \A i \in Id : t.ops[i] >= 0
    BY LimitAssumption DEF Truths
  <2> QED BY <1>2, <2>1 DEF NoEarlier
<1> QED BY <1>1, <1>3

LEMMA NoEarlierTransitive ==
    ASSUME NEW t \in Truths, NEW u \in Truths, NEW v \in Truths, NoEarlier(t, u), NoEarlier(u, v)
    PROVE  NoEarlier(t, v)
<1>1. /\ t.epoch \in Int /\ u.epoch \in Int /\ v.epoch \in Int
      /\ \A i \in Id : t.ops[i] \in Int /\ u.ops[i] \in Int /\ v.ops[i] \in Int
  BY LimitAssumption DEF Truths
<1> QED BY <1>1 DEF NoEarlier

LEMMA LargerOfTwo ==
    ASSUME NEW x \in Int, NEW y \in Int
    PROVE  Max({x, y}) \in {x, y} /\ Max({x, y}) >= x /\ Max({x, y}) >= y
<1>1. \E z \in {x, y} : \A w \in {x, y} : z >= w
  OBVIOUS
<1> QED BY <1>1 DEF Max

\* The tried truth covers the one it joins and the one joined in.
LEMMA JoinCovers ==
    ASSUME NEW t \in Truths, NEW u \in Truths
    PROVE  Join(t, u) \in Truths /\ NoEarlier(Join(t, u), t) /\ NoEarlier(Join(t, u), u)
<1>1. /\ t.epoch \in 1..MaxEpoch /\ u.epoch \in 1..MaxEpoch /\ MaxEpoch \in Int
      /\ \A i \in Id : t.ops[i] \in 0..MaxVer /\ u.ops[i] \in 0..MaxVer
  BY LimitAssumption DEF Truths
<1> DEFINE e == Max({t.epoch, u.epoch})
           o == [i \in Id |-> Max({t.ops[i], u.ops[i]})]
<1>2. e \in 1..MaxEpoch /\ e >= t.epoch /\ e >= u.epoch
  <2>1. t.epoch \in Int /\ u.epoch \in Int
    BY <1>1
  <2>2. Max({t.epoch, u.epoch}) \in {t.epoch, u.epoch} /\ e >= t.epoch /\ e >= u.epoch
    BY <2>1, LargerOfTwo
  <2> QED BY <1>1, <2>2
<1>3. ASSUME NEW i \in Id PROVE o[i] \in 0..MaxVer /\ o[i] >= t.ops[i] /\ o[i] >= u.ops[i]
  <2>1. t.ops[i] \in Int /\ u.ops[i] \in Int
    BY <1>1
  <2>2. o[i] \in {t.ops[i], u.ops[i]} /\ o[i] >= t.ops[i] /\ o[i] >= u.ops[i]
    BY <2>1, LargerOfTwo
  <2> QED BY <1>1, <2>2
<1>4. o = [i \in Id |-> o[i]]
  OBVIOUS
<1>5. Join(t, u) = [epoch |-> e, ops |-> o]
  BY DEF Join
<1> HIDE DEF e, o
<1> QED BY <1>2, <1>3, <1>4, <1>5 DEF Truths, NoEarlier

\* What a writer may append to a file that says rec.
LEMMA AppendableFolds ==
    ASSUME NEW rec \in Cached, NEW r \in Appendable(rec)
    PROVE  /\ r \in Frames /\ r # NoRecord /\ r.kind # "compacted"
           /\ FoldAccepts(rec, r) /\ FoldRecord(rec, r) = ApplyRecord(rec, r)
           /\ ApplyRecord(rec, r) \in Folded /\ ~ApplyRecord(rec, r).corrupt
           /\ ApplyRecord(rec, r).from = rec.from /\ ApplyRecord(rec, r).seq = rec.seq + 1
           /\ Truth(ApplyRecord(rec, r)) \in Truths
           /\ NoEarlier(Truth(ApplyRecord(rec, r)), Truth(rec))
<1>1. rec \in Folded /\ ~rec.corrupt /\ rec.epoch \in 1..MaxEpoch /\ rec.ops \in [Id -> 0..MaxVer] /\ rec.seq \in Nat
  <2>1. rec.corrupt = FALSE /\ rec.epoch \in 1..MaxEpoch /\ rec.ops \in [Id -> 0..MaxVer] /\ rec.seq \in 0..MaxRecords
    BY DEF Cached
  <2> QED BY <2>1, CachedTypes, LimitAssumption
<1>2. r \in Frames /\ FoldAccepts(rec, r) /\ r.kind \in {"epoch", "upsert"} /\ r # NoRecord
  <2>1. CASE r = EpochAdvanced(rec.epoch) /\ rec.epoch < MaxEpoch
    BY <1>1, <2>1, LimitAssumption DEF EpochAdvanced, Frames, FoldAccepts, NoRecord
  <2>2. ASSUME NEW i \in Id, rec.ops[i] < MaxVer, r = OperationUpsert(i, rec.ops[i] + 1)
        PROVE  r \in Frames /\ FoldAccepts(rec, r) /\ r.kind \in {"epoch", "upsert"} /\ r # NoRecord
    <3>1. rec.ops[i] \in 0..MaxVer /\ rec.ops[i] + 1 \in 1..MaxVer
      BY <1>1, <2>2, LimitAssumption
    <3>2. r.kind = "upsert" /\ r.id = i /\ r.ver = rec.ops[i] + 1 /\ r \in Frames /\ r # NoRecord
      BY <2>2, <3>1 DEF OperationUpsert, Frames, NoRecord
    <3> QED BY <3>1, <3>2 DEF FoldAccepts, Monotonic
  <2> QED BY <2>1, <2>2 DEF Appendable
<1>3. /\ ApplyRecord(rec, r) \in Folded /\ ApplyRecord(rec, r).seq = rec.seq + 1 /\ ~ApplyRecord(rec, r).corrupt
      /\ FoldRecord(rec, r) = ApplyRecord(rec, r)
  BY <1>1, <1>2, ApplyFolded, FoldIsApply
<1>4. ApplyRecord(rec, r).from = rec.from
  BY <1>1, <1>2, ApplyFields
<1>5. Truth(ApplyRecord(rec, r)) \in Truths
  BY <1>3, TruthTyped
<1>6. NoEarlier(Truth(ApplyRecord(rec, r)), Truth(rec))
  <2>0. rec.epoch \in Nat /\ \A i \in Id : rec.ops[i] \in Nat
    BY <1>1, LimitAssumption
  <2>1. CASE r.kind = "epoch"
    BY <1>1, <1>2, <2>0, <2>1, ApplyFields DEF FoldAccepts, NoEarlier, Truth
  <2>2. CASE r.kind = "upsert"
    <3>1. r.ver >= rec.ops[r.id]
      BY <1>1, <1>2, <2>0, <2>2, ApplyFields DEF FoldAccepts, Monotonic
    <3> QED BY <1>1, <1>2, <2>0, <2>2, <3>1, ApplyFields DEF NoEarlier, Truth
  <2> QED BY <1>2, <2>1, <2>2
<1> QED BY <1>2, <1>3, <1>4, <1>5, <1>6

-----------------------------------------------------------------------------
(* Steps of files *)

\* The files that metadata m does not name are of no account.
LEMMA OtherFileNamed ==
    ASSUME NEW m \in Metas, NEW files, NEW new, m.gen # 0 => new[m.gen] = files[m.gen],
           NEW a, NEW t, NEW k \in Helds
    PROVE  /\ Named(m, files) => Named(m, new)
           /\ Backed(m, files, a, t) => Backed(m, new, a, t)
           /\ Marked(m, files, k) => Marked(m, new, k)
<1>1. Named(m, files) => Named(m, new)
  BY DEF Named
<1>2. Backed(m, files, a, t) => Backed(m, new, a, t)
  BY DEF Backed
<1>3. Marked(m, files, k) => Marked(m, new, k)
  <2>1. CASE k.marker = NoMarker
    BY <2>1 DEF Marked
  <2>2. CASE k.marker # NoMarker
    <3>1. k.marker.gen >= 1 /\ k.marker.gen \in Int /\ m.gen \in Int
      BY <2>2, LimitAssumption DEF Helds, Tips, Gens, Metas
    <3>2. m.gen - k.marker.gen = 0 => m.gen # 0
      BY <3>1
    <3> QED BY <2>2, <3>2 DEF Marked
  <2> QED BY <2>1, <2>2
<1> QED BY <1>1, <1>2, <1>3

\* A marker stays good when its file keeps the synced prefix and, if the
\* marker is of the tip, its length.
LEMMA MarkedKeeps ==
    ASSUME NEW m \in Metas, NEW files, NEW new, NEW k \in Helds, NEW k2 \in Helds,
           Marked(m, files, k), k2.marker = k.marker, k2.tip => k.tip,
           m.gen # 0 =>
              LET w == files[m.gen]
                  w2 == new[m.gen] IN
              /\ w.synced \in Nat /\ w2.synced \in Nat /\ w2.synced >= w.synced
              /\ k2.tip /\ k2.marker.seq <= w.synced /\ k2.marker.seq = Len(w.frames) => Len(w2.frames) = Len(w.frames)
              /\ \A n \in 0..w.synced : SubSeq(w2.frames, 1, n) = SubSeq(w.frames, 1, n)
    PROVE  Marked(m, new, k2)
<1>1. CASE k.marker = NoMarker
  BY <1>1 DEF Marked
<1>2. CASE k.marker # NoMarker
  <2>1. k.marker.gen >= 1 /\ k.marker.gen \in Int /\ m.gen \in Int /\ k.marker.seq \in Nat
    BY <1>2, LimitAssumption DEF Helds, Tips, Gens, Metas
  <2>2. m.gen - k.marker.gen = 0 => m.gen # 0
    BY <2>1
  <2>3. ASSUME m.gen - k.marker.gen = 0
        PROVE  LET w2 == new[m.gen] IN
               /\ k2.marker.seq <= w2.synced
               /\ Marker(m.gen, Recover(SubSeq(w2.frames, 1, k2.marker.seq))) = k2.marker
               /\ k2.tip => k2.marker.seq = Len(w2.frames)
    <3> DEFINE w == files[m.gen]
               w2 == new[m.gen]
    <3>1. /\ k.marker.seq <= w.synced
          /\ Marker(m.gen, Recover(SubSeq(w.frames, 1, k.marker.seq))) = k.marker
          /\ k.tip => k.marker.seq = Len(w.frames)
      BY <1>2, <2>3 DEF Marked
    <3>2. w.synced \in Nat /\ w2.synced \in Nat /\ w2.synced >= w.synced
      BY <2>2, <2>3
    <3>3. SubSeq(w2.frames, 1, k.marker.seq) = SubSeq(w.frames, 1, k.marker.seq)
      <4>1. k.marker.seq \in 0..w.synced
        BY <2>1, <3>1, <3>2
      <4> QED BY <2>2, <2>3, <4>1
    <3>4. k2.tip => k2.marker.seq = Len(w2.frames)
      BY <2>2, <2>3, <3>1
    <3>5. k2.marker.seq <= w2.synced
      <4> HIDE DEF w, w2
      <4> QED BY <2>1, <3>1, <3>2
    <3> QED BY <3>1, <3>3, <3>4, <3>5
  <2>4. m.gen - k.marker.gen >= 0
    BY <1>2 DEF Marked
  <2>5. m.gen - k.marker.gen > 0 /\ k.tip /\ m.gen - k.marker.gen <= MaxAncestors =>
            /\ m.gen - k.marker.gen <= Len(m.anc)
            /\ m.anc[Len(m.anc) - (m.gen - k.marker.gen) + 1] = k.marker
    BY <1>2 DEF Marked
  <2> QED BY <2>3, <2>4, <2>5 DEF Marked
<1> QED BY <1>1, <1>2

\* A file that no metadata names is replaced.
LEMMA SpareFileStep ==
    ASSUME NEW m, NEW d, NEW files, NEW a, NEW t, NEW k, FilesOK(m, d, files, a, t, k),
           NEW g \in Gens, g # m.gen, g # d.gen, NEW w \in Files, w.synced <= Len(w.frames),
           NEW new, new = [files EXCEPT ![g] = w]
    PROVE  FilesOK(m, d, new, a, t, k)
<1>1. /\ m \in Metas /\ d \in Metas /\ k \in Helds /\ files \in [Gens -> Files]
      /\ \A h \in Gens : files[h].synced <= Len(files[h].frames)
  BY DEF FilesOK
<1>2. /\ m.gen # 0 => new[m.gen] = files[m.gen]
      /\ d.gen # 0 => new[d.gen] = files[d.gen]
  BY <1>1 DEF Metas, Gens
<1>3. new \in [Gens -> Files] /\ \A h \in Gens : new[h].synced <= Len(new[h].frames)
  BY <1>1
<1>4. /\ Named(m, files) => Named(m, new)
      /\ Backed(m, files, a, t) => Backed(m, new, a, t)
      /\ Marked(m, files, k) => Marked(m, new, k)
  BY <1>1, <1>2, OtherFileNamed
<1>5. /\ Named(d, files) => Named(d, new)
      /\ Backed(d, files, a, t) => Backed(d, new, a, t)
      /\ Marked(d, files, k) => Marked(d, new, k)
  BY <1>1, <1>2, OtherFileNamed
<1> QED BY <1>3, <1>4, <1>5 DEF FilesOK

\* The published file is replaced by w, and with it perhaps the durable
\* metadata (d2), the confirmed and tried truths (a2, t2) and the marker (k2).
Replaces(m, d, files, a, t, k, w, new, d2, a2, t2, k2) ==
    /\ m.gen # 0 /\ w \in Files /\ w.synced <= Len(w.frames) /\ Sound(m.gen, w)
    /\ new = [files EXCEPT ![m.gen] = w]
    /\ d2 \in {m, d} /\ a2 \in Truths /\ t2 \in Truths /\ k2 \in Helds
    /\ FileSyncCommitsRenames =>
          /\ NoEarlier(SyncedTruth(w), a2) /\ NoEarlier(t2, Truth(Recover(w.frames)))
          /\ Marked(m, new, k2)
          /\ d2 = m \/ (a2 = a /\ NoEarlier(t2, t) /\ k2.marker = k.marker /\ (k2.tip => k.tip))

LEMMA PublishedFileStep ==
    ASSUME NEW m, NEW d, NEW files, NEW a, NEW t, NEW k, FilesOK(m, d, files, a, t, k),
           NEW w, NEW new, NEW d2, NEW a2, NEW t2, NEW k2,
           Replaces(m, d, files, a, t, k, w, new, d2, a2, t2, k2)
    PROVE  FilesOK(m, d2, new, a2, t2, k2)
<1> USE DEF Replaces
<1>1. /\ m \in Metas /\ d \in Metas /\ k \in Helds /\ files \in [Gens -> Files]
      /\ \A h \in Gens : files[h].synced <= Len(files[h].frames)
      /\ d.gen <= m.gen /\ (d.gen = m.gen => d = m) /\ Named(m, files) /\ Named(d, files)
      /\ a \in Truths /\ t \in Truths
  BY DEF FilesOK
<1>2. m.gen \in Gens /\ new[m.gen] = w
  BY <1>1 DEF Metas, Gens
<1>3. new \in [Gens -> Files] /\ \A h \in Gens : new[h].synced <= Len(new[h].frames)
  BY <1>1
<1>4. d # m => (d.gen # 0 => new[d.gen] = files[d.gen])
  BY <1>1, <1>2 DEF Metas, Gens
<1>5. FileSyncCommitsRenames => Marked(m, new, k2)
  OBVIOUS
<1>6. Named(m, new)
  BY <1>1, <1>2 DEF Named
<1>7. FileSyncCommitsRenames => Backed(m, new, a2, t2)
  BY <1>2 DEF Backed
<1>8. ASSUME d2 = m PROVE FilesOK(m, d2, new, a2, t2, k2)
  <2>1. m.gen \in Int
    BY <1>1 DEF Metas
  <2> QED BY <1>1, <1>3, <1>5, <1>6, <1>7, <1>8, <2>1 DEF FilesOK
<1>9. ASSUME d2 # m PROVE FilesOK(m, d2, new, a2, t2, k2)
  <2>1. d2 = d /\ d # m
    BY <1>9
  <2>2. Named(d, new)
    BY <1>1, <1>4, <2>1, OtherFileNamed
  <2>3. ASSUME FileSyncCommitsRenames PROVE Backed(d, new, a2, t2) /\ Marked(d, new, k2)
    <3>1. Backed(d, files, a, t) /\ Marked(d, files, k)
      BY <2>3 DEF FilesOK
    <3>2. Backed(d, new, a, t)
      BY <1>1, <1>4, <2>1, <3>1, OtherFileNamed
    <3>3. a2 = a /\ NoEarlier(t2, t) /\ k2.marker = k.marker /\ (k2.tip => k.tip)
      BY <1>9, <2>3
    <3>4. Backed(d, new, a2, t2)
      <4>1. CASE d.gen = 0
        BY <3>2, <3>3, <4>1 DEF Backed
      <4>2. CASE d.gen # 0
        <5>1. new[d.gen].frames \in Seq(Frames)
          BY <1>1, <1>3, <4>2 DEF Files, Metas, Gens
        <5>2. Truth(Recover(new[d.gen].frames)) \in Truths
          BY <5>1, WholeFile, TruthTyped
        <5>3. NoEarlier(t, Truth(Recover(new[d.gen].frames)))
          BY <3>2, <4>2 DEF Backed
        <5>4. NoEarlier(t2, Truth(Recover(new[d.gen].frames)))
          BY <1>1, <3>3, <5>2, <5>3, NoEarlierTransitive
        <5> QED BY <3>2, <3>3, <4>2, <5>4 DEF Backed
      <4> QED BY <4>1, <4>2
    <3>5. Marked(d, new, k)
      BY <1>1, <1>4, <2>1, <3>1, OtherFileNamed
    <3>6. Marked(d, new, k2)
      BY <3>3, <3>5 DEF Marked
    <3> QED BY <3>4, <3>6
  <2> QED BY <1>1, <1>3, <1>5, <1>6, <1>7, <2>1, <2>2, <2>3 DEF FilesOK
<1> QED BY <1>8, <1>9

-----------------------------------------------------------------------------
(* Steps of handles *)

\* A handle that is neither writing nor creating says nothing of the files.
LEMMA IdleHandle ==
    ASSUME NEW h \in Handles, h.pc \notin Writing, h.pc # "creating", Len(h.anc) <= MaxAncestors,
           NEW m, NEW d, NEW files, NEW a, NEW t
    PROVE  HandleOK(h, m, d, files, a, t)
BY DEF HandleOK, Writing

LEMMA ClosedHandle ==
    /\ Closed \in Handles /\ Closed.pc = "closed"
    /\ \A m, d, files, a, t : HandleOK(Closed, m, d, files, a, t)
<1>1. EmptyRecovery \in Cached
  BY LimitAssumption DEF EmptyRecovery, Cached, NoOps
<1>2. Closed \in Handles /\ Closed.pc = "closed" /\ Len(Closed.anc) <= MaxAncestors
  BY <1>1, LimitAssumption DEF Closed, Handles, Pcs
<1>3. Closed.pc \notin Writing /\ Closed.pc # "creating"
  BY <1>2 DEF Writing
<1>4. ASSUME NEW m, NEW d, NEW files, NEW a, NEW t PROVE HandleOK(Closed, m, d, files, a, t)
  BY <1>2, <1>3, IdleHandle
<1> QED BY <1>2, <1>4

\* The lock lets one process act: a step of its handle need only keep that
\* handle and the files right.
LEMMA HandleStep ==
    ASSUME JournalInv, NEW p \in Proc, handle[p].pc # "closed" \/ lock = NoProc,
           NEW h, handle' = [handle EXCEPT ![p] = h],
           lock' \in {p, NoProc}, h.pc # "closed" => lock' = p,
           HandleOK(h, meta', metaDurable', wal', acked', tried'),
           FilesOK(meta', metaDurable', wal', acked', tried', held')
    PROVE  JournalInv'
<1>1. \A q \in Proc : q # p => handle[q].pc = "closed"
  BY ProcAssumption DEF JournalInv, LockInv
<1>2. handle \in [Proc -> Handles] /\ h \in Handles
  BY DEF JournalInv, LockInv, HandleOK
<1>3. handle'[p] = h /\ \A q \in Proc : q # p => handle'[q] = handle[q]
  BY <1>2
<1>4. LockInv'
  <2>1. handle' \in [Proc -> Handles] /\ lock' \in Proc \cup {NoProc}
    BY <1>2
  <2> QED BY <1>1, <1>3, <2>1 DEF LockInv
<1>5. ASSUME NEW q \in Proc PROVE HandleOK(handle'[q], meta', metaDurable', wal', acked', tried')
  <2>1. CASE q = p
    BY <1>3, <2>1
  <2>2. CASE q # p
    <3>1. handle[q] \in Handles /\ Len(handle[q].anc) <= MaxAncestors /\ handle[q].pc = "closed"
      BY <1>1, <1>2, <2>2 DEF JournalInv, HandleOK
    <3>2. handle[q].pc \notin Writing /\ handle[q].pc # "creating"
      BY <3>1 DEF Writing
    <3>3. HandleOK(handle[q], meta', metaDurable', wal', acked', tried')
      BY <3>1, <3>2, IdleHandle
    <3> QED BY <1>3, <2>2, <3>3
  <2> QED BY <2>1, <2>2
<1> QED BY <1>4, <1>5 DEF JournalInv

\* What the invariant says of an acting process.
LEMMA Acting ==
    ASSUME JournalInv, NEW p \in Proc
    PROVE  /\ FilesOK(meta, metaDurable, wal, acked, tried, held)
           /\ HandleOK(handle[p], meta, metaDurable, wal, acked, tried)
           /\ handle[p] \in Handles /\ handle \in [Proc -> Handles] /\ Len(handle[p].anc) <= MaxAncestors
           /\ meta \in Metas /\ metaDurable \in Metas /\ wal \in [Gens -> Files]
           /\ acked \in Truths /\ tried \in Truths /\ held \in Helds
           /\ handle[p].pc # "closed" => lock = p
BY DEF JournalInv, LockInv, FilesOK, HandleOK

LEMMA LeavesStep ==
    ASSUME JournalInv, NEW p \in Proc, handle[p].pc # "closed", Leaves(p),
           FilesOK(meta', metaDurable', wal', acked', tried', held')
    PROVE  JournalInv'
<1>1. handle' = [handle EXCEPT ![p] = Closed] /\ lock' \in {p, NoProc}
  BY Acting DEF Leaves
<1> QED BY <1>1, ClosedHandle, HandleStep

\* A new file, and one of which only the name counts.
LEMMA HuskFields ==
    \A x, s : /\ [NoWal EXCEPT !.exists = x] = [exists |-> x, frames |-> <<>>, synced |-> 0, torn |-> FALSE]
              /\ [NoWal EXCEPT !.exists = x, !.frames = s] = [exists |-> x, frames |-> s, synced |-> 0, torn |-> FALSE]
<1> SUFFICES ASSUME NEW x, NEW s
             PROVE  /\ [NoWal EXCEPT !.exists = x] = [exists |-> x, frames |-> <<>>, synced |-> 0, torn |-> FALSE]
                    /\ [NoWal EXCEPT !.exists = x, !.frames = s] = [exists |-> x, frames |-> s, synced |-> 0, torn |-> FALSE]
  OBVIOUS
<1>1. /\ NoWal.frames = <<>> /\ NoWal.synced = 0 /\ NoWal.torn = FALSE
      /\ DOMAIN NoWal = {"exists", "frames", "synced", "torn"}
  BY DEF NoWal
<1>2. [NoWal EXCEPT !.exists = x]
        = [exists |-> x, frames |-> NoWal.frames, synced |-> NoWal.synced, torn |-> NoWal.torn]
  BY <1>1
<1>3. [NoWal EXCEPT !.exists = x, !.frames = s]
        = [exists |-> x, frames |-> s, synced |-> NoWal.synced, torn |-> NoWal.torn]
  <2> DEFINE a == [NoWal EXCEPT !.exists = x]
  <2>1. [NoWal EXCEPT !.exists = x, !.frames = s] = [a EXCEPT !.frames = s]
    OBVIOUS
  <2>2. /\ DOMAIN a = {"exists", "frames", "synced", "torn"}
        /\ a.exists = x /\ a.synced = NoWal.synced /\ a.torn = NoWal.torn
    BY <1>1
  <2> HIDE DEF a
  <2>3. [a EXCEPT !.frames = s] = [exists |-> a.exists, frames |-> s, synced |-> a.synced, torn |-> a.torn]
    BY <2>2
  <2> QED BY <2>1, <2>2, <2>3
<1> QED BY <1>1, <1>2, <1>3

LEMMA OpenLockStep ==
    ASSUME JournalInv, NEW p \in Proc, OpenLock(p)
    PROVE  JournalInv'
<1> DEFINE h == [handle[p] EXCEPT !.pc = "locked"]
<1>1. h \in Handles /\ h.pc = "locked" /\ h.anc = handle[p].anc /\ handle' = [handle EXCEPT ![p] = h]
  BY Acting DEF OpenLock, Goes, Handles, Pcs
<1>2. lock = NoProc /\ lock' = p
  BY DEF OpenLock
<1>3. FilesOK(meta', metaDurable', wal', acked', tried', held')
  BY Acting DEF OpenLock
<1> HIDE DEF h
<1>4. HandleOK(h, meta', metaDurable', wal', acked', tried')
  <2>1. h.pc \notin Writing /\ h.pc # "creating" /\ Len(h.anc) <= MaxAncestors
    BY <1>1, Acting DEF Writing
  <2> QED BY <1>1, <2>1, IdleHandle
<1> QED BY <1>1, <1>2, <1>3, <1>4, HandleStep

LEMMA OpenRefusedStep ==
    ASSUME JournalInv, NEW p \in Proc, OpenRefused(p)
    PROVE  JournalInv'
<1>1. handle[p].pc # "closed" /\ Leaves(p)
  BY DEF OpenRefused, At
<1>2. FilesOK(meta', metaDurable', wal', acked', tried', held')
  BY Acting DEF OpenRefused
<1> QED BY <1>1, <1>2, LeavesStep

LEMMA ExitStep ==
    ASSUME JournalInv, NEW p \in Proc, Exit(p)
    PROVE  JournalInv'
<1>1. handle[p].pc # "closed" /\ Leaves(p)
  BY DEF Exit, At
<1>2. FilesOK(meta', metaDurable', wal', acked', tried', held')
  BY Acting DEF Exit
<1> QED BY <1>1, <1>2, LeavesStep

LEMMA OpenCreateWalStep ==
    ASSUME JournalInv, NEW p \in Proc, OpenCreateWal(p)
    PROVE  JournalInv'
<1> DEFINE h == [handle[p] EXCEPT !.pc = "creating"]
           w == [exists |-> TRUE, frames |-> <<>>, synced |-> 0, torn |-> FALSE]
<1>1. h \in Handles /\ h.pc = "creating" /\ h.anc = handle[p].anc /\ handle' = [handle EXCEPT ![p] = h]
  BY Acting DEF OpenCreateWal, Goes, Handles, Pcs
<1>2. /\ handle[p].pc # "closed" /\ lock = p /\ lock' = p /\ meta.gen = 0
      /\ meta' = meta /\ metaDurable' = metaDurable /\ acked' = acked /\ tried' = tried /\ held' = held
  BY Acting DEF OpenCreateWal, At
<1>3. wal' = [wal EXCEPT ![1] = w]
  BY HuskFields DEF OpenCreateWal
<1>4. 1 \in Gens /\ w \in Files /\ w.synced <= Len(w.frames)
  BY LimitAssumption DEF Gens, Files
<1>5. 1 # metaDurable.gen /\ 1 # meta.gen
  <2>1. metaDurable.gen <= meta.gen
    BY Acting DEF FilesOK
  <2> QED BY <1>2, <2>1
<1>6. wal'[1] = w
  BY <1>3, <1>4, Acting
<1> HIDE DEF h, w
<1>7. FilesOK(meta', metaDurable', wal', acked', tried', held')
  BY <1>2, <1>3, <1>4, <1>5, Acting, SpareFileStep
<1>8. HandleOK(h, meta', metaDurable', wal', acked', tried')
  <2>1. h.pc \notin Writing /\ Len(h.anc) <= MaxAncestors
    BY <1>1, Acting DEF Writing
  <2> QED BY <1>1, <1>2, <1>6, <2>1 DEF HandleOK, w
<1> QED BY <1>1, <1>2, <1>7, <1>8, HandleStep

\* The published file: its type, and what it says against what was confirmed
\* and tried.
LEMMA PublishedFile ==
    ASSUME NEW m, NEW d, NEW files, NEW a, NEW t, NEW k, FilesOK(m, d, files, a, t, k), m.gen # 0
    PROVE  LET w == files[m.gen] IN
           /\ m.gen \in Gens /\ w \in Files /\ Sound(m.gen, w) /\ w.synced \in 0..Len(w.frames)
           /\ w.frames \in Seq(Frames) /\ Recover(w.frames) \in Cached /\ Recover(w.frames).seq = Len(w.frames)
           /\ Truth(Recover(w.frames)) \in Truths
           /\ FileSyncCommitsRenames => /\ NoEarlier(Truth(Recover(w.frames)), a)
                                        /\ NoEarlier(t, Truth(Recover(w.frames)))
<1> DEFINE w == files[m.gen]
<1>1. m.gen \in Gens /\ w \in Files /\ Sound(m.gen, w) /\ w.synced <= Len(w.frames) /\ a \in Truths
  BY DEF FilesOK, Metas, Gens, Named
<1>2. FileSyncCommitsRenames => NoEarlier(SyncedTruth(w), a) /\ NoEarlier(t, Truth(Recover(w.frames)))
  BY DEF FilesOK, Backed
<1> HIDE DEF w
<1>3. w.frames \in Seq(Frames) /\ w.synced \in 0..Len(w.frames)
  BY <1>1 DEF Files
<1>4. Recover(w.frames) \in Folded /\ Recover(w.frames).seq = Len(w.frames) /\ UpTo(w.frames, Len(w.frames)) = Recover(w.frames)
  BY <1>3, WholeFile
<1>5. Recover(w.frames) \in Cached
  <2>1. Recover(w.frames).corrupt = FALSE /\ Recover(w.frames).seq \in 0..MaxRecords
    <3>1. Recover(w.frames).corrupt \in BOOLEAN /\ ~Recover(w.frames).corrupt
      BY <1>1, <1>4 DEF Sound, Folded
    <3>2. Recover(w.frames).seq \in Nat /\ Len(w.frames) <= MaxRecords
      BY <1>1, <1>4 DEF Sound, Folded
    <3> QED BY <1>4, <3>1, <3>2
  <2> DEFINE rec == Recover(w.frames)
  <2> HIDE DEF rec
  <2>2. rec \in Folded /\ rec.corrupt = FALSE /\ rec.seq \in 0..MaxRecords
    BY <1>4, <2>1 DEF rec
  <2>3. /\ rec = [epoch |-> rec.epoch, ops |-> rec.ops, from |-> rec.from, seq |-> rec.seq, corrupt |-> rec.corrupt]
        /\ rec.epoch \in 1..MaxEpoch /\ rec.ops \in [Id -> 0..MaxVer] /\ rec.from \in Tips \cup {NoMarker}
    BY <2>2 DEF Folded
  <2>4. rec \in Cached
    BY <2>2, <2>3 DEF Cached
  <2> QED BY <2>4 DEF rec
<1>6. Truth(Recover(w.frames)) \in Truths
  BY <1>4, TruthTyped
<1>7. FileSyncCommitsRenames => NoEarlier(Truth(Recover(w.frames)), a)
  <2>1. SyncedTruth(w) \in Truths /\ SyncedTruth(w) = Truth(UpTo(w.frames, w.synced))
    BY <1>3, RecoverTyped, TruthTyped DEF SyncedTruth, UpTo
  <2>2. NoEarlier(Truth(Recover(w.frames)), SyncedTruth(w))
    <3>1. Len(w.frames) \in 0..Len(w.frames) /\ ~UpTo(w.frames, Len(w.frames)).corrupt
      BY <1>1, <1>3, <1>4, WholeFile DEF Sound
    <3> QED BY <1>3, <1>4, <2>1, <3>1, PrefixReadable
  <2> QED BY <1>1, <1>2, <1>6, <2>1, <2>2, NoEarlierTransitive
<1> QED BY <1>1, <1>2, <1>3, <1>4, <1>5, <1>6, <1>7 DEF w

\* sync_all of the published file, and what it does to the metadata.
Syncs(m, d, files, torn, d2, new) ==
    /\ m.gen # 0 /\ torn \in BOOLEAN
    /\ d2 = IF FileSyncCommitsRenames THEN m ELSE d
    /\ LET w == files[m.gen] IN
       new = [files EXCEPT ![m.gen] = [exists |-> w.exists, frames |-> w.frames,
                                       synced |-> Len(w.frames), torn |-> torn]]

LEMMA FileFields ==
    ASSUME NEW w \in Files
    PROVE  /\ Synced(w) = [exists |-> w.exists, frames |-> w.frames, synced |-> Len(w.frames), torn |-> w.torn]
           /\ \A torn \in BOOLEAN :
                [w EXCEPT !.torn = torn] = [exists |-> w.exists, frames |-> w.frames, synced |-> w.synced, torn |-> torn]
           /\ \A s : [w EXCEPT !.frames = s] = [exists |-> w.exists, frames |-> s, synced |-> w.synced, torn |-> w.torn]
<1>1. DOMAIN w = {"exists", "frames", "synced", "torn"}
  BY DEF Files
<1> QED BY <1>1 DEF Synced

LEMMA SyncStep ==
    ASSUME NEW m, NEW d, NEW files, NEW a, NEW t, NEW k, FilesOK(m, d, files, a, t, k),
           NEW torn, NEW d2, NEW new, Syncs(m, d, files, torn, d2, new), NEW a2 \in Truths, NEW t2 \in Truths,
           FileSyncCommitsRenames => /\ NoEarlier(Truth(Recover(files[m.gen].frames)), a2)
                                     /\ NoEarlier(t2, Truth(Recover(files[m.gen].frames)))
    PROVE  FilesOK(m, d2, new, a2, t2, k)
<1> DEFINE w == files[m.gen]
           w2 == [exists |-> w.exists, frames |-> w.frames, synced |-> Len(w.frames), torn |-> torn]
<1>0. m.gen # 0 /\ torn \in BOOLEAN /\ d2 = (IF FileSyncCommitsRenames THEN m ELSE d) /\ new = [files EXCEPT ![m.gen] = w2]
  BY DEF Syncs
<1>1. /\ m.gen \in Gens /\ w \in Files /\ Sound(m.gen, w) /\ w.synced \in 0..Len(w.frames)
      /\ w.frames \in Seq(Frames) /\ Len(w.frames) \in Nat
  BY <1>0, PublishedFile
<1>2. /\ w2.exists = w.exists /\ w2.frames = w.frames /\ w2.synced = Len(w.frames) /\ w2 \in Files
      /\ w2.synced <= Len(w2.frames)
  BY <1>0, <1>1 DEF Files
<1>3. m \in Metas /\ files \in [Gens -> Files] /\ k \in Helds
  BY DEF FilesOK
<1>4. new[m.gen] = w2
  BY <1>0, <1>1, <1>3
<1>5. FileSyncCommitsRenames => d2 = m
  BY <1>0
<1>6. d2 \in {m, d}
  BY <1>0
<1>a. FileSyncCommitsRenames => Marked(m, files, k)
  BY DEF FilesOK
<1> HIDE DEF w2
<1>7. Sound(m.gen, w2)
  BY <1>1, <1>2 DEF Sound, Gens
<1>8. SyncedTruth(w2) = Truth(Recover(w.frames))
  <2>1. SubSeq(w2.frames, 1, w2.synced) = w.frames
    BY <1>1, <1>2
  <2> QED BY <2>1 DEF SyncedTruth
<1>9. FileSyncCommitsRenames => Marked(m, new, k)
  <2> SUFFICES ASSUME FileSyncCommitsRenames PROVE Marked(m, new, k)
    OBVIOUS
  <2>1. Marked(m, files, k)
    BY <1>a
  <2>2. /\ w.synced \in Nat /\ w2.synced \in Nat /\ w2.synced >= w.synced /\ Len(w2.frames) = Len(w.frames)
        /\ \A n \in 0..w.synced : SubSeq(w2.frames, 1, n) = SubSeq(w.frames, 1, n)
    BY <1>1, <1>2
  <2> QED BY <1>3, <1>4, <2>1, <2>2, MarkedKeeps
<1>10. FilesOK(m, d2, new, a2, t2, k)
  <2>1. FileSyncCommitsRenames =>
            /\ NoEarlier(SyncedTruth(w2), a2) /\ NoEarlier(t2, Truth(Recover(w2.frames)))
            /\ Marked(m, new, k) /\ d2 = m
    BY <1>2, <1>5, <1>8, <1>9
  <2>2. new = [files EXCEPT ![m.gen] = w2] /\ m.gen # 0
    BY <1>0 DEF w2
  <2>3. Replaces(m, d, files, a, t, k, w2, new, d2, a2, t2, k)
    BY <1>2, <1>3, <1>6, <1>7, <2>1, <2>2 DEF Replaces
  <2> QED BY <2>3, PublishedFileStep
<1> QED BY <1>10

LEMMA OpenCreateMetaStep ==
    ASSUME JournalInv, NEW p \in Proc, OpenCreateMeta(p)
    PROVE  JournalInv'
<1> DEFINE first == [gen |-> 1, anc |-> <<>>]
           w == [exists |-> TRUE, frames |-> <<>>, synced |-> 0, torn |-> FALSE]
<1>1. /\ handle[p].pc # "closed" /\ lock = p
      /\ wal' = wal /\ acked' = acked /\ tried' = tried /\ held' = held
  BY Acting DEF OpenCreateMeta, At
<1>2. meta.gen = 0 /\ wal[1] = w
  BY Acting DEF OpenCreateMeta, At, HandleOK
<1>3. /\ meta \in Metas /\ metaDurable \in Metas /\ wal \in [Gens -> Files]
      /\ \A g \in Gens : wal[g].synced <= Len(wal[g].frames)
      /\ acked \in Truths /\ tried \in Truths /\ held \in Helds
      /\ metaDurable.gen = 0 /\ Named(metaDurable, wal)
  BY <1>2 DEF JournalInv, FilesOK, Metas
<1>4. FileSyncCommitsRenames =>
        /\ acked = Truth(EmptyRecovery) /\ held.marker = NoMarker
        /\ Backed(metaDurable, wal, acked, tried) /\ Marked(metaDurable, wal, held)
  <2> SUFFICES ASSUME FileSyncCommitsRenames
               PROVE  /\ acked = Truth(EmptyRecovery) /\ held.marker = NoMarker
                      /\ Backed(metaDurable, wal, acked, tried) /\ Marked(metaDurable, wal, held)
    OBVIOUS
  <2>1. Backed(metaDurable, wal, acked, tried) /\ Marked(metaDurable, wal, held)
    BY DEF JournalInv, FilesOK
  <2>2. acked = Truth(EmptyRecovery)
    BY <1>3, <2>1 DEF Backed
  <2>3. held.marker = NoMarker
    <3>1. held.marker # NoMarker => held.marker.gen >= 1 /\ held.marker.gen \in Int
      BY <1>3, LimitAssumption DEF Helds, Tips, Gens
    <3>2. held.marker # NoMarker => 0 - held.marker.gen >= 0
      BY <1>3, <2>1 DEF Marked
    <3> QED BY <3>1, <3>2
  <2> QED BY <2>1, <2>2, <2>3
<1>5. first \in Metas /\ first.gen = 1 /\ first.anc = <<>> /\ Len(first.anc) = 0
  BY LimitAssumption DEF Metas
<1>6. w.exists = TRUE /\ w.frames = <<>> /\ w.synced = 0 /\ w.torn = FALSE /\ Len(w.frames) = 0
  OBVIOUS
<1> HIDE DEF first, w
<1>7. Recover(w.frames) = EmptyRecovery /\ SyncedTruth(w) = Truth(EmptyRecovery)
  <2>1. SubSeq(w.frames, 1, 0) = <<>>
    BY <1>6
  <2> QED BY <1>6, <2>1, RecoverEmpty DEF SyncedTruth
<1>8. Sound(1, w)
  <2>1. ~EmptyRecovery.corrupt /\ EmptyRecovery.from = NoMarker
    BY DEF EmptyRecovery
  <2> QED BY <1>6, <1>7, <2>1, LimitAssumption DEF Sound, LineageMatches
<1>9. Named(first, wal)
  BY <1>2, <1>5, <1>8, LimitAssumption DEF Named
<1>10. FileSyncCommitsRenames => Backed(first, wal, acked, tried) /\ Marked(first, wal, held)
  <2>1. NoEarlier(Truth(EmptyRecovery), Truth(EmptyRecovery)) /\ NoEarlier(tried, Truth(EmptyRecovery))
    BY <1>3, EmptyTruth
  <2> QED BY <1>2, <1>4, <1>5, <1>7, <2>1 DEF Backed, Marked
<1>11. FilesOK(first, first, wal, acked, tried, held)
  BY <1>3, <1>5, <1>9, <1>10 DEF FilesOK
<1>12. FilesOK(first, metaDurable, wal, acked, tried, held)
  BY <1>3, <1>4, <1>5, <1>9, <1>10 DEF FilesOK
<1>13. CASE meta' = first /\ metaDurable' = first /\ handle' = [handle EXCEPT ![p] = Opened(EmptyRecovery, first)] /\ lock' = lock
  <2> DEFINE h == Opened(EmptyRecovery, first)
  <2>1. EmptyRecovery \in Cached
    BY LimitAssumption DEF EmptyRecovery, Cached, NoOps
  <2>2. /\ h.pc = "open" /\ h.rec = EmptyRecovery /\ h.gen = 1 /\ h.anc = <<>> /\ h.pend = NoRecord /\ h.ready = FALSE
        /\ h \in Handles /\ Len(h.anc) <= MaxAncestors
    BY <1>5, <2>1, LimitAssumption DEF Opened, Handles, Pcs
  <2> HIDE DEF h
  <2>3. HandleOK(h, first, first, wal, acked, tried)
    <3>1. Caches(h, first, first, wal[1])
      BY <1>2, <1>5, <1>6, <1>7, <2>2 DEF Caches
    <3>2. FileSyncCommitsRenames => NoEarlier(Truth(h.rec), acked) /\ NoEarlier(tried, Truth(h.rec))
      BY <1>3, <1>4, <2>2, EmptyTruth
    <3> QED BY <1>5, <2>2, <3>1, <3>2 DEF HandleOK
  <2> QED BY <1>1, <1>11, <1>13, <2>2, <2>3, HandleStep DEF h
<1>14. CASE meta' = first /\ Leaves(p) /\ metaDurable' = metaDurable
  BY <1>1, <1>12, <1>14, LeavesStep
<1>15. CASE Leaves(p) /\ meta' = meta /\ metaDurable' = metaDurable
  BY <1>1, <1>15, Acting, LeavesStep
<1> QED BY <1>13, <1>14, <1>15 DEF OpenCreateMeta, first

LEMMA OpenRecoverStep ==
    ASSUME JournalInv, NEW p \in Proc, OpenRecover(p)
    PROVE  JournalInv'
<1> DEFINE w == wal[meta.gen]
           rec == Recover(w.frames)
           h == Opened(rec, meta)
<1>1. /\ handle[p].pc # "closed" /\ lock = p /\ lock' = p /\ meta.gen # 0
      /\ meta' = meta /\ acked' = acked /\ tried' = tried /\ held' = held
      /\ handle' = [handle EXCEPT ![p] = h]
  BY Acting DEF OpenRecover, At
<1>2. /\ meta.gen \in Gens /\ w \in Files /\ rec \in Cached /\ rec.seq = Len(w.frames)
      /\ FileSyncCommitsRenames => NoEarlier(Truth(rec), acked) /\ NoEarlier(tried, Truth(rec))
  BY <1>1, Acting, PublishedFile
<1>3. \/ /\ w.torn /\ wal' = [wal EXCEPT ![meta.gen] = Synced([w EXCEPT !.torn = FALSE])]
         /\ metaDurable' = IF FileSyncCommitsRenames THEN meta ELSE metaDurable
      \/ ~w.torn /\ wal' = wal /\ metaDurable' = metaDurable
  BY DEF OpenRecover, SyncsRenames
<1>4. /\ h.pc = "open" /\ h.rec = rec /\ h.gen = meta.gen /\ h.anc = meta.anc /\ h.pend = NoRecord /\ h.ready = FALSE
      /\ h \in Handles /\ Len(h.anc) <= MaxAncestors
  <2>1. meta \in Metas /\ Len(meta.anc) <= MaxAncestors
    BY DEF JournalInv, FilesOK, Named
  <2> QED BY <1>2, <2>1 DEF Opened, Handles, Pcs, Metas
<1> HIDE DEF h
<1>5. ASSUME ~wal'[meta.gen].torn, wal'[meta.gen].frames = w.frames
      PROVE  HandleOK(h, meta', metaDurable', wal', acked', tried')
  <2>1. Caches(h, meta, metaDurable', wal'[meta.gen])
    BY <1>1, <1>4, <1>5 DEF Caches
  <2> QED BY <1>1, <1>2, <1>4, <2>1 DEF HandleOK
<1>6. CASE w.torn /\ wal' = [wal EXCEPT ![meta.gen] = Synced([w EXCEPT !.torn = FALSE])]
           /\ metaDurable' = IF FileSyncCommitsRenames THEN meta ELSE metaDurable
  <2> DEFINE w2 == [exists |-> w.exists, frames |-> w.frames, synced |-> Len(w.frames), torn |-> FALSE]
  <2>1. Synced([w EXCEPT !.torn = FALSE]) = w2
    <3>1. [w EXCEPT !.torn = FALSE] = [exists |-> w.exists, frames |-> w.frames, synced |-> w.synced, torn |-> FALSE]
      BY <1>2, FileFields
    <3> DEFINE v == [exists |-> w.exists, frames |-> w.frames, synced |-> w.synced, torn |-> FALSE]
    <3>2. v \in Files /\ v.exists = w.exists /\ v.frames = w.frames /\ v.torn = FALSE
      BY <1>2 DEF Files
    <3> HIDE DEF v
    <3>3. Synced(v) = [exists |-> v.exists, frames |-> v.frames, synced |-> Len(v.frames), torn |-> v.torn]
      BY <3>2, FileFields
    <3> QED BY <3>1, <3>2, <3>3 DEF v
  <2>2. wal' = [wal EXCEPT ![meta.gen] = w2]
    BY <1>6, <2>1
  <2>3. ~wal'[meta.gen].torn /\ wal'[meta.gen].frames = w.frames
    BY <1>2, <2>2, Acting
  <2>4. FilesOK(meta, metaDurable', wal', acked, tried, held)
    <3>1. FALSE \in BOOLEAN /\ acked \in Truths /\ tried \in Truths
      BY Acting
    <3>2. Syncs(meta, metaDurable, wal, FALSE, metaDurable', wal')
      BY <1>1, <1>6, <2>2 DEF Syncs
    <3> QED BY <1>2, <3>1, <3>2, Acting, SyncStep
  <2> QED BY <1>1, <1>4, <1>5, <2>3, <2>4, HandleStep
<1>7. CASE ~w.torn /\ wal' = wal /\ metaDurable' = metaDurable
  BY <1>1, <1>4, <1>5, <1>7, Acting, HandleStep
<1> QED BY <1>3, <1>6, <1>7

\* What the invariant says of a writer.
LEMMA WriterFacts ==
    ASSUME JournalInv, NEW p \in Proc, handle[p].pc \in Writing
    PROVE  LET h == handle[p]
               w == wal[meta.gen] IN
           /\ h.pc # "closed" /\ lock = p /\ meta.gen # 0 /\ h.gen = meta.gen /\ h.anc = meta.anc /\ w.torn = FALSE
           /\ h \in Handles /\ h.rec \in Cached
           /\ Caches(h, meta, metaDurable, w)
           /\ FileSyncCommitsRenames => NoEarlier(Truth(h.rec), acked) /\ NoEarlier(tried, Truth(h.rec))
           /\ h.pc # "writing" => Recover(w.frames) = h.rec /\ h.rec.seq = Len(w.frames)
           /\ meta.gen \in Gens /\ w \in Files /\ Sound(meta.gen, w) /\ w.synced \in 0..Len(w.frames)
           /\ w.frames \in Seq(Frames)
<1> DEFINE h == handle[p]
           w == wal[meta.gen]
<1>1. h.pc # "closed" /\ lock = p /\ h \in Handles /\ h.rec \in Cached
  BY Acting DEF Writing, Handles
<1>2. /\ Caches(h, meta, metaDurable, w)
      /\ FileSyncCommitsRenames => NoEarlier(Truth(h.rec), acked) /\ NoEarlier(tried, Truth(h.rec))
  BY Acting DEF HandleOK
<1>3. /\ meta.gen # 0 /\ h.gen = meta.gen /\ h.anc = meta.anc /\ ~w.torn
      /\ h.pc # "writing" => Recover(w.frames) = h.rec
  BY <1>2 DEF Caches
<1>4. /\ meta.gen \in Gens /\ w \in Files /\ Sound(meta.gen, w) /\ w.synced \in 0..Len(w.frames)
      /\ w.frames \in Seq(Frames) /\ Recover(w.frames).seq = Len(w.frames)
  BY <1>3, Acting, PublishedFile
<1>5. w.torn = FALSE
  BY <1>3, <1>4 DEF Files
<1> HIDE DEF h, w
<1> QED BY <1>1, <1>2, <1>3, <1>4, <1>5 DEF h, w

\* The frame of a record is in the file but not synced.
LEMMA FrameWritten ==
    ASSUME JournalInv, NEW p \in Proc, handle[p].pc \in {"open", "retrying"},
           NEW r \in Appendable(handle[p].rec), ~Full(p),
           wal' = [wal EXCEPT ![handle[p].gen].frames = Append(@, r)],
           handle' = [handle EXCEPT ![p].pc = "writing", ![p].pend = r],
           tried' = Join(tried, Truth(ApplyRecord(handle[p].rec, r))),
           held' = [held EXCEPT !.tip = FALSE],
           UNCHANGED <<lock, meta, metaDurable, acked>>
    PROVE  JournalInv'
<1> DEFINE w == wal[meta.gen]
           w2 == [exists |-> w.exists, frames |-> Append(w.frames, r), synced |-> w.synced, torn |-> w.torn]
           h == [handle[p] EXCEPT !.pc = "writing", !.pend = r]
           rec == handle[p].rec
           new == ApplyRecord(rec, r)
<1>1. /\ handle[p].pc # "closed" /\ handle[p].pc # "writing" /\ handle[p].pc \in Writing
      /\ lock = p /\ meta.gen # 0 /\ handle[p].gen = meta.gen /\ handle[p].anc = meta.anc /\ w.torn = FALSE
      /\ rec \in Cached /\ Recover(w.frames) = rec /\ rec.seq = Len(w.frames)
      /\ meta.gen \in Gens /\ w \in Files /\ Sound(meta.gen, w) /\ w.synced \in 0..Len(w.frames)
      /\ w.frames \in Seq(Frames) /\ Caches(handle[p], meta, metaDurable, w)
      /\ FileSyncCommitsRenames => NoEarlier(Truth(rec), acked) /\ NoEarlier(tried, Truth(rec))
  <2>1. handle[p].pc \in Writing /\ handle[p].pc # "writing"
    BY DEF Writing
  <2> QED BY <2>1, WriterFacts
<1>2. /\ handle[p] \in Handles /\ handle \in [Proc -> Handles] /\ wal \in [Gens -> Files] /\ held \in Helds
      /\ tried \in Truths /\ acked \in Truths /\ Len(handle[p].anc) <= MaxAncestors
  BY Acting
<1>3. /\ r \in Frames /\ FoldRecord(rec, r) = new /\ new \in Folded /\ ~new.corrupt /\ new.from = rec.from
      /\ Truth(new) \in Truths /\ NoEarlier(Truth(new), Truth(rec))
  BY <1>1, AppendableFolds
<1>4. Len(w.frames) + 1 <= MaxFrames /\ Len(w.frames) + 1 <= MaxRecords
  <2>1. ~(rec.seq + 1 > MaxRecords) /\ ~(Len(w.frames) + 1 > MaxFrames)
    BY <1>1 DEF Full
  <2> QED BY <1>1, <2>1, LimitAssumption
<1>5. wal' = [wal EXCEPT ![meta.gen] = w2]
  <2>1. [w EXCEPT !.frames = Append(w.frames, r)] = w2
    BY <1>1, FileFields
  <2>2. wal' = [wal EXCEPT ![meta.gen] = [w EXCEPT !.frames = Append(w.frames, r)]]
    BY <1>1, <1>2
  <2> QED BY <2>1, <2>2
<1>6. handle' = [handle EXCEPT ![p] = h]
  BY <1>2
<1>7. /\ w2 \in Files /\ w2.exists = w.exists /\ w2.frames = Append(w.frames, r) /\ w2.synced = w.synced
      /\ w2.torn = w.torn /\ w2.frames \in Seq(Frames) /\ Len(w2.frames) = Len(w.frames) + 1
      /\ w2.synced <= Len(w2.frames)
  BY <1>1, <1>3 DEF Files
<1>8. wal'[meta.gen] = w2
  BY <1>1, <1>2, <1>5
<1>9. /\ h \in Handles /\ h.pc = "writing" /\ h.pend = r /\ h.rec = rec /\ h.gen = meta.gen /\ h.anc = meta.anc
      /\ h.ready = handle[p].ready
  BY <1>1, <1>2, <1>3 DEF Handles, Pcs
<1> HIDE DEF w, w2, h, rec, new
<1>10. Recover(w2.frames) = new
  <2>1. Recover(Append(w.frames, r)) = FoldRecord(Recover(w.frames), r)
    BY <1>1, <1>3, RecoverAppend
  <2> QED BY <1>1, <1>3, <1>7, <2>1
<1>11. Sound(meta.gen, w2)
  BY <1>1, <1>3, <1>4, <1>7, <1>10 DEF Sound, LineageMatches
<1>12. /\ tried' \in Truths /\ NoEarlier(tried', tried) /\ NoEarlier(tried', Truth(new))
  BY <1>2, <1>3, JoinCovers DEF new, rec
<1>13. held' \in Helds /\ held'.marker = held.marker /\ held'.tip = FALSE
  BY <1>2 DEF Helds
<1>14. \A n \in 0..w.synced : SubSeq(w2.frames, 1, n) = SubSeq(w.frames, 1, n)
  BY <1>1, <1>3, <1>7
<1>15. FilesOK(meta, metaDurable, wal', acked, tried', held')
  <2>1. FileSyncCommitsRenames => Marked(meta, wal', held')
    <3> SUFFICES ASSUME FileSyncCommitsRenames PROVE Marked(meta, wal', held')
      OBVIOUS
    <3>1. Marked(meta, wal, held) /\ meta \in Metas
      BY Acting DEF FilesOK
    <3>2. wal[meta.gen] = w /\ w.synced \in Nat /\ w2.synced \in Nat /\ w2.synced >= w.synced
      BY <1>1, <1>7 DEF w
    <3> QED BY <1>2, <1>8, <1>13, <1>14, <3>1, <3>2, MarkedKeeps
  <2>2. FileSyncCommitsRenames => NoEarlier(SyncedTruth(w2), acked)
    <3> SUFFICES ASSUME FileSyncCommitsRenames PROVE NoEarlier(SyncedTruth(w2), acked)
      OBVIOUS
    <3>1. NoEarlier(SyncedTruth(w), acked)
      BY <1>1, Acting DEF FilesOK, Backed, w
    <3>2. w.synced \in 0..w.synced
      BY <1>1
    <3> QED BY <1>7, <1>14, <3>1, <3>2 DEF SyncedTruth
  <2>3. Replaces(meta, metaDurable, wal, acked, tried, held, w2, wal', metaDurable, acked, tried', held')
    BY <1>1, <1>2, <1>5, <1>7, <1>10, <1>11, <1>12, <1>13, <2>1, <2>2 DEF Replaces
  <2> QED BY <2>3, Acting, PublishedFileStep
<1>16. HandleOK(h, meta, metaDurable, wal', acked, tried')
  <2>1. Caches(h, meta, metaDurable, w2)
    <3>1. h.ready /\ FileSyncCommitsRenames => metaDurable = meta
      BY <1>1, <1>9 DEF Caches
    <3>2. r \in Appendable(h.rec)
      BY <1>9 DEF rec
    <3> QED BY <1>1, <1>7, <1>9, <1>10, <3>1, <3>2 DEF Caches, new
  <2>2. FileSyncCommitsRenames => NoEarlier(Truth(h.rec), acked) /\ NoEarlier(tried', Truth(h.rec))
    <3>1. Truth(rec) \in Truths
      BY <1>1, TruthTyped
    <3> QED BY <1>1, <1>2, <1>9, <1>12, <3>1, NoEarlierTransitive
  <2> QED BY <1>1, <1>2, <1>8, <1>9, <2>1, <2>2 DEF HandleOK
<1> QED BY <1>1, <1>6, <1>9, <1>15, <1>16, HandleStep

\* The write failed and left a torn tail.
LEMMA FrameTorn ==
    ASSUME JournalInv, NEW p \in Proc, handle[p].pc \in {"open", "retrying"},
           wal' = [wal EXCEPT ![handle[p].gen].torn = TRUE], Goes(p, "failed"),
           UNCHANGED <<lock, meta, metaDurable, acked, tried, held>>
    PROVE  JournalInv'
<1> DEFINE w == wal[meta.gen]
           w2 == [exists |-> w.exists, frames |-> w.frames, synced |-> w.synced, torn |-> TRUE]
           h == [handle[p] EXCEPT !.pc = "failed"]
<1>1. /\ handle[p].pc # "closed" /\ lock = p /\ meta.gen # 0 /\ handle[p].gen = meta.gen
      /\ meta.gen \in Gens /\ w \in Files /\ Sound(meta.gen, w) /\ w.synced \in 0..Len(w.frames)
  <2>1. handle[p].pc \in Writing
    BY DEF Writing
  <2> QED BY <2>1, WriterFacts
<1>2. /\ handle[p] \in Handles /\ handle \in [Proc -> Handles] /\ wal \in [Gens -> Files] /\ held \in Helds
      /\ tried \in Truths /\ acked \in Truths /\ Len(handle[p].anc) <= MaxAncestors
      /\ FilesOK(meta, metaDurable, wal, acked, tried, held)
  BY Acting
<1>3. wal' = [wal EXCEPT ![meta.gen] = w2]
  <2>1. [w EXCEPT !.torn = TRUE] = w2
    BY <1>1, FileFields
  <2>2. wal' = [wal EXCEPT ![meta.gen] = [w EXCEPT !.torn = TRUE]]
    BY <1>1, <1>2
  <2> QED BY <2>1, <2>2
<1>4. /\ h \in Handles /\ h.pc = "failed" /\ h.anc = handle[p].anc /\ handle' = [handle EXCEPT ![p] = h]
  BY <1>2 DEF Goes, Handles, Pcs
<1>5. /\ w2 \in Files /\ w2.exists = w.exists /\ w2.frames = w.frames /\ w2.synced = w.synced
      /\ w2.synced <= Len(w2.frames)
  BY <1>1 DEF Files
<1>6. wal'[meta.gen] = w2
  BY <1>1, <1>2, <1>3
<1> HIDE DEF h, w2
<1>7. Sound(meta.gen, w2)
  BY <1>1, <1>5 DEF Sound
<1>8. FileSyncCommitsRenames => /\ NoEarlier(SyncedTruth(w2), acked) /\ NoEarlier(tried, Truth(Recover(w2.frames)))
                                /\ Marked(meta, wal', held)
  <2> SUFFICES ASSUME FileSyncCommitsRenames
               PROVE  /\ NoEarlier(SyncedTruth(w2), acked) /\ NoEarlier(tried, Truth(Recover(w2.frames)))
                      /\ Marked(meta, wal', held)
    OBVIOUS
  <2>1. Backed(meta, wal, acked, tried) /\ Marked(meta, wal, held) /\ meta \in Metas
    BY <1>2 DEF FilesOK
  <2>2. NoEarlier(SyncedTruth(w2), acked) /\ NoEarlier(tried, Truth(Recover(w2.frames)))
    BY <1>1, <1>5, <2>1 DEF Backed, SyncedTruth
  <2>3. Marked(meta, wal', held)
    <3>1. w.synced \in Nat /\ w2.synced \in Nat /\ w2.synced >= w.synced
      BY <1>1, <1>5
    <3> QED BY <1>2, <1>5, <1>6, <2>1, <3>1, MarkedKeeps
  <2> QED BY <2>2, <2>3
<1>9. FilesOK(meta, metaDurable, wal', acked, tried, held)
  <2>1. NoEarlier(tried, tried)
    BY <1>2, LimitAssumption DEF NoEarlier, Truths
  <2>2. Replaces(meta, metaDurable, wal, acked, tried, held, w2, wal', metaDurable, acked, tried, held)
    BY <1>1, <1>2, <1>3, <1>5, <1>7, <1>8, <2>1 DEF Replaces
  <2> QED BY <1>2, <2>2, PublishedFileStep
<1>10. HandleOK(h, meta, metaDurable, wal', acked, tried)
  <2>1. h.pc \notin Writing /\ h.pc # "creating"
    BY <1>4 DEF Writing
  <2> QED BY <1>2, <1>4, <2>1, IdleHandle
<1> QED BY <1>1, <1>4, <1>9, <1>10, HandleStep

\* A writer that leaves its own file alone and stays healthy.
LEMMA WriterMoves ==
    ASSUME JournalInv, NEW p \in Proc, handle[p].pc \in Writing, handle[p].pc # "writing",
           NEW pc \in {"open", "compacting", "candidate"}, NEW r \in Appendable(handle[p].rec) \cup {NoRecord},
           pc = "open" => r = NoRecord,
           handle' = [handle EXCEPT ![p].pc = pc, ![p].pend = r],
           UNCHANGED <<lock, meta, acked, tried>>,
           wal'[meta.gen] = wal[meta.gen], metaDurable' \in {meta, metaDurable},
           FilesOK(meta, metaDurable', wal', acked, tried, held'),
           pc = "candidate" => Candidate(handle[p], wal')
    PROVE  JournalInv'
<1> DEFINE h == [handle[p] EXCEPT !.pc = pc, !.pend = r]
           w == wal[meta.gen]
<1>1. /\ handle[p].pc # "closed" /\ lock = p /\ handle[p].rec \in Cached /\ handle[p] \in Handles
      /\ Caches(handle[p], meta, metaDurable, w)
      /\ FileSyncCommitsRenames => NoEarlier(Truth(handle[p].rec), acked) /\ NoEarlier(tried, Truth(handle[p].rec))
  BY WriterFacts
<1>2. handle \in [Proc -> Handles] /\ Len(handle[p].anc) <= MaxAncestors
  BY Acting
<1>3. r \in Frames \cup {NoRecord}
  BY <1>1, AppendableFolds
<1>4. /\ handle' = [handle EXCEPT ![p] = h] /\ h \in Handles /\ h.pc = pc /\ h.pend = r /\ h.rec = handle[p].rec
      /\ h.gen = handle[p].gen /\ h.anc = handle[p].anc /\ h.ready = handle[p].ready
  BY <1>1, <1>2, <1>3 DEF Handles, Pcs
<1> HIDE DEF h
<1>5. Caches(h, meta, metaDurable', w)
  <2>1. /\ h.pc # "writing" /\ h.pc \notin {"writing", "retrying"} /\ h.pend \in Appendable(h.rec) \cup {NoRecord}
        /\ h.pc = "open" => h.pend = NoRecord
    BY <1>4
  <2>2. h.ready /\ FileSyncCommitsRenames => metaDurable' = meta
    BY <1>1, <1>4 DEF Caches
  <2> QED BY <1>1, <1>4, <2>1, <2>2 DEF Caches
<1>6. HandleOK(h, meta, metaDurable', wal', acked, tried)
  BY <1>1, <1>2, <1>4, <1>5 DEF HandleOK, Candidate
<1>7. h.pc # "closed"
  BY <1>4
<1> QED BY <1>1, <1>4, <1>6, <1>7, HandleStep

LEMMA AppendRecordStep ==
    ASSUME JournalInv, NEW p \in Proc, AppendRecord(p)
    PROVE  JournalInv'
<1>1. /\ handle[p].pc = "open" /\ UNCHANGED <<lock, meta, metaDurable, acked>>
  BY DEF AppendRecord, At
<1>2. PICK r \in Appendable(handle[p].rec) :
          \/ ~Full(p) /\ WriteFrame(p, r)
          \/ /\ Full(p)
             /\ handle' = [handle EXCEPT ![p].pc = "compacting", ![p].pend = r]
             /\ UNCHANGED <<wal, tried, held>>
  BY DEF AppendRecord
<1>3. CASE ~Full(p) /\ WriteFrame(p, r)
  BY <1>1, <1>3, FrameWritten, FrameTorn DEF WriteFrame
<1>4. CASE Full(p) /\ handle' = [handle EXCEPT ![p].pc = "compacting", ![p].pend = r] /\ UNCHANGED <<wal, tried, held>>
  <2>1. handle[p].pc \in Writing /\ handle[p].pc # "writing"
    BY <1>1 DEF Writing
  <2>2. FilesOK(meta, metaDurable', wal', acked, tried, held') /\ wal'[meta.gen] = wal[meta.gen]
    BY <1>1, <1>4, Acting
  <2> QED BY <1>1, <1>4, <2>1, <2>2, WriterMoves
<1> QED BY <1>2, <1>3, <1>4

LEMMA AppendRetryStep ==
    ASSUME JournalInv, NEW p \in Proc, AppendRetry(p)
    PROVE  JournalInv'
<1>1. /\ handle[p].pc = "retrying" /\ UNCHANGED <<lock, meta, metaDurable, acked>>
  BY DEF AppendRetry, At
<1>2. handle[p].pc \in Writing /\ handle[p].pc # "writing"
  BY <1>1 DEF Writing
<1>3. handle[p].pend \in Appendable(handle[p].rec)
  BY <1>1, <1>2, WriterFacts DEF Caches
<1>4. CASE ~Full(p) /\ WriteFrame(p, handle[p].pend)
  BY <1>1, <1>3, <1>4, FrameWritten, FrameTorn DEF WriteFrame
<1>5. CASE handle' = [handle EXCEPT ![p].pc = "open", ![p].pend = NoRecord] /\ UNCHANGED <<wal, tried, held>>
  <2>1. FilesOK(meta, metaDurable', wal', acked, tried, held') /\ wal'[meta.gen] = wal[meta.gen]
    BY <1>1, <1>5, Acting
  <2> QED BY <1>1, <1>2, <1>5, <2>1, WriterMoves
<1> QED BY <1>4, <1>5 DEF AppendRetry

LEMMA CompactStep ==
    ASSUME JournalInv, NEW p \in Proc, Compact(p)
    PROVE  JournalInv'
<1>1. /\ handle[p].pc = "open" /\ Goes(p, "compacting")
      /\ UNCHANGED <<lock, meta, metaDurable, wal, acked, tried, held>>
  BY DEF Compact, At
<1>2. handle[p].pc \in Writing /\ handle[p].pc # "writing"
  BY <1>1 DEF Writing
<1>3. handle[p].pend = NoRecord
  BY <1>1, <1>2, WriterFacts DEF Caches
<1>4. handle' = [handle EXCEPT ![p].pc = "compacting", ![p].pend = NoRecord]
  <2>1. handle \in [Proc -> Handles] /\ handle[p] \in Handles
    BY Acting
  <2>2. [handle[p] EXCEPT !.pc = "compacting"] = [handle[p] EXCEPT !.pc = "compacting", !.pend = NoRecord]
    BY <1>3, <2>1 DEF Handles
  <2> QED BY <1>1, <2>1, <2>2 DEF Goes
<1>5. FilesOK(meta, metaDurable', wal', acked, tried, held') /\ wal'[meta.gen] = wal[meta.gen]
  BY <1>1, Acting
<1> QED BY <1>1, <1>2, <1>4, <1>5, WriterMoves

LEMMA AppendSyncStep ==
    ASSUME JournalInv, NEW p \in Proc, AppendSync(p)
    PROVE  JournalInv'
<1> DEFINE w == wal[meta.gen]
           rec == ApplyRecord(handle[p].rec, handle[p].pend)
<1>1. /\ handle[p].pc = "writing" /\ UNCHANGED <<lock, meta, held>>
  BY DEF AppendSync, At
<1>2. /\ handle[p].pc # "closed" /\ lock = p /\ meta.gen # 0 /\ handle[p].gen = meta.gen /\ handle[p].anc = meta.anc
      /\ handle[p] \in Handles /\ Caches(handle[p], meta, metaDurable, w) /\ w.torn = FALSE
      /\ meta.gen \in Gens /\ w \in Files
  <2>1. handle[p].pc \in Writing
    BY <1>1 DEF Writing
  <2> QED BY <2>1, WriterFacts
<1>3. /\ handle \in [Proc -> Handles] /\ Len(handle[p].anc) <= MaxAncestors /\ wal \in [Gens -> Files]
      /\ FilesOK(meta, metaDurable, wal, acked, tried, held)
  BY Acting
<1>4. Recover(w.frames) = rec
  BY <1>1, <1>2 DEF Caches
<1>5. rec \in Cached /\ Truth(rec) \in Truths /\ NoEarlier(Truth(rec), Truth(rec))
  BY <1>2, <1>3, <1>4, PublishedFile, TruthTyped
<1>6. CASE /\ wal' = [wal EXCEPT ![handle[p].gen] = Synced(@)]
           /\ SyncsRenames
           /\ handle' = [handle EXCEPT ![p].pc = "open", ![p].rec = rec,
                                       ![p].pend = NoRecord, ![p].ready = TRUE]
           /\ acked' = Truth(rec) /\ tried' = Truth(rec)
  <2> DEFINE h == [handle[p] EXCEPT !.pc = "open", !.rec = rec, !.pend = NoRecord, !.ready = TRUE]
             w2 == [exists |-> w.exists, frames |-> w.frames, synced |-> Len(w.frames), torn |-> w.torn]
  <2>1. /\ handle' = [handle EXCEPT ![p] = h] /\ h \in Handles /\ h.pc = "open" /\ h.rec = rec /\ h.gen = handle[p].gen
        /\ h.anc = handle[p].anc /\ h.pend = NoRecord /\ h.ready = TRUE
    BY <1>2, <1>3, <1>5, <1>6 DEF Handles, Pcs
  <2>2. wal' = [wal EXCEPT ![meta.gen] = w2]
    BY <1>2, <1>3, <1>6, FileFields
  <2>3. wal'[meta.gen] = w2
    BY <1>2, <1>3, <2>2
  <2>4. metaDurable' = IF FileSyncCommitsRenames THEN meta ELSE metaDurable
    BY <1>6 DEF SyncsRenames
  <2>5. Syncs(meta, metaDurable, wal, w.torn, metaDurable', wal')
    BY <1>2, <2>2, <2>4 DEF Syncs
  <2>6. FilesOK(meta, metaDurable', wal', acked', tried', held)
    BY <1>3, <1>4, <1>5, <1>6, <2>5, SyncStep
  <2>7. w2.torn = FALSE /\ w2.frames = w.frames /\ w2.synced = Len(w2.frames)
    BY <1>2
  <2> HIDE DEF h, w2
  <2>8. Caches(h, meta, metaDurable', w2)
    BY <1>2, <1>4, <2>1, <2>4, <2>7 DEF Caches
  <2>9. HandleOK(h, meta, metaDurable', wal', acked', tried')
    BY <1>2, <1>3, <1>5, <1>6, <2>1, <2>3, <2>8 DEF HandleOK
  <2> QED BY <1>1, <1>2, <2>1, <2>6, <2>9, HandleStep
<1>7. CASE Goes(p, "failed") /\ UNCHANGED <<wal, metaDurable, acked, tried>>
  <2> DEFINE h == [handle[p] EXCEPT !.pc = "failed"]
  <2>1. /\ h \in Handles /\ h.pc = "failed" /\ h.anc = handle[p].anc /\ handle' = [handle EXCEPT ![p] = h]
    BY <1>2, <1>3, <1>7 DEF Goes, Handles, Pcs
  <2> HIDE DEF h
  <2>2. HandleOK(h, meta', metaDurable', wal', acked', tried')
    <3>1. h.pc \notin Writing /\ h.pc # "creating"
      BY <2>1 DEF Writing
    <3> QED BY <1>3, <2>1, <3>1, IdleHandle
  <2> QED BY <1>1, <1>2, <1>3, <1>7, <2>1, <2>2, HandleStep
<1> QED BY <1>6, <1>7 DEF AppendSync

LEMMA CompactWriteStep ==
    ASSUME JournalInv, NEW p \in Proc, CompactWrite(p)
    PROVE  JournalInv'
<1> DEFINE next == handle[p].gen + 1
           healthy == [handle EXCEPT ![p].pc = "open", ![p].pend = NoRecord]
<1>1. handle[p].pc = "compacting" /\ next \in Gens /\ UNCHANGED <<lock, meta, acked, tried, held>>
  BY DEF CompactWrite, At
<1>2. PICK records \in Compactions(handle[p].gen, handle[p].rec) :
          \/ /\ ~RecoverableLength(records)
             /\ handle' = healthy /\ UNCHANGED <<wal, metaDurable>>
          \/ /\ RecoverableLength(records) /\ Len(records) <= MaxFrames
             /\ wal' = [wal EXCEPT ![next] = Synced([NoWal EXCEPT !.exists = TRUE, !.frames = records])]
             /\ SyncsRenames
             /\ Goes(p, "candidate")
          \/ /\ RecoverableLength(records)
             /\ wal' = [wal EXCEPT ![next] = [NoWal EXCEPT !.exists = TRUE]]
             /\ handle' = healthy /\ UNCHANGED metaDurable
  BY DEF CompactWrite
<1>3. handle[p].pc \in Writing /\ handle[p].pc # "writing"
  BY <1>1 DEF Writing
<1>4. /\ meta.gen \in Gens /\ handle[p].gen = meta.gen /\ handle[p].rec \in Cached /\ handle[p] \in Handles
      /\ handle[p].pend \in Appendable(handle[p].rec) \cup {NoRecord}
  BY <1>1, <1>3, WriterFacts DEF Caches
<1>5. /\ handle \in [Proc -> Handles] /\ wal \in [Gens -> Files] /\ metaDurable \in Metas
      /\ FilesOK(meta, metaDurable, wal, acked, tried, held)
  BY Acting
<1>6. next # meta.gen /\ next # metaDurable.gen
  <2>1. metaDurable.gen <= meta.gen /\ metaDurable.gen \in Int /\ meta.gen \in Int
    BY <1>4, <1>5 DEF FilesOK, Metas, Gens
  <2> QED BY <1>4, <2>1
<1>7. records \in Seq(Frames)
  BY <1>4, CachedTypes, CompactionFolds
<1>8. ASSUME NEW w \in Files, w.synced <= Len(w.frames), wal' = [wal EXCEPT ![next] = w]
      PROVE  /\ FilesOK(meta, metaDurable, wal', acked, tried, held)
             /\ wal'[meta.gen] = wal[meta.gen] /\ wal'[next] = w
  <2>1. FilesOK(meta, metaDurable, wal', acked, tried, held)
    BY <1>1, <1>5, <1>6, <1>8, SpareFileStep
  <2> QED BY <1>1, <1>4, <1>5, <1>6, <1>8, <2>1
<1>9. CASE handle' = healthy /\ UNCHANGED <<wal, metaDurable>>
  BY <1>1, <1>3, <1>5, <1>9, WriterMoves
<1>10. CASE /\ RecoverableLength(records) /\ Len(records) <= MaxFrames
            /\ wal' = [wal EXCEPT ![next] = Synced([NoWal EXCEPT !.exists = TRUE, !.frames = records])]
            /\ SyncsRenames
            /\ Goes(p, "candidate")
  <2> DEFINE w == [exists |-> TRUE, frames |-> records, synced |-> Len(records), torn |-> FALSE]
  <2>1. Synced([NoWal EXCEPT !.exists = TRUE, !.frames = records]) = w
    <3> DEFINE f == [exists |-> TRUE, frames |-> records, synced |-> 0, torn |-> FALSE]
    <3>1. [NoWal EXCEPT !.exists = TRUE, !.frames = records] = f
      BY HuskFields
    <3>2. f \in Files /\ f.exists = TRUE /\ f.frames = records /\ f.torn = FALSE
      BY <1>7 DEF Files
    <3> HIDE DEF f
    <3>3. Synced(f) = [exists |-> f.exists, frames |-> f.frames, synced |-> Len(f.frames), torn |-> f.torn]
      BY <3>2, FileFields
    <3> QED BY <3>1, <3>2, <3>3
  <2>2. w \in Files /\ w.synced <= Len(w.frames)
    BY <1>7 DEF Files
  <2>3. /\ FilesOK(meta, metaDurable, wal', acked, tried, held)
        /\ wal'[meta.gen] = wal[meta.gen] /\ wal'[next] = w
    <3> HIDE DEF w
    <3> QED BY <1>8, <1>10, <2>1, <2>2
  <2>4. metaDurable' \in {meta, metaDurable} /\ FilesOK(meta, metaDurable', wal', acked, tried, held)
    <3>1. FilesOK(meta, meta, wal', acked, tried, held)
      BY <2>3 DEF FilesOK, Metas
    <3> QED BY <1>10, <2>3, <3>1 DEF SyncsRenames
  <2>5. Candidate(handle[p], wal')
    BY <1>1, <1>2, <1>10, <2>3 DEF Candidate, RecoverableLength
  <2>6. handle' = [handle EXCEPT ![p].pc = "candidate", ![p].pend = handle[p].pend]
    <3>1. [handle[p] EXCEPT !.pc = "candidate"] = [handle[p] EXCEPT !.pc = "candidate", !.pend = handle[p].pend]
      BY <1>4 DEF Handles
    <3> QED BY <1>5, <1>10, <3>1 DEF Goes
  <2> QED BY <1>1, <1>3, <1>4, <2>3, <2>4, <2>5, <2>6, WriterMoves
<1>11. CASE wal' = [wal EXCEPT ![next] = [NoWal EXCEPT !.exists = TRUE]] /\ handle' = healthy /\ UNCHANGED metaDurable
  <2> DEFINE w == [exists |-> TRUE, frames |-> <<>>, synced |-> 0, torn |-> FALSE]
  <2>1. [NoWal EXCEPT !.exists = TRUE] = w
    BY HuskFields
  <2>2. w \in Files /\ w.synced <= Len(w.frames)
    BY DEF Files
  <2>3. FilesOK(meta, metaDurable, wal', acked, tried, held) /\ wal'[meta.gen] = wal[meta.gen]
    <3> HIDE DEF w
    <3> QED BY <1>8, <1>11, <2>1, <2>2
  <2> QED BY <1>1, <1>3, <1>11, <2>3, WriterMoves
<1> QED BY <1>2, <1>9, <1>10, <1>11

\* The newest tips, counted from the end.
Newest(anc, tip) ==
    LET all == Append(anc, tip) IN
    IF Len(all) > MaxAncestors THEN SubSeq(all, Len(all) - MaxAncestors + 1, Len(all)) ELSE all

\* An earlier tip is one place further from the end.
Shifted(anc, na) ==
    \A e \in 1..Len(anc) : e + 1 <= MaxAncestors =>
        e + 1 <= Len(na) /\ na[Len(na) - (e + 1) + 1] = anc[Len(anc) - e + 1]

LEMMA AncestorsShift ==
    ASSUME NEW anc \in Seq(Tips), Len(anc) <= MaxAncestors, NEW tip \in Tips, NEW na, na = Newest(anc, tip)
    PROVE  /\ na \in Seq(Tips) /\ Len(na) \in Nat /\ Len(na) <= MaxAncestors /\ Len(na) >= 1
           /\ \/ Len(na) = Len(anc) + 1
              \/ Len(na) = MaxAncestors /\ Len(anc) = MaxAncestors
           /\ na[Len(na)] = tip /\ Shifted(anc, na)
<1> DEFINE all == Append(anc, tip)
<1>0. MaxAncestors \in Nat /\ MaxAncestors >= 1 /\ Len(anc) \in Nat
  BY LimitAssumption
<1>1. /\ all \in Seq(Tips) /\ Len(all) = Len(anc) + 1 /\ all[Len(all)] = tip
      /\ \A i \in 1..Len(anc) : all[i] = anc[i]
  OBVIOUS
<1>a. na = IF Len(all) > MaxAncestors THEN SubSeq(all, Len(all) - MaxAncestors + 1, Len(all)) ELSE all
  BY DEF Newest
<1> HIDE DEF all
<1>2. CASE Len(all) > MaxAncestors
  <2>1. Len(anc) = MaxAncestors /\ na = SubSeq(all, 2, Len(all))
    <3>1. Len(anc) = MaxAncestors
      BY <1>0, <1>1, <1>2
    <3>2. Len(all) - MaxAncestors + 1 = 2
      BY <1>0, <1>1, <3>1
    <3> QED BY <1>2, <1>a, <3>1, <3>2
  <2>2. Len(na) = Len(anc) /\ na \in Seq(Tips) /\ \A i \in 1..Len(anc) : na[i] = all[i + 1]
    BY <1>0, <1>1, <2>1
  <2>3. na[Len(na)] = tip
    BY <1>0, <1>1, <2>1, <2>2
  <2>4. ASSUME NEW e \in 1..Len(anc), e + 1 <= MaxAncestors
        PROVE  e + 1 <= Len(na) /\ na[Len(na) - (e + 1) + 1] = anc[Len(anc) - e + 1]
    <3> DEFINE i == Len(na) - (e + 1) + 1
    <3>1. i \in 1..Len(anc) /\ i + 1 = Len(anc) - e + 1 /\ Len(anc) - e + 1 \in 1..Len(anc)
      BY <1>0, <2>1, <2>2, <2>4
    <3>2. na[i] = all[Len(anc) - e + 1]
      BY <2>2, <3>1
    <3> QED BY <1>1, <2>1, <2>2, <2>4, <3>1, <3>2
  <2>5. Len(na) \in Nat /\ Len(na) <= MaxAncestors /\ Len(na) >= 1 /\ Len(na) = MaxAncestors
    BY <1>0, <2>1, <2>2
  <2>6. Shifted(anc, na)
    BY <2>4 DEF Shifted
  <2> QED BY <2>1, <2>2, <2>3, <2>5, <2>6
<1>3. CASE ~(Len(all) > MaxAncestors)
  <2>1. na = all /\ Len(all) <= MaxAncestors
    BY <1>0, <1>1, <1>3, <1>a
  <2>2. ASSUME NEW e \in 1..Len(anc)
        PROVE  e + 1 <= Len(na) /\ na[Len(na) - (e + 1) + 1] = anc[Len(anc) - e + 1]
    <3>1. Len(na) - (e + 1) + 1 = Len(anc) - e + 1 /\ Len(anc) - e + 1 \in 1..Len(anc) /\ e + 1 <= Len(na)
      BY <1>0, <1>1, <2>1
    <3> QED BY <1>1, <2>1, <3>1
  <2>3. Shifted(anc, na)
    BY <2>2 DEF Shifted
  <2> QED BY <1>0, <1>1, <2>1, <2>3
<1> QED BY <1>2, <1>3

\* The next metadata is right about the candidate it publishes.
LEMMA NextNamed ==
    ASSUME JournalInv, NEW p \in Proc, handle[p].pc = "candidate", NEW next,
           next = [gen |-> handle[p].gen + 1, anc |-> NextAncestors(p)]
    PROVE  LET w == wal[next.gen]
               h == handle[p] IN
           /\ next \in Metas /\ next.gen \in Gens /\ next.gen = meta.gen + 1 /\ meta.gen \in Gens
           /\ Named(next, wal) /\ Len(next.anc) <= MaxAncestors
           /\ w.torn = FALSE /\ w.synced = Len(w.frames)
           /\ Recover(w.frames) = [epoch |-> h.rec.epoch, ops |-> h.rec.ops, from |-> Marker(h.gen, h.rec),
                                   seq |-> Len(w.frames), corrupt |-> FALSE]
           /\ Marker(h.gen, h.rec) \in Tips /\ Len(w.frames) \in 0..MaxRecords
           /\ SyncedTruth(w) = Truth(h.rec) /\ Truth(Recover(w.frames)) = Truth(h.rec)
           /\ FileSyncCommitsRenames => Marked(next, wal, held)
<1> DEFINE h == handle[p]
           w == wal[next.gen]
           tip == Marker(h.gen, h.rec)
<1>1. /\ meta.gen \in Gens /\ h.gen = meta.gen /\ h.anc = meta.anc /\ h.rec \in Cached
      /\ Recover(wal[meta.gen].frames) = h.rec /\ h.rec.seq = Len(wal[meta.gen].frames)
      /\ wal[meta.gen].frames \in Seq(Frames)
  <2>1. handle[p].pc \in Writing /\ handle[p].pc # "writing"
    BY DEF Writing
  <2> QED BY <2>1, WriterFacts
<1>2. /\ meta \in Metas /\ held \in Helds /\ Named(meta, wal) /\ wal \in [Gens -> Files]
      /\ FileSyncCommitsRenames => Marked(meta, wal, held)
  BY DEF JournalInv, FilesOK
<1>3. meta.gen \in Int /\ meta.gen >= 1 /\ meta.anc \in Seq(Tips) /\ Len(meta.anc) \in Nat
  BY <1>1, <1>2 DEF Metas, Gens
<1>4. tip \in Tips
  BY <1>1 DEF Marker, Tips, Cached
<1>5. next.gen = h.gen + 1 /\ next.anc = NextAncestors(p) /\ next = [gen |-> next.gen, anc |-> next.anc]
  OBVIOUS
<1>6. next.anc = Newest(meta.anc, tip)
  BY <1>1, <1>5 DEF NextAncestors, Newest
<1>7. Len(meta.anc) <= MaxAncestors /\ Len(meta.anc) < meta.gen /\ (Len(meta.anc) = meta.gen - 1 \/ Len(meta.anc) = MaxAncestors)
  BY <1>2, <1>3 DEF Named
<1> HIDE DEF tip
<1>8. /\ next.anc \in Seq(Tips) /\ Len(next.anc) \in Nat /\ Len(next.anc) <= MaxAncestors /\ Len(next.anc) >= 1
      /\ \/ Len(next.anc) = Len(meta.anc) + 1
         \/ Len(next.anc) = MaxAncestors /\ Len(meta.anc) = MaxAncestors
      /\ next.anc[Len(next.anc)] = tip /\ Shifted(meta.anc, next.anc)
  <2> DEFINE na == next.anc
  <2>1. na = Newest(meta.anc, tip)
    BY <1>6
  <2> HIDE DEF na
  <2>2. /\ na \in Seq(Tips) /\ Len(na) \in Nat /\ Len(na) <= MaxAncestors /\ Len(na) >= 1
        /\ \/ Len(na) = Len(meta.anc) + 1
           \/ Len(na) = MaxAncestors /\ Len(meta.anc) = MaxAncestors
        /\ na[Len(na)] = tip /\ Shifted(meta.anc, na)
    BY <1>3, <1>4, <1>7, <2>1, AncestorsShift
  <2> QED BY <2>2 DEF na
<1>9. /\ next.gen \in Gens
      /\ \E records \in Compactions(h.gen, h.rec) :
            /\ Len(records) <= MaxRecords /\ Len(records) <= MaxFrames
            /\ w = [exists |-> TRUE, frames |-> records, synced |-> Len(records), torn |-> FALSE]
  BY <1>5, Acting DEF HandleOK, Candidate
<1>10. PICK records \in Compactions(h.gen, h.rec) :
            /\ Len(records) <= MaxRecords /\ Len(records) <= MaxFrames
            /\ w = [exists |-> TRUE, frames |-> records, synced |-> Len(records), torn |-> FALSE]
  BY <1>9
<1>11. /\ records \in Seq(Frames) /\ Len(records) >= 1
       /\ Recover(records) = [epoch |-> h.rec.epoch, ops |-> h.rec.ops, from |-> Marker(h.gen, h.rec),
                              seq |-> Len(records), corrupt |-> FALSE]
  BY <1>1, CachedTypes, CompactionFolds
<1>12. w.exists = TRUE /\ w.frames = records /\ w.synced = Len(records) /\ w.torn = FALSE /\ Len(records) \in Nat
  BY <1>10, <1>11
<1> HIDE DEF w
<1>13. next \in Metas
  BY <1>5, <1>8, <1>9 DEF Metas, Gens
<1>14. Sound(next.gen, w)
  <2>1. Recover(records).corrupt = FALSE /\ Recover(records).from.gen = h.gen
    BY <1>11 DEF Marker
  <2>2. next.gen # 1
    BY <1>1, <1>3, <1>5
  <2> QED BY <1>5, <1>10, <1>11, <1>12, <2>1, <2>2 DEF Sound, LineageMatches
<1>15. Named(next, wal)
  <2>1. next.gen = meta.gen + 1 /\ next.gen # 0
    BY <1>1, <1>3, <1>5
  <2>2. Len(next.anc) < next.gen /\ (Len(next.anc) = next.gen - 1 \/ Len(next.anc) = MaxAncestors)
    <3>1. /\ Len(next.anc) \in Nat /\ Len(next.anc) <= MaxAncestors /\ MaxAncestors \in Nat
          /\ \/ Len(next.anc) = Len(meta.anc) + 1
             \/ Len(next.anc) = MaxAncestors /\ Len(meta.anc) = MaxAncestors
      BY <1>8, LimitAssumption
    <3> QED BY ONLY <1>3, <1>7, <2>1, <3>1
  <2> QED BY <1>8, <1>14, <2>1, <2>2 DEF Named, w
<1>16. SyncedTruth(w) = Truth(h.rec) /\ Truth(Recover(w.frames)) = Truth(h.rec)
  <2>1. SubSeq(w.frames, 1, w.synced) = records
    BY <1>11, <1>12
  <2>2. Truth(Recover(records)) = Truth(h.rec)
    BY <1>11 DEF Truth
  <2> QED BY <1>12, <2>1, <2>2 DEF SyncedTruth
<1>17. FileSyncCommitsRenames => Marked(next, wal, held)
  <2> SUFFICES ASSUME FileSyncCommitsRenames, held.marker # NoMarker PROVE Marked(next, wal, held)
    BY DEF Marked
  <2> DEFINE age == meta.gen - held.marker.gen
             up == next.gen - held.marker.gen
  <2>1. Marked(meta, wal, held)
    BY <1>2
  <2>2. held.marker.gen \in Int /\ held.marker.seq \in Nat
    BY <1>2, LimitAssumption DEF Helds, Tips, Gens
  <2>3. age \in Int /\ age >= 0 /\ up = age + 1 /\ up > 0
    BY <1>1, <1>3, <1>5, <2>1, <2>2 DEF Marked
  <2>4. ASSUME held.tip, up <= MaxAncestors
        PROVE  up <= Len(next.anc) /\ next.anc[Len(next.anc) - up + 1] = held.marker
    <3>1. CASE age = 0
      <4>1. /\ Marker(meta.gen, Recover(SubSeq(wal[meta.gen].frames, 1, held.marker.seq))) = held.marker
            /\ held.marker.seq = Len(wal[meta.gen].frames)
        BY <2>1, <2>4, <3>1 DEF Marked
      <4>2. SubSeq(wal[meta.gen].frames, 1, Len(wal[meta.gen].frames)) = wal[meta.gen].frames
        BY <1>1
      <4>3. held.marker = tip
        BY <1>1, <4>1, <4>2 DEF tip
      <4>4. Len(next.anc) - up + 1 = Len(next.anc) /\ up <= Len(next.anc)
        BY <1>8, <2>3, <3>1
      <4> QED BY <1>8, <4>3, <4>4
    <3>2. CASE age > 0
      <4>1. age <= MaxAncestors
        BY <2>3, <2>4, LimitAssumption
      <4>2. age <= Len(meta.anc) /\ meta.anc[Len(meta.anc) - age + 1] = held.marker
        BY <2>1, <2>4, <3>2, <4>1 DEF Marked
      <4>3. age \in 1..Len(meta.anc)
        BY <1>3, <2>3, <3>2, <4>2
      <4> HIDE DEF age, up
      <4> QED BY <1>8, <2>3, <2>4, <4>2, <4>3 DEF Shifted
    <3> QED BY <2>3, <3>1, <3>2
  <2>5. up >= 0 /\ up # 0
    BY <2>3
  <2> QED BY <2>4, <2>5 DEF Marked
<1>18. Len(w.frames) \in 0..MaxRecords /\ w.synced = Len(w.frames)
  BY <1>10, <1>12, LimitAssumption
<1>19. Recover(w.frames) = [epoch |-> h.rec.epoch, ops |-> h.rec.ops, from |-> Marker(h.gen, h.rec),
                            seq |-> Len(w.frames), corrupt |-> FALSE]
  BY <1>11, <1>12
<1>20. next.gen = meta.gen + 1 /\ Len(next.anc) <= MaxAncestors /\ next.gen \in Gens
  BY <1>1, <1>5, <1>8, <1>9
<1> QED BY <1>1, <1>4, <1>12, <1>13, <1>15, <1>16, <1>17, <1>18, <1>19, <1>20 DEF w, tip

\* A cached truth on a new baseline.
LEMMA RebasedFields ==
    ASSUME NEW rec \in Cached, NEW n, NEW tip
    PROVE  [rec EXCEPT !.seq = n, !.from = tip]
             = [epoch |-> rec.epoch, ops |-> rec.ops, from |-> tip, seq |-> n, corrupt |-> FALSE]
<1> DEFINE b == [rec EXCEPT !.seq = n]
<1>1. rec.corrupt = FALSE /\ DOMAIN rec = {"epoch", "ops", "from", "seq", "corrupt"}
  BY DEF Cached
<1>2. /\ DOMAIN b = {"epoch", "ops", "from", "seq", "corrupt"}
      /\ b.epoch = rec.epoch /\ b.ops = rec.ops /\ b.seq = n /\ b.corrupt = rec.corrupt
  BY <1>1
<1>3. [rec EXCEPT !.seq = n, !.from = tip] = [b EXCEPT !.from = tip]
  OBVIOUS
<1> HIDE DEF b
<1>4. [b EXCEPT !.from = tip]
        = [epoch |-> b.epoch, ops |-> b.ops, from |-> tip, seq |-> b.seq, corrupt |-> b.corrupt]
  BY <1>2
<1> QED BY <1>1, <1>2, <1>3, <1>4

LEMMA CompactPublishStep ==
    ASSUME JournalInv, NEW p \in Proc, CompactPublish(p)
    PROVE  JournalInv'
<1> DEFINE old == handle[p].gen
           next == [gen |-> old + 1, anc |-> NextAncestors(p)]
           w == wal[next.gen]
           rec == handle[p].rec
<1>1. handle[p].pc = "candidate" /\ UNCHANGED <<lock, held>>
  BY DEF CompactPublish, At
<1>2. handle[p].pc \in Writing /\ handle[p].pc # "writing"
  BY <1>1 DEF Writing
<1>3. /\ handle[p].pc # "closed" /\ lock = p /\ old = meta.gen /\ handle[p] \in Handles /\ rec \in Cached
      /\ handle[p].pend \in Appendable(rec) \cup {NoRecord}
      /\ FileSyncCommitsRenames => NoEarlier(Truth(rec), acked) /\ NoEarlier(tried, Truth(rec))
  BY <1>1, <1>2, WriterFacts DEF Caches
<1>4. /\ handle \in [Proc -> Handles] /\ wal \in [Gens -> Files] /\ held \in Helds /\ metaDurable \in Metas /\ meta \in Metas
      /\ acked \in Truths /\ tried \in Truths
      /\ FilesOK(meta, metaDurable, wal, acked, tried, held) /\ Len(handle[p].anc) <= MaxAncestors
  BY Acting
<1>5. /\ next \in Metas /\ next.gen \in Gens /\ next.gen = meta.gen + 1 /\ meta.gen \in Gens
      /\ Named(next, wal) /\ Len(next.anc) <= MaxAncestors
      /\ w.torn = FALSE /\ w.synced = Len(w.frames)
      /\ Recover(w.frames) = [epoch |-> rec.epoch, ops |-> rec.ops, from |-> Marker(old, rec),
                              seq |-> Len(w.frames), corrupt |-> FALSE]
      /\ Marker(old, rec) \in Tips /\ Len(w.frames) \in 0..MaxRecords
      /\ SyncedTruth(w) = Truth(rec) /\ Truth(Recover(w.frames)) = Truth(rec)
      /\ FileSyncCommitsRenames => Marked(next, wal, held)
  BY <1>1, NextNamed
<1>6. Truth(rec) \in Truths /\ NoEarlier(Truth(rec), Truth(rec))
  BY <1>3, TruthTyped
<1>a. next.gen # 0 /\ next.gen # meta.gen /\ next.gen \in Int /\ meta.gen \in Int
  <2>1. meta.gen \in Int /\ meta.gen >= 1
    BY <1>5 DEF Gens
  <2> HIDE DEF next
  <2> QED BY <1>5, <2>1
<1>b. /\ metaDurable.gen <= meta.gen /\ metaDurable.gen \in Int /\ Named(metaDurable, wal)
      /\ FileSyncCommitsRenames => Backed(metaDurable, wal, acked, tried) /\ Marked(metaDurable, wal, held)
      /\ \A g \in Gens : wal[g].synced <= Len(wal[g].frames)
  BY <1>4 DEF FilesOK, Metas
<1>7. CASE /\ meta' = next /\ metaDurable' = next
           /\ handle' = [handle EXCEPT ![p] = Swapped(p, next)]
           /\ \E left \in BOOLEAN : wal' = [wal EXCEPT ![old] = [NoWal EXCEPT !.exists = left]]
           /\ acked' = Truth(rec) /\ tried' = Truth(rec)
  <2>1. PICK left \in BOOLEAN : wal' = [wal EXCEPT ![old] = [NoWal EXCEPT !.exists = left]]
    BY <1>7
  <2> DEFINE husk == [exists |-> left, frames |-> <<>>, synced |-> 0, torn |-> FALSE]
             h == Swapped(p, next)
             new == [epoch |-> rec.epoch, ops |-> rec.ops, from |-> Marker(old, rec),
                     seq |-> Len(w.frames), corrupt |-> FALSE]
  <2>2. [NoWal EXCEPT !.exists = left] = husk
    BY HuskFields
  <2>3. husk \in Files /\ husk.synced <= Len(husk.frames)
    BY DEF Files
  <2>4. wal' = [wal EXCEPT ![old] = husk]
    BY <2>1, <2>2
  <2> HIDE DEF husk
  <2>5. /\ wal' \in [Gens -> Files] /\ wal'[next.gen] = w
        /\ \A g \in Gens : wal'[g].synced <= Len(wal'[g].frames)
    <3> HIDE DEF next
    <3> QED BY <1>3, <1>4, <1>5, <1>a, <1>b, <2>3, <2>4
  <2>6. FilesOK(next, next, wal', acked', tried', held)
    <3> HIDE DEF next
    <3>1. Named(next, wal') /\ (FileSyncCommitsRenames => Marked(next, wal', held))
      BY <1>4, <1>5, <2>5, OtherFileNamed
    <3>2. Backed(next, wal', acked', tried')
      BY <1>5, <1>6, <1>7, <1>a, <2>5 DEF Backed
    <3> QED BY <1>4, <1>5, <1>6, <1>7, <1>a, <2>5, <3>1, <3>2 DEF FilesOK
  <2>7. new \in Cached /\ new.epoch = rec.epoch /\ new.ops = rec.ops
    <3>1. rec.epoch \in 1..MaxEpoch /\ rec.ops \in [Id -> 0..MaxVer]
      BY <1>3 DEF Cached
    <3> HIDE DEF next
    <3> QED BY <1>5, <3>1 DEF Cached
  <2>8. /\ h.pc = (IF handle[p].pend = NoRecord THEN "open" ELSE "retrying")
        /\ h.gen = next.gen /\ h.anc = next.anc /\ h.ready = TRUE /\ h.pend = handle[p].pend
        /\ h.rec = new /\ h \in Handles
    <3>1. [rec EXCEPT !.seq = Len(w.frames), !.from = Marker(old, rec)] = new
      <4> DEFINE n == Len(w.frames)
                 tip == Marker(old, rec)
                 c == rec
      <4>1. c \in Cached
        BY <1>3
      <4> HIDE DEF n, tip, c
      <4>2. [c EXCEPT !.seq = n, !.from = tip]
              = [epoch |-> c.epoch, ops |-> c.ops, from |-> tip, seq |-> n, corrupt |-> FALSE]
        BY ONLY <4>1, RebasedFields
      <4> QED BY <4>2 DEF n, tip, c
    <3>2. h = [handle[p] EXCEPT !.pc = IF handle[p].pend = NoRecord THEN "open" ELSE "retrying",
                                !.gen = next.gen, !.anc = next.anc, !.ready = TRUE, !.rec = new]
      <4>1. [handle[p].rec EXCEPT !.seq = Len(wal[next.gen].frames), !.from = Marker(handle[p].gen, handle[p].rec)] = new
        BY <3>1
      <4> HIDE DEF next, new
      <4> QED BY <1>3, <4>1 DEF Swapped, Handles
    <3>3. next.gen \in 0..MaxGen /\ next.anc \in Seq(Tips)
      BY <1>5 DEF Metas
    <3> HIDE DEF next, new, h
    <3> QED BY <1>3, <2>7, <3>2, <3>3 DEF Handles, Pcs
  <2> HIDE DEF h
  <2>9. HandleOK(h, next, next, wal', acked', tried')
    <3>1. Appendable(h.rec) = Appendable(rec)
      BY <2>7, <2>8 DEF Appendable
    <3>2. h.pc \in {"open", "retrying"} /\ (h.pc = "open" => h.pend = NoRecord)
          /\ (h.pc = "retrying" => h.pend \in Appendable(h.rec)) /\ h.pc # "closed"
      BY <1>3, <2>8, <3>1
    <3>3. Recover(w.frames) = h.rec
      BY <1>5, <2>8
    <3>4. Caches(h, next, next, w)
      <4> HIDE DEF next, w
      <4> QED BY <1>5, <1>a, <2>8, <3>2, <3>3 DEF Caches
    <3>5. Truth(h.rec) = Truth(rec)
      BY <2>7, <2>8 DEF Truth
    <3> HIDE DEF next, w
    <3> QED BY <1>5, <1>6, <1>7, <2>5, <2>8, <3>2, <3>4, <3>5 DEF HandleOK
  <2>10. h.pc # "closed"
    BY <2>8
  <2> HIDE DEF next
  <2> QED BY <1>1, <1>3, <1>7, <2>6, <2>9, <2>10, HandleStep DEF h
<1>8. CASE /\ meta' = next
           /\ handle' = [handle EXCEPT ![p] = AfterUncertainPublish(p)]
           /\ UNCHANGED <<metaDurable, wal, acked, tried>>
  <2> DEFINE h == [handle[p] EXCEPT !.pc = "failed"]
  <2>1. /\ h \in Handles /\ h.pc = "failed" /\ h.anc = handle[p].anc /\ handle' = [handle EXCEPT ![p] = h]
    BY <1>3, <1>4, <1>8 DEF AfterUncertainPublish, Handles, Pcs
  <2> HIDE DEF h
  <2>2. HandleOK(h, meta', metaDurable', wal', acked', tried')
    <3>1. h.pc \notin Writing /\ h.pc # "creating"
      BY <2>1 DEF Writing
    <3> QED BY <1>4, <2>1, <3>1, IdleHandle
  <2> HIDE DEF next
  <2>3. FileSyncCommitsRenames => Backed(next, wal, acked, tried)
    BY <1>3, <1>5, <1>a DEF Backed
  <2>4. metaDurable.gen <= next.gen /\ metaDurable.gen # next.gen
    BY <1>5, <1>a, <1>b
  <2>5. FilesOK(next, metaDurable, wal, acked, tried, held)
    BY <1>4, <1>5, <1>b, <2>3, <2>4 DEF FilesOK
  <2> QED BY <1>1, <1>3, <1>8, <2>1, <2>2, <2>5, HandleStep
<1>9. CASE /\ handle' = [handle EXCEPT ![p].pc = "open", ![p].pend = NoRecord]
           /\ UNCHANGED <<meta, metaDurable, wal, acked, tried>>
  <2>1. FilesOK(meta, metaDurable', wal', acked, tried, held') /\ wal'[meta.gen] = wal[meta.gen]
    BY <1>1, <1>4, <1>9
  <2> QED BY <1>1, <1>2, <1>9, <2>1, WriterMoves
<1> QED BY <1>7, <1>8, <1>9 DEF CompactPublish

LEMMA TakeMarkerStep ==
    ASSUME JournalInv, NEW p \in Proc, TakeMarker(p)
    PROVE  JournalInv'
<1> DEFINE h == handle[p]
           w == wal[meta.gen]
           k == Marker(h.gen, h.rec)
<1>1. /\ h.pc = "open" /\ h.ready /\ held' = [marker |-> k, tip |-> TRUE]
      /\ UNCHANGED <<lock, meta, metaDurable, wal, handle, acked, tried>>
  BY DEF TakeMarker, At
<1>2. h.pc \in Writing /\ h.pc # "writing"
  BY <1>1 DEF Writing
<1>3. /\ meta.gen \in Gens /\ h.gen = meta.gen /\ h.rec \in Cached /\ Recover(w.frames) = h.rec
      /\ h.rec.seq = Len(w.frames) /\ w.frames \in Seq(Frames)
      /\ w.synced = Len(w.frames) /\ (FileSyncCommitsRenames => metaDurable = meta)
  BY <1>1, <1>2, WriterFacts DEF Caches
<1>4. k \in Tips /\ k.gen = meta.gen /\ k.seq = Len(w.frames)
  BY <1>3 DEF Marker, Tips, Cached
<1>5. held' \in Helds /\ held'.marker = k /\ held'.tip = TRUE
  <2> HIDE DEF k
  <2> QED BY <1>1, <1>4 DEF Helds
<1>6. Marked(meta, wal, held')
  <2>1. SubSeq(w.frames, 1, Len(w.frames)) = w.frames /\ Len(w.frames) \in Nat /\ meta.gen \in Int
    BY <1>3 DEF Gens
  <2>2. meta.gen - k.gen = 0
    BY <1>4, <2>1
  <2>3. Marker(meta.gen, Recover(SubSeq(w.frames, 1, k.seq))) = k
    BY <1>3, <1>4, <2>1
  <2> HIDE DEF k, w
  <2> QED BY <1>3, <1>4, <1>5, <2>1, <2>2, <2>3 DEF Marked, w
<1>7. FilesOK(meta, metaDurable, wal, acked, tried, held')
  BY <1>3, <1>5, <1>6, Acting DEF FilesOK
<1> QED BY <1>1, <1>7 DEF JournalInv, LockInv

\* What a power loss may leave of a file.
Survives(w, w2) ==
    \/ w2 = w
    \/ \E n \in w.synced..Len(w.frames), torn \in BOOLEAN :
          w2 = [exists |-> w.exists, frames |-> SubSeq(w.frames, 1, n), synced |-> n, torn |-> torn]

\* It stays readable, and holds what was synced and nothing new.
LEMMA SurvivorSound ==
    ASSUME NEW g \in Gens, NEW w \in Files, w.synced <= Len(w.frames), NEW w2, Survives(w, w2)
    PROVE  /\ w2 \in Files /\ w2.synced <= Len(w2.frames) /\ w2.synced >= w.synced
           /\ w.synced = Len(w.frames) => Len(w2.frames) = Len(w.frames)
           /\ \A i \in 0..w.synced : SubSeq(w2.frames, 1, i) = SubSeq(w.frames, 1, i)
           /\ Sound(g, w) => /\ Sound(g, w2) /\ NoEarlier(SyncedTruth(w2), SyncedTruth(w))
                             /\ NoEarlier(Truth(Recover(w.frames)), Truth(Recover(w2.frames)))
                             /\ SyncedTruth(w) \in Truths /\ SyncedTruth(w2) \in Truths
                             /\ Truth(Recover(w.frames)) \in Truths /\ Truth(Recover(w2.frames)) \in Truths
<1>0. w.frames \in Seq(Frames) /\ w.synced \in Nat /\ w.synced \in 0..Len(w.frames) /\ Len(w.frames) \in Nat
  BY DEF Files
<1>1. \A n \in 0..Len(w.frames) : Truth(UpTo(w.frames, n)) \in Truths
  BY <1>0, RecoverTyped, TruthTyped
<1>2. SyncedTruth(w) = Truth(UpTo(w.frames, w.synced)) /\ UpTo(w.frames, Len(w.frames)) = Recover(w.frames)
  BY <1>0, WholeFile DEF SyncedTruth, UpTo
<1>3. \A n \in 0..Len(w.frames) : NoEarlier(Truth(UpTo(w.frames, n)), Truth(UpTo(w.frames, n)))
  BY <1>0, RecoverTyped, TruthTyped
<1>4. CASE w2 = w
  <2>1. Len(w.frames) \in 0..Len(w.frames)
    BY <1>0
  <2> QED BY <1>0, <1>1, <1>2, <1>3, <1>4, <2>1
<1>5. ASSUME NEW n \in w.synced..Len(w.frames), NEW torn \in BOOLEAN,
             w2 = [exists |-> w.exists, frames |-> SubSeq(w.frames, 1, n), synced |-> n, torn |-> torn]
      PROVE  /\ w2 \in Files /\ w2.synced <= Len(w2.frames) /\ w2.synced >= w.synced
             /\ w.synced = Len(w.frames) => Len(w2.frames) = Len(w.frames)
             /\ \A i \in 0..w.synced : SubSeq(w2.frames, 1, i) = SubSeq(w.frames, 1, i)
             /\ Sound(g, w) => /\ Sound(g, w2) /\ NoEarlier(SyncedTruth(w2), SyncedTruth(w))
                               /\ NoEarlier(Truth(Recover(w.frames)), Truth(Recover(w2.frames)))
                               /\ SyncedTruth(w) \in Truths /\ SyncedTruth(w2) \in Truths
                               /\ Truth(Recover(w.frames)) \in Truths /\ Truth(Recover(w2.frames)) \in Truths
  <2>1. n \in 0..Len(w.frames) /\ n >= w.synced /\ n \in Nat /\ w.synced \in 0..n
    BY <1>0
  <2> DEFINE s == SubSeq(w.frames, 1, n)
  <2>2. s \in Seq(Frames) /\ Len(s) = n /\ \A i \in 0..n : SubSeq(s, 1, i) = SubSeq(w.frames, 1, i)
    BY <1>0, <2>1
  <2>3. w2.exists = w.exists /\ w2.frames = s /\ w2.synced = n
    BY <1>5
  <2>4. w2 \in Files
    <3> HIDE DEF s
    <3>1. w2 = [exists |-> w.exists, frames |-> s, synced |-> n, torn |-> torn] /\ w.exists \in BOOLEAN
      BY <1>5 DEF Files, s
    <3> QED BY <2>1, <2>2, <3>1 DEF Files
  <2> HIDE DEF s
  <2>5. Recover(w2.frames) = UpTo(w.frames, n) /\ SyncedTruth(w2) = Truth(UpTo(w.frames, n))
    <3>1. SubSeq(w2.frames, 1, w2.synced) = SubSeq(w.frames, 1, n) /\ n \in 0..n
      BY <2>1, <2>2, <2>3
    <3> QED BY <2>3, <3>1 DEF SyncedTruth, UpTo, s
  <2>6. ASSUME Sound(g, w)
        PROVE  /\ Sound(g, w2) /\ NoEarlier(SyncedTruth(w2), SyncedTruth(w))
               /\ NoEarlier(Truth(Recover(w.frames)), Truth(Recover(w2.frames)))
    <3>1. ~UpTo(w.frames, Len(w.frames)).corrupt /\ Len(w.frames) \in 0..Len(w.frames) /\ n \in 0..Len(w.frames)
      BY <1>0, <1>2, <2>1, <2>6 DEF Sound
    <3>2. /\ ~UpTo(w.frames, n).corrupt
          /\ NoEarlier(Truth(UpTo(w.frames, Len(w.frames))), Truth(UpTo(w.frames, n)))
          /\ n > 0 => UpTo(w.frames, n).from = UpTo(w.frames, Len(w.frames)).from
      BY <1>0, <3>1, PrefixReadable
    <3>3. NoEarlier(Truth(UpTo(w.frames, n)), Truth(UpTo(w.frames, w.synced)))
      BY <1>0, <2>1, <3>2, PrefixReadable
    <3>4. n = 0 => UpTo(w.frames, n) = EmptyRecovery
      <4>1. SubSeq(w.frames, 1, 0) = <<>>
        BY <1>0
      <4> QED BY <4>1, RecoverEmpty DEF UpTo
    <3>5. LineageMatches(g, UpTo(w.frames, n))
      <4>1. LineageMatches(g, Recover(w.frames)) /\ (g > 1 => w.synced >= 1)
        BY <2>6 DEF Sound
      <4>2. CASE n = 0
        <5>1. ~(g > 1)
          BY <1>0, <2>1, <4>1, <4>2
        <5>2. g = 1
          BY <5>1 DEF Gens
        <5> QED BY <3>4, <4>2, <5>2 DEF LineageMatches, EmptyRecovery
      <4>3. CASE n > 0
        BY <1>2, <3>2, <4>1, <4>3 DEF LineageMatches
      <4> QED BY <2>1, <4>2, <4>3
    <3>6. w2.exists /\ (g > 1 => w2.synced >= 1) /\ Len(w2.frames) <= MaxFrames /\ Len(w2.frames) <= MaxRecords
      <4>1. w.exists /\ (g > 1 => w.synced >= 1) /\ Len(w.frames) <= MaxFrames /\ Len(w.frames) <= MaxRecords
        BY <2>6 DEF Sound
      <4>2. MaxFrames \in Nat /\ MaxRecords \in Nat
        BY LimitAssumption
      <4> QED BY <1>0, <2>1, <2>2, <2>3, <4>1, <4>2
    <3> QED BY <1>2, <2>5, <3>2, <3>3, <3>5, <3>6 DEF Sound
  <2>7. /\ w2.synced <= Len(w2.frames) /\ w2.synced >= w.synced
        /\ w.synced = Len(w.frames) => Len(w2.frames) = Len(w.frames)
    BY <1>0, <2>1, <2>2, <2>3
  <2>8. \A i \in 0..w.synced : SubSeq(w2.frames, 1, i) = SubSeq(w.frames, 1, i)
    BY <1>0, <2>1, <2>2, <2>3
  <2>9. /\ SyncedTruth(w) \in Truths /\ SyncedTruth(w2) \in Truths
        /\ Truth(Recover(w.frames)) \in Truths /\ Truth(Recover(w2.frames)) \in Truths
    <3>1. Len(w.frames) \in 0..Len(w.frames)
      BY <1>0
    <3> QED BY <1>0, <1>1, <1>2, <2>1, <2>5, <3>1
  <2> QED BY <2>4, <2>6, <2>7, <2>8, <2>9
<1> QED BY <1>4, <1>5 DEF Survives

\* So does everything the invariant says of metadata m.
LEMMA SurvivorNamed ==
    ASSUME NEW m \in Metas, NEW files \in [Gens -> Files], NEW new,
           \A g \in Gens : files[g].synced <= Len(files[g].frames),
           \A g \in Gens : Survives(files[g], new[g]), Named(m, files),
           NEW a \in Truths, NEW t \in Truths, NEW k \in Helds
    PROVE  /\ Named(m, new)
           /\ Backed(m, files, a, t) => Backed(m, new, a, t)
           /\ Marked(m, files, k) => Marked(m, new, k)
<1>1. CASE m.gen = 0
  BY <1>1, OtherFileNamed
<1>2. CASE m.gen # 0
  <2> DEFINE w == files[m.gen]
             w2 == new[m.gen]
  <2>1. m.gen \in Gens /\ w \in Files /\ w.synced <= Len(w.frames) /\ Survives(w, w2) /\ Sound(m.gen, w)
    BY <1>2 DEF Metas, Gens, Named
  <2> HIDE DEF w, w2
  <2>2. /\ w2 \in Files /\ w2.synced <= Len(w2.frames) /\ w2.synced >= w.synced
        /\ w.synced = Len(w.frames) => Len(w2.frames) = Len(w.frames)
        /\ \A i \in 0..w.synced : SubSeq(w2.frames, 1, i) = SubSeq(w.frames, 1, i)
    BY <2>1, SurvivorSound
  <2>3. /\ Sound(m.gen, w2) /\ NoEarlier(SyncedTruth(w2), SyncedTruth(w))
        /\ NoEarlier(Truth(Recover(w.frames)), Truth(Recover(w2.frames)))
        /\ SyncedTruth(w) \in Truths /\ SyncedTruth(w2) \in Truths
        /\ Truth(Recover(w.frames)) \in Truths /\ Truth(Recover(w2.frames)) \in Truths
    BY <2>1, SurvivorSound
  <2>4. Named(m, new)
    BY <1>2, <2>3 DEF Named, w2
  <2>5. ASSUME Backed(m, files, a, t) PROVE Backed(m, new, a, t)
    <3>1. NoEarlier(SyncedTruth(w), a) /\ NoEarlier(t, Truth(Recover(w.frames)))
      BY <1>2, <2>5 DEF Backed, w
    <3>2. NoEarlier(SyncedTruth(w2), a)
      BY <2>3, <3>1, NoEarlierTransitive
    <3>3. NoEarlier(t, Truth(Recover(w2.frames)))
      BY <2>3, <3>1, NoEarlierTransitive
    <3> QED BY <1>2, <3>2, <3>3 DEF Backed, w2
  <2>6. ASSUME Marked(m, files, k) PROVE Marked(m, new, k)
    <3>1. w.synced \in Nat /\ w2.synced \in Nat /\ Len(w.frames) \in Nat
      BY <2>1, <2>2 DEF Files
    <3>2. k.marker.seq <= w.synced /\ k.marker.seq = Len(w.frames) => Len(w2.frames) = Len(w.frames)
      BY <2>1, <2>2, <3>1
    <3>3. /\ k.tip /\ k.marker.seq <= w.synced /\ k.marker.seq = Len(w.frames) => Len(w2.frames) = Len(w.frames)
          /\ w.synced \in Nat /\ w2.synced \in Nat /\ w2.synced >= w.synced
          /\ \A n \in 0..w.synced : SubSeq(w2.frames, 1, n) = SubSeq(w.frames, 1, n)
      BY <2>2, <3>1, <3>2
    <3> QED BY <2>6, <3>3, MarkedKeeps DEF w, w2
  <2> QED BY <2>4, <2>5, <2>6
<1> QED BY <1>1, <1>2

LEMMA PowerLossStep ==
    ASSUME JournalInv, PowerLoss
    PROVE  JournalInv'
<1> DEFINE dirty == {g \in Gens : wal[g].torn \/ wal[g].synced < Len(wal[g].frames)}
<1>1. /\ lock' = NoProc /\ handle' = [p \in Proc |-> Closed] /\ UNCHANGED <<acked, tried, held>>
      /\ \E m \in {meta, metaDurable} : meta' = m /\ metaDurable' = m
  BY DEF PowerLoss
<1>2. PICK w \in [dirty -> UNION {Survivors(wal[g]) : g \in dirty}] :
          /\ \A g \in dirty : w[g] \in Survivors(wal[g])
          /\ wal' = [g \in Gens |-> IF g \in dirty THEN w[g] ELSE wal[g]]
  BY DEF PowerLoss
<1>3. FilesOK(meta, metaDurable, wal, acked, tried, held)
  BY DEF JournalInv
<1>4. /\ meta \in Metas /\ metaDurable \in Metas /\ wal \in [Gens -> Files]
      /\ \A g \in Gens : wal[g].synced <= Len(wal[g].frames)
      /\ acked \in Truths /\ tried \in Truths /\ held \in Helds
      /\ Named(meta, wal) /\ Named(metaDurable, wal)
      /\ FileSyncCommitsRenames => /\ Backed(meta, wal, acked, tried) /\ Backed(metaDurable, wal, acked, tried)
                                   /\ Marked(meta, wal, held) /\ Marked(metaDurable, wal, held)
  BY <1>3 DEF FilesOK
<1>5. ASSUME NEW g \in Gens PROVE Survives(wal[g], wal'[g])
  <2>1. CASE g \notin dirty
    BY <1>2, <2>1 DEF Survives
  <2>2. CASE g \in dirty
    <3> DEFINE v == wal[g]
    <3>1. wal'[g] \in Survivors(v) /\ v \in Files
      BY <1>2, <1>4, <2>2
    <3> HIDE DEF v
    <3>2. \E n \in v.synced..Len(v.frames) : \E torn \in BOOLEAN :
              wal'[g] = [exists |-> v.exists, frames |-> SubSeq(v.frames, 1, n), synced |-> n, torn |-> torn]
      BY <3>1 DEF Survivors
    <3> QED BY <3>2 DEF Survives, v
  <2> QED BY <2>1, <2>2
<1>6. wal' \in [Gens -> Files] /\ \A g \in Gens : wal'[g].synced <= Len(wal'[g].frames)
  <2>1. \A g \in Gens : wal'[g] \in Files /\ wal'[g].synced <= Len(wal'[g].frames)
    BY <1>4, <1>5, SurvivorSound
  <2>2. wal' = [g \in Gens |-> wal'[g]]
    BY <1>2
  <2> QED BY <2>1, <2>2
<1>7. ASSUME NEW m \in {meta, metaDurable}, meta' = m, metaDurable' = m
      PROVE  FilesOK(meta', metaDurable', wal', acked', tried', held')
  <2>1. /\ m \in Metas /\ Named(m, wal)
        /\ FileSyncCommitsRenames => Backed(m, wal, acked, tried) /\ Marked(m, wal, held)
    BY <1>4
  <2>2. /\ Named(m, wal')
        /\ Backed(m, wal, acked, tried) => Backed(m, wal', acked, tried)
        /\ Marked(m, wal, held) => Marked(m, wal', held)
    BY <1>4, <1>5, <2>1, SurvivorNamed
  <2>3. m.gen <= m.gen
    BY <2>1 DEF Metas
  <2>4. FilesOK(m, m, wal', acked, tried, held)
    BY <1>4, <1>6, <2>1, <2>2, <2>3 DEF FilesOK
  <2> QED BY <1>1, <1>7, <2>4
<1>8. FilesOK(meta', metaDurable', wal', acked', tried', held')
  BY <1>1, <1>7
<1>9. LockInv' /\ \A p \in Proc : HandleOK(handle'[p], meta', metaDurable', wal', acked', tried')
  BY <1>1, ClosedHandle DEF LockInv
<1> QED BY <1>8, <1>9 DEF JournalInv

-----------------------------------------------------------------------------
(* The invariant and what it says *)

LEMMA InitInv == Init => JournalInv
<1> SUFFICES ASSUME Init PROVE JournalInv
  OBVIOUS
<1>1. /\ lock = NoProc /\ meta = NoMeta /\ metaDurable = NoMeta /\ wal = [g \in Gens |-> NoWal]
      /\ handle = [p \in Proc |-> Closed] /\ acked = Truth(EmptyRecovery) /\ tried = Truth(EmptyRecovery)
      /\ held = [marker |-> NoMarker, tip |-> FALSE]
  BY DEF Init
<1>2. NoMeta \in Metas /\ NoMeta.gen = 0 /\ NoMeta.anc = <<>> /\ Len(NoMeta.anc) <= MaxAncestors
  BY LimitAssumption DEF NoMeta, Metas
<1>3. NoWal \in Files /\ NoWal.synced <= Len(NoWal.frames)
  BY DEF NoWal, Files
<1>4. held \in Helds /\ held.marker = NoMarker
  <2> HIDE DEF NoMarker
  <2> QED BY <1>1 DEF Helds
<1>5. Named(NoMeta, wal) /\ Backed(NoMeta, wal, acked, tried) /\ Marked(NoMeta, wal, held)
  BY <1>1, <1>2, <1>4 DEF Named, Backed, Marked
<1>6. FilesOK(meta, metaDurable, wal, acked, tried, held)
  BY <1>1, <1>2, <1>3, <1>4, <1>5, EmptyTruth DEF FilesOK
<1>7. LockInv /\ \A p \in Proc : HandleOK(handle[p], meta, metaDurable, wal, acked, tried)
  BY <1>1, ClosedHandle DEF LockInv
<1> QED BY <1>6, <1>7 DEF JournalInv

LEMMA NextInv == JournalInv /\ [Next]_vars => JournalInv'
<1> SUFFICES ASSUME JournalInv, [Next]_vars PROVE JournalInv'
  OBVIOUS
<1>1. CASE UNCHANGED vars
  BY <1>1 DEF vars, JournalInv, LockInv
<1>2. ASSUME NEW p \in Proc, Step(p) PROVE JournalInv'
  BY <1>2, OpenLockStep, OpenRefusedStep, OpenCreateWalStep, OpenCreateMetaStep, OpenRecoverStep, ExitStep,
     AppendRecordStep, AppendSyncStep, AppendRetryStep, CompactStep, CompactWriteStep, CompactPublishStep,
     TakeMarkerStep DEF Step
<1> QED BY <1>1, <1>2, PowerLossStep DEF Next

\* Every process reads and writes the journal through the lock; the file
\* that the published and the durable metadata name is readable; a writer
\* caches what its file folds to; what was confirmed is synced in a file
\* that survives (open, append_and_sync and compact_locked together).
THEOREM JournalInvariant == Spec => []JournalInv
<1>1. Init => JournalInv
  BY InitInv
<1>2. JournalInv /\ [Next]_vars => JournalInv'
  BY NextInv
<1> QED BY <1>1, <1>2, PTL DEF Spec

\* TypeOK: cached truths stay within the record limits, no list of ancestors
\* grows past its bound.
THEOREM JournalTypes == Spec => []TypeOK
<1>1. JournalInv => TypeOK
  <2> SUFFICES ASSUME JournalInv PROVE TypeOK
    OBVIOUS
  <2>1. FilesOK(meta, metaDurable, wal, acked, tried, held) /\ lock \in Proc \cup {NoProc}
    BY DEF JournalInv, LockInv
  <2>2. \A m \in {meta, metaDurable} : m.gen \in 0..MaxGen /\ Len(m.anc) <= MaxAncestors
    BY <2>1 DEF FilesOK, Metas, Named
  <2>3. ASSUME NEW g \in Gens PROVE wal[g].synced \in 0..Len(wal[g].frames) /\ wal[g].torn \in BOOLEAN
    <3>1. wal[g] \in Files /\ wal[g].synced <= Len(wal[g].frames)
      BY <2>1 DEF FilesOK
    <3> QED BY <3>1 DEF Files
  <2>4. ASSUME NEW p \in Proc PROVE handle[p].rec \in Recoveries /\ Len(handle[p].anc) <= MaxAncestors
    <3>1. handle[p] \in Handles /\ Len(handle[p].anc) <= MaxAncestors
      BY DEF JournalInv, HandleOK
    <3> QED BY <3>1, CachedTypes DEF Handles
  <2> QED BY <2>1, <2>2, <2>3, <2>4 DEF TypeOK
<1> QED BY <1>1, JournalInvariant, PTL

\* NoStaleWriter: the lock and the fencing of uncertain publications leave
\* at most one healthy writer, on the generation the metadata names.
THEOREM OneWriter == Spec => []NoStaleWriter
<1>1. JournalInv => NoStaleWriter
  <2> SUFFICES ASSUME JournalInv, NEW p \in Proc, Writer(p)
               PROVE  handle[p].gen = meta.gen /\ \A q \in Proc \ {p} : ~Writer(q)
    BY DEF NoStaleWriter
  <2>1. handle[p].pc \in Writing
    BY DEF Writer, Writing
  <2>2. handle[p].gen = meta.gen /\ lock = p
    BY <2>1, WriterFacts
  <2>3. ASSUME NEW q \in Proc \ {p}, Writer(q) PROVE FALSE
    BY <2>2, <2>3 DEF JournalInv, LockInv, Writer
  <2> QED BY <2>2, <2>3
<1> QED BY <1>1, JournalInvariant, PTL

\* CacheIsFile: the hand-maintained cache is what a fresh read would say.
THEOREM CacheMatchesFile == Spec => []CacheIsFile
<1>1. JournalInv => CacheIsFile
  <2> SUFFICES ASSUME JournalInv, NEW p \in Proc, handle[p].pc = "open"
               PROVE  ~wal[handle[p].gen].torn /\ Recover(wal[handle[p].gen].frames) = handle[p].rec
    BY DEF CacheIsFile
  <2>1. handle[p].pc \in Writing /\ handle[p].pc # "writing"
    BY DEF Writing
  <2> QED BY <2>1, WriterFacts
<1> QED BY <1>1, JournalInvariant, PTL

\* Reopenable: once its metadata are published, no crash, power loss, failed
\* call or compaction makes a journal unreadable, and one that has confirmed
\* anything keeps its metadata (open, compact_locked).  It says nothing of a
\* first open that ends before that, which leaves a WAL open refuses.
THEOREM JournalReopens == Spec => []Reopenable
<1>1. JournalInv => Reopenable
  <2> SUFFICES ASSUME JournalInv PROVE Reopenable
    OBVIOUS
  <2>1. FilesOK(meta, metaDurable, wal, acked, tried, held)
    BY DEF JournalInv
  <2>2. FilesOK(metaDurable, metaDurable, wal, acked, tried, held)
    BY <2>1 DEF FilesOK, Metas
  <2>3. ASSUME NEW m \in {meta, metaDurable}, m.gen # 0 PROVE Readable(m.gen, wal[m.gen])
    <3>1. Sound(m.gen, wal[m.gen]) /\ Recover(wal[m.gen].frames).seq = Len(wal[m.gen].frames)
      BY <2>1, <2>2, <2>3, PublishedFile
    <3> QED BY <3>1 DEF Sound, Readable
  <2>4. metaDurable.gen # 0 => meta.gen # 0
    BY <2>1 DEF FilesOK, Metas
  <2>5. FileSyncCommitsRenames /\ acked # Truth(EmptyRecovery) => metaDurable.gen # 0
    BY <2>1 DEF FilesOK, Backed
  <2> QED BY <2>3, <2>4, <2>5 DEF Reopenable
<1> QED BY <1>1, JournalInvariant, PTL

\* RecoveredTruth: on a file system that commits renames in order, a journal
\* opens with everything a successful append or compaction confirmed and
\* with nothing that was not appended.
THEOREM ConfirmedSurvives ==
    ASSUME FileSyncCommitsRenames
    PROVE  Spec => []RecoveredTruth
<1>1. JournalInv => RecoveredTruth
  <2> SUFFICES ASSUME JournalInv, NEW p \in Proc, Writer(p)
               PROVE  NoEarlier(Truth(handle[p].rec), acked) /\ NoEarlier(tried, Truth(handle[p].rec))
    BY DEF RecoveredTruth
  <2>1. handle[p].pc \in Writing
    BY DEF Writer, Writing
  <2> QED BY <2>1, WriterFacts
<1> QED BY <1>1, JournalInvariant, PTL

\* MarkerStaysValid: on such a file system a checkpoint's marker validates
\* while its generation lives and, if it was the tip, for MaxAncestors
\* compactions (validate_authority_checkpoint_marker).
THEOREM MarkersProvable ==
    ASSUME FileSyncCommitsRenames
    PROVE  Spec => []MarkerStaysValid
<1>1. JournalInv => MarkerStaysValid
  <2> SUFFICES ASSUME JournalInv, NEW p \in Proc, handle[p].pc = "open", held.marker # NoMarker
               PROVE  LET age == handle[p].gen - held.marker.gen IN
                      /\ age >= 0
                      /\ age = 0 \/ (held.tip /\ age <= MaxAncestors) => Validates(p, held.marker)
    BY DEF MarkerStaysValid
  <2> DEFINE h == handle[p]
             k == held.marker
             w == wal[meta.gen]
             age == meta.gen - k.gen
  <2>1. handle[p].pc \in Writing /\ handle[p].pc # "writing"
    BY DEF Writing
  <2>2. /\ h.gen = meta.gen /\ h.anc = meta.anc /\ Recover(w.frames) = h.rec /\ h.rec.seq = Len(w.frames)
        /\ w.frames \in Seq(Frames) /\ w.synced \in 0..Len(w.frames) /\ Sound(meta.gen, w)
        /\ meta.gen \in Gens /\ h.rec \in Cached
    BY <2>1, WriterFacts
  <2>3. Marked(meta, wal, held) /\ held \in Helds /\ meta \in Metas
    BY DEF JournalInv, FilesOK
  <2>4. k \in Tips /\ k.gen \in Int /\ k.seq \in Nat /\ meta.gen \in Int
    BY <2>2, <2>3, LimitAssumption DEF Helds, Tips, Gens
  <2>5. age >= 0
    BY <2>3 DEF Marked
  <2>6. ASSUME age = 0 PROVE Validates(p, k)
    <3>1. /\ k.seq <= w.synced
          /\ Marker(meta.gen, Recover(SubSeq(w.frames, 1, k.seq))) = k
      BY <2>3, <2>6 DEF Marked
    <3>2. k.seq \in 0..Len(w.frames) /\ Len(w.frames) \in Nat /\ Len(w.frames) \in 0..Len(w.frames) /\ k.seq <= h.rec.seq
      BY <2>2, <2>4, <3>1
    <3>3. UpTo(w.frames, Len(w.frames)) = h.rec /\ ~h.rec.corrupt
      BY <2>2, WholeFile DEF Sound
    <3>4. NoEarlier(Truth(h.rec), Truth(UpTo(w.frames, k.seq)))
      BY <2>2, <3>2, <3>3, PrefixReadable
    <3>5. k.epoch = UpTo(w.frames, k.seq).epoch
      BY <3>1 DEF Marker, UpTo
    <3>6. k.epoch <= h.rec.epoch
      <4>0. \A c \in Cached : c.epoch \in Int
        BY LimitAssumption DEF Cached
      <4>01. \A t \in Tips : t.epoch \in Int
        BY LimitAssumption DEF Tips
      <4> HIDE DEF h, k, w
      <4>1. h.rec.epoch \in Int /\ k.epoch \in Int
        BY ONLY <2>2, <2>4, <4>0, <4>01
      <4>2. h.rec.epoch >= k.epoch
        BY <3>4, <3>5 DEF NoEarlier, Truth
      <4> QED BY <4>1, <4>2
    <3>7. k.gen = h.gen
      BY <2>2, <2>4, <2>6
    <3> QED BY <2>2, <3>1, <3>2, <3>6, <3>7 DEF Validates
  <2>7. ASSUME age # 0, held.tip, age <= MaxAncestors PROVE Validates(p, k)
    <3>1. age > 0 /\ k.gen # h.gen
      BY <2>2, <2>4, <2>5, <2>7
    <3>2. age <= Len(h.anc) /\ h.anc[Len(h.anc) - age + 1] = k
      BY <2>2, <2>3, <2>7, <3>1 DEF Marked
    <3>3. h.anc \in Seq(Tips) /\ Len(h.anc) - age + 1 \in DOMAIN h.anc
      <4>1. h.anc \in Seq(Tips) /\ Len(h.anc) \in Nat /\ DOMAIN h.anc = 1..Len(h.anc)
        BY <2>2, <2>3 DEF Metas
      <4> QED BY <2>4, <3>1, <3>2, <4>1
    <3> QED BY <3>1, <3>2, <3>3 DEF Validates
  <2> HIDE DEF age
  <2>8. handle[p].gen - held.marker.gen = age
    BY <2>2 DEF age
  <2> QED BY <2>5, <2>6, <2>7, <2>8
<1> QED BY <1>1, JournalInvariant, PTL
=============================================================================
