---------------------- MODULE ProcessSupervisionProofs ----------------------
(***************************************************************************)
(* What the supervision of child processes guarantees, for every set of    *)
(* invocations and PIDs, every kind of tool, any number of crashes, and    *)
(* with or without reused PIDs, lost identities and failing writes.        *)
(***************************************************************************)
EXTENDS ProcessSupervision, TLAPS

-----------------------------------------------------------------------------
(* The inductive invariant.                                                *)

\* A creation identity is given once: no two processes and no two invocations
\* share one, and a child runs under its own PID or not at all.
IdentityInv ==
  /\ idOf \in [Runs -> 0..born]
  /\ \A p \in Pids : os[p].st # "free" => os[p].id \in 1..born /\ p \in used
  /\ \A p, q \in Pids :
        os[p].st # "free" /\ os[q].st # "free" /\ os[p].id = os[q].id => p = q
  /\ \A e, x \in Runs : idOf[e] = idOf[x] /\ idOf[e] # None => e = x
  /\ \A e \in Runs : idOf[e] # None => pid[e] \in Pids
  /\ \A e \in Runs, p \in Pids :
        os[p].st # "free" /\ idOf[e] # None /\ os[p].id = idOf[e] => p = pid[e]

\* Where an invocation stands says whether it has a child, whether it still
\* holds the child's PID, and whether the child is dead.
CallInv ==
  \A e \in Runs :
    /\ pc[e] \in {"idle", "admitted"} => idOf[e] = None
    /\ pc[e] \notin {"idle", "admitted", "lost"} => idOf[e] # None
    /\ pc[e] \in Held => /\ os[pid[e]].st # "free"
                         /\ os[pid[e]].id = idOf[e] /\ os[pid[e]].by = e
    /\ pc[e] \in {"reaped", "exited"} => ~ChildRuns(e)
    /\ host # "up" => pc[e] \in {"idle", "lost"}

\* The stages of startup, and what each has still to look at.
StageInv ==
  /\ \A r \in ledger : r.token \in 0..born
  /\ host = "ledger" => todo \subseteq ledger
  /\ host \in {"reconcile", "orphans"} => todo \subseteq Runs /\ ledger = {}
  /\ host \in {"up", "down"} => todo = {} /\ aim = NoRow
  /\ host # "ledger" => kept = {}
  /\ host = "ledger" /\ aim # NoRow => aim \in ledger
  /\ aim # NoRow => aim.token # None

\* Evidence is about the invocation's own child.
EvidenceInv ==
  \A e \in Runs :
    /\ token[e] \in {None, idOf[e]} /\ journal[e].token \in {None, idOf[e]}
    /\ pc[e] \in {"idle", "admitted", "spawned"} => token[e] = None
    /\ Recorded(e) => journal[e].pid = pid[e] /\ idOf[e] # None
    /\ pc[e] \in {"idle", "admitted", "spawned", "leased"} => ~Recorded(e)
    /\ pc[e] \in {"recorded", "reaped", "exited"} /\ Journals(e) => Recorded(e)
    /\ pc[e] = "recorded" => Journals(e)
    /\ pc[e] = "exited" => Kind[e] = "session"

\* One open spawn per PID; and the record of an invocation that has not
\* finished was closed, if at all, by a session that had the PID before and
\* whose own record was closed by then.
ClosedBySession(e) ==
  \E s \in Runs \ {e} : Kind[s] = "session" /\ idOf[s] # None
                        /\ pid[s] = pid[e] /\ journal[s].exited

OpenInv ==
  /\ \A e, x \in Runs : OpenSpawn(e) /\ OpenSpawn(x) /\ pid[e] = pid[x] => e = x
  /\ \A e \in Runs : pc[e] \in {"recorded", "reaped"} /\ Recorded(e) =>
        OpenSpawn(e) \/ ClosedBySession(e)

LeaseRow(e) == [pid |-> pid[e], token |-> token[e]]

\* The row of a child that the tool has not given up.
LeaseInv ==
  \A e \in Runs : pc[e] \in {"leased", "recorded"} /\ token[e] # None => LeaseRow(e) \in ledger

\* A child that the next startup has to find.
Owed(e) == e \in supervised /\ Identified(e) /\ ~StaleSession(e) /\ ChildRuns(e)

\* It is found by its row or by its open spawn; a row that startup has dealt
\* with names no live child, and neither does a spawn record.
CoverInv ==
  /\ supervised \subseteq Runs
  /\ \A e \in Runs : Owed(e) => (token[e] # None /\ LeaseRow(e) \in ledger) \/ OpenSpawn(e)
  /\ host = "ledger" => \A r \in ledger \ (todo \cup kept \cup {aim}) : ~Alive(r, os)
  /\ host = "orphans" => /\ \A e \in todo : OpenSpawn(e)
                         /\ \A e \in Runs \ todo : OpenSpawn(e) /\ ChildRuns(e) => aim = RowOf(e)

SupervisionInv ==
  /\ TypeOK /\ IdentityInv /\ CallInv /\ StageInv /\ EvidenceInv /\ OpenInv
  /\ ExitIsItsOwnButSessions /\ LeaseInv /\ CoverInv /\ NoSupervisedLeftover

-----------------------------------------------------------------------------
(* What a step can do to the process table.                                *)

OsType == [Pids -> [st : {"free", "running", "zombie"}, id : 0..MaxBorn,
                    by : Runs \cup {"foreign", "nobody"}]]

\* Processes only exit and get reaped: what runs ran before, and what has a
\* PID had it before.
OsShrinks ==
  \A p \in Pids :
    /\ os'[p].st = "running" => os[p].st = "running"
    /\ os'[p].st # "free" => os[p].st # "free" /\ os'[p].id = os[p].id /\ os'[p].by = os[p].by

\* Freeing PIDs shrinks the table.
LEMMA FreeShrinks ==
  ASSUME os \in OsType, NEW S \in SUBSET Pids,
         os' = [q \in Pids |-> IF q \in S THEN Free ELSE os[q]]
  PROVE  os' \in OsType /\ OsShrinks
<1>1. Free \in [st : {"free", "running", "zombie"}, id : 0..MaxBorn, by : Runs \cup {"foreign", "nobody"}]
  BY ProcessAssumption DEF Free, None
<1>2. os' \in OsType
  BY <1>1 DEF OsType
<1>3. Free.st = "free"
  BY DEF Free
<1> QED BY <1>2, <1>3 DEF OsType, OsShrinks

\* A process exits: it frees its PID or keeps it as a zombie.
LEMMA ExitShrinks ==
  ASSUME os \in OsType, NEW p \in Pids, Running(p), os' = Exited(p)
  PROVE  /\ os' \in OsType /\ OsShrinks /\ \A q \in Pids \ {p} : os'[q] = os[q]
         /\ os'[p].st = "free" => ~(os[p].by \in Runs /\ pc[os[p].by] \in Held /\ pid[os[p].by] = p)
<1> DEFINE keeps == os[p].by \in Runs /\ pc[os[p].by] \in Held /\ pid[os[p].by] = p
           zombie == [os[p] EXCEPT !.st = "zombie"]
<1>1. CASE keeps
  <2>1. os' = [os EXCEPT ![p] = zombie]
    BY <1>1 DEF Exited, OsType
  <2>2. zombie \in [st : {"free", "running", "zombie"}, id : 0..MaxBorn, by : Runs \cup {"foreign", "nobody"}]
        /\ zombie.st = "zombie" /\ zombie.id = os[p].id /\ zombie.by = os[p].by
    BY DEF OsType
  <2> HIDE DEF zombie
  <2> QED BY <2>1, <2>2 DEF OsType, OsShrinks, Running
<1>2. CASE ~keeps
  <2>1. os' = [os EXCEPT ![p] = Free]
    BY <1>2 DEF Exited, OsType
  <2>2. os' = [q \in Pids |-> IF q \in {p} THEN Free ELSE os[q]]
    BY <2>1 DEF OsType
  <2> QED BY <1>2, <2>1, <2>2, FreeShrinks DEF OsType
<1> QED BY <1>1, <1>2

\* A signal takes a process away and brings none.
LEMMA KilledShrinks ==
  ASSUME os \in OsType, NEW p \in Pids, os' \in Killed(p)
  PROVE  /\ os' \in OsType /\ OsShrinks /\ \A q \in Pids \ {p} : os'[q] = os[q]
         /\ os'[p].st = "free" => os[p].st = "free" \/
               ~(os[p].by \in Runs /\ pc[os[p].by] \in Held /\ pid[os[p].by] = p)
<1>1. CASE os' = os
  BY <1>1 DEF OsShrinks
<1>2. CASE Running(p) /\ os' = Exited(p)
  BY <1>2, ExitShrinks
<1> QED BY <1>1, <1>2 DEF Killed

\* So does giving a child up.
LEMMA AbandonedShrinks ==
  ASSUME os \in OsType, NEW p \in Pids, os' \in Abandoned(p)
  PROVE  os' \in OsType /\ OsShrinks /\ \A q \in Pids \ {p} : os'[q] = os[q]
<1>1. CASE os' = os
  BY <1>1 DEF OsShrinks
<1>2. CASE os' = [os EXCEPT ![p] = Free]
  <2>1. os' = [q \in Pids |-> IF q \in {p} THEN Free ELSE os[q]]
    BY <1>2 DEF OsType
  <2> QED BY <1>2, <2>1, FreeShrinks DEF OsType
<1> QED BY <1>1, <1>2 DEF Abandoned

\* A process that is gone stays gone.
LEMMA NoRevival ==
  ASSUME OsShrinks, idOf' = idOf
  PROVE  \A e \in Runs : ChildRuns(e)' => ChildRuns(e)
<1> SUFFICES ASSUME NEW e \in Runs, ChildRuns(e)' PROVE ChildRuns(e)
    OBVIOUS
<1>1. PICK p \in Pids : os'[p].st = "running" /\ os'[p].id = idOf[e] /\ idOf[e] # None
  BY DEF ChildRuns, Running
<1>2. os[p].st = "running" /\ os[p].id = idOf[e]
  BY <1>1 DEF OsShrinks
<1> QED BY <1>1, <1>2 DEF ChildRuns, Running

\* Identities stay unique while nothing is created.
LEMMA IdentityFrame ==
  ASSUME IdentityInv, OsShrinks, UNCHANGED <<born, used, idOf, pid>>
  PROVE  IdentityInv'
BY DEF IdentityInv, OsShrinks

\* A new process has an identity no process and no invocation ever had.
LEMMA CreateFresh ==
  ASSUME TypeOK, IdentityInv, NEW p \in Pids, NEW by \in Runs \cup {"foreign"}, Create(p, by)
  PROVE  /\ os' \in OsType /\ born' \in 0..MaxBorn /\ used' \subseteq Pids /\ born' = born + 1
         /\ os'[p] = [st |-> "running", id |-> born + 1, by |-> by]
         /\ \A q \in Pids \ {p} : os'[q] = os[q]
         /\ os[p].st = "free" /\ p \in used' /\ used \subseteq used'
BY ProcessAssumption DEF TypeOK, Create, Assignable, OsType
-----------------------------------------------------------------------------
(* What a step preserves that changes little.  Each frame lemma names the  *)
(* part of the state its conjunct depends on.                              *)

LEMMA CallFrame ==
  ASSUME IdentityInv, CallInv, OsShrinks, UNCHANGED <<pid, idOf>>,
         \A x \in Runs :
           /\ pc'[x] \in Held => pc[x] \in Held /\ os'[pid[x]].st # "free"
           /\ pc'[x] \in {"idle", "admitted"} => pc[x] \in {"idle", "admitted"}
           /\ pc'[x] \notin {"idle", "admitted", "lost"} => pc[x] \notin {"idle", "admitted", "lost"}
           /\ pc'[x] \in {"reaped", "exited"} => ~ChildRuns(x)'
           /\ host' # "up" => pc'[x] \in {"idle", "lost"}
  PROVE  CallInv'
<1> SUFFICES ASSUME NEW e \in Runs
             PROVE  /\ pc'[e] \in {"idle", "admitted"} => idOf'[e] = None
                    /\ pc'[e] \notin {"idle", "admitted", "lost"} => idOf'[e] # None
                    /\ pc'[e] \in Held => /\ os'[pid'[e]].st # "free"
                                          /\ os'[pid'[e]].id = idOf'[e] /\ os'[pid'[e]].by = e
  BY DEF CallInv
<1>1. pc'[e] \in Held => pid[e] \in Pids /\ os'[pid[e]].id = idOf[e] /\ os'[pid[e]].by = e
  BY DEF CallInv, IdentityInv, OsShrinks, Held
<1> QED BY <1>1 DEF CallInv

LEMMA EvidenceFrame ==
  ASSUME EvidenceInv, UNCHANGED <<pid, token, idOf, journal>>,
         \A x \in Runs :
           /\ pc'[x] \in {"idle", "admitted", "spawned"} => pc[x] \in {"idle", "admitted", "spawned"}
           /\ pc'[x] \in {"idle", "admitted", "spawned", "leased"}
                => pc[x] \in {"idle", "admitted", "spawned", "leased"}
           /\ pc'[x] \in {"recorded", "reaped", "exited"} /\ Journals(x)
                => pc[x] \in {"recorded", "reaped", "exited"}
           /\ pc'[x] = "recorded" => Journals(x)
           /\ pc'[x] = "exited" => Kind[x] = "session"
  PROVE  EvidenceInv'
BY DEF EvidenceInv, Recorded, Journals

LEMMA OpenFrame ==
  ASSUME OpenInv, UNCHANGED <<pid, idOf, journal>>,
         \A x \in Runs : pc'[x] \in {"recorded", "reaped"} /\ Recorded(x)
                            => pc[x] \in {"recorded", "reaped"}
  PROVE  OpenInv'
BY DEF OpenInv, OpenSpawn, Recorded, ClosedBySession

LEMMA ExitFrame ==
  ASSUME ExitIsItsOwnButSessions, UNCHANGED <<pid, idOf, journal>>,
         \A x \in Runs : ChildRuns(x)' => ChildRuns(x)
  PROVE  ExitIsItsOwnButSessions'
BY DEF ExitIsItsOwnButSessions, StaleSession

LEMMA LeaseFrame ==
  ASSUME LeaseInv, UNCHANGED <<pid, token>>,
         \A x \in Runs : pc'[x] \in {"leased", "recorded"} /\ token[x] # None =>
            pc[x] \in {"leased", "recorded"} /\ (LeaseRow(x) \in ledger => LeaseRow(x) \in ledger')
  PROVE  LeaseInv'
BY DEF LeaseInv, LeaseRow

\* The cover of a child is its row and its record.
LEMMA OwedFrame ==
  ASSUME CoverInv, UNCHANGED <<pid, token, idOf, supervised, journal>>,
         \A x \in Runs : ChildRuns(x)' => ChildRuns(x),
         \A x \in Runs : ChildRuns(x)' /\ token[x] # None /\ LeaseRow(x) \in ledger
                            => LeaseRow(x) \in ledger'
  PROVE  /\ (supervised \subseteq Runs)'
         /\ (\A x \in Runs : Owed(x) => (token[x] # None /\ LeaseRow(x) \in ledger) \/ OpenSpawn(x))'
<1>1. ASSUME NEW x \in Runs, Owed(x)'
      PROVE  ((token[x] # None /\ LeaseRow(x) \in ledger) \/ OpenSpawn(x))'
  <2>1. Owed(x)
    BY <1>1 DEF Owed, Identified, StaleSession
  <2>2. ChildRuns(x)'
    BY <1>1 DEF Owed
  <2>3. (token[x] # None /\ LeaseRow(x) \in ledger) \/ OpenSpawn(x)
    BY <2>1 DEF CoverInv
  <2> QED BY <2>2, <2>3 DEF LeaseRow, OpenSpawn, Recorded
<1> QED BY <1>1 DEF CoverInv

\* Where no stage of startup is looking, that is all of it.
LEMMA CoverFrame ==
  ASSUME CoverInv, host' \notin {"ledger", "orphans"}, UNCHANGED <<pid, token, idOf, supervised, journal>>,
         \A x \in Runs : ChildRuns(x)' => ChildRuns(x),
         \A x \in Runs : ChildRuns(x)' /\ token[x] # None /\ LeaseRow(x) \in ledger
                            => LeaseRow(x) \in ledger'
  PROVE  CoverInv'
BY OwedFrame DEF CoverInv

\* In every stage of startup, too, if the world only changes around it.
LEMMA CoverQuiet ==
  ASSUME CoverInv, UNCHANGED <<host, todo, kept, aim, ledger, pid, token, idOf, supervised, journal>>,
         \A x \in Runs : ChildRuns(x)' => ChildRuns(x),
         \A r \in ledger : Alive(r, os') => Alive(r, os)
  PROVE  CoverInv'
<1>1. ASSUME NEW x \in Runs, Owed(x)'
      PROVE  ((token[x] # None /\ LeaseRow(x) \in ledger) \/ OpenSpawn(x))'
  <2>1. Owed(x)
    BY <1>1 DEF Owed, Identified, StaleSession
  <2>2. (token[x] # None /\ LeaseRow(x) \in ledger) \/ OpenSpawn(x)
    BY <2>1 DEF CoverInv
  <2> QED BY <2>2 DEF LeaseRow, OpenSpawn, Recorded
<1>2. (host = "ledger" => \A r \in ledger \ (todo \cup kept \cup {aim}) : ~Alive(r, os))'
  BY DEF CoverInv
<1>3. (host = "orphans" => /\ \A e \in todo : OpenSpawn(e)
                           /\ \A e \in Runs \ todo : OpenSpawn(e) /\ ChildRuns(e) => aim = RowOf(e))'
  BY DEF CoverInv, OpenSpawn, Recorded, RowOf
<1>4. (supervised \subseteq Runs)'
  BY DEF CoverInv
<1> QED BY <1>1, <1>2, <1>3, <1>4 DEF CoverInv

LEMMA LeftoverFrame ==
  ASSUME NoSupervisedLeftover, UNCHANGED <<host, fenced, pid, idOf>>,
         \A x \in Runs : ChildRuns(x)' => ChildRuns(x),
         supervised' \subseteq Runs,
         \A x \in Runs : pc'[x] = "lost" =>
           /\ pc[x] = "lost" /\ (x \in supervised' => x \in supervised)
           /\ token'[x] = token[x] /\ journal'[x].token = journal[x].token
  PROVE  NoSupervisedLeftover'
BY DEF NoSupervisedLeftover, Identified, StaleSession
-----------------------------------------------------------------------------
(* One lemma per action.                                                   *)

LEMMA AliveFrame ==
  ASSUME OsShrinks, ledger \subseteq Rows
  PROVE  \A r \in ledger : Alive(r, os') => Alive(r, os)
BY DEF OsShrinks, Alive, Rows

LEMMA SameShrinks ==
  ASSUME os' = os PROVE OsShrinks
BY DEF OsShrinks

LEMMA OsTyped == TypeOK => os \in OsType
BY DEF TypeOK, OsType

\* A program of somebody else starts.
LEMMA ForeignStartStep ==
  ASSUME SupervisionInv, NEW p \in Pids, ForeignStart(p)
  PROVE  SupervisionInv'
<1> USE DEF SupervisionInv
<1>0. /\ os' \in OsType /\ born' \in 0..MaxBorn /\ used' \subseteq Pids /\ born' = born + 1
      /\ os'[p] = [st |-> "running", id |-> born + 1, by |-> "foreign"]
      /\ \A q \in Pids \ {p} : os'[q] = os[q]
      /\ os[p].st = "free" /\ p \in used' /\ used \subseteq used'
      /\ UNCHANGED <<pc, pid, token, journal, ledger, failed, host, todo, kept, aim, fenced,
                     open, verdict, crashes, idOf, supervised, struck>>
  BY CreateFresh DEF ForeignStart, tools, durable, startup, ghosts
<1>1. os'[p].st = "running" /\ os'[p].id = born + 1
  BY <1>0
<1>2. \A x \in Runs : ChildRuns(x)' => ChildRuns(x)
  <2> SUFFICES ASSUME NEW x \in Runs, ChildRuns(x)' PROVE ChildRuns(x)
      OBVIOUS
  <2>1. PICK q \in Pids : os'[q].st = "running" /\ os'[q].id = idOf[x] /\ idOf[x] # None
    BY <1>0 DEF ChildRuns, Running
  <2>2. q # p
    BY <1>1, <2>1 DEF IdentityInv, TypeOK
  <2> QED BY <1>0, <2>1, <2>2 DEF ChildRuns, Running
<1>3. TypeOK'
  BY <1>0 DEF TypeOK, OsType
<1>4. IdentityInv'
  <2>1. \A q \in Pids : os[q].st # "free" => os[q].id # born + 1
    BY DEF IdentityInv, TypeOK
  <2>2. \A e \in Runs : idOf[e] # born + 1
    BY DEF IdentityInv, TypeOK
  <2>3. (idOf \in [Runs -> 0..born])' /\ (\A q \in Pids : os[q].st # "free" => os[q].id \in 1..born /\ q \in used)'
    BY <1>0, <1>1 DEF IdentityInv, TypeOK
  <2>4. (\A q, r \in Pids : os[q].st # "free" /\ os[r].st # "free" /\ os[q].id = os[r].id => q = r)'
    BY <1>0, <1>1, <2>1 DEF IdentityInv
  <2>5. (\A e \in Runs, q \in Pids : os[q].st # "free" /\ idOf[e] # None /\ os[q].id = idOf[e] => q = pid[e])'
    BY <1>0, <1>1, <2>2 DEF IdentityInv
  <2> QED BY <1>0, <2>3, <2>4, <2>5 DEF IdentityInv
<1>5. CallInv'
  <2>1. \A x \in Runs : pc[x] \in Held => pid[x] \in Pids /\ pid[x] # p
    BY <1>0 DEF CallInv, IdentityInv, Held
  <2> QED BY <1>0, <1>2, <2>1 DEF CallInv
<1>6. StageInv' /\ EvidenceInv' /\ OpenInv' /\ ExitIsItsOwnButSessions' /\ LeaseInv'
  BY <1>0, <1>2, EvidenceFrame, OpenFrame, ExitFrame, LeaseFrame DEF StageInv, EvidenceInv, TypeOK
<1>7. NoSupervisedLeftover'
  BY <1>0, <1>2, LeftoverFrame DEF CoverInv
<1>8. CoverInv'
  <2>1. ASSUME NEW r \in ledger, Alive(r, os') PROVE Alive(r, os)
    <3>1. r.pid \in Pids /\ r.token \in 0..born
      BY DEF TypeOK, Rows, StageInv
    <3>2. r.pid # p
      BY <1>0, <1>1, <2>1, <3>1 DEF Alive, TypeOK
    <3> QED BY <1>0, <2>1, <3>1, <3>2 DEF Alive
  <2> QED BY <1>0, <1>2, <2>1, CoverQuiet
<1> QED BY <1>3, <1>4, <1>5, <1>6, <1>7, <1>8
\* A process exits by itself.
LEMMA ProcessExitsStep ==
  ASSUME SupervisionInv, NEW p \in Pids, ProcessExits(p)
  PROVE  SupervisionInv'
<1> USE DEF SupervisionInv
<1>0. /\ os' \in OsType /\ OsShrinks /\ \A q \in Pids \ {p} : os'[q] = os[q]
      /\ os'[p].st = "free" => ~(os[p].by \in Runs /\ pc[os[p].by] \in Held /\ pid[os[p].by] = p)
      /\ UNCHANGED <<born, used, pc, pid, token, journal, ledger, failed, host, todo, kept, aim,
                     fenced, open, verdict, crashes, idOf, supervised, struck>>
  BY OsTyped, ExitShrinks DEF ProcessExits, tools, durable, startup, ghosts
<1>2. \A x \in Runs : ChildRuns(x)' => ChildRuns(x)
  BY <1>0, NoRevival
<1>3. TypeOK'
  BY <1>0 DEF TypeOK, OsType
<1>4. IdentityInv'
  BY <1>0, IdentityFrame
<1>5. CallInv'
  <2>1. \A x \in Runs : pc[x] \in Held =>
           pid[x] \in Pids /\ os[pid[x]].st # "free" /\ os[pid[x]].by = x
    BY DEF CallInv, IdentityInv, Held
  <2>2. \A x \in Runs : pc[x] \in Held => os'[pid[x]].st # "free"
    BY <1>0, <2>1
  <2> QED BY <1>0, <1>2, <2>2, CallFrame DEF CallInv
<1>6. StageInv' /\ EvidenceInv' /\ OpenInv' /\ ExitIsItsOwnButSessions' /\ LeaseInv'
  BY <1>0, <1>2, EvidenceFrame, OpenFrame, ExitFrame, LeaseFrame DEF StageInv, EvidenceInv
<1>7. CoverInv' /\ NoSupervisedLeftover'
  BY <1>0, <1>2, AliveFrame, CoverQuiet, LeftoverFrame DEF CoverInv, TypeOK
<1> QED BY <1>3, <1>4, <1>5, <1>6, <1>7

\* Core admits an operation or records its end.
LEMMA AdmitStep ==
  ASSUME SupervisionInv, NEW e \in Runs, Admit(e) \/ Settle(e)
  PROVE  SupervisionInv'
<1> USE DEF SupervisionInv
<1>0. /\ \A x \in Runs : pc'[x] = pc[x] \/ (pc[x] = "idle" /\ pc'[x] = "admitted")
      /\ pc' \in [Runs -> Phases] /\ open' \subseteq Runs /\ host = "up"
      /\ UNCHANGED <<os, born, used, pid, token, journal, ledger, failed, host, todo, kept, aim,
                     fenced, verdict, crashes, idOf, supervised, struck>>
  BY DEF Admit, Settle, TypeOK, tools, tables, durable, startup, ghosts, Phases
<1>1. OsShrinks
  BY <1>0, SameShrinks
<1>2. \A x \in Runs : ChildRuns(x)' => ChildRuns(x)
  BY <1>0, <1>1, NoRevival
<1>3. TypeOK'
  BY <1>0 DEF TypeOK
<1>4. IdentityInv'
  BY <1>0, <1>1, IdentityFrame
<1>5. CallInv'
  <2>1. \A x \in Runs : pc'[x] \in Held \/ pc'[x] \in {"reaped", "exited"} => pc'[x] = pc[x]
    BY <1>0 DEF Held
  <2>2. \A x \in Runs : pc[x] \in Held => os'[pid[x]].st # "free"
    BY <1>0 DEF CallInv
  <2> QED BY <1>0, <1>1, <1>2, <2>1, <2>2, CallFrame DEF CallInv
<1>6. StageInv' /\ EvidenceInv'
  BY <1>0, EvidenceFrame DEF StageInv, EvidenceInv
<1>7. OpenInv' /\ ExitIsItsOwnButSessions' /\ LeaseInv'
  BY <1>0, <1>2, OpenFrame, ExitFrame, LeaseFrame
<1>8. CoverInv' /\ NoSupervisedLeftover'
  BY <1>0, <1>1, <1>2, AliveFrame, CoverQuiet, LeftoverFrame DEF CoverInv, TypeOK
<1> QED BY <1>3, <1>4, <1>5, <1>6, <1>7, <1>8
\* The tool creates its child.
LEMMA SpawnStep ==
  ASSUME SupervisionInv, NEW e \in Runs, NEW p \in Pids, Spawn(e, p)
  PROVE  SupervisionInv'
<1> USE DEF SupervisionInv
<1>0. /\ os' \in OsType /\ born' \in 0..MaxBorn /\ used' \subseteq Pids /\ born' = born + 1
      /\ os'[p] = [st |-> "running", id |-> born + 1, by |-> e]
      /\ \A q \in Pids \ {p} : os'[q] = os[q]
      /\ os[p].st = "free" /\ p \in used' /\ used \subseteq used'
      /\ host = "up" /\ pc[e] = "admitted"
      /\ pc' = [pc EXCEPT ![e] = "spawned"] /\ pid' = [pid EXCEPT ![e] = p]
      /\ idOf' = [idOf EXCEPT ![e] = born + 1]
      /\ UNCHANGED <<token, journal, ledger, failed, host, todo, kept, aim, fenced,
                     open, verdict, crashes, supervised, struck>>
  BY CreateFresh DEF Spawn, durable, startup
<1>1. os'[p].st = "running" /\ os'[p].id = born + 1 /\ os'[p].by = e
  BY <1>0
<1>a. /\ idOf[e] = None /\ token[e] = None /\ ~Recorded(e)
      /\ idOf'[e] = born + 1 /\ pid'[e] = p /\ pc'[e] = "spawned" /\ born + 1 # None
      /\ \A x \in Runs \ {e} : idOf'[x] = idOf[x] /\ pid'[x] = pid[x] /\ pc'[x] = pc[x]
  BY <1>0 DEF CallInv, EvidenceInv, TypeOK, IdentityInv, None
<1>2. \A x \in Runs \ {e} : ChildRuns(x)' => ChildRuns(x)
  <2> SUFFICES ASSUME NEW x \in Runs \ {e}, ChildRuns(x)' PROVE ChildRuns(x)
      OBVIOUS
  <2>1. PICK q \in Pids : os'[q].st = "running" /\ os'[q].id = idOf[x] /\ idOf[x] # None
    BY <1>a DEF ChildRuns, Running
  <2>2. q # p
    BY <1>1, <2>1 DEF IdentityInv, TypeOK
  <2> QED BY <1>0, <2>1, <2>2 DEF ChildRuns, Running
<1>b. \A x \in Runs \ {e} : StaleSession(x) => StaleSession(x)'
  BY <1>a DEF StaleSession
<1>3. TypeOK'
  BY <1>0 DEF TypeOK, OsType, Phases
<1>4. IdentityInv'
  <2>1. \A q \in Pids : os[q].st # "free" => os[q].id # born + 1
    BY DEF IdentityInv, TypeOK
  <2>2. \A x \in Runs : idOf[x] # born + 1
    BY DEF IdentityInv, TypeOK
  <2>3. (\A q \in Pids : os[q].st # "free" => os[q].id \in 1..born /\ q \in used)'
    <3>1. born \in Nat /\ born' = born + 1 /\ os'[p].id \in 1..born' /\ p \in used'
      BY <1>0, <1>1 DEF TypeOK
    <3>2. ASSUME NEW q \in Pids \ {p}, os'[q].st # "free" PROVE os'[q].id \in 1..born' /\ q \in used'
      <4>1. os'[q] = os[q] /\ used \subseteq used'
        BY <1>0
      <4>2. os[q].id \in 1..born /\ q \in used
        BY <3>2, <4>1 DEF IdentityInv
      <4> QED BY ONLY <3>1, <4>1, <4>2
    <3> QED BY <3>1, <3>2
  <2>4. (\A q, r \in Pids : os[q].st # "free" /\ os[r].st # "free" /\ os[q].id = os[r].id => q = r)'
    BY <1>0, <1>1, <2>1 DEF IdentityInv
  <2>5. (\A x \in Runs, q \in Pids : os[q].st # "free" /\ idOf[x] # None /\ os[q].id = idOf[x] => q = pid[x])'
    BY <1>0, <1>1, <1>a, <2>1, <2>2 DEF IdentityInv
  <2>6. (idOf \in [Runs -> 0..born])'
    BY <1>0 DEF IdentityInv, TypeOK
  <2>7. (\A x, y \in Runs : idOf[x] = idOf[y] /\ idOf[x] # None => x = y)'
    BY <1>a, <2>2 DEF IdentityInv
  <2>8. (\A x \in Runs : idOf[x] # None => pid[x] \in Pids)'
    BY <1>a DEF IdentityInv
  <2> QED BY <2>3, <2>4, <2>5, <2>6, <2>7, <2>8 DEF IdentityInv
<1>5. CallInv'
  <2>1. \A x \in Runs \ {e} : pc[x] \in Held => pid[x] \in Pids /\ pid[x] # p
    BY <1>0 DEF CallInv, IdentityInv, Held
  <2> QED BY <1>0, <1>1, <1>2, <1>a, <2>1 DEF CallInv, Held
<1>6. StageInv'
  BY <1>0 DEF StageInv, TypeOK
<1>7. EvidenceInv'
  BY <1>0, <1>a DEF EvidenceInv, Recorded, NoEvidence
<1>8. OpenInv'
  <2>1. \A x \in Runs : OpenSpawn(x)' <=> OpenSpawn(x)
    BY <1>0 DEF OpenSpawn, Recorded
  <2>2. \A x \in Runs \ {e} : ClosedBySession(x) => ClosedBySession(x)'
    BY <1>0, <1>a DEF ClosedBySession
  <2> QED BY <1>0, <1>a, <2>1, <2>2 DEF OpenInv, OpenSpawn, Recorded
<1>9. ExitIsItsOwnButSessions'
  <2>1. ~journal[e].exited
    BY <1>a DEF Recorded, NoEvidence
  <2> QED BY <1>0, <1>2, <1>b, <2>1 DEF ExitIsItsOwnButSessions
<1>10. LeaseInv'
  BY <1>0, <1>a DEF LeaseInv, LeaseRow
<1>11. CoverInv'
  <2>1. ~Identified(e)'
    BY <1>0, <1>a DEF Identified, Recorded, NoEvidence
  <2>2. ASSUME NEW x \in Runs \ {e}, Owed(x)' PROVE Owed(x)
    BY <1>0, <1>2, <1>a, <1>b, <2>2 DEF Owed, Identified
  <2>3. \A x \in Runs \ {e} : LeaseRow(x)' = LeaseRow(x) /\ (OpenSpawn(x)' <=> OpenSpawn(x))
    BY <1>0, <1>a DEF LeaseRow, OpenSpawn, Recorded
  <2>4. ~Owed(e)'
    BY <2>1 DEF Owed
  <2> QED BY <1>0, <2>2, <2>3, <2>4 DEF CoverInv
<1>12. NoSupervisedLeftover'
  BY <1>0, <1>2, <1>a, <1>b DEF NoSupervisedLeftover, Identified, CoverInv
<1> QED BY <1>3, <1>4, <1>5, <1>6, <1>7, <1>8, <1>9, <1>10, <1>11, <1>12
\* The identity a tool captures is its own child's.
LEMMA CapturedOwn ==
  ASSUME SupervisionInv, NEW e \in Runs, pc[e] \in Held, NEW t \in CapturedIdentity(pid[e])
  PROVE  /\ t \in {None, idOf[e]} /\ t \in 0..born /\ t \in 0..MaxBorn
         /\ pid[e] \in Pids /\ idOf[e] # None
<1>1. pid[e] \in Pids /\ idOf[e] # None /\ os[pid[e]].id = idOf[e]
  BY DEF SupervisionInv, CallInv, IdentityInv, Held
<1>2. idOf[e] \in 0..born /\ born \in 0..MaxBorn /\ MaxBorn \in Nat
  BY ProcessAssumption DEF SupervisionInv, IdentityInv, TypeOK
<1>3. t \in {None, idOf[e]}
  BY <1>1 DEF CapturedIdentity
<1> QED BY <1>1, <1>2, <1>3 DEF None

\* Releasing one's own row takes nobody else's identified row away.
LEMMA ReleaseSparesOthers ==
  ASSUME SupervisionInv, NEW e \in Runs, NEW x \in Runs \ {e}, token[x] # None, LeaseRow(x) \in ledger
  PROVE  LeaseRow(x) \in Released(e)
<1>1. token[x] = idOf[x] /\ (token[e] # None => token[e] = idOf[e])
  BY DEF SupervisionInv, EvidenceInv
<1>2. token[e] # token[x]
  BY <1>1 DEF SupervisionInv, IdentityInv
<1> QED BY <1>2 DEF Released, LeaseRow

\* A dropped lease leaves every other identified row, and the row of a child
\* that still runs.
LEMMA DroppedLease ==
  ASSUME SupervisionInv, NEW e \in Runs, ledger' \in LeaseDropped(e, os'),
         UNCHANGED <<pid, idOf>>, idOf[e] # None, OsShrinks
  PROVE  /\ ledger' \subseteq ledger
         /\ \A x \in Runs \ {e} : token[x] # None /\ LeaseRow(x) \in ledger => LeaseRow(x) \in ledger'
         /\ ChildRuns(e)' => ledger' = ledger
<1>1. CASE ledger' = ledger
  BY <1>1
<1>2. CASE ledger' = Released(e) /\ os'[pid[e]].st # "running"
  <2>1. ~ChildRuns(e)'
    <3> SUFFICES ASSUME ChildRuns(e)' PROVE FALSE
        OBVIOUS
    <3>1. PICK q \in Pids : os'[q].st = "running" /\ os'[q].id = idOf[e]
      BY DEF ChildRuns, Running
    <3>2. os[q].st # "free" /\ os[q].id = idOf[e]
      BY <3>1 DEF OsShrinks
    <3> QED BY <1>2, <3>1, <3>2 DEF SupervisionInv, IdentityInv
  <2> QED BY <1>2, <2>1, ReleaseSparesOthers DEF Released
<1> QED BY <1>1, <1>2 DEF LeaseDropped

\* supervision::lease.
LEMMA LeaseStep ==
  ASSUME SupervisionInv, NEW e \in Runs, Lease(e)
  PROVE  SupervisionInv'
<1> USE DEF SupervisionInv
<1>p. PICK t \in CapturedIdentity(pid[e]) :
         token' = [token EXCEPT ![e] = t] /\ ledger' = ledger \cup {[pid |-> pid[e], token |-> t]}
  BY DEF Lease
<1>0. /\ host = "up" /\ Leases(e) /\ pc[e] = "spawned" /\ pc' = [pc EXCEPT ![e] = "leased"]
      /\ supervised' = supervised \cup {e}
      /\ UNCHANGED <<os, born, used, pid, journal, failed, host, todo, kept, aim, fenced, open,
                     verdict, crashes, idOf, struck>>
  BY DEF Lease, tables, startup
<1>a. /\ t \in {None, idOf[e]} /\ t \in 0..born /\ t \in 0..MaxBorn /\ pid[e] \in Pids
      /\ idOf[e] # None /\ token'[e] = t /\ pc'[e] = "leased"
      /\ \A x \in Runs \ {e} : token'[x] = token[x] /\ pc'[x] = pc[x]
  BY <1>0, <1>p, CapturedOwn DEF TypeOK, Held
<1>1. OsShrinks
  BY <1>0, SameShrinks
<1>2. \A x \in Runs : ChildRuns(x)' => ChildRuns(x)
  BY <1>0, <1>1, NoRevival
<1>3. TypeOK'
  BY <1>0, <1>p, <1>a DEF TypeOK, Phases, Rows, StageInv
<1>4. IdentityInv'
  BY <1>0, <1>1, IdentityFrame
<1>5. CallInv'
  <2>1. \A x \in Runs : pc'[x] \in Held => pc[x] \in Held /\ os'[pid[x]].st # "free"
    BY <1>0, <1>a DEF CallInv, Held
  <2> QED BY <1>0, <1>1, <1>2, <1>a, <2>1, CallFrame DEF CallInv
<1>6. StageInv'
  BY <1>0, <1>p, <1>a DEF StageInv
<1>7. EvidenceInv'
  BY <1>0, <1>a DEF EvidenceInv, Recorded
<1>8. OpenInv' /\ ExitIsItsOwnButSessions'
  BY <1>0, <1>2, <1>a, OpenFrame, ExitFrame
<1>9. LeaseInv'
  BY <1>0, <1>p, <1>a DEF LeaseInv, LeaseRow
<1>10. CoverInv'
  <2>1. Owed(e)' => token'[e] # None
    BY <1>0, <1>a DEF Owed, Identified, EvidenceInv, Recorded, NoEvidence
  <2>2. ASSUME NEW x \in Runs \ {e}, Owed(x)' PROVE Owed(x)
    BY <1>0, <1>2, <1>a, <2>2 DEF Owed, Identified, StaleSession
  <2>3. \A x \in Runs \ {e} : LeaseRow(x)' = LeaseRow(x) /\ (OpenSpawn(x)' <=> OpenSpawn(x))
    BY <1>0, <1>a DEF LeaseRow, OpenSpawn, Recorded
  <2>4. LeaseRow(e)' \in ledger'
    BY <1>0, <1>p, <1>a DEF LeaseRow
  <2> QED BY <1>0, <1>p, <1>a, <2>1, <2>2, <2>3, <2>4 DEF CoverInv
<1>11. NoSupervisedLeftover'
  BY <1>0, <1>2, <1>a, LeftoverFrame DEF CoverInv
<1> QED BY <1>3, <1>4, <1>5, <1>6, <1>7, <1>8, <1>9, <1>10, <1>11

\* What giving up a child that still has its PID leaves behind.
LEMMA AbandonFacts ==
  ASSUME SupervisionInv, NEW e \in Runs, pc[e] \in Held, os' \in Abandoned(pid[e]),
         UNCHANGED <<pid, idOf>>
  PROVE  /\ os' \in OsType /\ OsShrinks /\ idOf[e] # None /\ pid[e] \in Pids
         /\ \A x \in Runs : ChildRuns(x)' => ChildRuns(x)
         /\ \A x \in Runs \ {e} : pc[x] \in Held => os'[pid[x]].st # "free"
<1> USE DEF SupervisionInv
<1>1. idOf[e] # None /\ pid[e] \in Pids /\ os[pid[e]].id = idOf[e] /\ os[pid[e]].by = e
  BY DEF CallInv, IdentityInv, Held
<1>2. os' \in OsType /\ OsShrinks /\ \A q \in Pids \ {pid[e]} : os'[q] = os[q]
  BY <1>1, OsTyped, AbandonedShrinks
<1>3. \A x \in Runs : ChildRuns(x)' => ChildRuns(x)
  BY <1>2, NoRevival
<1>4. ASSUME NEW x \in Runs \ {e}, pc[x] \in Held PROVE os'[pid[x]].st # "free"
  <2>1. pid[x] \in Pids /\ os[pid[x]].by = x /\ os[pid[x]].st # "free"
    BY <1>4 DEF CallInv, IdentityInv, Held
  <2> QED BY <1>1, <1>2, <2>1
<1> QED BY <1>1, <1>2, <1>3, <1>4

\* The tool fails before its child was recorded, or gives the child up.
LEMMA GiveUpStep ==
  ASSUME SupervisionInv, NEW e \in Runs, LeaseFails(e) \/ Abort(e)
  PROVE  SupervisionInv'
<1> USE DEF SupervisionInv
<1>0. /\ host = "up" /\ pc[e] \in Held /\ pc' = [pc EXCEPT ![e] = "failed"] /\ os' \in Abandoned(pid[e])
      /\ UNCHANGED <<born, used, pid, token, journal, failed, host, todo, kept, aim, fenced, open,
                     verdict, crashes, idOf, supervised, struck>>
  BY DEF LeaseFails, Abort, Held, startup, ghosts
<1>a. pc'[e] = "failed" /\ \A x \in Runs \ {e} : pc'[x] = pc[x]
  BY <1>0 DEF TypeOK
<1>1. /\ os' \in OsType /\ OsShrinks /\ idOf[e] # None /\ pid[e] \in Pids
      /\ \A x \in Runs : ChildRuns(x)' => ChildRuns(x)
      /\ \A x \in Runs \ {e} : pc[x] \in Held => os'[pid[x]].st # "free"
  BY <1>0, AbandonFacts
<1>2. /\ ledger' \subseteq Rows /\ \A r \in ledger' : r.token \in 0..born
      /\ \A x \in Runs \ {e} : token[x] # None /\ LeaseRow(x) \in ledger => LeaseRow(x) \in ledger'
      /\ ChildRuns(e)' => ledger \subseteq ledger'
  <2>1. CASE LeaseFails(e)
    <3>1. PICK t \in CapturedIdentity(pid[e]) :
             ledger' \in {ledger, ledger \cup {[pid |-> pid[e], token |-> t]}}
      BY <2>1 DEF LeaseFails
    <3>2. t \in 0..born /\ t \in 0..MaxBorn
      BY <1>0, <3>1, CapturedOwn
    <3> QED BY <1>1, <3>1, <3>2 DEF TypeOK, Rows, StageInv
  <2>2. CASE Abort(e)
    BY <2>2, <1>0, <1>1, DroppedLease DEF Abort, TypeOK, StageInv
  <2> QED BY <2>1, <2>2
<1>3. TypeOK'
  BY <1>0, <1>1, <1>2 DEF TypeOK, OsType, Phases, StageInv
<1>4. IdentityInv'
  BY <1>0, <1>1, IdentityFrame
<1>5. CallInv'
  BY <1>0, <1>1, <1>a, CallFrame DEF CallInv, Held
<1>6. StageInv'
  BY <1>0, <1>2 DEF StageInv
<1>7. EvidenceInv'
  BY <1>0, <1>a, EvidenceFrame DEF EvidenceInv
<1>8. OpenInv' /\ ExitIsItsOwnButSessions'
  BY <1>0, <1>1, <1>a, OpenFrame, ExitFrame
<1>9. LeaseInv'
  BY <1>0, <1>2, <1>a, LeaseFrame
<1>10. CoverInv'
  BY <1>0, <1>1, <1>2, CoverFrame
<1>11. NoSupervisedLeftover'
  BY <1>0, <1>1, <1>a, LeftoverFrame DEF CoverInv
<1> QED BY <1>3, <1>4, <1>5, <1>6, <1>7, <1>8, <1>9, <1>10, <1>11

\* The spawn record is in the journal, whether the tool was told so or not.
LEMMA SpawnRecorded ==
  ASSUME SupervisionInv, NEW e \in Runs, ReadyToRecord(e), MayRecord(e),
         NEW t \in CapturedIdentity(pid[e]), journal' = WithSpawn(e, t),
         UNCHANGED <<pid, token, idOf>>, \A x \in Runs : ChildRuns(x)' => ChildRuns(x),
         NEW c \in {"recorded", "failed"}, pc' = [pc EXCEPT ![e] = c]
  PROVE  /\ journal' \in [Runs -> [pid : Pids \cup {NoPid}, token : 0..MaxBorn, exited : BOOLEAN]]
         /\ EvidenceInv' /\ OpenInv' /\ ExitIsItsOwnButSessions'
         /\ OpenSpawn(e)' /\ \A x \in Runs \ {e} : journal'[x] = journal[x]
<1> USE DEF SupervisionInv
<1>1. pc[e] \in Held
  BY DEF ReadyToRecord, Held
<1>2. /\ t \in {None, idOf[e]} /\ t \in 0..MaxBorn /\ pid[e] \in Pids /\ idOf[e] # None
  BY <1>1, CapturedOwn
<1> DEFINE rec == [pid |-> pid[e], token |-> t, exited |-> FALSE]
<1>3. /\ rec \in [pid : Pids \cup {NoPid}, token : 0..MaxBorn, exited : BOOLEAN]
      /\ rec.pid = pid[e] /\ rec.token = t /\ rec.exited = FALSE /\ rec # NoEvidence
  <2>1. rec.pid # NoEvidence.pid
    BY <1>2, ProcessAssumption DEF NoEvidence
  <2> QED BY <1>2, <2>1
<1>4. journal' = [journal EXCEPT ![e] = rec]
  BY DEF WithSpawn
<1> HIDE DEF rec
<1>5. journal'[e] = rec /\ (\A x \in Runs \ {e} : journal'[x] = journal[x])
      /\ journal' \in [Runs -> [pid : Pids \cup {NoPid}, token : 0..MaxBorn, exited : BOOLEAN]]
  BY <1>3, <1>4 DEF TypeOK
<1>6. pc'[e] = c /\ (\A x \in Runs \ {e} : pc'[x] = pc[x])
  BY DEF TypeOK
<1>7. OpenSpawn(e)' /\ Recorded(e)'
  BY <1>3, <1>5 DEF OpenSpawn, Recorded
<1>8. \A x \in Runs \ {e} : (OpenSpawn(x)' <=> OpenSpawn(x)) /\ (Recorded(x)' <=> Recorded(x))
  BY <1>5 DEF OpenSpawn, Recorded
<1>9. EvidenceInv'
  <2>1. Journals(e)
    BY DEF ReadyToRecord
  <2> QED BY <1>2, <1>3, <1>5, <1>6, <1>7, <1>8, <2>1 DEF EvidenceInv, Journals
<1>10. OpenInv'
  <2>1. \A x \in Runs \ {e} : OpenSpawn(x) => pid[x] # pid[e]
    BY DEF MayRecord, OpenSpawn, EvidenceInv
  <2>2. ASSUME NEW x \in Runs \ {e}, ClosedBySession(x) PROVE ClosedBySession(x)'
    <3>1. PICK s \in Runs \ {x} : /\ Kind[s] = "session" /\ idOf[s] # None /\ pid[s] = pid[x]
                                  /\ journal[s].exited
      BY <2>2 DEF ClosedBySession
    <3>2. s # e
      BY <3>1 DEF MayRecord, Recorded, NoEvidence
    <3> QED BY <1>5, <3>1, <3>2 DEF ClosedBySession
  <2> QED BY <1>6, <1>7, <1>8, <2>1, <2>2 DEF OpenInv
<1>11. ExitIsItsOwnButSessions'
  BY <1>3, <1>5 DEF ExitIsItsOwnButSessions, StaleSession
<1> QED BY <1>5, <1>7, <1>9, <1>10, <1>11

\* record_spawned.
LEMMA RecordSpawnStep ==
  ASSUME SupervisionInv, NEW e \in Runs, RecordSpawn(e)
  PROVE  SupervisionInv'
<1> USE DEF SupervisionInv
<1>p. PICK t \in CapturedIdentity(pid[e]) : journal' = WithSpawn(e, t)
  BY DEF RecordSpawn
<1>0. /\ host = "up" /\ pc[e] \in {"spawned", "leased"} /\ pc' = [pc EXCEPT ![e] = "recorded"]
      /\ pc[e] = (IF Leases(e) THEN "leased" ELSE "spawned")
      /\ ReadyToRecord(e) /\ MayRecord(e) /\ supervised' = supervised \cup {e}
      /\ UNCHANGED <<os, born, used, pid, token, failed, ledger, host, todo, kept, aim, fenced, open,
                     verdict, crashes, idOf, struck>>
  BY DEF RecordSpawn, ReadyToRecord, tables, startup
<1>a. pc'[e] = "recorded" /\ \A x \in Runs \ {e} : pc'[x] = pc[x]
  BY <1>0 DEF TypeOK
<1>1. OsShrinks
  BY <1>0, SameShrinks
<1>2. \A x \in Runs : ChildRuns(x)' => ChildRuns(x)
  BY <1>0, <1>1, NoRevival
<1>b. /\ journal' \in [Runs -> [pid : Pids \cup {NoPid}, token : 0..MaxBorn, exited : BOOLEAN]]
      /\ EvidenceInv' /\ OpenInv' /\ ExitIsItsOwnButSessions'
      /\ OpenSpawn(e)' /\ \A x \in Runs \ {e} : journal'[x] = journal[x]
  BY <1>0, <1>p, <1>2, SpawnRecorded
<1>3. TypeOK'
  BY <1>0, <1>b DEF TypeOK, Phases
<1>4. IdentityInv'
  BY <1>0, <1>1, IdentityFrame
<1>5. CallInv'
  <2>1. \A x \in Runs : pc'[x] \in Held => pc[x] \in Held /\ os'[pid[x]].st # "free"
    BY <1>0, <1>a DEF CallInv, Held
  <2> QED BY <1>0, <1>1, <1>2, <1>a, <2>1, CallFrame DEF CallInv
<1>6. StageInv'
  BY <1>0 DEF StageInv
<1>7. LeaseInv'
  <2>1. ~Leases(e) => token[e] = None
    BY <1>0 DEF EvidenceInv
  <2> QED BY <1>0, <1>a, <2>1, LeaseFrame
<1>8. CoverInv'
  <2>1. ASSUME NEW x \in Runs \ {e}, Owed(x)' PROVE Owed(x)
    BY <1>0, <1>2, <1>b, <2>1 DEF Owed, Identified, StaleSession
  <2>2. \A x \in Runs \ {e} : LeaseRow(x)' = LeaseRow(x) /\ (OpenSpawn(x)' <=> OpenSpawn(x))
    BY <1>0, <1>b DEF LeaseRow, OpenSpawn, Recorded
  <2> QED BY <1>0, <1>b, <2>1, <2>2 DEF CoverInv
<1>9. NoSupervisedLeftover'
  BY <1>0, <1>2, <1>a, <1>b, LeftoverFrame DEF CoverInv
<1> QED BY <1>b, <1>3, <1>4, <1>5, <1>6, <1>7, <1>8, <1>9

\* A refused or failed record_spawned.
LEMMA RecordSpawnFailsStep ==
  ASSUME SupervisionInv, NEW e \in Runs, RecordSpawnFails(e)
  PROVE  SupervisionInv'
<1> USE DEF SupervisionInv
<1>0. /\ host = "up" /\ pc[e] \in Held /\ pc' = [pc EXCEPT ![e] = "failed"] /\ os' \in Abandoned(pid[e])
      /\ ReadyToRecord(e) /\ ledger' \in LeaseDropped(e, os') /\ failed' \in BOOLEAN
      /\ UNCHANGED <<born, used, pid, token, host, todo, kept, aim, fenced, open,
                     verdict, crashes, idOf, supervised, struck>>
  BY DEF RecordSpawnFails, ReadyToRecord, Held, startup, ghosts, TypeOK
<1>a. pc'[e] = "failed" /\ \A x \in Runs \ {e} : pc'[x] = pc[x]
  BY <1>0 DEF TypeOK
<1>1. /\ os' \in OsType /\ OsShrinks /\ idOf[e] # None /\ pid[e] \in Pids
      /\ \A x \in Runs : ChildRuns(x)' => ChildRuns(x)
      /\ \A x \in Runs \ {e} : pc[x] \in Held => os'[pid[x]].st # "free"
  BY <1>0, AbandonFacts
<1>2. /\ ledger' \subseteq ledger
      /\ \A x \in Runs \ {e} : token[x] # None /\ LeaseRow(x) \in ledger => LeaseRow(x) \in ledger'
      /\ ChildRuns(e)' => ledger' = ledger
  BY <1>0, <1>1, DroppedLease
<1>b. /\ journal' \in [Runs -> [pid : Pids \cup {NoPid}, token : 0..MaxBorn, exited : BOOLEAN]]
      /\ EvidenceInv' /\ OpenInv' /\ ExitIsItsOwnButSessions'
      /\ (OpenSpawn(e)' \/ journal'[e] = journal[e]) /\ \A x \in Runs \ {e} : journal'[x] = journal[x]
  <2>1. CASE journal' = journal
    <3>1. EvidenceInv'
      BY <1>0, <1>a, <2>1, EvidenceFrame DEF EvidenceInv
    <3> QED BY <1>0, <1>1, <1>a, <2>1, <3>1, OpenFrame, ExitFrame DEF TypeOK
  <2>2. CASE MayRecord(e) /\ \E t \in CapturedIdentity(pid[e]) : journal' = WithSpawn(e, t)
    <3>1. PICK t \in CapturedIdentity(pid[e]) : journal' = WithSpawn(e, t)
      BY <2>2
    <3> QED BY <1>0, <1>1, <2>2, <3>1, SpawnRecorded
  <2> QED BY <2>1, <2>2 DEF RecordSpawnFails
<1>3. TypeOK'
  BY <1>0, <1>1, <1>2, <1>b DEF TypeOK, OsType, Phases, StageInv
<1>4. IdentityInv'
  BY <1>0, <1>1, IdentityFrame
<1>5. CallInv'
  BY <1>0, <1>1, <1>a, CallFrame DEF CallInv, Held
<1>6. StageInv'
  BY <1>0, <1>2 DEF StageInv
<1>7. LeaseInv'
  BY <1>0, <1>2, <1>a, LeaseFrame
<1>8. CoverInv'
  <2>1. ASSUME NEW x \in Runs, Owed(x)', journal'[x] = journal[x]
        PROVE  ((token[x] # None /\ LeaseRow(x) \in ledger) \/ OpenSpawn(x))'
    <3>1. Owed(x) /\ ChildRuns(x)'
      BY <1>0, <1>1, <2>1 DEF Owed, Identified, StaleSession
    <3>2. (token[x] # None /\ LeaseRow(x) \in ledger) \/ OpenSpawn(x)
      BY <3>1 DEF CoverInv
    <3>3. LeaseRow(x)' = LeaseRow(x) /\ (OpenSpawn(x)' <=> OpenSpawn(x))
      BY <1>0, <2>1 DEF LeaseRow, OpenSpawn, Recorded
    <3> QED BY <1>0, <1>2, <3>1, <3>2, <3>3
  <2> QED BY <1>0, <1>b, <2>1 DEF CoverInv
<1>9. NoSupervisedLeftover'
  BY <1>0, <1>1, <1>a, <1>b, LeftoverFrame DEF CoverInv
<1> QED BY <1>b, <1>3, <1>4, <1>5, <1>6, <1>7, <1>8, <1>9

\* wait collects the exit status: from here on the invocation holds the PID
\* of a process that is gone.
LEMMA ReapStep ==
  ASSUME SupervisionInv, NEW e \in Runs, Reap(e)
  PROVE  SupervisionInv'
<1> USE DEF SupervisionInv
<1>0. /\ host = "up" /\ pc[e] \in Held /\ pc' = [pc EXCEPT ![e] = "reaped"]
      /\ pc[e] = "recorded" \/ (Kind[e] = "proof" /\ pc[e] = "leased")
      /\ os' = [os EXCEPT ![pid[e]] = Free]
      /\ UNCHANGED <<born, used, pid, token, journal, ledger, failed, host, todo, kept, aim, fenced,
                     open, verdict, crashes, idOf, supervised, struck>>
  BY DEF Reap, Held, durable, startup, ghosts
<1>a. pc'[e] = "reaped" /\ \A x \in Runs \ {e} : pc'[x] = pc[x]
  BY <1>0 DEF TypeOK
<1>1. /\ os' \in OsType /\ OsShrinks /\ idOf[e] # None /\ pid[e] \in Pids
      /\ \A x \in Runs : ChildRuns(x)' => ChildRuns(x)
      /\ \A x \in Runs \ {e} : pc[x] \in Held => os'[pid[x]].st # "free"
  <2>1. os' \in Abandoned(pid[e])
    BY <1>0 DEF Abandoned
  <2> QED BY <1>0, <2>1, AbandonFacts
<1>b. ~ChildRuns(e)'
  <2> SUFFICES ASSUME ChildRuns(e)' PROVE FALSE
      OBVIOUS
  <2>1. PICK q \in Pids : os'[q].st = "running" /\ os'[q].id = idOf[e]
    BY <1>0 DEF ChildRuns, Running
  <2>2. q = pid[e]
    BY <1>1, <2>1 DEF OsShrinks, IdentityInv
  <2> QED BY <1>0, <1>1, <2>1, <2>2 DEF TypeOK, Free
<1>3. TypeOK'
  BY <1>0, <1>1 DEF TypeOK, OsType, Phases
<1>4. IdentityInv'
  BY <1>0, <1>1, IdentityFrame
<1>5. CallInv'
  BY <1>0, <1>1, <1>a, <1>b, CallFrame DEF CallInv, Held
<1>6. StageInv'
  BY <1>0 DEF StageInv
<1>7. EvidenceInv'
  BY <1>0, <1>a, EvidenceFrame DEF EvidenceInv, Journals
<1>8. OpenInv' /\ ExitIsItsOwnButSessions'
  <2>1. Kind[e] = "proof" /\ pc[e] = "leased" => ~Recorded(e)
    BY DEF EvidenceInv
  <2> QED BY <1>0, <1>1, <1>a, <2>1, OpenFrame, ExitFrame
<1>9. LeaseInv'
  BY <1>0, <1>a, LeaseFrame
<1>10. CoverInv' /\ NoSupervisedLeftover'
  BY <1>0, <1>1, <1>a, CoverFrame, LeftoverFrame DEF CoverInv
<1> QED BY <1>3, <1>4, <1>5, <1>6, <1>7, <1>8, <1>9, <1>10

\* record_exited by PID, called by an invocation whose child is dead: another
\* invocation's record is closed only where a session had the PID before it.
LEMMA ExitRecorded ==
  ASSUME SupervisionInv, NEW e \in Runs, pc[e] \in {"reaped", "exited"}, Journals(e),
         journal' = Closed(pid[e]), UNCHANGED <<pid, token, idOf>>,
         \A x \in Runs : ChildRuns(x)' => ChildRuns(x),
         pc'[e] \in {"exited", "done"}, pc'[e] = "exited" => Kind[e] = "session",
         \A x \in Runs \ {e} : pc'[x] = pc[x]
  PROVE  /\ journal' \in [Runs -> [pid : Pids \cup {NoPid}, token : 0..MaxBorn, exited : BOOLEAN]]
         /\ EvidenceInv' /\ OpenInv' /\ ExitIsItsOwnButSessions'
         /\ \A x \in Runs : journal'[x].token = journal[x].token
         /\ \A x \in Runs : OpenSpawn(x) /\ ChildRuns(x)' /\ ~StaleSession(x) => OpenSpawn(x)'
<1> USE DEF SupervisionInv
<1> DEFINE closes(x) == OpenSpawn(x) /\ pid[x] = pid[e]
<1>1. ASSUME NEW x \in Runs
      PROVE  /\ journal'[x] \in [pid : Pids \cup {NoPid}, token : 0..MaxBorn, exited : BOOLEAN]
             /\ journal'[x].pid = journal[x].pid /\ journal'[x].token = journal[x].token
             /\ journal'[x].exited <=> (journal[x].exited \/ closes(x))
             /\ ~closes(x) => journal'[x] = journal[x]
  <2>1. OpenSpawn(x) => journal[x].pid = pid[x]
    BY DEF OpenSpawn, EvidenceInv
  <2>2. CASE closes(x)
    <3>1. journal'[x] = [journal[x] EXCEPT !.exited = TRUE]
      BY <2>1, <2>2 DEF Closed
    <3>2. journal[x] \in [pid : Pids \cup {NoPid}, token : 0..MaxBorn, exited : BOOLEAN]
      BY DEF TypeOK
    <3>3. /\ journal'[x] \in [pid : Pids \cup {NoPid}, token : 0..MaxBorn, exited : BOOLEAN]
          /\ journal'[x].pid = journal[x].pid /\ journal'[x].token = journal[x].token
          /\ journal'[x].exited
      <4> HIDE DEF SupervisionInv
      <4> QED BY <3>1, <3>2
    <3> QED BY <2>2, <3>3
  <2>3. CASE ~closes(x)
    <3>1. journal'[x] = journal[x]
      BY <2>1, <2>3 DEF Closed
    <3> QED BY <2>3, <3>1 DEF TypeOK
  <2> QED BY <2>2, <2>3
<1>2. journal' \in [Runs -> [pid : Pids \cup {NoPid}, token : 0..MaxBorn, exited : BOOLEAN]]
  <2>1. DOMAIN journal' = Runs /\ journal' = [x \in Runs |-> journal'[x]]
    BY DEF Closed
  <2> QED BY <1>1, <2>1
<1>3. \A x \in Runs : (Recorded(x)' <=> Recorded(x)) /\ (OpenSpawn(x)' <=> OpenSpawn(x) /\ ~closes(x))
  <2> SUFFICES ASSUME NEW x \in Runs
               PROVE  (Recorded(x)' <=> Recorded(x)) /\ (OpenSpawn(x)' <=> OpenSpawn(x) /\ ~closes(x))
      OBVIOUS
  <2>1. CASE closes(x)
    <3>1. journal'[x].exited
      BY <1>1, <2>1
    <3>2. Recorded(x)'
      BY <3>1 DEF Recorded, NoEvidence
    <3> QED BY <2>1, <3>1, <3>2 DEF OpenSpawn
  <2>2. CASE ~closes(x)
    BY <1>1, <2>2 DEF OpenSpawn, Recorded
  <2> QED BY <2>1, <2>2
<1>4. \A x \in Runs \ {e} : closes(x) => ClosedBySession(x)
  <2> SUFFICES ASSUME NEW x \in Runs \ {e}, closes(x) PROVE ClosedBySession(x)
      OBVIOUS
  <2>1. Recorded(e) /\ idOf[e] # None /\ ~OpenSpawn(e)
    BY DEF EvidenceInv, OpenInv
  <2>2. CASE Kind[e] = "session"
    <3>1. journal[e].exited
      BY <2>1 DEF OpenSpawn
    <3> QED BY <2>1, <2>2, <3>1 DEF ClosedBySession
  <2>3. CASE Kind[e] # "session"
    <3>1. pc[e] = "reaped"
      BY <2>3 DEF EvidenceInv
    <3>2. PICK s \in Runs \ {e} : /\ Kind[s] = "session" /\ idOf[s] # None
                                  /\ pid[s] = pid[e] /\ journal[s].exited
      BY <2>1, <3>1 DEF OpenInv, ClosedBySession
    <3>3. s # x
      BY <3>2 DEF OpenSpawn
    <3> QED BY <3>2, <3>3 DEF ClosedBySession
  <2> QED BY <2>2, <2>3
<1>5. \A x \in Runs : (ClosedBySession(x) => StaleSession(x)) /\ (StaleSession(x)' <=> StaleSession(x))
  BY DEF ClosedBySession, StaleSession
<1>6. \A x \in Runs : ClosedBySession(x) => ClosedBySession(x)'
  BY <1>1 DEF ClosedBySession
<1>7. ~ChildRuns(e)
  BY DEF CallInv
<1> HIDE DEF closes
<1>8. EvidenceInv'
  BY <1>1, <1>3 DEF EvidenceInv, Journals
<1>9. OpenInv'
  BY <1>3, <1>4, <1>6 DEF OpenInv
<1>10. ExitIsItsOwnButSessions'
  BY <1>1, <1>4, <1>5, <1>7 DEF ExitIsItsOwnButSessions
<1>11. \A x \in Runs : OpenSpawn(x) /\ ChildRuns(x)' /\ ~StaleSession(x) => OpenSpawn(x)'
  BY <1>3, <1>4, <1>5, <1>7
<1> QED BY <1>1, <1>2, <1>8, <1>9, <1>10, <1>11

\* The exit is recorded, polled again, or the guard fires after the reap.
LEMMA ExitStep ==
  ASSUME SupervisionInv, NEW e \in Runs,
         AbortAfterReap(e) \/ RecordExit(e) \/ PollAgain(e) \/ StopExited(e)
  PROVE  SupervisionInv'
<1> USE DEF SupervisionInv
<1>0. /\ host = "up" /\ pc[e] \in {"reaped", "exited"} /\ pc' \in [Runs -> Phases]
      /\ pc'[e] \in {"exited", "done", "failed"} /\ (pc'[e] = "exited" => Kind[e] = "session")
      /\ \A x \in Runs \ {e} : pc'[x] = pc[x]
      /\ UNCHANGED <<born, used, pid, token, host, todo, kept, aim, fenced, open, verdict, crashes,
                     idOf, supervised, struck>>
  <2>1. pc[e] = "exited" => Kind[e] = "session"
    BY DEF EvidenceInv
  <2> QED BY <2>1 DEF AbortAfterReap, RecordExit, PollAgain, StopExited, tables, tools, startup,
                      ghosts, TypeOK, Phases
<1>a. os' \in Killed(pid[e])
  BY DEF AbortAfterReap, RecordExit, PollAgain, StopExited, tables, Killed
<1>b. ledger' = ledger \/ ledger' = Released(e)
  BY DEF AbortAfterReap, RecordExit, PollAgain, StopExited, LeaseDropped
<1>c. /\ failed' \in BOOLEAN
      /\ journal' = journal \/ (Journals(e) /\ journal' = Closed(pid[e]) /\ pc'[e] \in {"exited", "done"})
  <2>1. pc[e] = "exited" => Journals(e)
    BY DEF EvidenceInv, Journals
  <2> QED BY <1>0, <2>1 DEF AbortAfterReap, RecordExit, PollAgain, StopExited, ExitRecord, TypeOK, tools
<1>1. /\ idOf[e] # None /\ pid[e] \in Pids /\ ~ChildRuns(e)
  BY <1>0 DEF CallInv, IdentityInv
<1>2. /\ os' \in OsType /\ OsShrinks /\ (\A q \in Pids \ {pid[e]} : os'[q] = os[q])
      /\ os'[pid[e]].st = "free" => os[pid[e]].st = "free" \/
            ~(os[pid[e]].by \in Runs /\ pc[os[pid[e]].by] \in Held /\ pid[os[pid[e]].by] = pid[e])
  BY <1>1, <1>a, OsTyped, KilledShrinks
<1>3. \A x \in Runs : ChildRuns(x)' => ChildRuns(x)
  BY <1>0, <1>2, NoRevival
<1>4. \A x \in Runs : pc'[x] \in Held => pc[x] \in Held /\ os'[pid[x]].st # "free"
  <2> SUFFICES ASSUME NEW x \in Runs, pc'[x] \in Held
               PROVE  pc[x] \in Held /\ os'[pid[x]].st # "free"
      OBVIOUS
  <2>1. x # e /\ pc[x] \in Held
    BY <1>0 DEF Held
  <2>2. pid[x] \in Pids /\ os[pid[x]].st # "free" /\ os[pid[x]].by = x
    BY <2>1 DEF CallInv, IdentityInv, Held
  <2> QED BY <1>2, <2>1, <2>2
<1>5. /\ ledger' \subseteq ledger
      /\ \A x \in Runs \ {e} : token[x] # None /\ LeaseRow(x) \in ledger => LeaseRow(x) \in ledger'
  BY <1>b, ReleaseSparesOthers DEF Released
<1>6. /\ journal' \in [Runs -> [pid : Pids \cup {NoPid}, token : 0..MaxBorn, exited : BOOLEAN]]
      /\ EvidenceInv' /\ OpenInv' /\ ExitIsItsOwnButSessions'
      /\ \A x \in Runs : journal'[x].token = journal[x].token
      /\ \A x \in Runs : OpenSpawn(x) /\ ChildRuns(x)' /\ ~StaleSession(x) => OpenSpawn(x)'
  <2>1. CASE journal' = journal
    <3>1. EvidenceInv'
      BY <1>0, <2>1, EvidenceFrame DEF EvidenceInv
    <3>2. OpenInv' /\ ExitIsItsOwnButSessions'
      BY <1>0, <1>3, <2>1, OpenFrame, ExitFrame
    <3>3. \A x \in Runs : OpenSpawn(x) => OpenSpawn(x)'
      BY <2>1 DEF OpenSpawn, Recorded
    <3> QED BY <2>1, <3>1, <3>2, <3>3 DEF TypeOK
  <2>2. CASE Journals(e) /\ journal' = Closed(pid[e]) /\ pc'[e] \in {"exited", "done"}
    BY <1>0, <1>3, <2>2, ExitRecorded
  <2> QED BY <1>c, <2>1, <2>2
<1>7. TypeOK'
  <2>1. ledger' \subseteq Rows /\ kept' = {} /\ todo' = {}
    BY <1>0, <1>5 DEF TypeOK, StageInv
  <2> QED BY <1>0, <1>2, <1>6, <1>c, <2>1 DEF TypeOK, OsType
<1>8. IdentityInv'
  BY <1>0, <1>2, IdentityFrame
<1>9. CallInv'
  BY <1>0, <1>1, <1>2, <1>3, <1>4, CallFrame DEF CallInv
<1>10. StageInv'
  BY <1>0, <1>5 DEF StageInv
<1>11. LeaseInv'
  BY <1>0, <1>5, LeaseFrame
<1>12. CoverInv'
  <2> SUFFICES ASSUME NEW x \in Runs, Owed(x)'
               PROVE  ((token[x] # None /\ LeaseRow(x) \in ledger) \/ OpenSpawn(x))'
    BY <1>0 DEF CoverInv
  <2>1. Owed(x) /\ ChildRuns(x)' /\ ~StaleSession(x)
    BY <1>0, <1>3, <1>6 DEF Owed, Identified, StaleSession
  <2>2. x # e
    BY <1>1, <1>3, <2>1
  <2>3. (token[x] # None /\ LeaseRow(x) \in ledger) \/ OpenSpawn(x)
    BY <2>1 DEF CoverInv
  <2>4. LeaseRow(x)' = LeaseRow(x)
    BY <1>0 DEF LeaseRow
  <2> QED BY <1>0, <1>5, <1>6, <2>1, <2>2, <2>3, <2>4
<1>13. NoSupervisedLeftover'
  BY <1>0, <1>3, <1>6, LeftoverFrame DEF CoverInv
<1> QED BY <1>6, <1>7, <1>8, <1>9, <1>10, <1>11, <1>12, <1>13

\* The host dies: its zombies are reaped, its children live on.
LEMMA CrashStep ==
  ASSUME SupervisionInv, Crash
  PROVE  SupervisionInv'
<1> USE DEF SupervisionInv
<1>0. /\ crashes < MaxCrashes /\ crashes' = crashes + 1
      /\ host' = "down" /\ todo' = {} /\ kept' = {} /\ aim' = NoRow
      /\ pc' = [e \in Runs |-> IF pc[e] = "idle" THEN "idle" ELSE "lost"]
      /\ UNCHANGED <<born, used, pid, token, journal, ledger, failed, fenced, open, verdict, idOf,
                     supervised, struck>>
  BY DEF Crash, durable, ghosts
<1>1. os' \in OsType /\ OsShrinks
  <2> DEFINE S == {p \in Pids : os[p].st = "zombie"}
  <2>1. os' = [p \in Pids |-> IF p \in S THEN Free ELSE os[p]]
    BY DEF Crash
  <2>2. S \in SUBSET Pids
    OBVIOUS
  <2> HIDE DEF S
  <2> QED BY <2>1, <2>2, OsTyped, FreeShrinks
<1>2. \A x \in Runs : ChildRuns(x)' => ChildRuns(x)
  BY <1>0, <1>1, NoRevival
<1>3. TypeOK'
  BY <1>0, <1>1, ProcessAssumption DEF TypeOK, OsType, Phases
<1>4. IdentityInv'
  BY <1>0, <1>1, IdentityFrame
<1>5. CallInv'
  BY <1>0, <1>1, CallFrame DEF Held
<1>6. StageInv'
  BY <1>0 DEF StageInv
<1>7. EvidenceInv' /\ OpenInv' /\ ExitIsItsOwnButSessions' /\ LeaseInv'
  BY <1>0, <1>2, EvidenceFrame, OpenFrame, ExitFrame, LeaseFrame
<1>8. CoverInv' /\ NoSupervisedLeftover'
  BY <1>0, <1>2, CoverFrame DEF NoSupervisedLeftover
<1> QED BY <1>3, <1>4, <1>5, <1>6, <1>7, <1>8

-----------------------------------------------------------------------------
(* Startup.                                                                *)

\* Before the host is up no invocation holds anything; startup only looks at
\* what is recorded and takes processes away.
LEMMA StartupFrame ==
  ASSUME SupervisionInv, host # "up", OsShrinks,
         UNCHANGED <<born, used, pc, pid, token, journal, idOf>>
  PROVE  /\ \A x \in Runs : ChildRuns(x)' => ChildRuns(x)
         /\ IdentityInv' /\ CallInv' /\ EvidenceInv' /\ OpenInv' /\ ExitIsItsOwnButSessions' /\ LeaseInv'
<1> USE DEF SupervisionInv
<1>1. \A x \in Runs : ChildRuns(x)' => ChildRuns(x)
  BY NoRevival
<1>2. \A x \in Runs : pc[x] \in {"idle", "lost"}
  BY DEF CallInv
<1>3. CallInv'
  BY <1>2, CallFrame DEF Held
<1>4. EvidenceInv'
  BY <1>2, EvidenceFrame
<1> QED BY <1>1, <1>2, <1>3, <1>4, IdentityFrame, OpenFrame, ExitFrame, LeaseFrame

\* A child that runs has its own PID.
LEMMA ChildAt ==
  ASSUME IdentityInv, NEW e \in Runs, ChildRuns(e)
  PROVE  pid[e] \in Pids /\ Running(pid[e]) /\ os[pid[e]].id = idOf[e] /\ idOf[e] # None
BY DEF IdentityInv, ChildRuns, Running

LEMMA ChildStillAt ==
  ASSUME IdentityInv, OsShrinks, idOf' = idOf, NEW e \in Runs, ChildRuns(e)'
  PROVE  pid[e] \in Pids /\ os'[pid[e]].st = "running" /\ os'[pid[e]].id = idOf[e]
<1>1. PICK q \in Pids : os'[q].st = "running" /\ os'[q].id = idOf[e] /\ idOf[e] # None
  BY DEF ChildRuns, Running
<1>2. q = pid[e]
  BY <1>1 DEF OsShrinks, IdentityInv
<1> QED BY <1>1, <1>2

\* The row of an open spawn is a row.
LEMMA RowOfTyped ==
  ASSUME SupervisionInv, NEW e \in Runs, OpenSpawn(e)
  PROVE  /\ RowOf(e) \in Rows /\ RowOf(e) # NoRow
         /\ RowOf(e).pid = pid[e] /\ RowOf(e).token = journal[e].token
<1>1. journal[e].pid = pid[e] /\ pid[e] \in Pids
  BY DEF SupervisionInv, EvidenceInv, IdentityInv, OpenSpawn
<1>2. journal[e].token \in 0..MaxBorn
  BY DEF SupervisionInv, TypeOK
<1>3. RowOf(e).pid # NoRow.pid
  BY <1>1, ProcessAssumption DEF RowOf, NoRow
<1> QED BY <1>1, <1>2, <1>3 DEF RowOf, Rows

LEMMA RowIsNotNoRow ==
  ASSUME NEW r \in Rows PROVE r # NoRow /\ r.pid \in Pids
BY ProcessAssumption DEF Rows, NoRow

\* inspect_process: a match is the recorded process, and a verdict other than
\* a match or "cannot tell" means that the recorded process is gone.
LEMMA Inspected ==
  ASSUME SupervisionInv, NEW r \in Rows, NEW seen \in Inspect(r)
  PROVE  /\ seen = "match" => Running(r.pid) /\ r.token # None /\ r.token = os[r.pid].id
         /\ seen \notin {"match", "unverifiable"} => ~Alive(r, os)
         /\ Running(r.pid) /\ r.token = None => seen = "unverifiable"
<1>0. Running(r.pid) => os[r.pid].id # None
  BY RowIsNotNoRow DEF SupervisionInv, IdentityInv, Running, None
<1>1. CASE ~Running(r.pid)
  <2>1. seen = "exited"
    BY <1>1 DEF Inspect
  <2> QED BY <1>1, <2>1 DEF Alive, Running
<1>2. CASE Running(r.pid) /\ r.token = None
  <2>1. seen = "unverifiable"
    BY <1>0, <1>2 DEF Inspect
  <2> QED BY <2>1
<1>3. CASE Running(r.pid) /\ r.token # None /\ r.token = os[r.pid].id
  <2>1. seen \in {"unverifiable", "match"}
    BY <1>3 DEF Inspect
  <2> QED BY <1>3, <2>1
<1>4. CASE Running(r.pid) /\ r.token # None /\ r.token # os[r.pid].id
  <2>1. seen \in {"unverifiable", "mismatch"}
    BY <1>4 DEF Inspect
  <2> QED BY <1>4, <2>1 DEF Alive
<1> QED BY <1>1, <1>2, <1>3, <1>4

\* The composition root opens the ledger.
LEMMA RestartStep ==
  ASSUME SupervisionInv, Restart
  PROVE  SupervisionInv'
<1> USE DEF SupervisionInv
<1>0. /\ host = "down" /\ host' = "ledger" /\ todo' = ledger /\ failed' = FALSE /\ fenced' = FALSE
      /\ kept = {} /\ aim = NoRow
      /\ UNCHANGED <<os, born, used, pc, pid, token, journal, ledger, kept, aim, open, verdict,
                     crashes, idOf, supervised, struck>>
  BY DEF Restart, StageInv, tables, tools, durable, ghosts
<1>1. /\ \A x \in Runs : ChildRuns(x)' => ChildRuns(x)
      /\ IdentityInv' /\ CallInv' /\ EvidenceInv' /\ OpenInv' /\ ExitIsItsOwnButSessions' /\ LeaseInv'
  BY <1>0, SameShrinks, StartupFrame
<1>2. TypeOK'
  BY <1>0 DEF TypeOK
<1>3. StageInv'
  BY <1>0 DEF StageInv
<1>4. CoverInv' /\ NoSupervisedLeftover'
  BY <1>0, <1>1, OwedFrame DEF CoverInv, NoSupervisedLeftover, LeaseRow
<1> QED BY <1>1, <1>2, <1>3, <1>4

\* reconcile_children looks at one row.
LEMMA LedgerVisitStep ==
  ASSUME SupervisionInv, NEW r \in ledger, LedgerVisit(r)
  PROVE  SupervisionInv'
<1> USE DEF SupervisionInv
<1>p. PICK seen \in Inspect(r) : /\ aim' = IF seen = "match" THEN r ELSE NoRow
                                 /\ kept' = IF seen = "unverifiable" THEN kept \cup {r} ELSE kept
  BY DEF LedgerVisit
<1>0. /\ host = "ledger" /\ aim = NoRow /\ r \in todo /\ todo \subseteq ledger /\ todo' = todo \ {r}
      /\ UNCHANGED <<os, born, used, pc, pid, token, journal, ledger, failed, host, fenced, open,
                     verdict, crashes, idOf, supervised, struck>>
  BY DEF LedgerVisit, StageInv, tables, tools, durable, ghosts
<1>1. /\ \A x \in Runs : ChildRuns(x)' => ChildRuns(x)
      /\ IdentityInv' /\ CallInv' /\ EvidenceInv' /\ OpenInv' /\ ExitIsItsOwnButSessions' /\ LeaseInv'
  BY <1>0, SameShrinks, StartupFrame
<1>2. TypeOK'
  BY <1>0, <1>p DEF TypeOK
<1>3. seen = "match" => r.token # None
  BY <1>p, Inspected DEF TypeOK
<1>4. StageInv'
  BY <1>0, <1>p, <1>3 DEF StageInv
<1>5. seen \notin {"match", "unverifiable"} => ~Alive(r, os)
  BY <1>p, Inspected DEF TypeOK
<1>6. CoverInv'
  <2>1. ASSUME NEW q \in ledger \ (todo' \cup kept' \cup {aim'}) PROVE ~Alive(q, os)
    <3>1. CASE q = r
      BY <1>5, <1>p, <2>1, <3>1
    <3>2. CASE q # r
      <4>1. q # NoRow
        BY RowIsNotNoRow DEF TypeOK
      <4> QED BY <1>0, <1>p, <2>1, <3>2, <4>1 DEF CoverInv
    <3> QED BY <3>1, <3>2
  <2> QED BY <1>0, <1>1, <2>1, OwedFrame DEF CoverInv, LeaseRow
<1>7. NoSupervisedLeftover'
  BY <1>0 DEF NoSupervisedLeftover
<1> QED BY <1>1, <1>2, <1>4, <1>6, <1>7

\* It signals the process of a row that matched, and keeps the row if the
\* process is still there.
LEMMA LedgerSignalStep ==
  ASSUME SupervisionInv, LedgerSignal
  PROVE  SupervisionInv'
<1> USE DEF SupervisionInv
<1>0. /\ host = "ledger" /\ aim # NoRow /\ aim \in ledger /\ aim' = NoRow
      /\ kept' = IF Alive(aim, os') THEN kept \cup {aim} ELSE kept
      /\ os' \in Killed(aim.pid)
      /\ UNCHANGED <<born, used, pc, pid, token, journal, ledger, failed, host, todo, fenced, open,
                     verdict, crashes, idOf, supervised>>
  BY DEF LedgerSignal, Signal, StageInv, tools, durable
<1>1. os' \in OsType /\ OsShrinks
  <2>1. aim.pid \in Pids
    BY <1>0 DEF TypeOK, Rows
  <2> QED BY <1>0, <2>1, OsTyped, KilledShrinks
<1>2. /\ \A x \in Runs : ChildRuns(x)' => ChildRuns(x)
      /\ IdentityInv' /\ CallInv' /\ EvidenceInv' /\ OpenInv' /\ ExitIsItsOwnButSessions' /\ LeaseInv'
  BY <1>0, <1>1, StartupFrame
<1>3. TypeOK'
  BY <1>0, <1>1 DEF TypeOK, OsType
<1>4. StageInv'
  BY <1>0 DEF StageInv
<1>5. CoverInv'
  <2>1. ASSUME NEW q \in ledger \ (todo \cup kept' \cup {NoRow}) PROVE ~Alive(q, os')
    <3>1. CASE q = aim
      BY <1>0, <2>1, <3>1
    <3>2. CASE q # aim
      <4>1. ~Alive(q, os)
        BY <1>0, <2>1, <3>2 DEF CoverInv
      <4> QED BY <1>1, <4>1, AliveFrame DEF TypeOK
    <3> QED BY <3>1, <3>2
  <2> QED BY <1>0, <1>2, <2>1, OwedFrame DEF CoverInv, LeaseRow
<1>6. NoSupervisedLeftover'
  BY <1>0 DEF NoSupervisedLeftover
<1> QED BY <1>2, <1>3, <1>4, <1>5, <1>6

\* It writes back the rows it kept: startup goes on only if there are none.
LEMMA LedgerDoneStep ==
  ASSUME SupervisionInv, LedgerDone
  PROVE  SupervisionInv'
<1> USE DEF SupervisionInv
<1>0. /\ host = "ledger" /\ aim = NoRow /\ todo = {} /\ kept' = {} /\ ledger' \in {ledger, kept}
      /\ \/ host' = "reconcile" /\ todo' = open /\ ledger' = {}
         \/ host' = "down" /\ todo' = {}
      /\ UNCHANGED <<os, born, used, pc, pid, token, journal, failed, aim, fenced, open, verdict,
                     crashes, idOf, supervised, struck>>
  BY DEF LedgerDone, tables, tools, ghosts
<1>1. /\ \A x \in Runs : ChildRuns(x)' => ChildRuns(x)
      /\ IdentityInv' /\ CallInv' /\ EvidenceInv' /\ OpenInv' /\ ExitIsItsOwnButSessions' /\ LeaseInv'
  BY <1>0, SameShrinks, StartupFrame
<1>2. TypeOK'
  BY <1>0 DEF TypeOK
<1>3. StageInv'
  BY <1>0 DEF StageInv, TypeOK
<1>4. ASSUME NEW x \in Runs, ChildRuns(x)', token[x] # None, LeaseRow(x) \in ledger
      PROVE  LeaseRow(x) \in ledger'
  <2>1. pid[x] \in Pids /\ Running(pid[x]) /\ os[pid[x]].id = idOf[x] /\ token[x] = idOf[x]
    BY <1>1, <1>4, ChildAt DEF EvidenceInv
  <2>2. Alive(LeaseRow(x), os)
    BY <2>1 DEF Alive, LeaseRow, Running
  <2>3. LeaseRow(x) # NoRow
    BY <1>4, RowIsNotNoRow DEF TypeOK
  <2>4. LeaseRow(x) \in kept
    BY <1>0, <1>4, <2>2, <2>3 DEF CoverInv
  <2> QED BY <1>0, <1>4, <2>4
<1>5. CoverInv' /\ NoSupervisedLeftover'
  BY <1>0, <1>1, <1>4, CoverFrame DEF NoSupervisedLeftover
<1> QED BY <1>1, <1>2, <1>3, <1>5

\* Core reconciles one operation that was open.
LEMMA ReconcileVisitStep ==
  ASSUME SupervisionInv, NEW e \in Runs, ReconcileVisit(e)
  PROVE  SupervisionInv'
<1> USE DEF SupervisionInv
<1>0. /\ host = "reconcile" /\ aim = NoRow /\ todo' = todo \ {e} /\ kept = {} /\ todo \subseteq Runs
      /\ verdict' = [verdict EXCEPT ![e] = Judgement(e)] /\ fenced' \in BOOLEAN /\ open' \subseteq Runs
      /\ UNCHANGED <<os, born, used, pc, pid, token, journal, ledger, failed, host, kept, crashes,
                     idOf, supervised, struck>>
  BY DEF ReconcileVisit, StageInv, TypeOK, tables, tools, durable, ghosts
<1>1. /\ \A x \in Runs : ChildRuns(x)' => ChildRuns(x)
      /\ IdentityInv' /\ CallInv' /\ EvidenceInv' /\ OpenInv' /\ ExitIsItsOwnButSessions' /\ LeaseInv'
  BY <1>0, SameShrinks, StartupFrame
<1>2. aim' = NoRow \/ (aim' \in Rows /\ aim'.token # None)
  <2>1. CASE OpenSpawn(e)
    <3>1. PICK seen \in Inspect(RowOf(e)) : aim' = IF seen = "match" THEN RowOf(e) ELSE NoRow
      BY <2>1 DEF ReconcileVisit
    <3>2. seen = "match" => RowOf(e).token # None
      BY <2>1, <3>1, RowOfTyped, Inspected
    <3> QED BY <2>1, <3>1, <3>2, RowOfTyped
  <2>2. CASE ~OpenSpawn(e)
    BY <1>0, <2>2 DEF ReconcileVisit
  <2> QED BY <2>1, <2>2
<1>3. TypeOK'
  <2>1. Judgement(e) \in {"none", "NotApplied", "CompletedValue", "Ambiguous"}
    BY DEF Judgement
  <2> QED BY <1>0, <1>2, <2>1 DEF TypeOK
<1>4. StageInv'
  BY <1>0, <1>2 DEF StageInv
<1>5. CoverInv' /\ NoSupervisedLeftover'
  BY <1>0, <1>1, CoverFrame DEF NoSupervisedLeftover, LeaseRow
<1> QED BY <1>1, <1>3, <1>4, <1>5

LEMMA ReconcileSignalStep ==
  ASSUME SupervisionInv, ReconcileSignal
  PROVE  SupervisionInv'
<1> USE DEF SupervisionInv
<1>0. /\ host = "reconcile" /\ aim # NoRow /\ aim' = NoRow /\ os' \in Killed(aim.pid)
      /\ UNCHANGED <<born, used, pc, pid, token, journal, ledger, failed, host, todo, kept, fenced,
                     open, verdict, crashes, idOf, supervised>>
  BY DEF ReconcileSignal, Signal, tools, durable
<1>1. os' \in OsType /\ OsShrinks
  <2>1. aim.pid \in Pids
    BY <1>0 DEF TypeOK, Rows
  <2> QED BY <1>0, <2>1, OsTyped, KilledShrinks
<1>2. /\ \A x \in Runs : ChildRuns(x)' => ChildRuns(x)
      /\ IdentityInv' /\ CallInv' /\ EvidenceInv' /\ OpenInv' /\ ExitIsItsOwnButSessions' /\ LeaseInv'
  BY <1>0, <1>1, StartupFrame
<1>3. TypeOK'
  BY <1>0, <1>1 DEF TypeOK, OsType
<1>4. StageInv'
  BY <1>0 DEF StageInv
<1>5. CoverInv' /\ NoSupervisedLeftover'
  BY <1>0, <1>2, CoverFrame DEF NoSupervisedLeftover
<1> QED BY <1>2, <1>3, <1>4, <1>5

\* Core asks for the orphans: every open spawn is to be looked at.
LEMMA ReconcileDoneStep ==
  ASSUME SupervisionInv, ReconcileDone
  PROVE  SupervisionInv'
<1> USE DEF SupervisionInv
<1>0. /\ host = "reconcile" /\ aim = NoRow /\ host' = "orphans" /\ todo' = {e \in Runs : OpenSpawn(e)}
      /\ ledger = {}
      /\ UNCHANGED <<os, born, used, pc, pid, token, journal, ledger, failed, kept, aim, fenced, open,
                     verdict, crashes, idOf, supervised, struck>>
  BY DEF ReconcileDone, StageInv, tables, tools, durable, ghosts
<1>1. /\ \A x \in Runs : ChildRuns(x)' => ChildRuns(x)
      /\ IdentityInv' /\ CallInv' /\ EvidenceInv' /\ OpenInv' /\ ExitIsItsOwnButSessions' /\ LeaseInv'
  BY <1>0, SameShrinks, StartupFrame
<1>2. TypeOK'
  BY <1>0 DEF TypeOK
<1>3. StageInv'
  BY <1>0 DEF StageInv
<1>4. CoverInv'
  <2>1. \A x \in Runs : OpenSpawn(x)' <=> x \in todo'
    BY <1>0 DEF OpenSpawn, Recorded
  <2> QED BY <1>0, <1>1, <2>1, OwedFrame DEF CoverInv, LeaseRow
<1>5. NoSupervisedLeftover'
  BY <1>0 DEF NoSupervisedLeftover
<1> QED BY <1>1, <1>2, <1>3, <1>4, <1>5

\* recover_orphans looks at one open spawn.
LEMMA OrphanVisitStep ==
  ASSUME SupervisionInv, NEW e \in Runs, OrphanVisit(e)
  PROVE  SupervisionInv'
<1> USE DEF SupervisionInv
<1>p. PICK seen \in Inspect(RowOf(e)) :
         /\ aim' = IF seen = "match" THEN RowOf(e) ELSE NoRow
         /\ IF seen = "unverifiable" THEN Uncontained
            ELSE todo' = todo \ {e} /\ UNCHANGED <<host, fenced>>
  BY DEF OrphanVisit
<1>0. /\ host = "orphans" /\ aim = NoRow /\ e \in todo /\ kept = {} /\ todo \subseteq Runs /\ ledger = {}
      /\ UNCHANGED <<os, born, used, pc, pid, token, journal, ledger, failed, kept, open, verdict,
                     crashes, idOf, supervised, struck>>
  BY DEF OrphanVisit, StageInv, tables, tools, durable, ghosts
<1>1. /\ \A x \in Runs : ChildRuns(x)' => ChildRuns(x)
      /\ IdentityInv' /\ CallInv' /\ EvidenceInv' /\ OpenInv' /\ ExitIsItsOwnButSessions' /\ LeaseInv'
  BY <1>0, SameShrinks, StartupFrame
<1>a. OpenSpawn(e) /\ RowOf(e) \in Rows
  BY <1>0, RowOfTyped DEF CoverInv
<1>2. /\ todo' \subseteq Runs /\ host' \in {"orphans", "up"} /\ fenced' \in BOOLEAN
      /\ host' = "up" => todo' = {} /\ aim' = NoRow /\ fenced'
      /\ host' = "orphans" => todo' = todo \ {e} /\ seen # "unverifiable"
  BY <1>0, <1>p DEF Uncontained, TypeOK
<1>3. aim' = NoRow \/ (aim' \in Rows /\ aim'.token # None)
  <2>1. seen = "match" => RowOf(e).token # None
    BY <1>p, <1>a, Inspected
  <2> QED BY <1>a, <1>p, <2>1
<1>4. TypeOK'
  BY <1>0, <1>2, <1>3 DEF TypeOK
<1>5. StageInv'
  BY <1>0, <1>2, <1>3 DEF StageInv
<1>6. CoverInv'
  <2>1. ASSUME NEW x \in Runs \ todo', host' = "orphans", OpenSpawn(x), ChildRuns(x)
        PROVE  aim' = RowOf(x)
    <3>1. /\ pid[x] \in Pids /\ Running(pid[x]) /\ os[pid[x]].id = idOf[x] /\ RowOf(x) # NoRow
          /\ RowOf(x).pid = pid[x] /\ RowOf(x).token \in {None, idOf[x]} /\ idOf[x] # None
      BY <2>1, ChildAt, RowOfTyped DEF EvidenceInv
    <3>2. x = e
      BY <1>0, <1>2, <2>1, <3>1 DEF CoverInv
    <3>3. RowOf(x).token = None => seen = "unverifiable"
      BY <1>p, <1>a, <3>1, <3>2, Inspected
    <3>4. Alive(RowOf(x), os)
      BY <1>2, <2>1, <3>1, <3>3 DEF Alive, Running
    <3> QED BY <1>2, <1>p, <1>a, <2>1, <3>2, <3>4, Inspected
  <2>2. \A x \in Runs : (OpenSpawn(x)' <=> OpenSpawn(x)) /\ RowOf(x)' = RowOf(x)
    BY <1>0 DEF OpenSpawn, Recorded, RowOf
  <2> QED BY <1>0, <1>1, <1>2, <2>1, <2>2, OwedFrame DEF CoverInv, LeaseRow
<1>7. NoSupervisedLeftover'
  BY <1>2 DEF NoSupervisedLeftover
<1> QED BY <1>1, <1>4, <1>5, <1>6, <1>7

LEMMA OrphanSignalStep ==
  ASSUME SupervisionInv, OrphanSignal
  PROVE  SupervisionInv'
<1> USE DEF SupervisionInv
<1>0. /\ host = "orphans" /\ aim # NoRow /\ aim' = NoRow /\ os' \in Killed(aim.pid) /\ kept = {}
      /\ todo \subseteq Runs
      /\ UNCHANGED <<born, used, pc, pid, token, journal, ledger, failed, kept, open, verdict,
                     crashes, idOf, supervised>>
  BY DEF OrphanSignal, Signal, StageInv, tools, durable
<1>1. os' \in OsType /\ OsShrinks
  <2>1. aim.pid \in Pids
    BY <1>0 DEF TypeOK, Rows
  <2> QED BY <1>0, <2>1, OsTyped, KilledShrinks
<1>2. /\ \A x \in Runs : ChildRuns(x)' => ChildRuns(x)
      /\ IdentityInv' /\ CallInv' /\ EvidenceInv' /\ OpenInv' /\ ExitIsItsOwnButSessions' /\ LeaseInv'
  BY <1>0, <1>1, StartupFrame
<1>3. /\ todo' \subseteq Runs /\ host' \in {"orphans", "up"} /\ fenced' \in BOOLEAN
      /\ host' = "up" => todo' = {} /\ fenced'
      /\ host' = "orphans" => todo' = todo /\ ~Alive(aim, os')
  BY <1>0 DEF OrphanSignal, Uncontained, TypeOK
<1>4. TypeOK'
  BY <1>0, <1>1, <1>3 DEF TypeOK, OsType
<1>5. StageInv'
  BY <1>0, <1>3 DEF StageInv
<1>6. CoverInv'
  <2>1. ASSUME NEW x \in Runs \ todo, host' = "orphans", OpenSpawn(x), ChildRuns(x)' PROVE FALSE
    <3>1. aim = RowOf(x)
      BY <1>0, <1>2, <2>1 DEF CoverInv
    <3>2. pid[x] \in Pids /\ os'[pid[x]].st = "running" /\ os'[pid[x]].id = idOf[x]
      BY <1>0, <1>1, <2>1, ChildStillAt
    <3>3. aim.pid = pid[x] /\ aim.token = idOf[x]
      BY <1>0, <2>1, <3>1, RowOfTyped DEF EvidenceInv, StageInv
    <3> QED BY <1>3, <2>1, <3>2, <3>3 DEF Alive
  <2>2. \A x \in Runs : (OpenSpawn(x)' <=> OpenSpawn(x))
    BY <1>0 DEF OpenSpawn, Recorded
  <2> QED BY <1>0, <1>2, <1>3, <2>1, <2>2, OwedFrame DEF CoverInv, LeaseRow
<1>7. NoSupervisedLeftover'
  BY <1>3 DEF NoSupervisedLeftover
<1> QED BY <1>2, <1>4, <1>5, <1>6, <1>7

\* The host is up: whatever was owed has been found.
LEMMA OrphansDoneStep ==
  ASSUME SupervisionInv, OrphansDone
  PROVE  SupervisionInv'
<1> USE DEF SupervisionInv
<1>0. /\ host = "orphans" /\ aim = NoRow /\ todo = {} /\ host' = "up" /\ kept = {} /\ ledger = {}
      /\ UNCHANGED <<os, born, used, pc, pid, token, journal, ledger, failed, todo, kept, aim, fenced,
                     open, verdict, crashes, idOf, supervised, struck>>
  BY DEF OrphansDone, StageInv, tables, tools, durable, ghosts
<1>1. /\ \A x \in Runs : ChildRuns(x)' => ChildRuns(x)
      /\ IdentityInv' /\ CallInv' /\ EvidenceInv' /\ OpenInv' /\ ExitIsItsOwnButSessions' /\ LeaseInv'
  BY <1>0, SameShrinks, StartupFrame
<1>2. TypeOK'
  BY <1>0 DEF TypeOK
<1>3. StageInv'
  BY <1>0 DEF StageInv
<1>4. CoverInv'
  BY <1>0, <1>1, CoverFrame DEF LeaseRow
<1>5. ASSUME NEW x \in supervised, Identified(x), ~StaleSession(x), ChildRuns(x) PROVE FALSE
  <2>1. x \in Runs /\ Owed(x)
    BY <1>5 DEF Owed, CoverInv
  <2>2. OpenSpawn(x)
    BY <1>0, <2>1 DEF CoverInv
  <2>3. aim = RowOf(x)
    BY <1>0, <1>5, <2>1, <2>2 DEF CoverInv
  <2> QED BY <1>0, <2>1, <2>2, <2>3, RowOfTyped
<1>6. NoSupervisedLeftover'
  BY <1>0, <1>1, <1>5 DEF NoSupervisedLeftover, CoverInv, Identified, StaleSession
<1> QED BY <1>1, <1>2, <1>3, <1>4, <1>6

-----------------------------------------------------------------------------
(* The theorems.                                                           *)

LEMMA SupervisionInit ==
  ASSUME Init PROVE SupervisionInv
<1>1. Free.st = "free" /\ Free \in [st : {"free", "running", "zombie"}, id : 0..MaxBorn,
                                    by : Runs \cup {"foreign", "nobody"}]
  BY ProcessAssumption DEF Free, None
<1>2. /\ NoEvidence \in [pid : Pids \cup {NoPid}, token : 0..MaxBorn, exited : BOOLEAN]
      /\ NoEvidence.token = None /\ NoEvidence.exited = FALSE
  BY ProcessAssumption DEF NoEvidence, None
<1>3. TypeOK
  <2>1. os \in OsType
    BY <1>1 DEF Init, OsType
  <2>2. journal \in [Runs -> [pid : Pids \cup {NoPid}, token : 0..MaxBorn, exited : BOOLEAN]]
    BY <1>2 DEF Init
  <2>3. 0 \in 0..MaxBorn /\ 0 \in 0..MaxCrashes
    BY ProcessAssumption
  <2>4. /\ pc \in [Runs -> Phases] /\ pid \in [Runs -> Pids \cup {NoPid}] /\ token \in [Runs -> 0..MaxBorn]
        /\ verdict \in [Runs -> {"none", "NotApplied", "CompletedValue", "Ambiguous"}]
    BY <2>3 DEF Init, Phases, None
  <2>5. /\ born \in 0..MaxBorn /\ used \subseteq Pids /\ failed \in BOOLEAN /\ fenced \in BOOLEAN
        /\ ledger \subseteq Rows /\ kept \subseteq ledger /\ open \subseteq Runs /\ crashes \in 0..MaxCrashes
        /\ host \in {"up", "down", "ledger", "reconcile", "orphans"} /\ todo \subseteq ledger
        /\ aim \in Rows \cup {NoRow}
    BY <2>3 DEF Init
  <2> QED BY <2>1, <2>2, <2>4, <2>5 DEF TypeOK, OsType
<1>4. \A e \in Runs : ~ChildRuns(e) /\ ~Recorded(e) /\ pc[e] = "idle" /\ idOf[e] = None /\ token[e] = None
  BY DEF Init, ChildRuns, Recorded
<1>5. IdentityInv
  BY <1>1, <1>4 DEF Init, IdentityInv, None
<1>6. CallInv /\ StageInv /\ LeaseInv
  BY <1>4 DEF Init, CallInv, StageInv, LeaseInv, Held
<1>7. EvidenceInv
  BY <1>2, <1>4 DEF Init, EvidenceInv
<1>8. OpenInv /\ ExitIsItsOwnButSessions
  BY <1>4 DEF OpenInv, OpenSpawn, ExitIsItsOwnButSessions
<1>9. CoverInv /\ NoSupervisedLeftover
  BY <1>4 DEF Init, CoverInv, Owed, NoSupervisedLeftover
<1> QED BY <1>3, <1>5, <1>6, <1>7, <1>8, <1>9 DEF SupervisionInv

LEMMA SupervisionStep ==
  ASSUME SupervisionInv, [Next]_vars PROVE SupervisionInv'
<1>1. CASE \E p \in Pids : ForeignStart(p) \/ ProcessExits(p)
  BY <1>1, ForeignStartStep, ProcessExitsStep
<1>2. CASE \E e \in Runs : \E p \in Pids : Spawn(e, p)
  BY <1>2, SpawnStep
<1>3. CASE \E e \in Runs : Admit(e) \/ Settle(e) \/ Lease(e) \/ LeaseFails(e) \/ Abort(e)
  BY <1>3, AdmitStep, LeaseStep, GiveUpStep
<1>4. CASE \E e \in Runs : RecordSpawn(e) \/ RecordSpawnFails(e) \/ Reap(e)
  BY <1>4, RecordSpawnStep, RecordSpawnFailsStep, ReapStep
<1>5. CASE \E e \in Runs : AbortAfterReap(e) \/ RecordExit(e) \/ PollAgain(e) \/ StopExited(e)
  BY <1>5, ExitStep
<1>6. CASE \E e \in Runs : ReconcileVisit(e) \/ OrphanVisit(e)
  BY <1>6, ReconcileVisitStep, OrphanVisitStep
<1>7. CASE \E r \in ledger : LedgerVisit(r)
  BY <1>7, LedgerVisitStep
<1>8. CASE Crash \/ Restart \/ LedgerSignal \/ LedgerDone
  BY <1>8, CrashStep, RestartStep, LedgerSignalStep, LedgerDoneStep
<1>9. CASE ReconcileSignal \/ ReconcileDone \/ OrphanSignal \/ OrphansDone
  BY <1>9, ReconcileSignalStep, ReconcileDoneStep, OrphanSignalStep, OrphansDoneStep
<1>10. CASE UNCHANGED vars
  <2>1. UNCHANGED <<os, born, used, pc, pid, token, journal, ledger, failed, host, todo, kept, aim,
                    fenced, open, verdict, crashes, idOf, supervised, struck>>
    BY <1>10 DEF vars, tables, tools, durable, startup, ghosts
  <2> QED BY <2>1 DEF SupervisionInv, TypeOK, IdentityInv, CallInv, StageInv, EvidenceInv, OpenInv,
                      ExitIsItsOwnButSessions, LeaseInv, CoverInv, NoSupervisedLeftover, ChildRuns,
                      Running, Recorded, OpenSpawn, ClosedBySession, StaleSession, Identified, Owed,
                      LeaseRow, RowOf, Alive
<1> QED BY <1>1, <1>2, <1>3, <1>4, <1>5, <1>6, <1>7, <1>8, <1>9, <1>10 DEF Next

\* The inductive invariant of child supervision holds in every reachable state:
\* identities are unique, evidence is about the invocation's own child, and a
\* live child that was reported supervised is covered by its ledger row or its
\* open spawn record until a startup has dealt with it.
THEOREM SupervisionInvariant == Spec => []SupervisionInv
<1>1. Init => SupervisionInv
  BY SupervisionInit
<1>2. SupervisionInv /\ [Next]_vars => SupervisionInv'
  BY SupervisionStep
<1> QED BY <1>1, <1>2, PTL DEF Spec

\* The state of the tools, the two files and the recovery keeps its type.
THEOREM SupervisionTypes == Spec => []TypeOK
<1>1. SupervisionInv => TypeOK
  BY DEF SupervisionInv
<1> QED BY <1>1, SupervisionInvariant, PTL

\* record_exited closes records by PID; the exit it writes is nevertheless the
\* exit of the invocation's own child, unless a finished session that had the
\* same PID wrote it (persist_process_exit in a later poll).
THEOREM ExitIsItsOwn == Spec => []ExitIsItsOwnButSessions
<1>1. SupervisionInv => ExitIsItsOwnButSessions
  BY DEF SupervisionInv
<1> QED BY <1>1, SupervisionInvariant, PTL

\* When startup (reconcile_children, reconcile, recover_orphans) lets the host
\* accept work, no identified child that an earlier host had reported as
\* supervised is still running, whatever crashed or failed on the way.
THEOREM StartupLeavesNoChild == Spec => []NoSupervisedLeftover
<1>1. SupervisionInv => NoSupervisedLeftover
  BY DEF SupervisionInv
<1> QED BY <1>1, SupervisionInvariant, PTL

\* release_row and the drop of a ChildLease never take away the row of another
\* child that lives: a leased child has its row as long as its tool holds it.
THEOREM LeaseCovers == Spec => []LeaseCoversChild
<1>1. SupervisionInv => LeaseCoversChild
  BY DEF SupervisionInv, LeaseInv, LeaseRow, LeaseCoversChild
<1> QED BY <1>1, SupervisionInvariant, PTL

-----------------------------------------------------------------------------
(* Signals of the recovery.  Between the inspection and the signal the     *)
(* recorded process may exit; what must not happen is that its PID is      *)
(* given to another process meanwhile.                                     *)

SparesInv ==
  /\ RecoverySparesOthers
  /\ aim # NoRow => aim.pid \in used /\ (Running(aim.pid) => os[aim.pid].id = aim.token)

LEMMA SparesStep ==
  ASSUME PinsPid \/ ~Reuse, SupervisionInv, SparesInv, [Next]_vars
  PROVE  SparesInv'
<1> USE DEF SupervisionInv, SparesInv, RecoverySparesOthers
<1>0. aim # NoRow => aim \in Rows /\ aim.pid \in Pids
  BY DEF TypeOK, Rows
<1>1. ASSUME NEW p \in Pids, ForeignStart(p) PROVE SparesInv'
  <2>1. /\ \A q \in Pids \ {p} : os'[q] = os[q]
        /\ used \subseteq used' /\ Assignable(p) /\ aim' = aim /\ struck' = struck
    BY <1>1, CreateFresh DEF ForeignStart, Create, startup, ghosts
  <2>2. aim # NoRow => aim.pid # p
    BY <2>1 DEF Assignable
  <2> QED BY <1>0, <2>1, <2>2 DEF Running
<1>2. ASSUME NEW p \in Pids, ProcessExits(p) PROVE SparesInv'
  <2>1. OsShrinks /\ UNCHANGED <<used, aim, struck>>
    BY <1>2, OsTyped, ExitShrinks DEF ProcessExits, startup, ghosts
  <2> QED BY <1>0, <2>1 DEF OsShrinks, Running
<1>3. ASSUME host = "up", UNCHANGED <<aim, struck>> PROVE SparesInv'
  BY <1>3 DEF StageInv
<1>4. ASSUME NEW e \in Runs, NEW p \in Pids, Spawn(e, p) PROVE SparesInv'
  BY <1>3, <1>4 DEF Spawn, startup
<1>5. ASSUME NEW e \in Runs, Admit(e) \/ Settle(e) \/ Lease(e) \/ LeaseFails(e) \/ Abort(e) PROVE SparesInv'
  BY <1>3, <1>5 DEF Admit, Settle, Lease, LeaseFails, Abort, startup, ghosts
<1>6. ASSUME NEW e \in Runs, RecordSpawn(e) \/ RecordSpawnFails(e) \/ Reap(e) PROVE SparesInv'
  BY <1>3, <1>6 DEF RecordSpawn, RecordSpawnFails, ReadyToRecord, Reap, startup, ghosts
<1>7. ASSUME NEW e \in Runs, AbortAfterReap(e) \/ RecordExit(e) \/ PollAgain(e) \/ StopExited(e)
      PROVE  SparesInv'
  BY <1>3, <1>7 DEF AbortAfterReap, RecordExit, PollAgain, StopExited, startup, ghosts
<1>8. ASSUME NEW r \in Rows, NEW seen \in Inspect(r), aim' = IF seen = "match" THEN r ELSE NoRow,
             UNCHANGED <<os, used, struck>>
      PROVE  SparesInv'
  <2>1. seen = "match" => Running(r.pid) /\ r.token = os[r.pid].id /\ r.pid \in Pids
    BY <1>8, Inspected, RowIsNotNoRow
  <2> QED BY <1>8, <2>1 DEF IdentityInv, Running
<1>9. ASSUME NEW r \in ledger, LedgerVisit(r) PROVE SparesInv'
  <2>1. PICK seen \in Inspect(r) : aim' = IF seen = "match" THEN r ELSE NoRow
    BY <1>9 DEF LedgerVisit
  <2> QED BY <1>8, <1>9, <2>1 DEF LedgerVisit, TypeOK, tables, ghosts
<1>10. ASSUME NEW e \in Runs, ReconcileVisit(e) PROVE SparesInv'
  <2>1. UNCHANGED <<os, used, struck>>
    BY <1>10 DEF ReconcileVisit, tables, ghosts
  <2>2. CASE OpenSpawn(e)
    <3>1. PICK seen \in Inspect(RowOf(e)) : aim' = IF seen = "match" THEN RowOf(e) ELSE NoRow
      BY <1>10, <2>2 DEF ReconcileVisit
    <3> QED BY <1>8, <2>1, <2>2, <3>1, RowOfTyped
  <2>3. CASE ~OpenSpawn(e)
    BY <1>10, <2>1, <2>3 DEF ReconcileVisit, Running
  <2> QED BY <2>2, <2>3
<1>11. ASSUME NEW e \in Runs, OrphanVisit(e) PROVE SparesInv'
  <2>1. UNCHANGED <<os, used, struck>>
    BY <1>11 DEF OrphanVisit, tables, ghosts
  <2>2. PICK seen \in Inspect(RowOf(e)) : aim' = IF seen = "match" THEN RowOf(e) ELSE NoRow
    BY <1>11 DEF OrphanVisit
  <2>3. RowOf(e) \in Rows
    BY <1>11, RowOfTyped DEF OrphanVisit, CoverInv
  <2> QED BY <1>8, <2>1, <2>2, <2>3
<1>12. CASE LedgerSignal \/ ReconcileSignal \/ OrphanSignal
  BY <1>12 DEF LedgerSignal, ReconcileSignal, OrphanSignal, Signal
<1>13. CASE Crash \/ Restart \/ LedgerDone \/ ReconcileDone \/ OrphansDone
  BY <1>13 DEF Crash, Restart, LedgerDone, ReconcileDone, OrphansDone, StageInv, ghosts
<1>14. CASE UNCHANGED vars
  BY <1>14 DEF vars, tables, startup, ghosts, Running
<1> QED BY <1>1, <1>2, <1>4, <1>5, <1>6, <1>7, <1>9, <1>10, <1>11, <1>12, <1>13, <1>14 DEF Next

\* Where the platform pins the PID between the inspection and the signal
\* (a process handle on Windows), or does not hand PIDs out twice, recovery
\* never signals a process other than the recorded child.
THEOREM RecoverySpares ==
  ASSUME PinsPid \/ ~Reuse
  PROVE  Spec => []RecoverySparesOthers
<1>1. Init => SparesInv
  BY DEF Init, SparesInv, RecoverySparesOthers
<1>2. SupervisionInv /\ SparesInv /\ [Next]_vars => SparesInv'
  BY SparesStep
<1>3. SparesInv => RecoverySparesOthers
  BY DEF SparesInv
<1> QED BY <1>1, <1>2, <1>3, SupervisionInvariant, PTL DEF Spec
=============================================================================
