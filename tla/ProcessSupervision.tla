-------------------------- MODULE ProcessSupervision --------------------------
(***************************************************************************)
(* The supervision of child processes: the process-effect journal          *)
(* (agent-workspace/src/process_journal.rs), the host-child ledger         *)
(* (tool-runtime/src/supervision.rs), the tools that spawn the children    *)
(* (tool-runtime/src/tools/{shell,process,session}.rs), and the recovery   *)
(* that runs at the next startup of the host                               *)
(* (agent-compose/src/lib.rs, agent-core/src/kernel/mod.rs).               *)
(*                                                                         *)
(* A process is known to the program by two names.  The PID is a number    *)
(* the operating system hands out again after the process was reaped; the  *)
(* creation identity (start time) is never reused, but it can be missing.  *)
(* The hazards of this code are all about the first name being taken for   *)
(* the second, and about a crash between the spawn and its record.         *)
(***************************************************************************)
EXTENDS Naturals, FiniteSets

CONSTANTS
  Runs,        \* tool invocations that spawn one child each
  Kind,        \* [Runs -> {"shell", "exec", "session", "proof"}]
  Pids,        \* the PID numbers of the operating system
  MaxBorn,     \* bound: processes ever created, foreign ones included
  MaxCrashes,  \* bound: host crashes
  Reuse,       \* whether the operating system hands a PID out twice
  TokenLoss,   \* whether capture_process_identity may fail
  PinsPid,     \* whether recovery holds a handle that pins the PID (Windows)
  Faults       \* whether journal writes, ledger writes and inspections may fail

None == 0                \* the empty identity token
NoPid == "no pid"

ASSUME ProcessAssumption ==
  /\ Kind \in [Runs -> {"shell", "exec", "session", "proof"}]
  /\ NoPid \notin Pids
  /\ MaxBorn \in Nat /\ MaxCrashes \in Nat
  /\ {Reuse, TokenLoss, PinsPid, Faults} \subseteq BOOLEAN

VARIABLES
  os,          \* the process table: [Pids -> [st, id, by]]
  born,        \* processes created so far; the next creation identity
  used,        \* PIDs handed out at least once
  pc,          \* where each invocation stands
  pid,         \* the PID each invocation holds
  token,       \* the identity its ledger lease captured
  journal,     \* process-effects.jsonl, folded: [Runs -> evidence]
  failed,      \* the journal writer's sticky failure
  ledger,      \* host-children.jsonl: a set of rows [pid, token]
  host,        \* "up", "down", or the stage of startup
  todo,        \* rows or invocations the current stage has still to visit
  kept,        \* rows the ledger stage keeps
  aim,         \* a row whose identity matched and is about to be signalled
  fenced,      \* Core refuses new work until recovery (require_recovery)
  open,        \* invocations whose Core operation is not yet terminal
  verdict,     \* what reconcile said of each invocation
  crashes,     \* bound on crashes
  idOf,        \* ghost: the process an invocation really created
  supervised,  \* ghost: invocations whose record or row was reported written
  struck       \* ghost: recovery signalled a process it had not recorded

tables == <<os, born, used>>
tools == <<pc, pid, token>>
durable == <<journal, ledger>>
startup == <<host, todo, kept, aim>>
ghosts == <<idOf, supervised, struck>>
vars == <<tables, tools, durable, failed, startup, fenced, open, verdict,
          crashes, ghosts>>

Free == [st |-> "free", id |-> None, by |-> "nobody"]
NoRow == [pid |-> NoPid, token |-> None]
NoEvidence == [pid |-> NoPid, token |-> None, exited |-> FALSE]

Leases(e) == Kind[e] \in {"exec", "proof"}     \* process.rs takes a lease
Journals(e) == Kind[e] # "proof"               \* host_trusted runs do not
Held == {"spawned", "leased", "recorded"}      \* the child is not yet reaped

Recorded(e) == journal[e] # NoEvidence
OpenSpawn(e) == Recorded(e) /\ ~journal[e].exited

(***************************************************************************)
(* The operating system (external).  A child of the live host becomes a    *)
(* zombie when it exits and keeps its PID until the tool waits for it; any *)
(* other process is reaped at once.                                        *)
(***************************************************************************)
Running(p) == os[p].st = "running"

Assignable(p) ==
  /\ os[p].st = "free"
  /\ Reuse \/ p \notin used
  /\ ~(PinsPid /\ aim # NoRow /\ aim.pid = p)

Create(p, by) ==
  /\ born < MaxBorn /\ Assignable(p)
  /\ born' = born + 1
  /\ used' = used \cup {p}
  /\ os' = [os EXCEPT ![p] = [st |-> "running", id |-> born + 1, by |-> by]]

Exited(p) ==
  LET e == os[p].by IN
  [os EXCEPT ![p] = IF e \in Runs /\ pc[e] \in Held /\ pid[e] = p
                    THEN [@ EXCEPT !.st = "zombie"] ELSE Free]

\* kill_process_tree: SIGKILL to the group `p`, which may take effect later.
Killed(p) == {os} \cup (IF Running(p) THEN {Exited(p)} ELSE {})

\* The same for a child the host gives up: what is dead is also reaped.
Abandoned(p) == {[os EXCEPT ![p] = Free]} \cup (IF Running(p) THEN {os} ELSE {})

ForeignStart(p) ==
  /\ Create(p, "foreign")
  /\ UNCHANGED <<tools, durable, failed, startup, fenced, open, verdict,
                 crashes, ghosts>>

ProcessExits(p) ==
  /\ Running(p)
  /\ os' = Exited(p)
  /\ UNCHANGED <<born, used, tools, durable, failed, startup, fenced, open,
                 verdict, crashes, ghosts>>

CapturedIdentity(p) == {os[p].id} \cup (IF TokenLoss THEN {None} ELSE {})

(***************************************************************************)
(* A tool invocation.  Core admits the operation, the tool spawns, and the *)
(* child runs from that moment on: nothing holds it back until the records *)
(* are written.  process.rs writes the ledger row first and the journal    *)
(* record second; shell.rs and session.rs write only the journal.          *)
(***************************************************************************)
Admit(e) ==
  /\ host = "up" /\ ~fenced
  /\ pc[e] = "idle"
  /\ pc' = [pc EXCEPT ![e] = "admitted"]
  /\ open' = IF Journals(e) THEN open \cup {e} ELSE open
  /\ UNCHANGED <<tables, pid, token, durable, failed, startup, fenced, verdict,
                 crashes, ghosts>>

Spawn(e, p) ==
  /\ host = "up"
  /\ pc[e] = "admitted"
  /\ Create(p, e)
  /\ pc' = [pc EXCEPT ![e] = "spawned"]
  /\ pid' = [pid EXCEPT ![e] = p]
  /\ idOf' = [idOf EXCEPT ![e] = born + 1]
  /\ UNCHANGED <<token, durable, failed, startup, fenced, open, verdict,
                 crashes, supervised, struck>>

\* release_row: rows are matched by PID and identity, an empty identity
\* matching rows recorded without one.
Released_ByPid(e) == {r \in ledger : r.pid # pid[e]}  \* Mutant: PID only
Released(e) == ledger \ {[pid |-> pid[e], token |-> token[e]]}

\* Drop of ChildLease: the row of a conclusively dead PID is released, the
\* row of a live one stays for the next startup.
LeaseDropped(e, table) ==
  IF Leases(e) /\ table[pid[e]].st # "running"
  THEN {Released(e)} \cup (IF Faults THEN {ledger} ELSE {})
  ELSE {ledger}

\* supervision::lease: the row is written before the tool goes on.
Lease(e) ==
  /\ host = "up"
  /\ Leases(e) /\ pc[e] = "spawned"
  /\ \E t \in CapturedIdentity(pid[e]) :
       /\ token' = [token EXCEPT ![e] = t]
       /\ ledger' = ledger \cup {[pid |-> pid[e], token |-> t]}
  /\ pc' = [pc EXCEPT ![e] = "leased"]
  /\ supervised' = supervised \cup {e}
  /\ UNCHANGED <<tables, pid, journal, failed, startup, fenced, open, verdict,
                 crashes, idOf, struck>>

\* A ledger that cannot guarantee the row fails the spawn closed.  The
\* rewrite may have reached its rename before it failed.
LeaseFails(e) ==
  /\ Faults /\ host = "up"
  /\ Leases(e) /\ pc[e] = "spawned"
  /\ \E t \in CapturedIdentity(pid[e]) :
       ledger' \in {ledger, ledger \cup {[pid |-> pid[e], token |-> t]}}
  /\ os' \in Abandoned(pid[e])
  /\ pc' = [pc EXCEPT ![e] = "failed"]
  /\ UNCHANGED <<born, used, pid, token, journal, failed, startup, fenced, open,
                 verdict, crashes, ghosts>>

\* validate_fold: one open spawn per PID and one spawn per effect.
MayRecord_AnyPid(e) == ~Recorded(e)  \* Mutant: no check for an open PID
MayRecord(e) ==
  /\ ~Recorded(e)
  /\ \A x \in Runs : OpenSpawn(x) => journal[x].pid # pid[e]

ReadyToRecord(e) ==
  /\ host = "up" /\ Journals(e)
  /\ pc[e] = IF Leases(e) THEN "leased" ELSE "spawned"

WithSpawn(e, t) ==
  [journal EXCEPT ![e] = [pid |-> pid[e], token |-> t, exited |-> FALSE]]

RecordSpawn(e) ==
  /\ ReadyToRecord(e)
  /\ ~failed /\ MayRecord(e)
  /\ \E t \in CapturedIdentity(pid[e]) : journal' = WithSpawn(e, t)
  /\ pc' = [pc EXCEPT ![e] = "recorded"]
  /\ supervised' = supervised \cup {e}
  /\ UNCHANGED <<tables, pid, token, failed, ledger, startup, fenced, open,
                 verdict, crashes, idOf, struck>>

\* A refused record, or an append that failed and stuck (its frame may be in
\* the file nevertheless): the child is killed and the tool fails.
RecordSpawnFails(e) ==
  /\ ReadyToRecord(e)
  /\ \/ (failed \/ ~MayRecord(e)) /\ UNCHANGED <<journal, failed>>
     \/ /\ Faults /\ ~failed /\ MayRecord(e)
        /\ failed' = TRUE
        /\ journal' \in {journal} \cup
              {WithSpawn(e, t) : t \in CapturedIdentity(pid[e])}
  /\ os' \in Abandoned(pid[e])
  /\ ledger' \in LeaseDropped(e, os')
  /\ pc' = [pc EXCEPT ![e] = "failed"]
  /\ UNCHANGED <<born, used, pid, token, startup, fenced, open, verdict, crashes,
                 ghosts>>

\* An early return between the record and the reap (artifact I/O, a cancelled
\* start, a dropped future): the tree guard kills, no exit is recorded.  A
\* child that Windows cannot resume after its lease is killed likewise; that
\* it has no spawn record yet is RecordSpawnFails, without the failed append.
Abort(e) ==
  /\ host = "up"
  /\ pc[e] = "recorded" \/ (Kind[e] = "proof" /\ pc[e] = "leased")
  /\ os' \in Abandoned(pid[e])
  /\ ledger' \in LeaseDropped(e, os')
  /\ pc' = [pc EXCEPT ![e] = "failed"]
  /\ UNCHANGED <<born, used, pid, token, journal, failed, startup, fenced, open,
                 verdict, crashes, ghosts>>

\* wait or try_wait collects the exit status and frees the PID.
Reap(e) ==
  /\ host = "up"
  /\ pc[e] = "recorded" \/ (Kind[e] = "proof" /\ pc[e] = "leased")
  /\ os[pid[e]].st = "zombie"
  /\ os' = [os EXCEPT ![pid[e]] = Free]
  /\ pc' = [pc EXCEPT ![e] = "reaped"]
  /\ UNCHANGED <<born, used, pid, token, durable, failed, startup, fenced, open,
                 verdict, crashes, ghosts>>

\* An error while the output is drained, after the reap and before the guard
\* is disarmed: the guard signals a PID the host no longer owns.
AbortAfterReap(e) ==
  /\ host = "up"
  /\ pc[e] = "reaped" /\ Kind[e] # "session"
  /\ os' \in Killed(pid[e])
  /\ ledger' \in LeaseDropped(e, os')
  /\ pc' = [pc EXCEPT ![e] = "failed"]
  /\ UNCHANGED <<born, used, pid, token, journal, failed, startup, fenced, open,
                 verdict, crashes, ghosts>>

\* record_exited names a PID and closes the open spawn of that PID, if any.
Closed(p) ==
  [x \in Runs |-> IF OpenSpawn(x) /\ journal[x].pid = p
                  THEN [journal[x] EXCEPT !.exited = TRUE] ELSE journal[x]]

ExitRecord(p) ==
  \/ failed /\ UNCHANGED <<journal, failed>>
  \/ ~failed /\ journal' = Closed(p) /\ UNCHANGED failed
  \/ /\ Faults /\ ~failed /\ Closed(p) # journal
     /\ failed' = TRUE
     /\ journal' \in {journal, Closed(p)}

\* After the reap: confirm_reaped, then persist_process_exit.  A session
\* stays in the registry until it is stopped.
RecordExit(e) ==
  /\ host = "up"
  /\ pc[e] = "reaped"
  /\ IF Journals(e) THEN ExitRecord(pid[e]) ELSE UNCHANGED <<journal, failed>>
  /\ ledger' \in IF Leases(e)
                 THEN {Released(e)} \cup (IF Faults THEN {ledger} ELSE {})
                 ELSE {ledger}
  /\ pc' = [pc EXCEPT ![e] = IF Kind[e] = "session" THEN "exited" ELSE "done"]
  /\ UNCHANGED <<tables, pid, token, startup, fenced, open, verdict, crashes,
                 ghosts>>

\* Every later poll of an exited session records the exit of its PID again.
PollAgain(e) ==
  /\ host = "up"
  /\ pc[e] = "exited"
  /\ ExitRecord(pid[e])
  /\ UNCHANGED <<tables, tools, ledger, startup, fenced, open, verdict, crashes,
                 ghosts>>

\* stop (and shutdown) of an exited session: teardown_session signals the
\* group, takes the remembered status and records the exit of the PID.
StopExited(e) ==
  /\ host = "up"
  /\ pc[e] = "exited"
  /\ os' \in Killed(pid[e])
  /\ ExitRecord(pid[e])
  /\ pc' = [pc EXCEPT ![e] = "done"]
  /\ UNCHANGED <<born, used, pid, token, ledger, startup, fenced, open, verdict,
                 crashes, ghosts>>

\* Core records the tool's result; a session's start returns while it runs.
Settle(e) ==
  /\ host = "up"
  /\ e \in open
  /\ pc[e] \in {"done", "failed"} \/
     (Kind[e] = "session" /\ pc[e] \in {"recorded", "reaped", "exited"})
  /\ open' = open \ {e}
  /\ UNCHANGED <<tables, tools, durable, failed, startup, fenced, verdict, crashes,
                 ghosts>>

(***************************************************************************)
(* The host dies: the programs of the tools are gone, their children are   *)
(* not.  The host-death watchdog of process.rs may kill them, which is one *)
(* of the ways a process exits.                                            *)
(***************************************************************************)
Crash ==
  /\ host # "down" /\ crashes < MaxCrashes
  /\ crashes' = crashes + 1
  /\ host' = "down" /\ todo' = {} /\ kept' = {} /\ aim' = NoRow
  /\ pc' = [e \in Runs |-> IF pc[e] = "idle" THEN "idle" ELSE "lost"]
  /\ os' = [p \in Pids |-> IF os[p].st = "zombie" THEN Free ELSE os[p]]
  /\ UNCHANGED <<born, used, pid, token, durable, failed, fenced, open, verdict,
                 ghosts>>

(***************************************************************************)
(* Startup.  The composition root reconciles the ledger and refuses to     *)
(* start while a row is unresolved; then Core reconciles the operations    *)
(* that were open, and at last asks for the orphans.  Every stage inspects *)
(* a PID, compares identities, and signals only on a match.                *)
(***************************************************************************)
Restart ==
  /\ host = "down"
  /\ host' = "ledger" /\ todo' = ledger
  /\ failed' = FALSE /\ fenced' = FALSE
  /\ UNCHANGED <<tables, tools, durable, kept, aim, open, verdict, crashes, ghosts>>

\* inspect_process, compared with a recorded identity.
\* Mutant: a running PID is taken for the recorded child.
Inspect_PidOnly(r) == IF ~Running(r.pid) THEN {"exited"} ELSE {"match"}
Inspect(r) ==
  IF ~Running(r.pid) THEN {"exited"}
  ELSE (IF Faults THEN {"unverifiable"} ELSE {}) \cup
       {CASE r.token = None -> "unverifiable"
          [] r.token = os[r.pid].id -> "match"
          [] OTHER -> "mismatch"}

\* The signal, and the confirmation that the recorded process is gone.
Signal(r) ==
  /\ os' \in Killed(r.pid)
  /\ struck' = (struck \/ (Running(r.pid) /\ os[r.pid].id # r.token))

Alive(r, table) == table[r.pid].st = "running" /\ table[r.pid].id = r.token

\* reconcile_children, one row at a time.
LedgerVisit(r) ==
  /\ host = "ledger" /\ aim = NoRow /\ r \in todo
  /\ \E seen \in Inspect(r) :
       /\ aim' = IF seen = "match" THEN r ELSE NoRow
       /\ kept' = IF seen = "unverifiable" THEN kept \cup {r} ELSE kept
  /\ todo' = todo \ {r}
  /\ UNCHANGED <<tables, tools, durable, failed, host, fenced, open, verdict,
                 crashes, ghosts>>

LedgerSignal ==
  /\ host = "ledger" /\ aim # NoRow
  /\ Signal(aim)
  /\ kept' = IF Alive(aim, os') THEN kept \cup {aim} ELSE kept
  /\ aim' = NoRow
  /\ UNCHANGED <<born, used, tools, durable, failed, host, todo, fenced, open,
                 verdict, crashes, idOf, supervised>>

\* The rows that could not be resolved are kept, and block the workspace.
LedgerDone ==
  /\ host = "ledger" /\ aim = NoRow /\ todo = {}
  /\ \/ /\ ledger' = kept
        /\ IF kept = {} THEN host' = "reconcile" /\ todo' = open
                         ELSE host' = "down" /\ UNCHANGED todo
     \/ /\ Faults /\ ledger' \in {ledger, kept}
        /\ host' = "down" /\ UNCHANGED todo
  /\ kept' = {}
  /\ UNCHANGED <<tables, tools, journal, failed, aim, fenced, open, verdict, crashes,
                 ghosts>>

RowOf(e) == [pid |-> journal[e].pid, token |-> journal[e].token]

\* ProcessEffectJournal::reconcile for one operation that was open.
\* Mutant: a recorded exit is reported outside the reconciliation enum.
Judgement_Unmapped(e) ==
  IF OpenSpawn(e) THEN "Ambiguous" ELSE IF Recorded(e) THEN "Exited" ELSE "NotApplied"
Judgement(e) ==
  CASE ~Recorded(e) -> "NotApplied"
    [] OpenSpawn(e) -> "Ambiguous"
    [] OTHER        -> "CompletedValue"

ReconcileVisit(e) ==
  /\ host = "reconcile" /\ aim = NoRow /\ e \in todo
  /\ todo' = todo \ {e}
  /\ verdict' = [verdict EXCEPT ![e] = Judgement(e)]
  /\ fenced' = (fenced \/ Judgement(e) = "Ambiguous")
  /\ open' = IF Judgement(e) = "Ambiguous" THEN open ELSE open \ {e}
  /\ IF OpenSpawn(e)
     THEN \E seen \in Inspect(RowOf(e)) :
            aim' = IF seen = "match" THEN RowOf(e) ELSE NoRow
     ELSE UNCHANGED aim
  /\ UNCHANGED <<tables, tools, durable, failed, host, kept, crashes, ghosts>>

ReconcileSignal ==
  /\ host = "reconcile" /\ aim # NoRow
  /\ Signal(aim)
  /\ aim' = NoRow
  /\ UNCHANGED <<born, used, tools, durable, failed, host, todo, kept, fenced, open,
                 verdict, crashes, idOf, supervised>>

ReconcileDone ==
  /\ host = "reconcile" /\ aim = NoRow /\ todo = {}
  /\ host' = "orphans"
  /\ todo' = {e \in Runs : OpenSpawn(e)}
  /\ UNCHANGED <<tables, tools, durable, failed, kept, aim, fenced, open, verdict,
                 crashes, ghosts>>

\* recover_orphans stops at the first process it cannot verify or confirm
\* dead, and Core then refuses new work.
\* Mutant: an orphan that cannot be verified is passed over.
Uncontained_Ignored == UNCHANGED <<host, todo, fenced>>
Uncontained == host' = "up" /\ todo' = {} /\ fenced' = TRUE

OrphanVisit(e) ==
  /\ host = "orphans" /\ aim = NoRow /\ e \in todo
  /\ \E seen \in Inspect(RowOf(e)) :
       /\ aim' = IF seen = "match" THEN RowOf(e) ELSE NoRow
       /\ IF seen = "unverifiable" THEN Uncontained
          ELSE todo' = todo \ {e} /\ UNCHANGED <<host, fenced>>
  /\ UNCHANGED <<tables, tools, durable, failed, kept, open, verdict, crashes,
                 ghosts>>

OrphanSignal ==
  /\ host = "orphans" /\ aim # NoRow
  /\ Signal(aim)
  /\ IF Alive(aim, os') THEN Uncontained ELSE UNCHANGED <<host, todo, fenced>>
  /\ aim' = NoRow
  /\ UNCHANGED <<born, used, tools, durable, failed, kept, open, verdict, crashes,
                 idOf, supervised>>

OrphansDone ==
  /\ host = "orphans" /\ aim = NoRow /\ todo = {}
  /\ host' = "up"
  /\ UNCHANGED <<tables, tools, durable, failed, todo, kept, aim, fenced, open,
                 verdict, crashes, ghosts>>

-----------------------------------------------------------------------------
Init ==
  /\ os = [p \in Pids |-> Free] /\ born = 0 /\ used = {}
  /\ pc = [e \in Runs |-> "idle"]
  /\ pid = [e \in Runs |-> NoPid]
  /\ token = [e \in Runs |-> None]
  /\ journal = [e \in Runs |-> NoEvidence] /\ failed = FALSE
  /\ ledger = {}
  /\ host = "up" /\ todo = {} /\ kept = {} /\ aim = NoRow
  /\ fenced = FALSE /\ open = {}
  /\ verdict = [e \in Runs |-> "none"]
  /\ crashes = 0
  /\ idOf = [e \in Runs |-> None] /\ supervised = {} /\ struck = FALSE

Next ==
  \/ \E p \in Pids : ForeignStart(p) \/ ProcessExits(p)
  \/ \E e \in Runs : \E p \in Pids : Spawn(e, p)
  \/ \E e \in Runs :
       \/ Admit(e) \/ Lease(e) \/ LeaseFails(e)
       \/ RecordSpawn(e) \/ RecordSpawnFails(e)
       \/ Abort(e) \/ Reap(e) \/ AbortAfterReap(e) \/ RecordExit(e)
       \/ PollAgain(e) \/ StopExited(e) \/ Settle(e)
       \/ ReconcileVisit(e) \/ OrphanVisit(e)
  \/ \E r \in ledger : LedgerVisit(r)
  \/ Crash \/ Restart
  \/ LedgerSignal \/ LedgerDone
  \/ ReconcileSignal \/ ReconcileDone
  \/ OrphanSignal \/ OrphansDone

Spec == Init /\ [][Next]_vars

-----------------------------------------------------------------------------
Rows == [pid : Pids, token : 0..MaxBorn]
Phases == {"idle", "admitted", "spawned", "leased", "recorded", "reaped",
           "exited", "done", "failed", "lost"}

\* The type of the state.
TypeOK ==
  /\ os \in [Pids -> [st : {"free", "running", "zombie"}, id : 0..MaxBorn,
                      by : Runs \cup {"foreign", "nobody"}]]
  /\ born \in 0..MaxBorn /\ used \subseteq Pids
  /\ pc \in [Runs -> Phases]
  /\ pid \in [Runs -> Pids \cup {NoPid}]
  /\ token \in [Runs -> 0..MaxBorn]
  /\ journal \in [Runs -> [pid : Pids \cup {NoPid}, token : 0..MaxBorn,
                           exited : BOOLEAN]]
  /\ failed \in BOOLEAN /\ fenced \in BOOLEAN
  /\ ledger \subseteq Rows /\ kept \subseteq ledger
  /\ host \in {"up", "down", "ledger", "reconcile", "orphans"}
  /\ todo \subseteq ledger \/ todo \subseteq Runs
  /\ aim \in Rows \cup {NoRow}
  /\ open \subseteq Runs
  /\ verdict \in [Runs -> {"none", "NotApplied", "CompletedValue", "Ambiguous"}]
  /\ crashes \in 0..MaxCrashes

\* The process an invocation created is still running.
ChildRuns(e) == idOf[e] # None /\ \E p \in Pids : Running(p) /\ os[p].id = idOf[e]

\* Another invocation's session had the child's PID: the one reader of a PID
\* that outlives its child (persist_process_exit in every later poll).
StaleSession(e) ==
  \E s \in Runs \ {e} : Kind[s] = "session" /\ idOf[s] # None /\ pid[s] = pid[e]

\* The ledger or the journal holds the child's creation identity.
Identified(e) == token[e] # None \/ journal[e].token # None

\* Exits are recorded by PID and PIDs come back: an exit in the journal is the
\* exit of that invocation's own child, so CompletedValue, which Core takes as
\* the end of the operation, is never said of a live process.  The polls of a
\* finished session are the only thing in the code that breaks it: reused
\* PIDs, lost leases, failed records and crashes do not.
ExitIsItsOwnButSessions ==
  \A e \in Runs : journal[e].exited /\ ChildRuns(e) => StaleSession(e)

\* Once the host is up again and accepts work, no child of an earlier host
\* that had been recorded in the journal or in the ledger is still running
\* (unless a session closed its record, or it had no creation identity and
\* shared its row with another): startup either saw it dead or refuses work.
NoSupervisedLeftover ==
  host = "up" /\ ~fenced =>
    \A e \in supervised : pc[e] = "lost" /\ Identified(e) /\ ~StaleSession(e) => ~ChildRuns(e)

\* While the host runs, a live child that was leased has its row in the ledger,
\* whatever rows of other children with the same PID came and went.  (Rows
\* without a creation identity are shared by PID, and so are their releases.)
LeaseCoversChild ==
  \A e \in Runs :
    /\ Leases(e) /\ host = "up" /\ pc[e] \in {"leased", "recorded"}
    /\ ChildRuns(e) /\ token[e] # None
    => [pid |-> pid[e], token |-> token[e]] \in ledger

\* Recovery never signals a process other than the recorded child: a reused
\* PID is left alone.
RecoverySparesOthers == ~struck

\* "process never spawned" is said only of an invocation that never created
\* a process.
NotAppliedNeverRan == \A e \in Runs : verdict[e] = "NotApplied" => idOf[e] = None
=============================================================================
