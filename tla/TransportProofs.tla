---------------------------- MODULE TransportProofs ----------------------------
(***************************************************************************)
(* What the two transports of a session promise, proved for every value of *)
(* their constants.                                                        *)
(*                                                                         *)
(* A PTY endpoint (pty/launch.rs, pty/supervisor.rs, pty/meta.rs): a       *)
(* launch that fails leaves no process, a termination that succeeds has    *)
(* ended both, and no stranger is signalled.  All of it comes down to one  *)
(* fact: a supervisor that does not crash dies childless.  Its own exit    *)
(* follows the reaping of its child, the rollback stops it before it looks *)
(* for the child, and the termination ends a child it knows to be the only *)
(* one before it signals the parent.                                       *)
(*                                                                         *)
(* An RPC child (rpc_harness/): one turn runs at a time, and a delivery    *)
(* ends with what became of its own turn.  An id stands for one request on *)
(* its way to one delivery; there is one observer, and whatever turn runs  *)
(* is the observer's; and a notice that a turn has ended is on the wire    *)
(* before any snapshot that shows its end.                                 *)
(***************************************************************************)
EXTENDS PtyOwnership, RpcHarness, FiniteSetTheorems, TLAPS

-----------------------------------------------------------------------------
(* The PTY endpoint: its invariant.                                         *)

\* What a process id may stand for.
Whos == {"free", "sup", "child", "other"}
\* The process table.
Tables == [Pids -> [who : Whos, st : {"run", "stopped", "zombie"}]]
\* The launch metadata.
Files == [st : {"none", "torn", "whole"}, child : SUBSET Pids]
\* Who launches.
Launchers ==
    [pc : {"idle", "write", "fill", "wait", "roll", "discover", "child", "kill", "reap",
           "failed", "ok"},
     sup : SUBSET Pids, child : SUBSET Pids]
\* Who terminates.
Killers ==
    [pc : {"idle", "verify", "child", "hup", "waitchild", "term", "waitsup", "done"},
     child : SUBSET Pids, result : {"none", "missing", "refused", "terminated"}]
\* The supervisor's states while it runs.
Up == {"boot", "spawned", "ready", "reaped"}

\* p runs, or is stopped, as the child of the supervisor.
LiveChild(p) == Is(p, "child") /\ table[p].st # "zombie"

\* The types; a file that names a child is whole.
Typed ==
    /\ table \in Tables /\ file \in Files /\ launcher \in Launchers /\ killer \in Killers
    /\ super \in Up \cup {"none", "dead"} /\ swapped \in BOOLEAN /\ crashed \in BOOLEAN
    /\ file.child # {} => file.st = "whole"
    /\ others \in 0..MaxOthers /\ ofaults \in 0..OMaxFaults

\* The launcher's id is the supervisor's until the launcher has waited for it.
Supervisors ==
    /\ launcher.pc # "idle" => \E s \in Pids : Sup = {s}
    /\ launcher.pc = "idle" => Sup = {} /\ super = "none"
    /\ super = "none" => launcher.pc = "idle"
    /\ \A p \in Pids : Is(p, "sup") => p \in Sup
    /\ \A p \in Sup : ~Is(p, "child")
    /\ launcher.pc \notin {"ok", "failed"} => \A p \in Sup : Is(p, "sup")
    /\ super \in Up => \E p \in Sup : Is(p, "sup") /\ table[p].st # "zombie"
    /\ super = "dead" => \A p \in Pids : Is(p, "sup") => table[p].st = "zombie"
    /\ killer.pc # "idle" => launcher.pc = "ok"

\* A supervisor has one child in its life, and dies childless unless it crashes.
Children ==
    /\ \A p, q \in Pids : Is(p, "child") /\ Is(q, "child") => p = q
    /\ super \in {"none", "boot", "reaped"} => \A p \in Pids : ~Is(p, "child")
    /\ super = "dead" /\ ~crashed => \A p \in Pids : ~LiveChild(p)

\* From the moment the supervisor is stopped no child appears.
RollingBack ==
    /\ launcher.pc \in {"discover", "child", "kill"} => \A p \in Sup : table[p].st # "run"
    /\ launcher.pc = "child" => \A p \in Pids : LiveChild(p) => p \in launcher.child
    /\ launcher.pc = "kill" => \A p \in Pids : ~LiveChild(p)
    /\ launcher.pc \in {"reap", "failed"} => super = "dead"
    /\ launcher.pc = "failed" => file = NoFile

\* The child under termination is the only one there will be.
Terminating ==
    /\ killer.pc \in {"hup", "waitchild", "term", "waitsup"} => super \notin {"none", "boot"}
    /\ killer.pc \in {"hup", "waitchild"} =>
         /\ \A c, d \in killer.child : c = d
         /\ \A c \in killer.child : ~Is(c, "sup")
         /\ \A p \in Pids : LiveChild(p) => p \in killer.child
    /\ killer.pc \in {"term", "waitsup"} => \A p \in Pids : ~LiveChild(p)
    /\ killer.result = "terminated" => killer.pc = "done" /\ super = "dead"

\* The ids under termination are nobody else's while none was given away.
OwnIds ==
    /\ struck # {} => swapped
    /\ killer.pc \in {"child", "hup", "waitchild", "term", "waitsup"} /\ ~swapped =>
         \A p \in Sup : ~Is(p, "other")
    /\ killer.pc \in {"hup", "waitchild"} /\ ~swapped =>
         \A c \in killer.child : ~Is(c, "other")

\* The inductive invariant.
PtyInv == Typed /\ Supervisors /\ Children /\ RollingBack /\ Terminating /\ OwnIds

-----------------------------------------------------------------------------
(* The process table.                                                       *)

\* What a process table becomes when the processes of S die: they are zombies, and a
\* dead child may be gone.
Ended(t, u, S) ==
    /\ u \in Tables
    /\ \A q \in Pids :
         \/ u[q] = t[q] /\ q \notin S
         \/ q \in S /\ u[q] = [who |-> t[q].who, st |-> "zombie"]
         \/ t[q].who = "child" /\ (q \in S \/ t[q].st = "zombie") /\ u[q] = FreePid

\* Reaping frees dead children only.
LEMMA ReapedTable ==
    ASSUME NEW t \in Tables
    PROVE  Ended(t, Reaped(t), {p \in Pids : t[p].st = "zombie"})
BY DEF Ended, Reaped, Tables, Whos, FreePid

\* A process that dies is a zombie or gone, and nothing else changes.
LEMMA Died ==
    ASSUME Typed, NEW p \in Pids
    PROVE  Ended(table, Dies(p), {p})
<1> DEFINE t == [table EXCEPT ![p].st = "zombie"]
<1>1. t \in Tables /\ \A q \in Pids : t[q] = IF q = p THEN [who |-> table[p].who, st |-> "zombie"]
                                                      ELSE table[q]
  BY DEF Typed, Tables, Whos
<1>2. Ended(t, Reaped(t), {q \in Pids : t[q].st = "zombie"})
  BY <1>1, ReapedTable
<1>3. Dies(p) = Reaped(t)
  BY DEF Dies
<1> HIDE DEF t
<1>4. table \in Tables
  BY DEF Typed
<1> QED
  BY <1>1, <1>2, <1>3, <1>4 DEF Ended, Tables, FreePid

\* What every step needs to know of such a table.
Fades(S) ==
    /\ table' \in Tables
    /\ \A q \in Pids : /\ \A w \in {"sup", "child", "other"} : Is(q, w)' => Is(q, w)
                       /\ LiveChild(q)' => LiveChild(q) /\ q \notin S
    /\ \A q \in Pids : ~Is(q, "child") =>
         /\ table'[q].who = table[q].who
         /\ q \notin S => table'[q] = table[q]
         /\ q \in S => table'[q].st = "zombie"

\* Who has ended leaves its part, and nobody takes one.
LEMMA EndedFades ==
    ASSUME Typed, NEW S, Ended(table, table', S)
    PROVE  Fades(S)
BY DEF Typed, Ended, Fades, Is, LiveChild, Tables, Whos, FreePid

\* So does who dies.
LEMMA DiesFades ==
    ASSUME Typed
    PROVE  \A p \in Pids : table' = Dies(p) => Fades({p})
BY Died, EndedFades

\* The rollback kills the child it found, if the id is still the child's.
LEMMA RolledBack ==
    ASSUME Typed, RollbackChild
    PROVE  Fades({p \in launcher.child : Is(p, "child")})
<1> DEFINE C == {p \in launcher.child : Is(p, "child")}
           t == [p \in Pids |-> IF p \in launcher.child /\ Is(p, "child")
                                THEN [table[p] EXCEPT !.st = "zombie"] ELSE table[p]]
<1>1. t \in Tables /\ \A q \in Pids : t[q] = IF q \in C THEN [who |-> "child", st |-> "zombie"]
                                                      ELSE table[q]
  BY DEF Typed, Tables, Whos, Is
<1>2. Ended(t, Reaped(t), {q \in Pids : t[q].st = "zombie"})
  BY <1>1, ReapedTable
<1>3. table' = Reaped(t)
  BY DEF RollbackChild
<1>4. table \in Tables /\ C \subseteq Pids /\ \A q \in C : table[q].who = "child"
  BY DEF Typed, Is, Launchers
<1> HIDE DEF t, C
<1>5. Ended(table, table', C)
  BY <1>1, <1>2, <1>3, <1>4 DEF Ended, Tables, FreePid
<1> QED
  BY <1>5, EndedFades DEF C

\* When nothing runs under the supervisor's id the supervisor is dead.
LEMMA NotRunning ==
    ASSUME PtyInv, launcher.pc = "ok", NEW p \in Sup, ~process_running(p)
    PROVE  super = "dead"
<1>1. Sup = {p} /\ super # "none" /\ super \in Up \cup {"none", "dead"}
  BY DEF PtyInv, Typed, Supervisors
<1>2. super \notin Up
  BY <1>1 DEF PtyInv, Supervisors, process_running, Is
<1> QED
  BY <1>1, <1>2

\* A set without two elements.
LEMMA OneAtMost ==
    ASSUME NEW S, \A p, q \in S : p = q
    PROVE  Cardinality(S) <= 1
<1>1. CASE S = {}
  BY <1>1, FS_EmptySet
<1>2. CASE S # {}
  <2>1. PICK p \in S : S = {p}
    BY <1>2
  <2>2. Cardinality({p}) = 1
    BY FS_Singleton
  <2> QED
    BY <2>1, <2>2
<1> QED
  BY <1>1, <1>2


-----------------------------------------------------------------------------
(* The launcher.                                                            *)

\* The supervisor gets a free id: whatever runs under it is the launcher's own.
LEMMA LaunchSpawns ==
    ASSUME PtyInv, spawn_session_with_executable
    PROVE  PtyInv'
<1>1. Typed'
  <2>1. table' \in Tables
    BY DEF PtyInv, Typed, spawn_session_with_executable, Is, Free, Tables, Whos
  <2>2. launcher' \in Launchers
    <3>1. PICK p \in Free : launcher' = [launcher EXCEPT !.pc = "write", !.sup = {p}]
      BY DEF spawn_session_with_executable
    <3> QED
      BY <3>1 DEF PtyInv, Typed, Launchers, Free
  <2>3. killer' \in Killers
    BY DEF PtyInv, Typed, spawn_session_with_executable, Is, Free, Killers
  <2>4. file' \in Files /\ (file.child # {} => file.st = "whole")'
    BY DEF PtyInv, Typed, spawn_session_with_executable, Is, Free, Files
  <2>5. /\ super' \in Up \cup {"none", "dead"}
       /\ swapped' \in BOOLEAN /\ crashed' \in BOOLEAN
    BY DEF PtyInv, Typed, spawn_session_with_executable, Is, Free, Up
  <2>6. others' \in 0..MaxOthers /\ ofaults' \in 0..OMaxFaults
    BY OwnershipBounds DEF PtyInv, Typed, spawn_session_with_executable, Is, Free
  <2> QED
    BY <2>1, <2>2, <2>3, <2>4, <2>5, <2>6 DEF Typed
<1>2. Supervisors'
  BY DEF PtyInv, Typed, Supervisors, spawn_session_with_executable, Is, Free, Sup, Up,
     Tables, Whos, Files, Launchers, Killers
<1>3. Children'
  BY DEF PtyInv, Typed, Supervisors, Children, RollingBack, Terminating, OwnIds,
     spawn_session_with_executable, Is, Free, Sup, LiveChild, NoFile, Up, Tables, Whos,
     Files, Launchers, Killers
<1>4. RollingBack'
  BY DEF PtyInv, Typed, RollingBack, spawn_session_with_executable, Is, Free, Sup, LiveChild,
     NoFile, Up, Tables, Whos, Files, Launchers, Killers
<1>5. Terminating'
  BY DEF PtyInv, Typed, Supervisors, Children, RollingBack, Terminating, OwnIds,
     spawn_session_with_executable, Is, Free, Sup, LiveChild, NoFile, Up, Tables, Whos,
     Files, Launchers, Killers
<1>6. OwnIds'
  BY DEF PtyInv, Typed, OwnIds, spawn_session_with_executable, Is, Free, Sup, Up, Tables,
     Whos, Files, Launchers, Killers
<1> QED
  BY <1>1, <1>2, <1>3, <1>4, <1>5, <1>6 DEF PtyInv

\* write_metadata: the file is torn, then whole.
LEMMA MetadataWritten ==
    ASSUME PtyInv, NEW ok \in BOOLEAN, write_metadata(ok)
    PROVE  PtyInv'
<1>1. Typed'
  BY OwnershipBounds DEF PtyInv, Typed, write_metadata, OFault, Up, Tables, Whos, Files,
     Launchers, Killers
<1>2. Supervisors'
  BY DEF PtyInv, Typed, Supervisors, write_metadata, Is, Sup, OFault, Up, Tables, Whos,
     Files, Launchers, Killers
<1>3. Children'
  BY DEF PtyInv, Typed, Children, write_metadata, Is, LiveChild, OFault, Up, Tables, Whos,
     Files, Launchers, Killers
<1>4. RollingBack'
  BY DEF PtyInv, Typed, RollingBack, write_metadata, Is, Sup, LiveChild, OFault, NoFile, Up,
     Tables, Whos, Files, Launchers, Killers
<1>5. Terminating'
  BY DEF PtyInv, Typed, Terminating, write_metadata, Is, LiveChild, OFault, Up, Tables, Whos,
     Files, Launchers, Killers
<1>6. OwnIds'
  BY DEF PtyInv, Typed, OwnIds, write_metadata, Is, Sup, OFault, Up, Tables, Whos, Files,
     Launchers, Killers
<1> QED
  BY <1>1, <1>2, <1>3, <1>4, <1>5, <1>6 DEF PtyInv

\* The wait for readiness ends.
LEMMA LaunchWaits ==
    ASSUME PtyInv, wait_until_ready
    PROVE  PtyInv'
<1>1. Typed'
  BY OwnershipBounds DEF PtyInv, Typed, wait_until_ready, Is, process_running, Live, OFault,
     Up, Tables, Whos, Files, Launchers, Killers
<1>2. Supervisors'
  BY DEF PtyInv, Typed, Supervisors, wait_until_ready, Is, process_running, Live, Sup,
     OFault, Up, Tables, Whos, Files, Launchers, Killers
<1>3. Children'
  BY DEF PtyInv, Typed, Children, wait_until_ready, Is, process_running, Live, LiveChild,
     OFault, Up, Tables, Whos, Files, Launchers, Killers
<1>4. RollingBack'
  BY DEF PtyInv, Typed, RollingBack, wait_until_ready, Is, process_running, Live, Sup,
     LiveChild, OFault, NoFile, Up, Tables, Whos, Files, Launchers, Killers
<1>5. Terminating'
  BY DEF PtyInv, Typed, Terminating, wait_until_ready, Is, process_running, Live, LiveChild,
     OFault, Up, Tables, Whos, Files, Launchers, Killers
<1>6. OwnIds'
  BY DEF PtyInv, Typed, OwnIds, wait_until_ready, Is, process_running, Live, Sup, OFault, Up,
     Tables, Whos, Files, Launchers, Killers
<1> QED
  BY <1>1, <1>2, <1>3, <1>4, <1>5, <1>6 DEF PtyInv

\* A supervisor that is gone is reaped at once; a live one is stopped first.
LEMMA RollbackStarts ==
    ASSUME PtyInv, rollback_spawned_supervisor
    PROVE  PtyInv'
<1>1. Typed'
  BY OwnershipBounds DEF PtyInv, Typed, rollback_spawned_supervisor, Is, process_running,
     Live, Sup, Up, Tables, Whos, Files, Launchers, Killers, StopSupervisor
<1>2. Supervisors'
  BY DEF PtyInv, Typed, Supervisors, rollback_spawned_supervisor, Is, process_running, Live,
     Sup, Up, Tables, Whos, Files, Launchers, Killers, StopSupervisor
<1>3. Children'
  BY DEF PtyInv, Typed, Supervisors, Children, RollingBack, Terminating, OwnIds,
     rollback_spawned_supervisor, Is, process_running, Live, Sup, LiveChild, NoFile, Up,
     Tables, Whos, Files, Launchers, Killers, StopSupervisor
<1>4. RollingBack'
  BY DEF PtyInv, Typed, Supervisors, Children, RollingBack, Terminating, OwnIds,
     rollback_spawned_supervisor, Is, process_running, Live, Sup, LiveChild, NoFile, Up,
     Tables, Whos, Files, Launchers, Killers, StopSupervisor
<1>5. Terminating'
  BY DEF PtyInv, Typed, Supervisors, Children, RollingBack, Terminating, OwnIds,
     rollback_spawned_supervisor, Is, process_running, Live, Sup, LiveChild, NoFile, Up,
     Tables, Whos, Files, Launchers, Killers, StopSupervisor
<1>6. OwnIds'
  BY DEF PtyInv, Typed, OwnIds, rollback_spawned_supervisor, Is, process_running, Live, Sup,
     Up, Tables, Whos, Files, Launchers, Killers, StopSupervisor
<1> QED
  BY <1>1, <1>2, <1>3, <1>4, <1>5, <1>6 DEF PtyInv

\* What is found is all there is: the parent is stopped.
LEMMA RollbackDiscovers ==
    ASSUME PtyInv, discover_owned_child
    PROVE  PtyInv'
<1>1. Typed'
  BY ZenonT(60), OwnershipBounds
     DEF PtyInv, Typed, discover_owned_child, Is, process_running, Live, Up,
     Tables, Whos, Files, Launchers, Killers
<1>2. Supervisors'
  BY DEF PtyInv, Typed, Supervisors, discover_owned_child, Is, process_running, Live, Sup,
     Up, Tables, Whos, Files, Launchers, Killers
<1>3. Children'
  BY DEF PtyInv, Typed, Children, discover_owned_child, Is, process_running, Live, LiveChild,
     Up, Tables, Whos, Files, Launchers, Killers
<1>4. RollingBack'
  BY DEF PtyInv, Typed, RollingBack, discover_owned_child, Is, process_running, Live, Sup,
     LiveChild, NoFile, Up, Tables, Whos, Files, Launchers, Killers
<1>5. Terminating'
  BY DEF PtyInv, Typed, Terminating, discover_owned_child, Is, process_running, Live,
     LiveChild, Up, Tables, Whos, Files, Launchers, Killers
<1>6. OwnIds'
  BY DEF PtyInv, Typed, OwnIds, discover_owned_child, Is, process_running, Live, Sup, Up,
     Tables, Whos, Files, Launchers, Killers
<1> QED
  BY <1>1, <1>2, <1>3, <1>4, <1>5, <1>6 DEF PtyInv

\* The rollback ends the child it has found.
LEMMA RollbackKillsChild ==
    ASSUME PtyInv, RollbackChild
    PROVE  PtyInv'
<1>0. Fades({p \in launcher.child : Is(p, "child")})
  BY RolledBack DEF PtyInv
<1>1. Typed'
  BY SMTT(30), <1>0, OwnershipBounds
     DEF PtyInv, Typed, RollbackChild, Is, LiveChild, Up, Tables, Whos,
     Files, Launchers, Killers, Fades
<1>2. Supervisors'
  <2>1. (launcher.pc # "idle" => \E s \in Pids : Sup = {s})'
    BY <1>0 DEF PtyInv, Typed, Supervisors, Children, RollbackChild, Is, Sup, Up, Tables,
       Whos, Launchers, Killers, Fades
  <2>2. (launcher.pc = "idle" => Sup = {} /\ super = "none")'
    BY <1>0 DEF PtyInv, Typed, Supervisors, Children, RollbackChild, Is, Sup, Up, Tables,
       Whos, Launchers, Killers, Fades
  <2>3. (super = "none" => launcher.pc = "idle")'
    BY <1>0 DEF PtyInv, Typed, Supervisors, Children, RollbackChild, Is, Sup, Up, Tables,
       Whos, Launchers, Killers, Fades
  <2>4. (\A p \in Pids : Is(p, "sup") => p \in Sup)'
    BY <1>0 DEF PtyInv, Typed, Supervisors, Children, RollbackChild, Is, Sup, Up, Tables,
       Whos, Launchers, Killers, Fades
  <2>5. (\A p \in Sup : ~Is(p, "child"))'
    BY <1>0 DEF PtyInv, Typed, Supervisors, Children, RollbackChild, Is, Sup, Up, Tables,
       Whos, Launchers, Killers, Fades
  <2>6. (launcher.pc \notin {"ok", "failed"} => \A p \in Sup : Is(p, "sup"))'
    BY <1>0 DEF PtyInv, Typed, Supervisors, Children, RollbackChild, Is, Sup, Up, Tables,
       Whos, Launchers, Killers, Fades
  <2>7. (super \in Up => \E p \in Sup : Is(p, "sup") /\ table[p].st # "zombie")'
    BY <1>0 DEF PtyInv, Typed, Supervisors, Children, RollbackChild, Is, Sup, Up, Tables,
       Whos, Launchers, Killers, Fades
  <2>8. (super = "dead" => \A p \in Pids : Is(p, "sup") => table[p].st = "zombie")'
    BY <1>0 DEF PtyInv, Typed, Supervisors, Children, RollbackChild, Is, Sup, Up, Tables,
       Whos, Launchers, Killers, Fades
  <2>9. (killer.pc # "idle" => launcher.pc = "ok")'
    BY <1>0 DEF PtyInv, Typed, Supervisors, Children, RollbackChild, Is, Sup, Up, Tables,
       Whos, Launchers, Killers, Fades
  <2> QED
    BY <2>1, <2>2, <2>3, <2>4, <2>5, <2>6, <2>7, <2>8, <2>9 DEF Supervisors
<1>3. Children'
  BY <1>0 DEF PtyInv, Typed, Children, RollbackChild, Is, LiveChild, Up, Tables, Whos, Files,
     Launchers, Killers, Fades
<1>4. RollingBack'
  BY <1>0 DEF PtyInv, Typed, Supervisors, Children, RollingBack, Terminating, OwnIds,
     RollbackChild, Is, Sup, LiveChild, NoFile, Up, Tables, Whos, Files, Launchers, Killers,
     Fades
<1>5. Terminating'
  BY <1>0 DEF PtyInv, Typed, Terminating, RollbackChild, Is, LiveChild, Up, Tables, Whos,
     Files, Launchers, Killers, Fades
<1>6. OwnIds'
  BY <1>0 DEF PtyInv, Typed, OwnIds, RollbackChild, Is, Sup, LiveChild, Up, Tables, Whos,
     Files, Launchers, Killers, Fades
<1> QED
  BY <1>1, <1>2, <1>3, <1>4, <1>5, <1>6 DEF PtyInv

\* The supervisor is killed after its child, and so dies childless.
LEMMA RollbackKillsSupervisor ==
    ASSUME PtyInv, RollbackSupervisor
    PROVE  PtyInv'
<1>0. \A p \in Pids : table' = Dies(p) => Fades({p})
  BY DiesFades DEF PtyInv
<1>1. Typed'
  BY <1>0, OwnershipBounds DEF PtyInv, Typed, RollbackSupervisor, Is, Sup, LiveChild, Up,
     Tables, Whos, Files, Launchers, Killers, Fades
<1>2. Supervisors'
  BY <1>0 DEF PtyInv, Typed, Supervisors, RollbackSupervisor, Is, Sup, LiveChild, Up, Tables,
     Whos, Files, Launchers, Killers, Fades
<1>3. Children'
  BY <1>0 DEF PtyInv, Typed, Supervisors, Children, RollingBack, Terminating, OwnIds,
     RollbackSupervisor, Is, Sup, LiveChild, NoFile, Up, Tables, Whos, Files, Launchers,
     Killers, Fades
<1>4. RollingBack'
  BY <1>0 DEF PtyInv, Typed, RollingBack, RollbackSupervisor, Is, Sup, LiveChild, NoFile, Up,
     Tables, Whos, Files, Launchers, Killers, Fades
<1>5. Terminating'
  BY <1>0 DEF PtyInv, Typed, Terminating, RollbackSupervisor, Is, Sup, LiveChild, Up, Tables,
     Whos, Files, Launchers, Killers, Fades
<1>6. OwnIds'
  BY <1>0 DEF PtyInv, Typed, OwnIds, RollbackSupervisor, Is, Sup, LiveChild, Up, Tables,
     Whos, Files, Launchers, Killers, Fades
<1> QED
  BY <1>1, <1>2, <1>3, <1>4, <1>5, <1>6 DEF PtyInv

\* And it is over when the supervisor is reaped.
LEMMA RollbackEnds ==
    ASSUME PtyInv, cleanup_failed_launch
    PROVE  PtyInv'
<1>1. Typed'
  BY OwnershipBounds DEF PtyInv, Typed, cleanup_failed_launch, Sup, NoFile, FreePid, Up,
     Tables, Whos, Files, Launchers, Killers
<1>2. Supervisors'
  BY DEF PtyInv, Typed, Supervisors, Children, RollingBack, Terminating, OwnIds,
     cleanup_failed_launch, Is, Sup, LiveChild, NoFile, FreePid, Up, Tables, Whos, Files,
     Launchers, Killers
<1>3. Children'
  BY DEF PtyInv, Typed, Children, cleanup_failed_launch, Is, Sup, LiveChild, NoFile, FreePid,
     Up, Tables, Whos, Files, Launchers, Killers
<1>4. RollingBack'
  BY DEF PtyInv, Typed, RollingBack, cleanup_failed_launch, Is, Sup, LiveChild, NoFile,
     FreePid, Up, Tables, Whos, Files, Launchers, Killers
<1>5. Terminating'
  BY DEF PtyInv, Typed, Terminating, cleanup_failed_launch, Is, Sup, LiveChild, NoFile,
     FreePid, Up, Tables, Whos, Files, Launchers, Killers
<1>6. OwnIds'
  BY DEF PtyInv, Typed, OwnIds, cleanup_failed_launch, Is, Sup, NoFile, FreePid, Up, Tables,
     Whos, Files, Launchers, Killers
<1> QED
  BY <1>1, <1>2, <1>3, <1>4, <1>5, <1>6 DEF PtyInv

\* The launcher reaps a supervisor that is gone.
LEMMA SupervisorReaped ==
    ASSUME PtyInv, ReapSupervisor
    PROVE  PtyInv'
<1>1. Typed'
  BY OwnershipBounds DEF PtyInv, Typed, ReapSupervisor, Is, Sup, FreePid, Up, Tables, Whos,
     Files, Launchers, Killers
<1>2. Supervisors'
  BY DEF PtyInv, Typed, Supervisors, ReapSupervisor, Is, Sup, FreePid, Up, Tables, Whos,
     Files, Launchers, Killers
<1>3. Children'
  BY DEF PtyInv, Typed, Children, ReapSupervisor, Is, Sup, LiveChild, FreePid, Up, Tables,
     Whos, Files, Launchers, Killers
<1>4. RollingBack'
  BY DEF PtyInv, Typed, RollingBack, ReapSupervisor, Is, Sup, LiveChild, NoFile, FreePid, Up,
     Tables, Whos, Files, Launchers, Killers
<1>5. Terminating'
  BY DEF PtyInv, Typed, Terminating, ReapSupervisor, Is, Sup, LiveChild, FreePid, Up, Tables,
     Whos, Files, Launchers, Killers
<1>6. OwnIds'
  BY DEF PtyInv, Typed, OwnIds, ReapSupervisor, Is, Sup, FreePid, Up, Tables, Whos, Files,
     Launchers, Killers
<1> QED
  BY <1>1, <1>2, <1>3, <1>4, <1>5, <1>6 DEF PtyInv

-----------------------------------------------------------------------------
(* The supervisor and the system.                                           *)

\* The only child: the supervisor was just booted, and nobody stopped it.
LEMMA ChildSpawned ==
    ASSUME PtyInv, SpawnChild
    PROVE  PtyInv'
<1>1. Typed'
  BY OwnershipBounds DEF PtyInv, Typed, SpawnChild, Is, Free, Sup, Up, Tables, Whos, Files,
     Launchers, Killers, SupRuns
<1>2. Supervisors'
  BY DEF PtyInv, Typed, Supervisors, SpawnChild, Is, Free, Sup, Up, Tables, Whos, Files,
     Launchers, Killers, SupRuns
<1>3. Children'
  BY DEF PtyInv, Typed, Children, SpawnChild, Is, Free, Sup, LiveChild, Up, Tables, Whos,
     Files, Launchers, Killers, SupRuns
<1>4. RollingBack'
  BY DEF PtyInv, Typed, RollingBack, SpawnChild, Is, Free, Sup, LiveChild, NoFile, Up,
     Tables, Whos, Files, Launchers, Killers, SupRuns
<1>5. Terminating'
  BY DEF PtyInv, Typed, Terminating, SpawnChild, Is, Free, Sup, LiveChild, Up, Tables, Whos,
     Files, Launchers, Killers, SupRuns
<1>6. OwnIds'
  BY DEF PtyInv, Typed, OwnIds, SpawnChild, Is, Free, Sup, Up, Tables, Whos, Files,
     Launchers, Killers, SupRuns
<1> QED
  BY <1>1, <1>2, <1>3, <1>4, <1>5, <1>6 DEF PtyInv

\* The supervisor records its child.
LEMMA ChildRecorded ==
    ASSUME PtyInv, record_child_pid
    PROVE  PtyInv'
<1>1. Typed'
  BY OwnershipBounds DEF PtyInv, Typed, record_child_pid, Is, Sup, Up, Tables, Whos, Files,
     Launchers, Killers, SupRuns
<1>2. Supervisors'
  BY DEF PtyInv, Typed, Supervisors, record_child_pid, Is, Sup, Up, Tables, Whos, Files,
     Launchers, Killers, SupRuns
<1>3. Children'
  BY DEF PtyInv, Typed, Children, record_child_pid, Is, Sup, LiveChild, Up, Tables, Whos,
     Files, Launchers, Killers, SupRuns
<1>4. RollingBack'
  BY DEF PtyInv, Typed, RollingBack, record_child_pid, Is, Sup, LiveChild, NoFile, Up,
     Tables, Whos, Files, Launchers, Killers, SupRuns
<1>5. Terminating'
  BY DEF PtyInv, Typed, Terminating, record_child_pid, Is, Sup, LiveChild, Up, Tables, Whos,
     Files, Launchers, Killers, SupRuns
<1>6. OwnIds'
  BY DEF PtyInv, Typed, OwnIds, record_child_pid, Is, Sup, Up, Tables, Whos, Files,
     Launchers, Killers, SupRuns
<1> QED
  BY <1>1, <1>2, <1>3, <1>4, <1>5, <1>6 DEF PtyInv

\* It reaps it.
LEMMA ChildReaped ==
    ASSUME PtyInv, ReapChild
    PROVE  PtyInv'
<1>1. Typed'
  BY OwnershipBounds DEF PtyInv, Typed, ReapChild, Is, process_running, Live, Sup, FreePid,
     Up, Tables, Whos, Files, Launchers, Killers, SupRuns
<1>2. Supervisors'
  BY DEF PtyInv, Typed, Supervisors, ReapChild, Is, process_running, Live, Sup, FreePid, Up,
     Tables, Whos, Files, Launchers, Killers, SupRuns
<1>3. Children'
  BY DEF PtyInv, Typed, Children, ReapChild, Is, process_running, Live, Sup, LiveChild,
     FreePid, Up, Tables, Whos, Files, Launchers, Killers, SupRuns
<1>4. RollingBack'
  BY DEF PtyInv, Typed, RollingBack, ReapChild, Is, process_running, Live, Sup, LiveChild,
     NoFile, FreePid, Up, Tables, Whos, Files, Launchers, Killers, SupRuns
<1>5. Terminating'
  BY DEF PtyInv, Typed, Terminating, ReapChild, Is, process_running, Live, Sup, LiveChild,
     FreePid, Up, Tables, Whos, Files, Launchers, Killers, SupRuns
<1>6. OwnIds'
  BY DEF PtyInv, Typed, OwnIds, ReapChild, Is, process_running, Live, Sup, FreePid, Up,
     Tables, Whos, Files, Launchers, Killers, SupRuns
<1> QED
  BY <1>1, <1>2, <1>3, <1>4, <1>5, <1>6 DEF PtyInv

\* Its own exit follows the reaping of the child.
LEMMA SupervisorLeaves ==
    ASSUME PtyInv, run_supervisor
    PROVE  PtyInv'
<1>0. \A p \in Pids : table' = Dies(p) => Fades({p})
  BY DiesFades DEF PtyInv
<1>1. Typed'
  BY ZenonT(60), <1>0, OwnershipBounds
     DEF PtyInv, Typed, run_supervisor, Is, Sup, LiveChild, NoFile, Up,
     Tables, Whos, Files, Launchers, Killers, SupRuns, Fades
<1>2. Supervisors'
  BY <1>0 DEF PtyInv, Typed, Supervisors, run_supervisor, Is, Sup, LiveChild, NoFile, Up,
     Tables, Whos, Files, Launchers, Killers, SupRuns, Fades
<1>3. Children'
  BY <1>0 DEF PtyInv, Typed, Children, run_supervisor, Is, Sup, LiveChild, NoFile, Up,
     Tables, Whos, Files, Launchers, Killers, SupRuns, Fades
<1>4. RollingBack'
  BY <1>0 DEF PtyInv, Typed, RollingBack, run_supervisor, Is, Sup, LiveChild, NoFile, Up,
     Tables, Whos, Files, Launchers, Killers, SupRuns, Fades
<1>5. Terminating'
  BY <1>0 DEF PtyInv, Typed, Terminating, run_supervisor, Is, Sup, LiveChild, NoFile, Up,
     Tables, Whos, Files, Launchers, Killers, SupRuns, Fades
<1>6. OwnIds'
  BY <1>0 DEF PtyInv, Typed, OwnIds, run_supervisor, Is, Sup, LiveChild, NoFile, Up, Tables,
     Whos, Files, Launchers, Killers, SupRuns, Fades
<1> QED
  BY <1>1, <1>2, <1>3, <1>4, <1>5, <1>6 DEF PtyInv

\* The child leaves by itself.
LEMMA ChildLeaves ==
    ASSUME PtyInv, ChildDies
    PROVE  PtyInv'
<1>0. \A p \in Pids : table' = Dies(p) => Fades({p})
  BY DiesFades DEF PtyInv
<1>1. Typed'
  BY <1>0, OwnershipBounds DEF PtyInv, Typed, ChildDies, Is, process_running, Live,
     LiveChild, Up, Tables, Whos, Files, Launchers, Killers, Fades
<1>2. Supervisors'
  BY <1>0 DEF PtyInv, Typed, Supervisors, ChildDies, Is, process_running, Live, Sup,
     LiveChild, Up, Tables, Whos, Files, Launchers, Killers, Fades
<1>3. Children'
  BY <1>0 DEF PtyInv, Typed, Children, ChildDies, Is, process_running, Live, LiveChild, Up,
     Tables, Whos, Files, Launchers, Killers, Fades
<1>4. RollingBack'
  BY <1>0 DEF PtyInv, Typed, Supervisors, Children, RollingBack, Terminating, OwnIds,
     ChildDies, Is, process_running, Live, Sup, LiveChild, NoFile, Up, Tables, Whos, Files,
     Launchers, Killers, Fades
<1>5. Terminating'
  BY <1>0 DEF PtyInv, Typed, Terminating, ChildDies, Is, process_running, Live, LiveChild,
     Up, Tables, Whos, Files, Launchers, Killers, Fades
<1>6. OwnIds'
  BY <1>0 DEF PtyInv, Typed, OwnIds, ChildDies, Is, process_running, Live, Sup, LiveChild,
     Up, Tables, Whos, Files, Launchers, Killers, Fades
<1> QED
  BY <1>1, <1>2, <1>3, <1>4, <1>5, <1>6 DEF PtyInv

\* A crash may orphan the child; crashed remembers it.
LEMMA SupervisorLost ==
    ASSUME PtyInv, SupervisorCrashes
    PROVE  PtyInv'
<1>0. \A p \in Pids : table' = Dies(p) => Fades({p})
  BY DiesFades DEF PtyInv
<1>1. Typed'
  BY <1>0, OwnershipBounds DEF PtyInv, Typed, SupervisorCrashes, Is, process_running, Live,
     LiveChild, OFault, Up, Tables, Whos, Files, Launchers, Killers, Fades
<1>2. Supervisors'
  BY <1>0 DEF PtyInv, Typed, Supervisors, SupervisorCrashes, Is, process_running, Live, Sup,
     LiveChild, OFault, Up, Tables, Whos, Files, Launchers, Killers, Fades
<1>3. Children'
  BY <1>0 DEF PtyInv, Typed, Children, SupervisorCrashes, Is, process_running, Live,
     LiveChild, OFault, Up, Tables, Whos, Files, Launchers, Killers, Fades
<1>4. RollingBack'
  BY <1>0 DEF PtyInv, Typed, Supervisors, Children, RollingBack, Terminating, OwnIds,
     SupervisorCrashes, Is, process_running, Live, Sup, LiveChild, OFault, NoFile, Up,
     Tables, Whos, Files, Launchers, Killers, Fades
<1>5. Terminating'
  BY <1>0 DEF PtyInv, Typed, Terminating, SupervisorCrashes, Is, process_running, Live,
     LiveChild, OFault, Up, Tables, Whos, Files, Launchers, Killers, Fades
<1>6. OwnIds'
  BY <1>0 DEF PtyInv, Typed, OwnIds, SupervisorCrashes, Is, process_running, Live, Sup,
     LiveChild, OFault, Up, Tables, Whos, Files, Launchers, Killers, Fades
<1> QED
  BY <1>1, <1>2, <1>3, <1>4, <1>5, <1>6 DEF PtyInv

\* A free id is neither the child under termination nor the supervisor's own.
LEMMA IdGivenAway ==
    ASSUME PtyInv, OtherStarts
    PROVE  PtyInv'
<1>1. Typed'
  BY OwnershipBounds DEF PtyInv, Typed, OtherStarts, Is, Free, Up, Tables, Whos, Files,
     Launchers, Killers
<1>2. Supervisors'
  BY DEF PtyInv, Typed, Supervisors, OtherStarts, Is, Free, Sup, Up, Tables, Whos, Files,
     Launchers, Killers
<1>3. Children'
  BY DEF PtyInv, Typed, Children, OtherStarts, Is, Free, LiveChild, Up, Tables, Whos, Files,
     Launchers, Killers
<1>4. RollingBack'
  BY DEF PtyInv, Typed, Supervisors, Children, RollingBack, Terminating, OwnIds, OtherStarts,
     Is, Free, Sup, LiveChild, NoFile, Up, Tables, Whos, Files, Launchers, Killers
<1>5. Terminating'
  BY DEF PtyInv, Typed, Terminating, OtherStarts, Is, Free, LiveChild, Up, Tables, Whos,
     Files, Launchers, Killers
<1>6. OwnIds'
  BY DEF PtyInv, Typed, OwnIds, OtherStarts, Is, Free, Sup, Up, Tables, Whos, Files,
     Launchers, Killers
<1> QED
  BY <1>1, <1>2, <1>3, <1>4, <1>5, <1>6 DEF PtyInv

-----------------------------------------------------------------------------
(* The termination.                                                         *)

\* The termination reads the file.
LEMMA MetadataRead ==
    ASSUME PtyInv, read_all_metadata
    PROVE  PtyInv'
<1>1. Typed'
  BY OwnershipBounds DEF PtyInv, Typed, read_all_metadata, Up, Tables, Whos, Files,
     Launchers, Killers, PtyAnswer
<1>2. Supervisors'
  BY DEF PtyInv, Typed, Supervisors, read_all_metadata, Is, Sup, Up, Tables, Whos, Files,
     Launchers, Killers, PtyAnswer
<1>3. Children'
  BY DEF PtyInv, Typed, Children, read_all_metadata, Is, LiveChild, Up, Tables, Whos, Files,
     Launchers, Killers, PtyAnswer
<1>4. RollingBack'
  BY DEF PtyInv, Typed, RollingBack, read_all_metadata, Is, Sup, LiveChild, NoFile, Up,
     Tables, Whos, Files, Launchers, Killers, PtyAnswer
<1>5. Terminating'
  BY DEF PtyInv, Typed, Terminating, read_all_metadata, Is, LiveChild, Up, Tables, Whos,
     Files, Launchers, Killers, PtyAnswer
<1>6. OwnIds'
  BY DEF PtyInv, Typed, OwnIds, read_all_metadata, Is, Sup, Up, Tables, Whos, Files,
     Launchers, Killers, PtyAnswer
<1> QED
  BY <1>1, <1>2, <1>3, <1>4, <1>5, <1>6 DEF PtyInv

\* It verifies the supervisor.
LEMMA SupervisorVerified ==
    ASSUME PtyInv, verify_owned_process
    PROVE  PtyInv'
<1>1. Typed'
  <2>1. table' \in Tables
    BY DEF PtyInv, Typed, verify_owned_process, Is, process_running, Sup, NoFile, Tables,
       Whos, PtyAnswer, command_owns_endpoint
  <2>2. launcher' \in Launchers
    BY DEF PtyInv, Typed, verify_owned_process, Is, process_running, Sup, NoFile, Launchers,
       PtyAnswer, command_owns_endpoint
  <2>3. killer' \in Killers
    BY DEF PtyInv, Typed, verify_owned_process, Is, process_running, Sup, NoFile, Killers,
       PtyAnswer, command_owns_endpoint
  <2>4. file' \in Files /\ (file.child # {} => file.st = "whole")'
    BY DEF PtyInv, Typed, verify_owned_process, Is, process_running, Sup, NoFile, Files,
       PtyAnswer, command_owns_endpoint
  <2>5. /\ super' \in Up \cup {"none", "dead"}
       /\ swapped' \in BOOLEAN /\ crashed' \in BOOLEAN
    BY DEF PtyInv, Typed, verify_owned_process, Is, process_running, Sup, NoFile, Up,
       PtyAnswer, command_owns_endpoint
  <2>6. others' \in 0..MaxOthers /\ ofaults' \in 0..OMaxFaults
    BY OwnershipBounds DEF PtyInv, Typed, verify_owned_process, Is, process_running, Sup,
       NoFile, PtyAnswer, command_owns_endpoint
  <2> QED
    BY <2>1, <2>2, <2>3, <2>4, <2>5, <2>6 DEF Typed
<1>2. Supervisors'
  BY DEF PtyInv, Typed, Supervisors, verify_owned_process, Is, process_running, Sup, NoFile,
     Up, Tables, Whos, Files, Launchers, Killers, PtyAnswer, command_owns_endpoint
<1>3. Children'
  BY DEF PtyInv, Typed, Children, verify_owned_process, Is, process_running, Sup, LiveChild,
     NoFile, Up, Tables, Whos, Files, Launchers, Killers, PtyAnswer, command_owns_endpoint
<1>4. RollingBack'
  BY DEF PtyInv, Typed, RollingBack, verify_owned_process, Is, process_running, Sup,
     LiveChild, NoFile, Up, Tables, Whos, Files, Launchers, Killers, PtyAnswer,
     command_owns_endpoint
<1>5. Terminating'
  <2>0. killer'.pc \in {"child", "done"}
    BY DEF PtyInv, Typed, Killers, PtyAnswer, verify_owned_process
  <2>1. (killer.pc \in {"hup", "waitchild", "term", "waitsup"} => super \notin {"none", "boot"})'
    BY <2>0
  <2>2. (killer.pc \in {"hup", "waitchild"} =>
         /\ \A c, d \in killer.child : c = d
         /\ \A c \in killer.child : ~Is(c, "sup")
         /\ \A p \in Pids : LiveChild(p) => p \in killer.child)'
    BY <2>0
  <2>3. (killer.pc \in {"term", "waitsup"} => \A p \in Pids : ~LiveChild(p))'
    BY <2>0
  <2>4. (killer.result = "terminated" => killer.pc = "done" /\ super = "dead")'
    <3>1. killer.result # "terminated" /\ launcher.pc = "ok"
      BY DEF PtyInv, Supervisors, Terminating, verify_owned_process
    <3>2. PICK p \in Sup :
             \/ ~process_running(p) /\ killer' = PtyAnswer("terminated")
             \/ killer' = [killer EXCEPT !.pc = "child"]
             \/ killer' = PtyAnswer("refused")
      BY DEF verify_owned_process
    <3>3. CASE ~process_running(p) /\ killer' = PtyAnswer("terminated")
      <4>1. super = "dead"
        BY <3>1, <3>3, NotRunning
      <4> QED
        BY <3>3, <4>1 DEF PtyInv, Typed, Killers, PtyAnswer, verify_owned_process
    <3>4. CASE killer' = [killer EXCEPT !.pc = "child"] \/ killer' = PtyAnswer("refused")
      BY <3>1, <3>4 DEF PtyInv, Typed, Killers, PtyAnswer
    <3> QED
      BY <3>2, <3>3, <3>4
  <2> QED
    BY <2>1, <2>2, <2>3, <2>4 DEF Terminating
<1>6. OwnIds'
  BY ZenonT(60) DEF PtyInv, Typed, Supervisors, Children, RollingBack, Terminating, OwnIds,
     verify_owned_process, Is, process_running, Sup, LiveChild, NoFile, Up, Tables, Whos,
     Files, Launchers, Killers, PtyAnswer, command_owns_endpoint
<1> QED
  BY <1>1, <1>2, <1>3, <1>4, <1>5, <1>6 DEF PtyInv

\* The verified child is the only one, whether it was recorded or found.
LEMMA ChildVerified ==
    ASSUME PtyInv, verify_owned_child
    PROVE  PtyInv'
<1>1. Typed'
  BY OwnershipBounds DEF PtyInv, Typed, verify_owned_child, Is, process_running, Live, Up,
     Tables, Whos, Files, Launchers, Killers, PtyAnswer, OwnedChild
<1>2. Supervisors'
  BY DEF PtyInv, Typed, Supervisors, verify_owned_child, Is, process_running, Live, Sup, Up,
     Tables, Whos, Files, Launchers, Killers, PtyAnswer, OwnedChild
<1>3. Children'
  BY DEF PtyInv, Typed, Children, verify_owned_child, Is, process_running, Live, LiveChild,
     Up, Tables, Whos, Files, Launchers, Killers, PtyAnswer, OwnedChild
<1>4. RollingBack'
  BY DEF PtyInv, Typed, RollingBack, verify_owned_child, Is, process_running, Live, Sup,
     LiveChild, NoFile, Up, Tables, Whos, Files, Launchers, Killers, PtyAnswer, OwnedChild
<1>5. Terminating'
  BY DEF PtyInv, Typed, Supervisors, Children, RollingBack, Terminating, OwnIds,
     verify_owned_child, Is, process_running, Live, Sup, LiveChild, NoFile, Up, Tables, Whos,
     Files, Launchers, Killers, PtyAnswer, OwnedChild
<1>6. OwnIds'
  BY DEF PtyInv, Typed, OwnIds, verify_owned_child, Is, process_running, Live, Sup, Up,
     Tables, Whos, Files, Launchers, Killers, PtyAnswer, OwnedChild
<1> QED
  BY <1>1, <1>2, <1>3, <1>4, <1>5, <1>6 DEF PtyInv

\* It hangs up the child.
LEMMA ChildHungUp ==
    ASSUME PtyInv, HangUp
    PROVE  PtyInv'
<1>0. \A p \in Pids : table' = Dies(p) => Fades({p})
  BY DiesFades DEF PtyInv
<1>1. Typed'
  <2>1. table' \in Tables
    BY <1>0 DEF PtyInv, Typed, HangUp, Is, Sup, LiveChild, Tables, Whos, Launchers, Killers,
       PtyAnswer, Strike, Fades
  <2>2. launcher' \in Launchers
    BY DEF PtyInv, Typed, HangUp, Is, Launchers, PtyAnswer, Strike
  <2>3. killer' \in Killers
    BY DEF PtyInv, Typed, HangUp, Is, Killers, PtyAnswer, Strike
  <2>4. file' \in Files /\ (file.child # {} => file.st = "whole")'
    BY DEF PtyInv, Typed, HangUp, Is, Files, PtyAnswer, Strike
  <2>5. /\ super' \in Up \cup {"none", "dead"}
       /\ swapped' \in BOOLEAN /\ crashed' \in BOOLEAN
    BY DEF PtyInv, Typed, HangUp, Is, Up, PtyAnswer, Strike
  <2>6. others' \in 0..MaxOthers /\ ofaults' \in 0..OMaxFaults
    BY OwnershipBounds DEF PtyInv, Typed, HangUp, Is, PtyAnswer, Strike
  <2> QED
    BY <2>1, <2>2, <2>3, <2>4, <2>5, <2>6 DEF Typed
<1>2. Supervisors'
  BY <1>0 DEF PtyInv, Typed, Supervisors, HangUp, Is, Sup, LiveChild, Up, Tables, Whos,
     Files, Launchers, Killers, PtyAnswer, Strike, Fades
<1>3. Children'
  BY <1>0 DEF PtyInv, Typed, Children, HangUp, Is, LiveChild, Up, Tables, Whos, Files,
     Launchers, Killers, PtyAnswer, Strike, Fades
<1>4. RollingBack'
  BY <1>0 DEF PtyInv, Typed, Supervisors, Children, RollingBack, Terminating, OwnIds, HangUp,
     Is, Sup, LiveChild, NoFile, Up, Tables, Whos, Files, Launchers, Killers, PtyAnswer,
     Strike, Fades
<1>5. Terminating'
  BY <1>0 DEF PtyInv, Typed, Terminating, HangUp, Is, LiveChild, Up, Tables, Whos, Files,
     Launchers, Killers, PtyAnswer, Strike, Fades
<1>6. OwnIds'
  BY <1>0 DEF PtyInv, Typed, OwnIds, HangUp, Is, Sup, LiveChild, Up, Tables, Whos, Files,
     Launchers, Killers, PtyAnswer, Strike, Fades
<1> QED
  BY <1>1, <1>2, <1>3, <1>4, <1>5, <1>6 DEF PtyInv

\* After the wait whatever runs under the child's id is killed.
LEMMA ChildKilled ==
    ASSUME PtyInv, KillChild
    PROVE  PtyInv'
<1>0. \A p \in Pids : table' = Dies(p) => Fades({p})
  BY DiesFades DEF PtyInv
<1>1. Typed'
  BY <1>0, OwnershipBounds DEF PtyInv, Typed, KillChild, Is, process_running, LiveChild, Up,
     Tables, Whos, Files, Launchers, Killers, Strike, Fades
<1>2. Supervisors'
  <2>1. (launcher.pc # "idle" => \E s \in Pids : Sup = {s})'
    BY <1>0 DEF PtyInv, Typed, Supervisors, Children, KillChild, Is, process_running, Sup,
       Up, Tables, Whos, Launchers, Killers, Strike, Fades
  <2>2. (launcher.pc = "idle" => Sup = {} /\ super = "none")'
    BY <1>0 DEF PtyInv, Typed, Supervisors, Children, KillChild, Is, process_running, Sup,
       Up, Tables, Whos, Launchers, Killers, Strike, Fades
  <2>3. (super = "none" => launcher.pc = "idle")'
    BY <1>0 DEF PtyInv, Typed, Supervisors, Children, KillChild, Is, process_running, Sup,
       Up, Tables, Whos, Launchers, Killers, Strike, Fades
  <2>4. (\A p \in Pids : Is(p, "sup") => p \in Sup)'
    BY <1>0 DEF PtyInv, Typed, Supervisors, Children, KillChild, Is, process_running, Sup,
       Up, Tables, Whos, Launchers, Killers, Strike, Fades
  <2>5. (\A p \in Sup : ~Is(p, "child"))'
    BY <1>0 DEF PtyInv, Typed, Supervisors, Children, KillChild, Is, process_running, Sup,
       Up, Tables, Whos, Launchers, Killers, Strike, Fades
  <2>6. (launcher.pc \notin {"ok", "failed"} => \A p \in Sup : Is(p, "sup"))'
    BY <1>0 DEF PtyInv, Typed, Supervisors, Children, KillChild, Is, process_running, Sup,
       Up, Tables, Whos, Launchers, Killers, Strike, Fades
  <2>7. (super \in Up => \E p \in Sup : Is(p, "sup") /\ table[p].st # "zombie")'
    <3>1. ASSUME super \in Up
          PROVE  (\E p \in Sup : Is(p, "sup") /\ table[p].st # "zombie")'
      <4>1. PICK s \in Sup : Is(s, "sup") /\ table[s].st # "zombie"
        BY <3>1 DEF PtyInv, Supervisors
      <4>2. table'[s] = table[s]
        BY <1>0, <4>1 DEF PtyInv, Typed, Terminating, KillChild, Fades, Is, Killers,
           Launchers, Sup
      <4> QED
        BY <4>1, <4>2 DEF KillChild, Is, Sup
    <3> QED
      BY <3>1 DEF KillChild
  <2>8. (super = "dead" => \A p \in Pids : Is(p, "sup") => table[p].st = "zombie")'
    BY <1>0 DEF PtyInv, Typed, Supervisors, Children, KillChild, Is, process_running, Sup,
       Up, Tables, Whos, Launchers, Killers, Strike, Fades
  <2>9. (killer.pc # "idle" => launcher.pc = "ok")'
    BY <1>0 DEF PtyInv, Typed, Supervisors, Children, KillChild, Is, process_running, Sup,
       Up, Tables, Whos, Launchers, Killers, Strike, Fades
  <2> QED
    BY <2>1, <2>2, <2>3, <2>4, <2>5, <2>6, <2>7, <2>8, <2>9 DEF Supervisors
<1>3. Children'
  BY <1>0 DEF PtyInv, Typed, Children, KillChild, Is, process_running, LiveChild, Up, Tables,
     Whos, Files, Launchers, Killers, Strike, Fades
<1>4. RollingBack'
  BY <1>0 DEF PtyInv, Typed, Supervisors, Children, RollingBack, Terminating, OwnIds,
     KillChild, Is, process_running, Sup, LiveChild, NoFile, Up, Tables, Whos, Files,
     Launchers, Killers, Strike, Fades
<1>5. Terminating'
  BY <1>0 DEF PtyInv, Typed, Terminating, KillChild, Is, process_running, LiveChild, Up,
     Tables, Whos, Files, Launchers, Killers, Strike, Fades
<1>6. OwnIds'
  BY <1>0 DEF PtyInv, Typed, OwnIds, KillChild, Is, process_running, Sup, LiveChild, Up,
     Tables, Whos, Files, Launchers, Killers, Strike, Fades
<1> QED
  BY <1>1, <1>2, <1>3, <1>4, <1>5, <1>6 DEF PtyInv

\* It ends the supervisor, who is childless by then,
LEMMA SupervisorTermed ==
    ASSUME PtyInv, TermSupervisor
    PROVE  PtyInv'
<1>0. \A p \in Pids : table' = Dies(p) => Fades({p})
  BY DiesFades DEF PtyInv
<1>1. Typed'
  <2>1. table' \in Tables
    BY <1>0 DEF PtyInv, Typed, TermSupervisor, Is, process_running, Sup, LiveChild, NoFile,
       Tables, Whos, Launchers, Killers, PtyAnswer, Strike, Fades
  <2>2. launcher' \in Launchers
    BY DEF PtyInv, Typed, TermSupervisor, Is, process_running, Sup, NoFile, Launchers,
       PtyAnswer, Strike
  <2>3. killer' \in Killers
    BY DEF PtyInv, Typed, TermSupervisor, Is, process_running, Sup, NoFile, Killers,
       PtyAnswer, Strike
  <2>4. file' \in Files /\ (file.child # {} => file.st = "whole")'
    BY DEF PtyInv, Typed, TermSupervisor, Is, process_running, Sup, NoFile, Files, PtyAnswer,
       Strike
  <2>5. /\ super' \in Up \cup {"none", "dead"}
       /\ swapped' \in BOOLEAN /\ crashed' \in BOOLEAN
    BY DEF PtyInv, Typed, TermSupervisor, Is, process_running, Sup, NoFile, Up, PtyAnswer,
       Strike
  <2>6. others' \in 0..MaxOthers /\ ofaults' \in 0..OMaxFaults
    BY OwnershipBounds DEF PtyInv, Typed, TermSupervisor, Is, process_running, Sup, NoFile,
       PtyAnswer, Strike
  <2> QED
    BY <2>1, <2>2, <2>3, <2>4, <2>5, <2>6 DEF Typed
<1>2. Supervisors'
  BY <1>0 DEF PtyInv, Typed, Supervisors, TermSupervisor, Is, process_running, Sup,
     LiveChild, NoFile, Up, Tables, Whos, Files, Launchers, Killers, PtyAnswer, Strike, Fades
<1>3. Children'
  BY <1>0 DEF PtyInv, Typed, Supervisors, Children, RollingBack, Terminating, OwnIds,
     TermSupervisor, Is, process_running, Sup, LiveChild, NoFile, Up, Tables, Whos, Files,
     Launchers, Killers, PtyAnswer, Strike, Fades
<1>4. RollingBack'
  BY <1>0 DEF PtyInv, Typed, Supervisors, Children, RollingBack, Terminating, OwnIds,
     TermSupervisor, Is, process_running, Sup, LiveChild, NoFile, Up, Tables, Whos, Files,
     Launchers, Killers, PtyAnswer, Strike, Fades
<1>5. Terminating'
  <2>0. killer'.pc \in {"waitsup", "done"}
    BY DEF PtyInv, Typed, Killers, PtyAnswer, TermSupervisor
  <2>1. (killer.pc \in {"hup", "waitchild", "term", "waitsup"} => super \notin {"none", "boot"})'
    BY <1>0 DEF PtyInv, Typed, Terminating, TermSupervisor, Is, process_running, Sup, NoFile,
       PtyAnswer, Strike, Killers
  <2>2. (killer.pc \in {"hup", "waitchild"} =>
         /\ \A c, d \in killer.child : c = d
         /\ \A c \in killer.child : ~Is(c, "sup")
         /\ \A p \in Pids : LiveChild(p) => p \in killer.child)'
    BY <2>0
  <2>3. (killer.pc \in {"term", "waitsup"} => \A p \in Pids : ~LiveChild(p))'
    BY <1>0 DEF PtyInv, Typed, Supervisors, Terminating, TermSupervisor, Is, process_running,
       Sup, LiveChild, NoFile, Launchers, Killers, PtyAnswer, Strike, Fades
  <2>4. (killer.result = "terminated" => killer.pc = "done" /\ super = "dead")'
    <3>1. PICK p \in Sup :
             IF process_running(p)
             THEN killer' = [killer EXCEPT !.pc = "waitsup"]
             ELSE killer' = PtyAnswer("terminated") /\ UNCHANGED super
      BY DEF TermSupervisor
    <3>2. CASE process_running(p)
      <4>1. killer.result # "terminated"
        BY DEF PtyInv, Terminating, TermSupervisor
      <4>2. killer'.result = killer.result
        BY <3>1, <3>2 DEF PtyInv, Typed, Killers
      <4> QED
        BY <4>1, <4>2
    <3>3. CASE ~process_running(p)
      <4>1. super = "dead" /\ p \in Pids
        BY <3>3, NotRunning DEF PtyInv, Typed, Supervisors, TermSupervisor, Launchers, Sup
      <4>2. killer'.pc = "done" /\ super' = "dead"
        BY <3>1, <3>3, <4>1 DEF PtyInv, Typed, Killers, PtyAnswer
      <4> QED
        BY <4>2
    <3> QED
      BY <3>2, <3>3
  <2> QED
    BY <2>1, <2>2, <2>3, <2>4 DEF Terminating
<1>6. OwnIds'
  <2>0. killer'.pc \in {"waitsup", "done"}
    BY DEF PtyInv, Typed, Killers, PtyAnswer, TermSupervisor
  <2>1. (struck # {} => swapped)'
    BY <1>0 DEF PtyInv, Typed, Supervisors, OwnIds, TermSupervisor, Is, process_running, Sup,
       NoFile, Launchers, Killers, PtyAnswer, Strike, Fades
  <2>2. (killer.pc \in {"child", "hup", "waitchild", "term", "waitsup"} /\ ~swapped =>
         \A p \in Sup : ~Is(p, "other"))'
    BY <1>0 DEF PtyInv, Typed, Supervisors, OwnIds, TermSupervisor, Is, process_running, Sup,
       NoFile, Launchers, Killers, PtyAnswer, Strike, Fades
  <2>3. (killer.pc \in {"hup", "waitchild"} /\ ~swapped =>
         \A c \in killer.child : ~Is(c, "other"))'
    BY <2>0
  <2> QED
    BY <2>1, <2>2, <2>3 DEF OwnIds
<1> QED
  BY <1>1, <1>2, <1>3, <1>4, <1>5, <1>6 DEF PtyInv

\* by force if it has to.
LEMMA SupervisorKilled ==
    ASSUME PtyInv, KillSupervisor
    PROVE  PtyInv'
<1>0. \A p \in Pids : table' = Dies(p) => Fades({p})
  BY DiesFades DEF PtyInv
<1>1. Typed'
  <2>1. table' \in Tables
    BY <1>0 DEF PtyInv, Typed, KillSupervisor, Is, process_running, Sup, LiveChild, NoFile,
       Tables, Whos, Launchers, Killers, PtyAnswer, command_owns_endpoint, Fades
  <2>2. launcher' \in Launchers
    BY DEF PtyInv, Typed, KillSupervisor, Is, process_running, Sup, NoFile, Launchers,
       PtyAnswer, command_owns_endpoint
  <2>3. killer' \in Killers
    BY DEF PtyInv, Typed, KillSupervisor, Is, process_running, Sup, NoFile, Killers,
       PtyAnswer, command_owns_endpoint
  <2>4. file' \in Files /\ (file.child # {} => file.st = "whole")'
    BY DEF PtyInv, Typed, KillSupervisor, Is, process_running, Sup, NoFile, Files, PtyAnswer,
       command_owns_endpoint
  <2>5. /\ super' \in Up \cup {"none", "dead"}
       /\ swapped' \in BOOLEAN /\ crashed' \in BOOLEAN
    BY DEF PtyInv, Typed, KillSupervisor, Is, process_running, Sup, NoFile, Up, PtyAnswer,
       command_owns_endpoint
  <2>6. others' \in 0..MaxOthers /\ ofaults' \in 0..OMaxFaults
    BY OwnershipBounds DEF PtyInv, Typed, KillSupervisor, Is, process_running, Sup, NoFile,
       PtyAnswer, command_owns_endpoint
  <2> QED
    BY <2>1, <2>2, <2>3, <2>4, <2>5, <2>6 DEF Typed
<1>2. Supervisors'
  BY <1>0 DEF PtyInv, Typed, Supervisors, KillSupervisor, Is, process_running, Sup,
     LiveChild, NoFile, Up, Tables, Whos, Files, Launchers, Killers, PtyAnswer,
     command_owns_endpoint, Fades
<1>3. Children'
  BY <1>0 DEF PtyInv, Typed, Supervisors, Children, RollingBack, Terminating, OwnIds,
     KillSupervisor, Is, process_running, Sup, LiveChild, NoFile, Up, Tables, Whos, Files,
     Launchers, Killers, PtyAnswer, command_owns_endpoint, Fades
<1>4. RollingBack'
  BY <1>0 DEF PtyInv, Typed, Supervisors, Children, RollingBack, Terminating, OwnIds,
     KillSupervisor, Is, process_running, Sup, LiveChild, NoFile, Up, Tables, Whos, Files,
     Launchers, Killers, PtyAnswer, command_owns_endpoint, Fades
<1>5. Terminating'
  <2>0. killer'.pc \in {"waitsup", "done"}
    BY DEF PtyInv, Typed, Killers, PtyAnswer, KillSupervisor
  <2>1. (killer.pc \in {"hup", "waitchild", "term", "waitsup"} => super \notin {"none", "boot"})'
    BY <1>0 DEF PtyInv, Typed, Terminating, KillSupervisor, Is, process_running, Sup, NoFile,
       PtyAnswer, command_owns_endpoint, Killers
  <2>2. (killer.pc \in {"hup", "waitchild"} =>
         /\ \A c, d \in killer.child : c = d
         /\ \A c \in killer.child : ~Is(c, "sup")
         /\ \A p \in Pids : LiveChild(p) => p \in killer.child)'
    BY <2>0
  <2>3. (killer.pc \in {"term", "waitsup"} => \A p \in Pids : ~LiveChild(p))'
    BY <1>0 DEF PtyInv, Typed, Supervisors, Terminating, KillSupervisor, Is, process_running,
       Sup, LiveChild, NoFile, Launchers, Killers, PtyAnswer, command_owns_endpoint, Fades
  <2>4. (killer.result = "terminated" => killer.pc = "done" /\ super = "dead")'
    <3>1. PICK p \in Sup :
             IF process_running(p) /\ ~command_owns_endpoint(p)
             THEN killer' = PtyAnswer("refused")
             ELSE /\ killer' = PtyAnswer("terminated")
                  /\ IF process_running(p) THEN super' = "dead" ELSE UNCHANGED super
      BY DEF KillSupervisor
    <3>2. CASE process_running(p)
      BY <3>1, <3>2 DEF PtyInv, Typed, Killers, PtyAnswer
    <3>3. CASE ~process_running(p)
      <4>1. super = "dead"
        BY <3>3, NotRunning DEF PtyInv, Supervisors, KillSupervisor
      <4> QED
        BY <3>1, <3>3, <4>1 DEF PtyInv, Typed, Killers, PtyAnswer
    <3> QED
      BY <3>2, <3>3
  <2> QED
    BY <2>1, <2>2, <2>3, <2>4 DEF Terminating
<1>6. OwnIds'
  <2>0. killer'.pc \in {"waitsup", "done"}
    BY DEF PtyInv, Typed, Killers, PtyAnswer, KillSupervisor
  <2>1. (struck # {} => swapped)'
    BY <1>0 DEF PtyInv, Typed, Supervisors, OwnIds, KillSupervisor, Is, process_running, Sup,
       NoFile, Launchers, Killers, PtyAnswer, command_owns_endpoint, Fades
  <2>2. (killer.pc \in {"child", "hup", "waitchild", "term", "waitsup"} /\ ~swapped =>
         \A p \in Sup : ~Is(p, "other"))'
    BY <1>0 DEF PtyInv, Typed, Supervisors, OwnIds, KillSupervisor, Is, process_running, Sup,
       NoFile, Launchers, Killers, PtyAnswer, command_owns_endpoint, Fades
  <2>3. (killer.pc \in {"hup", "waitchild"} /\ ~swapped =>
         \A c \in killer.child : ~Is(c, "other"))'
    BY <2>0
  <2> QED
    BY <2>1, <2>2, <2>3 DEF OwnIds
<1> QED
  BY <1>1, <1>2, <1>3, <1>4, <1>5, <1>6 DEF PtyInv

-----------------------------------------------------------------------------
(* The invariant.                                                           *)

\* The invariant holds at first,
LEMMA PtyInvInit ==
    ASSUME PtyInit
    PROVE  PtyInv
<1> USE DEF PtyInit, FreePid, NoFile
<1>1. Typed
  <2>1. table \in Tables
    BY DEF Tables, Whos
  <2>2. file \in Files /\ (file.child # {} => file.st = "whole")
    BY DEF Files
  <2>3. launcher \in Launchers /\ killer \in Killers
    BY DEF Launchers, Killers
  <2>4. others \in 0..MaxOthers /\ ofaults \in 0..OMaxFaults
    BY OwnershipBounds
  <2>5. swapped \in BOOLEAN /\ crashed \in BOOLEAN
    BY Zenon
  <2> QED
    BY <2>1, <2>2, <2>3, <2>4, <2>5 DEF Typed, Up
<1>2. Supervisors
  BY DEF Supervisors, Is, Sup, Up
<1>3. Children /\ RollingBack
  BY DEF Children, RollingBack, Is, LiveChild
<1>4. Terminating /\ OwnIds
  BY DEF Terminating, OwnIds
<1> QED
  BY <1>1, <1>2, <1>3, <1>4 DEF PtyInv

\* depends on these variables only,
LEMMA PtyInvStutters ==
    ASSUME PtyInv, UNCHANGED ptyVars
    PROVE  PtyInv'
<1> USE DEF ptyVars
<1>1. Typed' /\ Supervisors'
  BY DEF PtyInv, Typed, Supervisors, Is, Sup
<1>2. Children' /\ RollingBack'
  BY DEF PtyInv, Children, RollingBack, LiveChild, Is, Sup
<1>3. Terminating' /\ OwnIds'
  BY DEF PtyInv, Terminating, OwnIds, LiveChild, Is, Sup
<1> QED
  BY <1>1, <1>2, <1>3 DEF PtyInv

\* and is kept by every step.
LEMMA PtyInvNext ==
    ASSUME PtyInv, [PtyNext]_ptyVars
    PROVE  PtyInv'
<1>1. CASE UNCHANGED ptyVars
  BY <1>1, PtyInvStutters
<1>2. CASE PtyNext
  BY <1>2, LaunchSpawns, MetadataWritten, LaunchWaits, RollbackStarts, RollbackDiscovers,
     RollbackKillsChild, RollbackKillsSupervisor, RollbackEnds, SupervisorReaped,
     ChildSpawned, ChildRecorded, ChildReaped, SupervisorLeaves, ChildLeaves, SupervisorLost,
     IdGivenAway, MetadataRead, SupervisorVerified, ChildVerified, ChildHungUp, ChildKilled,
     SupervisorTermed, SupervisorKilled DEF PtyNext
<1> QED
  BY <1>1, <1>2

\* It says what the run checks.
LEMMA InvImpliesPtySafe ==
    ASSUME PtyInv
    PROVE  PtySafe
<1>1. Cardinality(Live("sup")) <= 1
  <2>1. \A p, q \in Live("sup") : p = q
    BY DEF PtyInv, Supervisors, Live
  <2> QED
    BY <2>1, OneAtMost
<1>2. Cardinality(Live("child")) <= 1
  <2>1. \A p, q \in Live("child") : p = q
    BY DEF PtyInv, Children, Live
  <2> QED
    BY <2>1, OneAtMost
<1>3. PtyTypeOK
  BY <1>1, <1>2 DEF PtyInv, Typed, PtyTypeOK, Tables, Whos, Files, Killers
<1>4. super = "dead" => Live("sup") = {}
  BY DEF PtyInv, Supervisors, Live, process_running
<1>5. super = "dead" /\ ~crashed => Live("child") = {}
  BY DEF PtyInv, Children, Live, LiveChild, process_running
<1>6. FailedLaunchLeavesNothing
  BY <1>4, <1>5 DEF PtyInv, RollingBack, FailedLaunchLeavesNothing
<1>7. SparedUnlessRecycled
  BY DEF PtyInv, OwnIds, SparedUnlessRecycled
<1>8. TerminatedIsGone
  BY <1>4, <1>5 DEF PtyInv, Terminating, TerminatedIsGone
<1> QED
  BY <1>3, <1>6, <1>7, <1>8 DEF PtySafe

\* A failed launch leaves nothing behind (launch.rs:103-114), a termination that
\* answers Ok(true) has ended both processes (meta.rs:157-160), and no signal reaches
\* somebody else's process unless its id was given away after the ownership check
\* (meta.rs:146-148), whatever the launcher, the supervisor, the child and the killer
\* do in between.
THEOREM PtySafeCorrect == PtySpec => []PtySafe
<1>1. PtyInit => PtyInv
  BY PtyInvInit
<1>2. PtyInv /\ [PtyNext]_ptyVars => PtyInv'
  BY PtyInvNext
<1>3. PtyInv => PtySafe
  BY InvImpliesPtySafe
<1> QED
  BY <1>1, <1>2, <1>3, PTL DEF PtySpec

-----------------------------------------------------------------------------
(* The RPC child: its invariant.                                            *)

\* What a line may be about.
Kinds == {"read", "start", "steer", "prompt", "exit", "turn/started", "turn/completed"}
\* What a line may say.
Statuses == {"ok", "error", "completed", "failed", "exited"}
\* The states a turn ends in.
Final == {"completed", "failed"}
\* A snapshot of the thread: the state of each turn.
Snaps == [Turns -> TurnStates]
\* Lines of the daemon.
Requests == [id : Ids, of : Deliveries, kind : {"read", "start", "steer", "prompt"}, turn : 0..MaxTurns]
\* Lines of the child.
Messages == [id : 0..MaxIds, of : 0..MaxDeliveries, kind : Kinds, status : Statuses, turn : 0..MaxTurns,
             snap : Snaps]

\* The dialect with turns; an ACP agent has prompts only.
App == dialect = "app-server"
\* The requests of a delivery that it still waits for.
LiveIds(d) == {del[d].id, del[d].read} \ {0}
\* What delivery d asked with id i.
KindOf(d, i) == IF i = del[d].read THEN "read"
                ELSE IF del[d].pc = "starting" THEN "start" ELSE "steer"

\* Types of the channels and maps.
Lines ==
    /\ inq \in Seq(Requests) /\ outq \in Seq(Messages) /\ reply \subseteq Messages
    /\ updates \in Seq(Messages) /\ signals \in Seq(Turns)

\* Before the child is open nothing was asked of it; a child that is gone runs nothing.
Opened ==
    /\ phase # "open" => /\ inq = <<>> /\ \A d \in Deliveries : del[d].pc = "new"
                         /\ \A t \in Turns : turns[t] # "running" /\ (turns[t] # "none" => t = 1)
    /\ reader # "reading" => proc = "gone" /\ outq = <<>>
    /\ proc = "gone" => inq = <<>> /\ \A t \in Turns : turns[t] # "running"
    /\ \A t \in Turns : turns[t] = "running" => owner[t] # 0
    /\ phase = "open" /\ proc = "running" => registered
    /\ \A b \in launch : b \subseteq Known(turns)

\* An ACP delivery sends a prompt or is over, and nobody observes.
Acp ==
    dialect = "acp" =>
        /\ waiter = 0
        /\ \A k \in DOMAIN inq : inq[k].kind = "prompt"
        /\ \A k \in DOMAIN outq : outq[k].status \in {"error", "completed", "failed"}
        /\ \A m \in reply : m.kind = "exit" \/ m.status \in {"error", "completed", "failed"}
        /\ \A d \in Deliveries : del[d].pc \in {"new", "send", "prompt", "done"}

\* A delivery that waits for an id has it in the map or has its answer, and the
\* ids of two deliveries differ.
Waits ==
    /\ \A d \in Deliveries :
         /\ del[d].pc \notin {"send", "prompt"}
         /\ del[d].id # 0 => del[d].pc \in {"starting", "steer"}
         /\ del[d].pc = "starting" => del[d].id # 0
         /\ del[d].read # 0 => del[d].pc \in {"base", "starting", "terminal"}
         /\ del[d].id # 0 => del[d].id # del[d].read
         /\ \A i \in LiveIds(d) : i \in pending \/ \E m \in reply : m.of = d /\ m.id = i
    /\ \A d, e \in Deliveries : d # e => LiveIds(d) \cap LiveIds(e) = {}
    /\ \A i \in pending : \E d \in Deliveries : i \in LiveIds(d)
    /\ \A k \in DOMAIN inq : inq[k].kind # "prompt"

\* An id is on the wire once, and a line with the id of a waiting delivery is its
\* request or the answer to what it asked.
WireIds ==
    /\ \A j, k \in DOMAIN inq : inq[j].id = inq[k].id => j = k
    /\ \A j, k \in DOMAIN outq : outq[j].id # 0 /\ outq[j].id = outq[k].id => j = k
    /\ \A j \in DOMAIN inq, k \in DOMAIN outq : inq[j].id # outq[k].id
    /\ \A d \in Deliveries, k \in DOMAIN inq :
         inq[k].id \in LiveIds(d) \cap pending => inq[k].of = d /\ inq[k].kind = KindOf(d, inq[k].id)
    /\ \A d \in Deliveries, k \in DOMAIN outq :
         outq[k].id \in LiveIds(d) \cap pending =>
            outq[k].of = d /\ outq[k].kind = KindOf(d, outq[k].id)
    /\ \A k \in DOMAIN outq : outq[k].id = 0 <=> outq[k].kind \in {"turn/started", "turn/completed"}
    /\ \A k \in DOMAIN outq : outq[k].kind # "exit"
    /\ \A k \in DOMAIN outq : outq[k].kind \in {"turn/started", "turn/completed"} => outq[k].turn # 0

\* An answer is kept for the delivery that asked, once.
Answers ==
    /\ \A m \in reply : /\ m.of \in Deliveries /\ m.id \in LiveIds(m.of) /\ m.id \notin pending
                        /\ m.kind = "exit" => reader = "ended"
                        /\ m.kind # "exit" => m.kind = KindOf(m.of, m.id)
                        /\ \A k \in DOMAIN inq : inq[k].id # m.id
                        /\ \A k \in DOMAIN outq : outq[k].id # m.id
    /\ \A m, n \in reply : m.id = n.id => m = n

\* Who has started a turn, or is about to, observes; one at most.
Observer ==
    /\ waiter # 0 => del[waiter].pc \in {"starting", "terminal"}
    /\ \A d \in Deliveries : del[d].pc \in {"starting", "terminal"} /\ reader # "ended" => waiter = d
    /\ reader = "ended" => waiter = 0

\* A turn belongs to one delivery, a running turn to the observer, and a delivery
\* that ended with a turn ended as the turn did.
Owned ==
    /\ \A t \in Turns : turns[t] = "none" => owner[t] = 0
    /\ \A t, u \in Turns : owner[t] # 0 /\ owner[t] = owner[u] => t = u
    /\ \A t \in Turns : turns[t] = "running" => owner[t] = waiter
    /\ \A d \in Deliveries : del[d].base \subseteq Known(turns)
    /\ \A t \in Turns, d \in Deliveries : owner[t] = d =>
         /\ del[d].pc \in {"starting", "terminal", "done"}
         /\ del[d].pc = "starting" => t \notin del[d].base
         /\ del[d].pc = "terminal" => del[d].turn = t
         /\ del[d].result # "rejected"
         /\ del[d].result \in Final => del[d].turn = t /\ turns[t] = del[d].result

\* A start on its way has started nothing, and was sent before any read that is.
Starts ==
    \A k \in DOMAIN inq : inq[k].kind = "start" =>
       LET d == inq[k].of IN
       /\ del[d].pc = "starting" /\ inq[k].id = del[d].id /\ inq[k].id \in pending
       /\ \A t \in Turns : owner[t] # d
       /\ del[d].read # 0 =>
            /\ \A j \in DOMAIN inq : inq[j].id = del[d].read => j > k
            /\ \A j \in DOMAIN outq : outq[j].id # del[d].read
            /\ \A m \in reply : m.id # del[d].read

\* What a response says of the turns.
Says(m) ==
    /\ m.kind = "read" =>
         /\ \A t \in Turns : m.snap[t] # "none" => turns[t] # "none"
         /\ \A t \in Turns : m.snap[t] \in Final => turns[t] = m.snap[t]
         /\ \A d \in Deliveries, t \in Turns :
              del[d].pc \in {"starting", "terminal"} /\ m.id = del[d].read /\ m.id # 0
                 /\ m.of = d /\ owner[t] = d
              => m.snap[t] # "none"
    /\ m.kind = "start" =>
         \A d \in Deliveries : del[d].pc = "starting" /\ m.id = del[d].id /\ m.of = d =>
            /\ m.status # "error" => m.turn # 0 /\ owner[m.turn] = d
            /\ m.status = "error" => \A t \in Turns : owner[t] # d

\* All that is said on the wire, or kept, is so.
Told == (\A k \in DOMAIN outq : Says(outq[k])) /\ \A m \in reply : Says(m)

\* Line k is the notice that turn t has ended.
Ends(k, t) == outq[k].kind = "turn/completed" /\ outq[k].turn = t

\* A notice is of an ended turn of the observer, comes once, and comes before
\* any snapshot that shows the end.
Notices ==
    /\ \A k \in DOMAIN outq, t \in Turns : Ends(k, t) =>
         turns[t] \in Final /\ waiter # 0 /\ owner[t] = waiter
    /\ \A j, k \in DOMAIN outq, t \in Turns : Ends(j, t) /\ Ends(k, t) => j = k
    /\ waiter # 0 => \A s \in DOMAIN signals :
         /\ turns[signals[s]] \in Final /\ owner[signals[s]] = waiter
         /\ \A k \in DOMAIN outq : ~Ends(k, signals[s])
    /\ \A k \in DOMAIN outq, t \in Turns :
         outq[k].kind = "read" /\ outq[k].snap[t] \in Final =>
            \A j \in DOMAIN outq : Ends(j, t) => j < k
    /\ \A m \in reply, t \in Turns :
         m.kind = "read" /\ m.snap[t] \in Final => \A j \in DOMAIN outq : ~Ends(j, t)

\* The correlation of the app-server, and all of it with the types.
AppInv == App => Waits /\ WireIds /\ Answers /\ Observer /\ Owned /\ Starts /\ Told /\ Notices
\* The inductive invariant.
HInv == RpcTypeOK /\ Lines /\ Opened /\ Acp /\ AppInv

-----------------------------------------------------------------------------
(* Lines, ids and records.                                                  *)

\* A line at the end of a channel.
LEMMA AppendLine ==
    ASSUME NEW S, NEW s \in Seq(S), NEW e \in S
    PROVE  /\ Append(s, e) \in Seq(S)
           /\ DOMAIN s \subseteq DOMAIN Append(s, e)
           /\ Len(s) + 1 \in DOMAIN Append(s, e) /\ Append(s, e)[Len(s) + 1] = e
           /\ \A k \in DOMAIN s : Append(s, e)[k] = s[k] /\ k \in Nat /\ k < Len(s) + 1
           /\ \A k \in DOMAIN Append(s, e) : k \in DOMAIN s \/ k = Len(s) + 1
           /\ Len(s) + 1 \in Nat
OBVIOUS

\* A channel without its first line.
LEMMA TailLine ==
    ASSUME NEW S, NEW s \in Seq(S), s # <<>>
    PROVE  /\ Tail(s) \in Seq(S)
           /\ 1 \in DOMAIN s /\ Head(s) = s[1] /\ Head(s) \in S
           /\ \A k \in DOMAIN Tail(s) : k + 1 \in DOMAIN s /\ Tail(s)[k] = s[k + 1] /\ k \in Nat /\ k > 0
           /\ \A k \in DOMAIN s : k \in Nat /\ k > 0
OBVIOUS

\* The empty channel has any type.
LEMMA EmptyLine ==
    ASSUME NEW S
    PROVE  << >> \in Seq(S) /\ DOMAIN << >> = {}
OBVIOUS

\* A fresh id is in no map and on no wire.
LEMMA FreshId ==
    ASSUME HasId, Lines
    PROVE  /\ Fresh \in Ids /\ Fresh # 0 /\ Fresh \notin pending
           /\ \A k \in DOMAIN inq : inq[k].id # Fresh
           /\ \A k \in DOMAIN outq : outq[k].id # Fresh
           /\ \A m \in reply : m.id # Fresh
<1>1. Fresh \in Ids /\ Fresh \notin UsedIds
  BY DEF HasId, Fresh
<1>2. 0 \notin Ids
  BY RpcAssumption DEF Ids
<1> QED
  BY <1>1, <1>2 DEF UsedIds, OnWire


\* The types of the lines, one by one.
LEMMA LineTypes ==
    ASSUME Lines
    PROVE  /\ \A k \in DOMAIN inq : /\ inq[k].of \in Deliveries /\ inq[k].id \in Ids /\ inq[k].id # 0
                                    /\ inq[k].kind \in {"read", "start", "steer", "prompt"}
                                    /\ inq[k].turn \in 0..MaxTurns
           /\ \A k \in DOMAIN outq : outq[k] \in Messages
           /\ \A m \in Messages : /\ m.id \in 0..MaxIds /\ m.turn \in 0..MaxTurns
                                  /\ m.snap \in Snaps /\ m.kind \in Kinds /\ m.status \in Statuses
                                  /\ m.of \in 0..MaxDeliveries
           /\ \A m \in reply : m \in Messages
           /\ \A k \in DOMAIN signals : signals[k] \in Turns
<1>1. \A k \in DOMAIN inq : inq[k] \in Requests
  BY DEF Lines
<1>2. \A k \in DOMAIN outq : outq[k] \in Messages
  BY DEF Lines
<1>3. \A k \in DOMAIN signals : signals[k] \in Turns
  BY DEF Lines
<1>4. 0 \notin Ids
  BY RpcAssumption DEF Ids
<1>5. \A m \in Messages : /\ m.id \in 0..MaxIds /\ m.turn \in 0..MaxTurns
                          /\ m.snap \in Snaps /\ m.kind \in Kinds /\ m.status \in Statuses
                          /\ m.of \in 0..MaxDeliveries
  BY DEF Messages
<1> QED
  BY <1>1, <1>2, <1>3, <1>4, <1>5 DEF Requests, Lines

-----------------------------------------------------------------------------
(* A delivery is over.                                                      *)

\* The records of a delivery.
DelRecords ==
    [pc : {"new", "start", "base", "register", "starting", "terminal", "gate", "steer", "send",
           "prompt", "done"},
     base : SUBSET Turns, turn : 0..MaxTurns, id : 0..MaxIds, read : 0..MaxIds, result : Results]

\* What the correlation of the app-server needs of the state's types.
Shaped ==
    /\ del \in [Deliveries -> DelRecords] /\ pending \subseteq Ids /\ waiter \in Deliveries \cup {0}
    /\ turns \in [Turns -> TurnStates] /\ owner \in [Turns -> Deliveries \cup {0}]
    /\ reader \in {"reading", "marked", "ended"}
    /\ Lines

\* The type invariant gives what the correlation needs.
LEMMA TypeShaped ==
    ASSUME RpcTypeOK, Lines
    PROVE  Shaped
BY DEF RpcTypeOK, Shaped, DelRecords

\* The record of a delivery that is over.
DoneRecord(r, t) ==
    [pc |-> "done", base |-> {}, turn |-> t, id |-> 0, read |-> 0, result |-> r]

\* Delivery d ends: its ids, answers and observation go.
Leaves(d, r, t) ==
    /\ del' = [del EXCEPT ![d] = DoneRecord(r, t)]
    /\ pending' = pending \ LiveIds(d)
    /\ reply' = {m \in reply : m.of # d}
    /\ waiter' = IF waiter = d THEN 0 ELSE waiter
    /\ signals' = IF waiter = d THEN <<>> ELSE signals
    /\ UNCHANGED <<dialect, turns, owner, inq, outq, reader>>

\* What must hold for a delivery to end with result r and turn t.
MayEnd(d, r, t) ==
    /\ r # "none"
    /\ r = "rejected" => \A u \in Turns : owner[u] # d
    /\ r \in Final => \A u \in Turns : owner[u] = d => u = t /\ turns[u] = r
    /\ waiter = d => /\ \A k \in DOMAIN outq, u \in Turns : ~Ends(k, u)
                     /\ \A u \in Turns : turns[u] # "running"
    /\ \A k \in DOMAIN inq : inq[k].kind = "start" => inq[k].of # d
    /\ \A u \in Turns : owner[u] = d => del[d].pc \in {"starting", "terminal"}

\* A delivery that may end so leaves the correlation whole.
LEMMA LeavesInv ==
    ASSUME Shaped, App, AppInv, NEW d \in Deliveries, NEW r \in Results, NEW t \in 0..MaxTurns,
           Leaves(d, r, t), MayEnd(d, r, t)
    PROVE  AppInv'
<1> DEFINE rec == DoneRecord(r, t)
<1>1. /\ \A e \in Deliveries : e # d => del'[e] = del[e] /\ LiveIds(e)' = LiveIds(e)
      /\ del'[d] = rec /\ LiveIds(d)' = {}
  BY DEF Shaped, Leaves, LiveIds, DoneRecord
<1>2. \A e \in Deliveries : \A i : e # d => KindOf(e, i)' = KindOf(e, i)
  BY <1>1 DEF KindOf
<1>3. Waits /\ WireIds /\ Answers /\ Observer /\ Owned /\ Starts /\ Told /\ Notices
  BY DEF AppInv, App
<1>4. Waits'
  <2>1. \A e \in Deliveries :
         (/\ del[e].pc \notin {"send", "prompt"}
          /\ del[e].id # 0 => del[e].pc \in {"starting", "steer"}
          /\ del[e].pc = "starting" => del[e].id # 0
          /\ del[e].read # 0 => del[e].pc \in {"base", "starting", "terminal"}
          /\ del[e].id # 0 => del[e].id # del[e].read)'
    BY <1>1, <1>3 DEF Waits, DoneRecord
  <2>2. \A e \in Deliveries : \A i \in LiveIds(e)' : i \in pending' \/ \E m \in reply' : m.of = e /\ m.id = i
    BY <1>1, <1>3 DEF Waits, Leaves
  <2>3. \A e, f \in Deliveries : e # f => LiveIds(e)' \cap LiveIds(f)' = {}
    BY <1>1, <1>3 DEF Waits
  <2>4. \A i \in pending' : \E e \in Deliveries : i \in LiveIds(e)'
    BY <1>1, <1>3 DEF Waits, Leaves
  <2> QED
    BY <1>3, <2>1, <2>2, <2>3, <2>4 DEF Waits, Leaves
<1>5. WireIds'
  BY <1>1, <1>2, <1>3 DEF WireIds, Leaves
<1>6. Answers'
  BY <1>1, <1>2, <1>3 DEF Answers, Leaves
<1>7. Observer'
  BY <1>1, <1>3 DEF Observer, Leaves, DoneRecord, Shaped
<1>8. Owned'
  BY <1>1, <1>3 DEF Owned, Leaves, DoneRecord, Shaped, MayEnd, Known
<1>9. Starts'
  <2> SUFFICES ASSUME NEW k \in DOMAIN inq, inq[k].kind = "start"
               PROVE  LET e == inq[k].of IN
                      (/\ del[e].pc = "starting" /\ inq[k].id = del[e].id /\ inq[k].id \in pending
                       /\ \A u \in Turns : owner[u] # e
                       /\ del[e].read # 0 =>
                            /\ \A j \in DOMAIN inq : inq[j].id = del[e].read => j > k
                            /\ \A j \in DOMAIN outq : outq[j].id # del[e].read
                            /\ \A m \in reply : m.id # del[e].read)'
    BY DEF Starts, Leaves
  <2>1. inq[k].of \in Deliveries /\ inq[k].of # d
    BY LineTypes DEF Shaped, MayEnd
  <2>2. inq[k].id \in LiveIds(inq[k].of) /\ inq[k].id \in pending
    BY <1>3, <2>1 DEF Starts, Waits, LiveIds
  <2>3. inq[k].id \notin LiveIds(d)
    BY <1>3, <2>1, <2>2 DEF Waits
  <2> QED
    BY <1>1, <1>3, <2>1, <2>2, <2>3 DEF Starts, Leaves
<1>10. Told'
  BY <1>1, <1>3 DEF Told, Says, Leaves, DoneRecord
<1>11. Notices'
  BY <1>1, <1>3 DEF Notices, Ends, Leaves, MayEnd
<1> QED
  BY <1>4, <1>5, <1>6, <1>7, <1>8, <1>9, <1>10, <1>11 DEF AppInv

-----------------------------------------------------------------------------
(* A read of the thread is over, a turn is known, a delivery moves on.      *)

\* What becomes of d; the other deliveries stay as they are.
LEMMA OnlyThis ==
    ASSUME Shaped, NEW d \in Deliveries, NEW rec, del' = [del EXCEPT ![d] = rec]
    PROVE  /\ del'[d] = rec
           /\ \A e \in Deliveries : e # d => del'[e] = del[e] /\ LiveIds(e)' = LiveIds(e)
           /\ \A e \in Deliveries : \A i : e # d => KindOf(e, i)' = KindOf(e, i)
BY DEF Shaped, LiveIds, KindOf

\* The read of d is over, answered or not.
ReadOver(d, p, b) ==
    /\ del' = [del EXCEPT ![d] = [del[d] EXCEPT !.pc = p, !.base = b, !.read = 0]]
    /\ pending' = pending \ {del[d].read}
    /\ reply' = {m \in reply : m.id # del[d].read}
    /\ UNCHANGED <<dialect, turns, owner, inq, outq, reader, waiter, signals>>

\* Its id may be forgotten.
LEMMA ReadOverInv ==
    ASSUME Shaped, App, AppInv, NEW d \in Deliveries, NEW p, NEW b, ReadOver(d, p, b),
           del[d].read # 0,
           \/ p = del[d].pc /\ b = del[d].base
           \/ del[d].pc = "base" /\ p = "register" /\ b \subseteq Known(turns)
    PROVE  AppInv'
<1> DEFINE rec == [del[d] EXCEPT !.pc = p, !.base = b, !.read = 0]
<1>1. /\ del'[d] = rec
      /\ \A e \in Deliveries : e # d => del'[e] = del[e] /\ LiveIds(e)' = LiveIds(e)
      /\ \A e \in Deliveries : \A i : e # d => KindOf(e, i)' = KindOf(e, i)
  BY OnlyThis DEF ReadOver
<1>2. Waits /\ WireIds /\ Answers /\ Observer /\ Owned /\ Starts /\ Told /\ Notices
  BY DEF AppInv, App
<1>3. /\ del'[d].pc = p /\ del'[d].base = b /\ del'[d].read = 0 /\ del'[d].id = del[d].id
      /\ del'[d].turn = del[d].turn /\ del'[d].result = del[d].result
  BY <1>1 DEF Shaped, DelRecords
<1>4. /\ LiveIds(d)' = LiveIds(d) \ {del[d].read}
      /\ \A i \in LiveIds(d)' : KindOf(d, i)' = KindOf(d, i)
      /\ del[d].read \in LiveIds(d)
  BY <1>2, <1>3 DEF LiveIds, KindOf, Waits
<1>5. \A e \in Deliveries : e # d => del[d].read \notin LiveIds(e)
  BY <1>2, <1>4 DEF Waits
<1> HIDE DEF rec
<1>6. Waits'
  <2>1. \A e \in Deliveries :
         (/\ del[e].pc \notin {"send", "prompt"}
          /\ del[e].id # 0 => del[e].pc \in {"starting", "steer"}
          /\ del[e].pc = "starting" => del[e].id # 0
          /\ del[e].read # 0 => del[e].pc \in {"base", "starting", "terminal"}
          /\ del[e].id # 0 => del[e].id # del[e].read)'
    BY <1>1, <1>2, <1>3 DEF Waits
  <2>2. \A e \in Deliveries : \A i \in LiveIds(e)' : i \in pending' \/ \E m \in reply' : m.of = e /\ m.id = i
    BY <1>1, <1>2, <1>4, <1>5 DEF Waits, ReadOver
  <2>3. \A e, f \in Deliveries : e # f => LiveIds(e)' \cap LiveIds(f)' = {}
    BY <1>1, <1>2, <1>4 DEF Waits
  <2>4. \A i \in pending' : \E e \in Deliveries : i \in LiveIds(e)'
    BY <1>1, <1>2, <1>4 DEF Waits, ReadOver
  <2> QED
    BY <1>2, <2>1, <2>2, <2>3, <2>4 DEF Waits, ReadOver
<1>7. WireIds'
  BY <1>1, <1>2, <1>4 DEF WireIds, ReadOver
<1>8. Answers'
  BY <1>1, <1>2, <1>4 DEF Answers, ReadOver
<1>9. Observer'
  BY <1>1, <1>2, <1>3 DEF Observer, ReadOver, Shaped
<1>10. Owned'
  BY <1>1, <1>2, <1>3 DEF Owned, ReadOver, Known
<1>11. Starts'
  <2>1. \A k \in DOMAIN inq : inq[k].of \in Deliveries
    BY LineTypes DEF Shaped
  <2>2. \A k \in DOMAIN inq : inq[k].kind = "start" => inq[k].id # del[d].read
    <3>1. \A k \in DOMAIN inq : inq[k].kind = "start" =>
             inq[k].id = del[inq[k].of].id /\ inq[k].id \in LiveIds(inq[k].of)
      BY <1>2, <2>1 DEF Starts, LiveIds, Waits
    <3> QED
      BY <1>2, <1>4, <1>5, <2>1, <3>1 DEF Waits
  <2> QED
    BY <1>1, <1>2, <1>3, <2>1, <2>2 DEF Starts, ReadOver
<1>12. Told'
  BY <1>1, <1>2, <1>3 DEF Told, Says, ReadOver
<1>13. Notices'
  BY <1>1, <1>2 DEF Notices, Ends, ReadOver
<1> QED
  BY <1>6, <1>7, <1>8, <1>9, <1>10, <1>11, <1>12, <1>13 DEF AppInv

\* The turn of d is known to be t.
Settles(d, t) ==
    /\ del' = [del EXCEPT ![d] = [del[d] EXCEPT !.pc = "terminal", !.turn = t, !.id = 0, !.read = 0]]
    /\ pending' = pending \ LiveIds(d)
    /\ reply' = {m \in reply : m.of # d}
    /\ UNCHANGED <<dialect, turns, owner, inq, outq, reader, waiter, signals>>

\* A delivery may take the turn it owns.
LEMMA SettlesInv ==
    ASSUME Shaped, App, AppInv, NEW d \in Deliveries, NEW t, Settles(d, t),
           del[d].pc = "starting", \A u \in Turns : owner[u] = d => u = t,
           \A k \in DOMAIN inq : inq[k].kind = "start" => inq[k].of # d
    PROVE  AppInv'
<1> DEFINE rec == [del[d] EXCEPT !.pc = "terminal", !.turn = t, !.id = 0, !.read = 0]
<1>1. /\ del'[d] = rec
      /\ \A e \in Deliveries : e # d => del'[e] = del[e] /\ LiveIds(e)' = LiveIds(e)
      /\ \A e \in Deliveries : \A i : e # d => KindOf(e, i)' = KindOf(e, i)
  BY OnlyThis DEF Settles
<1>2. Waits /\ WireIds /\ Answers /\ Observer /\ Owned /\ Starts /\ Told /\ Notices
  BY DEF AppInv, App
<1>3. /\ del'[d].pc = "terminal" /\ del'[d].base = del[d].base /\ del'[d].read = 0 /\ del'[d].id = 0
      /\ del'[d].turn = t /\ del'[d].result = del[d].result
  BY <1>1 DEF Shaped, DelRecords
<1>4. LiveIds(d)' = {}
  BY <1>3 DEF LiveIds
<1> HIDE DEF rec
<1>5. Waits'
  <2>1. \A e \in Deliveries :
         (/\ del[e].pc \notin {"send", "prompt"}
          /\ del[e].id # 0 => del[e].pc \in {"starting", "steer"}
          /\ del[e].pc = "starting" => del[e].id # 0
          /\ del[e].read # 0 => del[e].pc \in {"base", "starting", "terminal"}
          /\ del[e].id # 0 => del[e].id # del[e].read)'
    BY <1>1, <1>2, <1>3 DEF Waits
  <2>2. \A e \in Deliveries : \A i \in LiveIds(e)' : i \in pending' \/ \E m \in reply' : m.of = e /\ m.id = i
    BY <1>1, <1>2, <1>4 DEF Waits, Settles
  <2>3. \A e, f \in Deliveries : e # f => LiveIds(e)' \cap LiveIds(f)' = {}
    BY <1>1, <1>2, <1>4 DEF Waits
  <2>4. \A i \in pending' : \E e \in Deliveries : i \in LiveIds(e)'
    BY <1>1, <1>2 DEF Waits, Settles
  <2> QED
    BY <1>2, <2>1, <2>2, <2>3, <2>4 DEF Waits, Settles
<1>6. WireIds'
  BY <1>1, <1>2, <1>4 DEF WireIds, Settles
<1>7. Answers'
  BY <1>1, <1>2, <1>4 DEF Answers, Settles
<1>8. Observer'
  BY <1>1, <1>2, <1>3 DEF Observer, Settles, Shaped
<1>9. Owned'
  BY <1>1, <1>2, <1>3 DEF Owned, Settles, Known
<1>10. Starts'
  <2>1. \A k \in DOMAIN inq : inq[k].of \in Deliveries
    BY LineTypes DEF Shaped
  <2>2. \A k \in DOMAIN inq : inq[k].kind = "start" => inq[k].id \notin LiveIds(d)
    <3>1. \A k \in DOMAIN inq : inq[k].kind = "start" => inq[k].id \in LiveIds(inq[k].of)
      BY <1>2, <2>1 DEF Starts, LiveIds, Waits
    <3> QED
      BY <1>2, <2>1, <3>1 DEF Waits
  <2> QED
    BY <1>1, <1>2, <1>3, <2>1, <2>2 DEF Starts, Settles
<1>11. Told'
  BY <1>1, <1>2, <1>3 DEF Told, Says, Settles
<1>12. Notices'
  BY <1>1, <1>2 DEF Notices, Ends, Settles
<1> QED
  BY <1>5, <1>6, <1>7, <1>8, <1>9, <1>10, <1>11, <1>12 DEF AppInv

\* A delivery that waits for nothing moves on, and owns no turn.
Moves(d, p, b, t) ==
    /\ del' = [del EXCEPT ![d] = [del[d] EXCEPT !.pc = p, !.base = b, !.turn = t]]
    /\ UNCHANGED <<dialect, turns, owner, inq, outq, reader, pending, reply, waiter, signals>>

\* A delivery that owns no turn may move on to any step that has not started one.
LEMMA MovesInv ==
    ASSUME Shaped, App, AppInv, NEW d \in Deliveries, NEW p, NEW b, NEW t, Moves(d, p, b, t),
           del[d].pc \in {"new", "start", "gate"}, p \in {"start", "register", "gate", "steer"},
           b \subseteq Known(turns)
    PROVE  AppInv'
<1> DEFINE rec == [del[d] EXCEPT !.pc = p, !.base = b, !.turn = t]
<1>1. /\ del'[d] = rec
      /\ \A e \in Deliveries : e # d => del'[e] = del[e] /\ LiveIds(e)' = LiveIds(e)
      /\ \A e \in Deliveries : \A i : e # d => KindOf(e, i)' = KindOf(e, i)
  BY OnlyThis DEF Moves
<1>2. Waits /\ WireIds /\ Answers /\ Observer /\ Owned /\ Starts /\ Told /\ Notices
  BY DEF AppInv, App
<1>3. /\ del'[d].pc = p /\ del'[d].base = b /\ del'[d].read = 0 /\ del'[d].id = 0
      /\ del'[d].turn = t /\ del'[d].result = del[d].result /\ del[d].read = 0 /\ del[d].id = 0
  BY <1>1, <1>2 DEF Shaped, DelRecords, Waits
<1>4. LiveIds(d)' = {} /\ LiveIds(d) = {}
  BY <1>3 DEF LiveIds
<1> HIDE DEF rec
<1>5. \A e \in Deliveries : LiveIds(e)' = LiveIds(e)
  BY <1>1, <1>4
<1>6. Waits'
  <2>1. \A e \in Deliveries :
         (/\ del[e].pc \notin {"send", "prompt"}
          /\ del[e].id # 0 => del[e].pc \in {"starting", "steer"}
          /\ del[e].pc = "starting" => del[e].id # 0
          /\ del[e].read # 0 => del[e].pc \in {"base", "starting", "terminal"}
          /\ del[e].id # 0 => del[e].id # del[e].read)'
    BY <1>1, <1>2, <1>3 DEF Waits
  <2> QED
    BY <1>2, <1>5, <2>1 DEF Waits, Moves
<1>7. WireIds'
  BY <1>1, <1>2, <1>4 DEF WireIds, Moves
<1>8. Answers'
  BY <1>1, <1>2, <1>4 DEF Answers, Moves
<1>9. Observer'
  BY <1>1, <1>2, <1>3 DEF Observer, Moves, Shaped
<1>10. Owned'
  BY <1>1, <1>2, <1>3 DEF Owned, Moves, Known
<1>11. Starts'
  <2>1. \A k \in DOMAIN inq : inq[k].of \in Deliveries
    BY LineTypes DEF Shaped
  <2> QED
    BY <1>1, <1>2, <1>3, <2>1 DEF Starts, Moves
<1>12. Told'
  BY <1>1, <1>2, <1>3 DEF Told, Says, Moves
<1>13. Notices'
  BY <1>1, <1>2 DEF Notices, Ends, Moves
<1> QED
  BY <1>6, <1>7, <1>8, <1>9, <1>10, <1>11, <1>12, <1>13 DEF AppInv

-----------------------------------------------------------------------------
(* A request goes out.                                                      *)

\* A request.
Line(d, i, kind, t) == [id |-> i, of |-> d, kind |-> kind, turn |-> t]

\* Delivery d asks with id i.
Asks(d, i, kind, t, rec) ==
    /\ del' = [del EXCEPT ![d] = rec]
    /\ pending' = pending \cup {i}
    /\ inq' = inq \/ inq' = Append(inq, Line(d, i, kind, t))
    /\ UNCHANGED <<dialect, turns, owner, outq, reader, reply>>

\* Nothing has the id i.
FreshFor(i) ==
    /\ i \in Ids /\ i # 0 /\ i \notin pending
    /\ \A k \in DOMAIN inq : inq[k].id # i
    /\ \A k \in DOMAIN outq : outq[k].id # i
    /\ \A m \in reply : m.id # i

\* The lines on the child's stdin are the old ones, and perhaps the new one at the end.
LEMMA AskedLines ==
    ASSUME Shaped, NEW d \in Deliveries, NEW i \in Ids, NEW kind \in {"read", "start", "steer"},
           NEW t \in 0..MaxTurns, NEW rec, Asks(d, i, kind, t, rec)
    PROVE  /\ inq' \in Seq(Requests)
           /\ DOMAIN inq \subseteq DOMAIN inq'
           /\ \A k \in DOMAIN inq : inq'[k] = inq[k]
           /\ \A k \in DOMAIN inq' : k \in DOMAIN inq \/ (inq'[k] = Line(d, i, kind, t)
                                                         /\ \A j \in DOMAIN inq : k > j)
           /\ \A j, k \in DOMAIN inq' : j \notin DOMAIN inq /\ k \notin DOMAIN inq => j = k
<1>1. inq \in Seq(Requests) /\ Line(d, i, kind, t) \in Requests
  BY DEF Shaped, Lines, Requests, Line
<1>2. CASE inq' = inq
  BY <1>1, <1>2
<1>3. CASE inq' = Append(inq, Line(d, i, kind, t))
  BY <1>1, <1>3, AppendLine
<1> QED
  BY <1>2, <1>3 DEF Asks

\* A request with a fresh id keeps ids and answers apart.
LEMMA AskCorrelates ==
    ASSUME Shaped, App, AppInv, NEW d \in Deliveries, NEW i, FreshFor(i),
           NEW kind \in {"read", "start", "steer"}, NEW t \in 0..MaxTurns, NEW rec,
           Asks(d, i, kind, t, rec),
           LiveIds(d)' = LiveIds(d) \cup {i}, KindOf(d, i)' = kind,
           \A j \in LiveIds(d) : KindOf(d, j)' = KindOf(d, j),
           (/\ del[d].pc \notin {"send", "prompt"}
            /\ del[d].id # 0 => del[d].pc \in {"starting", "steer"}
            /\ del[d].pc = "starting" => del[d].id # 0
            /\ del[d].read # 0 => del[d].pc \in {"base", "starting", "terminal"}
            /\ del[d].id # 0 => del[d].id # del[d].read)'
    PROVE  Waits' /\ WireIds' /\ Answers'
<1>1. /\ del'[d] = rec
      /\ \A e \in Deliveries : e # d => del'[e] = del[e] /\ LiveIds(e)' = LiveIds(e)
      /\ \A e \in Deliveries : \A j : e # d => KindOf(e, j)' = KindOf(e, j)
  BY OnlyThis DEF Asks
<1>2. Waits /\ WireIds /\ Answers
  BY DEF AppInv, App
<1>3. \A e \in Deliveries : i \notin LiveIds(e)
  BY <1>2 DEF Waits, FreshFor
<1>4. /\ DOMAIN inq \subseteq DOMAIN inq'
      /\ \A k \in DOMAIN inq : inq'[k] = inq[k]
      /\ \A k \in DOMAIN inq' : k \in DOMAIN inq \/ inq'[k] = Line(d, i, kind, t)
      /\ \A j, k \in DOMAIN inq' : j \notin DOMAIN inq /\ k \notin DOMAIN inq => j = k
  BY AskedLines DEF FreshFor
<1>5. /\ Line(d, i, kind, t).id = i /\ Line(d, i, kind, t).of = d
      /\ Line(d, i, kind, t).kind = kind
  BY DEF Line
<1>6. Waits'
  <2>1. \A e \in Deliveries :
         (/\ del[e].pc \notin {"send", "prompt"}
          /\ del[e].id # 0 => del[e].pc \in {"starting", "steer"}
          /\ del[e].pc = "starting" => del[e].id # 0
          /\ del[e].read # 0 => del[e].pc \in {"base", "starting", "terminal"}
          /\ del[e].id # 0 => del[e].id # del[e].read)'
    BY <1>1, <1>2 DEF Waits
  <2>2. \A e \in Deliveries : \A j \in LiveIds(e)' : j \in pending' \/ \E m \in reply' : m.of = e /\ m.id = j
    BY <1>1, <1>2 DEF Waits, Asks
  <2>3. \A e, f \in Deliveries : e # f => LiveIds(e)' \cap LiveIds(f)' = {}
    BY <1>1, <1>2, <1>3 DEF Waits
  <2>4. \A j \in pending' : \E e \in Deliveries : j \in LiveIds(e)'
    BY <1>1, <1>2 DEF Waits, Asks
  <2>5. \A k \in DOMAIN inq' : inq'[k].kind # "prompt"
    BY <1>2, <1>4, <1>5 DEF Waits
  <2> QED
    BY <2>1, <2>2, <2>3, <2>4, <2>5 DEF Waits
<1>7. WireIds'
  <2>1. \A j, k \in DOMAIN inq' : inq'[j].id = inq'[k].id => j = k
    BY <1>2, <1>4, <1>5 DEF WireIds, FreshFor
  <2>2. \A j \in DOMAIN inq', k \in DOMAIN outq : inq'[j].id # outq[k].id
    BY <1>2, <1>4, <1>5 DEF WireIds, FreshFor
  <2>3. \A e \in Deliveries, k \in DOMAIN inq' : \A j :
          j = inq'[k].id /\ j \in LiveIds(e)' \cap pending' =>
             inq'[k].of = e /\ inq'[k].kind = KindOf(e, j)'
    BY <1>1, <1>2, <1>3, <1>4, <1>5 DEF WireIds, FreshFor, Asks
  <2>4. \A e \in Deliveries, k \in DOMAIN outq : \A j :
          j = outq[k].id /\ j \in LiveIds(e)' \cap pending' =>
             outq[k].of = e /\ outq[k].kind = KindOf(e, j)'
    BY <1>1, <1>2 DEF WireIds, FreshFor, Asks
  <2> QED
    BY <1>2, <2>1, <2>2, <2>3, <2>4 DEF WireIds, Asks
<1>8. Answers'
  BY <1>1, <1>2, <1>4, <1>5 DEF Answers, FreshFor, Asks
<1> QED
  BY <1>6, <1>7, <1>8

\* Delivery d waits for a snapshot.
AskedRead(d, i, p) == [del[d] EXCEPT !.pc = p, !.read = i]

\* It may ask for one before its turn or while it observes.
LEMMA AskReadInv ==
    ASSUME Shaped, App, AppInv, NEW d \in Deliveries, NEW i, FreshFor(i), NEW p,
           Asks(d, i, "read", 0, AskedRead(d, i, p)), UNCHANGED <<waiter, signals>>,
           del[d].read = 0,
           \/ del[d].pc \in {"starting", "terminal"} /\ p = del[d].pc
           \/ del[d].pc = "start" /\ p = "base"
    PROVE  AppInv'
<1>1. /\ del'[d] = AskedRead(d, i, p)
      /\ \A e \in Deliveries : e # d => del'[e] = del[e] /\ LiveIds(e)' = LiveIds(e)
  BY OnlyThis DEF Asks
<1>2. Waits /\ WireIds /\ Answers /\ Observer /\ Owned /\ Starts /\ Told /\ Notices
  BY DEF AppInv, App
<1>3. /\ del'[d].pc = p /\ del'[d].base = del[d].base /\ del'[d].read = i /\ del'[d].id = del[d].id
      /\ del'[d].turn = del[d].turn /\ del'[d].result = del[d].result
  BY <1>1 DEF Shaped, DelRecords, AskedRead
<1>4. \A e \in Deliveries : i \notin LiveIds(e)
  BY <1>2 DEF Waits, FreshFor
<1>5. /\ DOMAIN inq \subseteq DOMAIN inq'
      /\ \A k \in DOMAIN inq : inq'[k] = inq[k]
      /\ \A k \in DOMAIN inq' : k \in DOMAIN inq \/ (inq'[k] = Line(d, i, "read", 0)
                                                    /\ \A j \in DOMAIN inq : k > j)
  BY AskedLines, RpcAssumption DEF FreshFor
<1>6. /\ Line(d, i, "read", 0).id = i /\ Line(d, i, "read", 0).of = d
      /\ Line(d, i, "read", 0).kind = "read"
  BY DEF Line
<1>7. Waits' /\ WireIds' /\ Answers'
  <2>1. LiveIds(d)' = LiveIds(d) \cup {i} /\ KindOf(d, i)' = "read"
    BY <1>3 DEF LiveIds, KindOf, FreshFor
  <2>2. \A j \in LiveIds(d) : KindOf(d, j)' = KindOf(d, j)
    BY <1>2, <1>3, <1>4 DEF LiveIds, KindOf, Waits
  <2>3. (/\ del[d].pc \notin {"send", "prompt"}
         /\ del[d].id # 0 => del[d].pc \in {"starting", "steer"}
         /\ del[d].pc = "starting" => del[d].id # 0
         /\ del[d].read # 0 => del[d].pc \in {"base", "starting", "terminal"}
         /\ del[d].id # 0 => del[d].id # del[d].read)'
    BY <1>2, <1>3, <1>4 DEF Waits, LiveIds
  <2>4. 0 \in 0..MaxTurns
    BY RpcAssumption
  <2> QED
    BY <2>1, <2>2, <2>3, <2>4, AskCorrelates
<1>8. Observer'
  BY <1>1, <1>2, <1>3 DEF Observer, Asks, Shaped
<1>9. Owned'
  BY <1>1, <1>2, <1>3 DEF Owned, Asks, Known
<1>10. Starts'
  <2>1. \A k \in DOMAIN inq : inq[k].of \in Deliveries
    BY LineTypes DEF Shaped
  <2> SUFFICES ASSUME NEW k \in DOMAIN inq', inq'[k].kind = "start"
               PROVE  LET e == inq'[k].of IN
                      /\ del'[e].pc = "starting" /\ inq'[k].id = del'[e].id
                      /\ inq'[k].id \in pending' /\ \A u \in Turns : owner'[u] # e
                      /\ del'[e].read # 0 =>
                           /\ \A j \in DOMAIN inq' : inq'[j].id = del'[e].read => j > k
                           /\ \A j \in DOMAIN outq' : outq'[j].id # del'[e].read
                           /\ \A m \in reply' : m.id # del'[e].read
    BY DEF Starts
  <2>2. k \in DOMAIN inq /\ inq'[k] = inq[k]
    BY <1>5, <1>6
  <2>3. CASE inq[k].of = d
    BY <1>2, <1>3, <1>5, <2>2, <2>3 DEF Starts, Asks, FreshFor
  <2>4. CASE inq[k].of # d
    <3>1. inq[k].of \in Deliveries /\ del'[inq[k].of] = del[inq[k].of]
      BY <1>1, <2>1, <2>2, <2>4
    <3>2. del[inq[k].of].read # i \/ del[inq[k].of].read = 0
      BY <1>4, <3>1 DEF LiveIds
    <3> QED
      BY <1>2, <1>5, <1>6, <2>2, <3>1, <3>2 DEF Starts, Asks
  <2> QED
    BY <2>3, <2>4
<1>11. Told'
  BY <1>1, <1>2, <1>3 DEF Told, Says, Asks, FreshFor
<1>12. Notices'
  BY <1>1, <1>2 DEF Notices, Ends, Asks
<1> QED
  BY <1>7, <1>8, <1>9, <1>10, <1>11, <1>12 DEF AppInv

\* Delivery d waits for its turn to start.
AskedStart(d, i) == [del[d] EXCEPT !.pc = "starting", !.id = i]

\* Nothing runs when there is no observer, so it may become the one.
LEMMA AskStartInv ==
    ASSUME Shaped, Opened, App, AppInv, NEW d \in Deliveries, NEW i, FreshFor(i),
           Asks(d, i, "start", 0, AskedStart(d, i)), waiter = 0, waiter' = d, signals' = <<>>,
           reader = "reading", del[d].pc = "register"
    PROVE  AppInv'
<1>1. /\ del'[d] = AskedStart(d, i)
      /\ \A e \in Deliveries : e # d => del'[e] = del[e] /\ LiveIds(e)' = LiveIds(e)
  BY OnlyThis DEF Asks
<1>2. Waits /\ WireIds /\ Answers /\ Observer /\ Owned /\ Starts /\ Told /\ Notices
  BY DEF AppInv, App
<1>3. /\ del'[d].pc = "starting" /\ del'[d].base = del[d].base /\ del'[d].read = 0 /\ del'[d].id = i
      /\ del'[d].turn = del[d].turn /\ del'[d].result = del[d].result /\ del[d].id = 0 /\ del[d].read = 0
  BY <1>1, <1>2 DEF Shaped, DelRecords, AskedStart, Waits
<1>4. \A e \in Deliveries : i \notin LiveIds(e)
  BY <1>2 DEF Waits, FreshFor
<1>5. /\ DOMAIN inq \subseteq DOMAIN inq'
      /\ \A k \in DOMAIN inq : inq'[k] = inq[k]
      /\ \A k \in DOMAIN inq' : k \in DOMAIN inq \/ inq'[k] = Line(d, i, "start", 0)
  BY AskedLines, RpcAssumption DEF FreshFor
<1>6. /\ Line(d, i, "start", 0).id = i /\ Line(d, i, "start", 0).of = d
      /\ Line(d, i, "start", 0).kind = "start"
  BY DEF Line
<1>7. Waits' /\ WireIds' /\ Answers'
  <2>1. LiveIds(d)' = LiveIds(d) \cup {i} /\ KindOf(d, i)' = "start" /\ LiveIds(d) = {}
    BY <1>3 DEF LiveIds, KindOf, FreshFor
  <2>2. (/\ del[d].pc \notin {"send", "prompt"}
         /\ del[d].id # 0 => del[d].pc \in {"starting", "steer"}
         /\ del[d].pc = "starting" => del[d].id # 0
         /\ del[d].read # 0 => del[d].pc \in {"base", "starting", "terminal"}
         /\ del[d].id # 0 => del[d].id # del[d].read)'
    BY <1>3 DEF FreshFor
  <2>3. 0 \in 0..MaxTurns
    BY RpcAssumption
  <2> QED
    BY <2>1, <2>2, <2>3, AskCorrelates
<1>8. Observer'
  BY <1>1, <1>2, <1>3, RpcAssumption DEF Observer, Asks, Shaped, Deliveries
\* Nobody observes the thread, so no turn runs.
<1>9. Owned'
  <2>1. \A t \in Turns : turns[t] # "running"
    <3>1. \A t \in Turns : turns[t] = "running" => owner[t] = 0
      BY <1>2 DEF Owned
    <3> QED
      BY <3>1 DEF Opened
  <2> QED
    BY <1>1, <1>2, <1>3, <2>1 DEF Owned, Asks, Known
<1>10. Starts'
  <2>1. \A k \in DOMAIN inq : inq[k].kind # "start"
    <3>1. \A k \in DOMAIN inq : inq[k].of \in Deliveries /\ inq[k].of # 0
      BY LineTypes, RpcAssumption DEF Shaped, Deliveries
    <3> QED
      BY <1>2, <3>1 DEF Starts, Observer
  <2>2. \A k \in DOMAIN inq' : inq'[k].kind = "start" => inq'[k] = Line(d, i, "start", 0)
    BY <1>5, <2>1
  <2>3. \A t \in Turns : owner[t] # d
    BY <1>2 DEF Owned
  <2> QED
    BY <1>3, <1>6, <2>2, <2>3 DEF Starts, Asks
<1>11. Told'
  BY <1>1, <1>2, <1>3 DEF Told, Says, Asks, FreshFor
<1>12. Notices'
  BY <1>1, <1>2, EmptyLine DEF Notices, Ends, Asks
<1> QED
  BY <1>7, <1>8, <1>9, <1>10, <1>11, <1>12 DEF AppInv

\* Delivery d waits for its steer.
AskedSteer(d, i) == [del[d] EXCEPT !.id = i]

\* A steer starts no turn.
LEMMA AskSteerInv ==
    ASSUME Shaped, App, AppInv, NEW d \in Deliveries, NEW i, FreshFor(i), NEW t \in 0..MaxTurns,
           Asks(d, i, "steer", t, AskedSteer(d, i)), UNCHANGED <<waiter, signals>>,
           del[d].pc = "steer", del[d].id = 0
    PROVE  AppInv'
<1>1. /\ del'[d] = AskedSteer(d, i)
      /\ \A e \in Deliveries : e # d => del'[e] = del[e] /\ LiveIds(e)' = LiveIds(e)
  BY OnlyThis DEF Asks
<1>2. Waits /\ WireIds /\ Answers /\ Observer /\ Owned /\ Starts /\ Told /\ Notices
  BY DEF AppInv, App
<1>3. /\ del'[d].pc = "steer" /\ del'[d].base = del[d].base /\ del'[d].read = 0 /\ del'[d].id = i
      /\ del'[d].turn = del[d].turn /\ del'[d].result = del[d].result /\ del[d].read = 0
  BY <1>1, <1>2 DEF Shaped, DelRecords, AskedSteer, Waits
<1>4. \A e \in Deliveries : i \notin LiveIds(e)
  BY <1>2 DEF Waits, FreshFor
<1>5. /\ DOMAIN inq \subseteq DOMAIN inq'
      /\ \A k \in DOMAIN inq : inq'[k] = inq[k]
      /\ \A k \in DOMAIN inq' : k \in DOMAIN inq \/ inq'[k] = Line(d, i, "steer", t)
  BY AskedLines DEF FreshFor
<1>6. /\ Line(d, i, "steer", t).id = i /\ Line(d, i, "steer", t).of = d
      /\ Line(d, i, "steer", t).kind = "steer"
  BY DEF Line
<1>7. Waits' /\ WireIds' /\ Answers'
  <2>1. LiveIds(d)' = LiveIds(d) \cup {i} /\ KindOf(d, i)' = "steer" /\ LiveIds(d) = {}
    BY <1>3 DEF LiveIds, KindOf, FreshFor
  <2>2. (/\ del[d].pc \notin {"send", "prompt"}
         /\ del[d].id # 0 => del[d].pc \in {"starting", "steer"}
         /\ del[d].pc = "starting" => del[d].id # 0
         /\ del[d].read # 0 => del[d].pc \in {"base", "starting", "terminal"}
         /\ del[d].id # 0 => del[d].id # del[d].read)'
    BY <1>3 DEF FreshFor
  <2> QED
    BY <2>1, <2>2, AskCorrelates
<1>8. Observer'
  BY <1>1, <1>2, <1>3 DEF Observer, Asks, Shaped
<1>9. Owned'
  BY <1>1, <1>2, <1>3 DEF Owned, Asks, Known
<1>10. Starts'
  <2>1. \A k \in DOMAIN inq : inq[k].of \in Deliveries
    BY LineTypes DEF Shaped
  <2>2. \A k \in DOMAIN inq' : inq'[k].kind = "start" => k \in DOMAIN inq /\ inq'[k] = inq[k]
    BY <1>5, <1>6
  <2>3. \A k \in DOMAIN inq : inq[k].kind = "start" =>
          /\ inq[k].of # d /\ del'[inq[k].of] = del[inq[k].of]
          /\ del[inq[k].of].read # i \/ del[inq[k].of].read = 0
    BY <1>1, <1>2, <1>4, <2>1 DEF Starts, LiveIds
  <2> QED
    BY <1>2, <1>5, <1>6, <2>2, <2>3 DEF Starts, Asks
<1>11. Told'
  BY <1>1, <1>2, <1>3 DEF Told, Says, Asks
<1>12. Notices'
  BY <1>1, <1>2 DEF Notices, Ends, Asks
<1> QED
  BY <1>7, <1>8, <1>9, <1>10, <1>11, <1>12 DEF AppInv

-----------------------------------------------------------------------------
(* The child takes a line.                                                  *)

\* A channel and a single line.
LEMMA ConcatLine ==
    ASSUME NEW S, NEW s \in Seq(S), NEW e \in S
    PROVE  s \o <<e>> = Append(s, e)
OBVIOUS

\* What the child writes: nothing, an answer, a note, or an answer and then a note.
Writes(m, n) ==
    outq' \in {outq, Append(outq, m), Append(outq, n), Append(Append(outq, m), n)}

\* What stdout is after the child has written.
LEMMA WrittenLines ==
    ASSUME Shaped, NEW m \in Messages, NEW n \in Messages, m # n, Writes(m, n)
    PROVE  /\ outq' \in Seq(Messages)
           /\ DOMAIN outq \subseteq DOMAIN outq'
           /\ \A k \in DOMAIN outq : outq'[k] = outq[k]
           /\ \A k \in DOMAIN outq' : k \in DOMAIN outq
                                      \/ (/\ outq'[k] = m \/ outq'[k] = n
                                          /\ \A j \in DOMAIN outq : j < k)
           /\ \A j, k \in DOMAIN outq' :
                j \notin DOMAIN outq /\ k \notin DOMAIN outq /\ outq'[j] = outq'[k] => j = k
<1>1. outq \in Seq(Messages)
  BY DEF Shaped, Lines
<1>2. CASE outq' = outq
  BY <1>1, <1>2
<1>3. CASE outq' = Append(outq, m)
  BY <1>1, <1>3, AppendLine
<1>4. CASE outq' = Append(outq, n)
  BY <1>1, <1>4, AppendLine
<1>5. CASE outq' = Append(Append(outq, m), n)
  <2> DEFINE s == Append(outq, m)
  <2>1. /\ s \in Seq(Messages) /\ DOMAIN outq \subseteq DOMAIN s /\ s[Len(outq) + 1] = m
        /\ \A k \in DOMAIN outq : s[k] = outq[k] /\ k \in Nat /\ k < Len(outq) + 1
        /\ \A k \in DOMAIN s : k \in DOMAIN outq \/ k = Len(outq) + 1
        /\ Len(outq) + 1 \in DOMAIN s
    BY <1>1, AppendLine
  <2>2. /\ outq' \in Seq(Messages) /\ DOMAIN s \subseteq DOMAIN outq' /\ outq'[Len(s) + 1] = n
        /\ \A k \in DOMAIN s : outq'[k] = s[k] /\ k \in Nat /\ k < Len(s) + 1
        /\ \A k \in DOMAIN outq' : k \in DOMAIN s \/ k = Len(s) + 1
    BY <1>5, <2>1, AppendLine
  <2> HIDE DEF s
  <2> QED
    BY SMTT(30), <2>1, <2>2
<1> QED
  BY <1>2, <1>3, <1>4, <1>5 DEF Writes

\* A line that answers nothing.
IsNote(n) == n.id = 0 /\ n.kind \in {"turn/started", "turn/completed"}

\* The answer to the first line, as far as the correlation goes.
Answers0(m) == /\ m.id = Head(inq).id /\ m.of = Head(inq).of /\ m.kind = Head(inq).kind

\* An answer takes the place of its request on the wire.
LEMMA TakeCorrelates ==
    ASSUME Shaped, App, AppInv, NEW m \in Messages, NEW n \in Messages, Answers0(m), IsNote(n),
           Writes(m, n), n.turn # 0 \/ outq' \in {outq, Append(outq, m)}, inq # <<>>, inq' = Tail(inq),
           UNCHANGED <<dialect, reader, pending, reply, del>>
    PROVE  Waits' /\ WireIds' /\ Answers'
<1>1. Waits /\ WireIds /\ Answers
  BY DEF AppInv, App
<1>2. /\ \A e \in Deliveries : LiveIds(e)' = LiveIds(e)
      /\ \A e \in Deliveries : \A i : KindOf(e, i)' = KindOf(e, i)
  BY DEF LiveIds, KindOf
<1>3. /\ 1 \in DOMAIN inq /\ Head(inq) = inq[1]
      /\ \A k \in DOMAIN inq' : k + 1 \in DOMAIN inq /\ inq'[k] = inq[k + 1] /\ k \in Nat /\ k > 0
  BY TailLine DEF Shaped, Lines
<1>4. inq[1].id # 0 /\ inq[1].kind \in {"read", "start", "steer"}
  BY <1>1, <1>3, LineTypes DEF Shaped, Waits
<1>5. m # n /\ n.id = 0 /\ m.id = inq[1].id /\ m.of = inq[1].of /\ m.kind = inq[1].kind
  BY <1>3, <1>4 DEF Answers0, IsNote
<1>6. /\ DOMAIN outq \subseteq DOMAIN outq'
      /\ \A k \in DOMAIN outq : outq'[k] = outq[k]
      /\ \A k \in DOMAIN outq' : k \in DOMAIN outq \/ outq'[k] = m \/ (outq'[k] = n /\ n.turn # 0)
      /\ \A j, k \in DOMAIN outq' :
           j \notin DOMAIN outq /\ k \notin DOMAIN outq /\ outq'[j] = outq'[k] => j = k
  <2>1. outq \in Seq(Messages)
    BY DEF Shaped, Lines
  <2>2. CASE n.turn # 0
    BY <1>5, <2>2, WrittenLines
  <2>3. CASE outq' \in {outq, Append(outq, m)}
    BY <2>1, <2>3, AppendLine
  <2> QED
    BY <2>2, <2>3
<1>7. \A k \in DOMAIN inq' : inq'[k].id # inq[1].id
  BY <1>1, <1>3 DEF WireIds
<1>8. Waits'
  BY <1>1, <1>2, <1>3 DEF Waits
<1>9. WireIds'
  <2>1. \A j, k \in DOMAIN inq' : inq'[j].id = inq'[k].id => j = k
    <3>1. \A j, k \in DOMAIN inq' : inq'[j].id = inq'[k].id => j + 1 = k + 1
      BY <1>1, <1>3 DEF WireIds
    <3> QED
      BY <1>3, <3>1
  <2>2. \A j, k \in DOMAIN outq' : outq'[j].id # 0 /\ outq'[j].id = outq'[k].id => j = k
    BY <1>1, <1>3, <1>5, <1>6 DEF WireIds
  <2>3. \A j \in DOMAIN inq', k \in DOMAIN outq' : inq'[j].id # outq'[k].id
    <3>1. \A j \in DOMAIN inq' : inq'[j].id # 0
      BY <1>3, LineTypes DEF Shaped
    <3>2. \A j \in DOMAIN inq', k \in DOMAIN outq : inq'[j].id # outq[k].id
      BY <1>1, <1>3 DEF WireIds
    <3> QED
      BY <1>5, <1>6, <1>7, <3>1, <3>2
  <2>4. \A e \in Deliveries, k \in DOMAIN inq' : \A i :
          i = inq'[k].id /\ i \in LiveIds(e)' \cap pending' =>
             inq'[k].of = e /\ inq'[k].kind = KindOf(e, i)'
    BY <1>1, <1>2, <1>3 DEF WireIds
  <2>5. \A e \in Deliveries, k \in DOMAIN outq' : \A i :
          i = outq'[k].id /\ i \in LiveIds(e)' \cap pending' =>
             outq'[k].of = e /\ outq'[k].kind = KindOf(e, i)'
    BY <1>1, <1>2, <1>3, <1>5, <1>6 DEF WireIds, LiveIds
  <2>6. \A k \in DOMAIN outq' : /\ outq'[k].id = 0 <=> outq'[k].kind \in {"turn/started", "turn/completed"}
                                /\ outq'[k].kind # "exit"
                                /\ outq'[k].kind \in {"turn/started", "turn/completed"} =>
                                     outq'[k].turn # 0
    BY <1>1, <1>4, <1>5, <1>6 DEF WireIds, IsNote
  <2> QED
    BY <2>1, <2>2, <2>3, <2>4, <2>5, <2>6 DEF WireIds
<1>10. Answers'
  BY <1>1, <1>2, <1>3, <1>5, <1>6 DEF Answers, LiveIds
<1> QED
  BY <1>8, <1>9, <1>10

\* A read, a steer, or a refusal: the turns stay as they are.
LEMMA TakeQuietInv ==
    ASSUME Shaped, App, AppInv, NEW m \in Messages, NEW n \in Messages, Answers0(m), IsNote(n),
           outq' \in {outq, Append(outq, m)}, inq # <<>>, inq' = Tail(inq),
           Head(inq).kind = "read" => m.snap = turns,
           Head(inq).kind = "start" => m.status = "error",
           UNCHANGED <<dialect, turns, owner, reader, pending, reply, del, waiter, signals>>
    PROVE  AppInv'
<1>1. Waits /\ WireIds /\ Answers /\ Observer /\ Owned /\ Starts /\ Told /\ Notices
  BY DEF AppInv, App
<1>2. Writes(m, n)
  BY DEF Writes
<1>3. Waits' /\ WireIds' /\ Answers'
  BY <1>2, TakeCorrelates
<1>4. /\ 1 \in DOMAIN inq /\ Head(inq) = inq[1]
      /\ \A k \in DOMAIN inq' : k + 1 \in DOMAIN inq /\ inq'[k] = inq[k + 1] /\ k \in Nat /\ k > 0
  BY TailLine DEF Shaped, Lines
<1>5. /\ inq[1].id # 0 /\ inq[1].of \in Deliveries
      /\ m.id = inq[1].id /\ m.of = inq[1].of /\ m.kind = inq[1].kind
  BY <1>4, LineTypes DEF Shaped, Answers0
<1>6. /\ DOMAIN outq \subseteq DOMAIN outq'
      /\ \A k \in DOMAIN outq : outq'[k] = outq[k]
      /\ \A k \in DOMAIN outq' : k \in DOMAIN outq \/ (outq'[k] = m /\ \A j \in DOMAIN outq : j < k)
  <2>1. outq \in Seq(Messages)
    BY DEF Shaped, Lines
  <2> QED
    BY <2>1, AppendLine
<1>7. Observer'
  BY <1>1 DEF Observer
<1>8. Owned'
  BY <1>1 DEF Owned, Known
<1>9. Starts'
  <2>1. \A k \in DOMAIN inq' : inq'[k].kind = "start" =>
          LET d == inq'[k].of IN
          /\ del[d].pc = "starting" /\ inq'[k].id = del[d].id /\ inq'[k].id \in pending
          /\ \A t \in Turns : owner[t] # d
          /\ del[d].read # 0 =>
               /\ \A j \in DOMAIN inq' : inq'[j].id = del[d].read => j > k
               /\ \A j \in DOMAIN outq : outq[j].id # del[d].read
               /\ inq[1].id # del[d].read
               /\ \A x \in reply : x.id # del[d].read
    BY <1>1, <1>4 DEF Starts
  <2> QED
    BY <1>5, <1>6, <2>1 DEF Starts
<1>10. Told'
  <2>1. Says(m)
    <3>1. CASE inq[1].kind = "read"
      <4>1. m.snap = turns /\ m.kind = "read"
        BY <1>4, <1>5, <3>1
      <4>2. \A d \in Deliveries, t \in Turns : owner[t] = d => turns[t] # "none"
        BY <1>1, RpcAssumption DEF Owned, Deliveries
      <4> QED
        BY <4>1, <4>2 DEF Says
    <3>2. CASE inq[1].kind = "start"
      BY <1>1, <1>4, <1>5, <3>2 DEF Says, Starts
    <3>3. CASE inq[1].kind \notin {"read", "start"}
      BY <1>5, <3>3 DEF Says
    <3> QED
      BY <3>1, <3>2, <3>3
  <2>2. \A x : Says(x)' <=> Says(x)
    BY DEF Says
  <2> QED
    BY <1>1, <1>6, <2>1, <2>2 DEF Told
<1>11. Notices'
  <2>1. inq[1].kind \in {"read", "start", "steer"}
    BY <1>1, <1>4, LineTypes DEF Shaped, Waits
  <2>2. \A k \in DOMAIN outq', t \in Turns : Ends(k, t)' => k \in DOMAIN outq /\ Ends(k, t)
    BY <1>5, <1>6, <2>1 DEF Ends
  <2>3. \A k \in DOMAIN outq', t \in Turns :
          outq'[k].kind = "read" /\ outq'[k].snap[t] \in Final =>
             \A j \in DOMAIN outq' : Ends(j, t)' => j < k
    BY <1>1, <1>6, <2>2 DEF Notices
  <2>4. \A t \in Turns, k \in DOMAIN outq' : Ends(k, t)' => turns[t] \in Final /\ waiter # 0 /\ owner[t] = waiter
    BY <1>1, <2>2 DEF Notices
  <2>5. \A j, k \in DOMAIN outq', t \in Turns : Ends(j, t)' /\ Ends(k, t)' => j = k
    BY <1>1, <2>2 DEF Notices
  <2>6. \A s \in DOMAIN signals : signals[s] \in Turns
    BY LineTypes DEF Shaped
  <2>7. waiter # 0 => \A s \in DOMAIN signals :
         /\ turns[signals[s]] \in Final /\ owner[signals[s]] = waiter
         /\ \A k \in DOMAIN outq' : \A t \in Turns : t = signals[s] => ~Ends(k, t)'
    BY <1>1, <2>2, <2>6 DEF Notices
  <2>8. \A x \in reply, t \in Turns :
         x.kind = "read" /\ x.snap[t] \in Final => \A j \in DOMAIN outq' : ~Ends(j, t)'
    BY <1>1, <2>2 DEF Notices
  <2> QED
    BY <2>3, <2>4, <2>5, <2>6, <2>7, <2>8 DEF Notices
<1> QED
  BY <1>3, <1>7, <1>8, <1>9, <1>10, <1>11 DEF AppInv

\* The child starts the turn it is asked for.
LEMMA TakeStartInv ==
    ASSUME Shaped, Opened, App, AppInv, NEW m \in Messages, NEW n \in Messages, NEW t \in Turns,
           \A d \in Deliveries : del[d].result # "none" <=> del[d].pc = "done",
           Answers0(m), IsNote(n), Writes(m, n), inq # <<>>, inq' = Tail(inq),
           Head(inq).kind = "start", m.status = "ok", m.turn = t, n.kind = "turn/started", n.turn # 0,
           proc = "running", turns[t] = "none",
           turns' = [turns EXCEPT ![t] = "running"], owner' = [owner EXCEPT ![t] = Head(inq).of],
           UNCHANGED <<dialect, reader, pending, reply, del, waiter, signals>>
    PROVE  AppInv'
<1> DEFINE d == inq[1].of
<1>1. Waits /\ WireIds /\ Answers /\ Observer /\ Owned /\ Starts /\ Told /\ Notices
  BY DEF AppInv, App
<1>2. Waits' /\ WireIds' /\ Answers'
  <2>1. n.turn # 0 \/ outq' \in {outq, Append(outq, m)}
    OBVIOUS
  <2> QED
    BY <2>1, TakeCorrelates
<1>3. /\ 1 \in DOMAIN inq /\ Head(inq) = inq[1]
      /\ \A k \in DOMAIN inq' : k + 1 \in DOMAIN inq /\ inq'[k] = inq[k + 1] /\ k \in Nat /\ k > 0
  BY TailLine DEF Shaped, Lines
<1>4. /\ inq[1].id # 0 /\ d \in Deliveries /\ inq[1].kind = "start"
      /\ m.id = inq[1].id /\ m.of = d /\ m.kind = "start"
  BY <1>3, LineTypes DEF Shaped, Answers0
<1>5. /\ del[d].pc = "starting" /\ inq[1].id = del[d].id /\ \A u \in Turns : owner[u] # d
      /\ del[d].read # 0 => /\ \A j \in DOMAIN outq : outq[j].id # del[d].read
                            /\ \A x \in reply : x.id # del[d].read
  BY <1>1, <1>3, <1>4 DEF Starts
<1>6. waiter = d /\ d # 0 /\ \A e \in Deliveries : e # 0
  <2>1. reader = "reading"
    BY DEF Opened
  <2> QED
    BY <1>1, <1>4, <1>5, <2>1, RpcAssumption DEF Observer, Deliveries
<1>7. /\ \A k \in DOMAIN outq : outq'[k] = outq[k]
      /\ \A k \in DOMAIN outq' : k \in DOMAIN outq \/ outq'[k] = m \/ outq'[k] = n
  <2>1. m # n
    BY <1>4
  <2> QED
    BY <2>1, WrittenLines
<1>8. /\ turns'[t] = "running" /\ owner'[t] = d /\ owner[t] = 0
      /\ \A u \in Turns : u # t => turns'[u] = turns[u] /\ owner'[u] = owner[u]
      /\ turns[t] \notin Final
  BY <1>1, <1>3 DEF Shaped, Owned, Final
<1> HIDE DEF d
<1>9. Observer'
  BY <1>1 DEF Observer
<1>10. Owned'
  <2>1. \A u \in Turns : turns'[u] = "none" => owner'[u] = 0
    BY <1>1, <1>8 DEF Owned
  <2>2. \A u, v \in Turns : owner'[u] # 0 /\ owner'[u] = owner'[v] => u = v
    BY <1>1, <1>5, <1>8 DEF Owned
  <2>3. \A u \in Turns : turns'[u] = "running" => owner'[u] = waiter'
    BY <1>1, <1>6, <1>8 DEF Owned
  <2>4. Known(turns) \subseteq Known(turns') /\ t \notin Known(turns)
    BY <1>8 DEF Known
  <2>5. \A e \in Deliveries : del'[e].base \subseteq Known(turns')
    BY <1>1, <2>4 DEF Owned
  <2>6. \A u \in Turns, e \in Deliveries : owner'[u] = e =>
         /\ del[e].pc \in {"starting", "terminal", "done"}
         /\ del[e].pc = "starting" => u \notin del[e].base
         /\ del[e].pc = "terminal" => del[e].turn = u
         /\ del[e].result # "rejected"
         /\ del[e].result \in Final => del[e].turn = u /\ turns'[u] = del[e].result
    <3> SUFFICES ASSUME NEW u \in Turns, NEW e \in Deliveries, owner'[u] = e
                 PROVE  /\ del[e].pc \in {"starting", "terminal", "done"}
                        /\ del[e].pc = "starting" => u \notin del[e].base
                        /\ del[e].pc = "terminal" => del[e].turn = u
                        /\ del[e].result # "rejected"
                        /\ del[e].result \in Final => del[e].turn = u /\ turns'[u] = del[e].result
      OBVIOUS
    <3>1. CASE u # t
      BY <1>1, <1>8, <3>1 DEF Owned
    <3>2. CASE u = t
      <4>1. e = d /\ del[e].result = "none"
        BY <1>4, <1>5, <1>8, <3>2
      <4>2. t \notin del[e].base
        BY <1>1, <2>4 DEF Owned
      <4> QED
        BY <1>5, <3>2, <4>1, <4>2 DEF Final
    <3> QED
      BY <3>1, <3>2
  <2> QED
    BY <2>1, <2>2, <2>3, <2>5, <2>6 DEF Owned, Known
\* No other start waits: the one observer asked for this one.
<1>11. Starts'
  <2> SUFFICES ASSUME NEW k \in DOMAIN inq', inq'[k].kind = "start"
               PROVE  FALSE
    BY DEF Starts
  <2>1. k + 1 \in DOMAIN inq /\ inq'[k] = inq[k + 1] /\ k \in Nat /\ k > 0
    BY <1>3
  <2>2. inq[k + 1].of \in Deliveries /\ inq[k + 1].id = del[inq[k + 1].of].id
        /\ del[inq[k + 1].of].pc = "starting"
    BY <1>1, <2>1, LineTypes DEF Shaped, Starts
  <2>3. reader # "ended"
    BY DEF Opened
  <2>4. inq[k + 1].of = d
    BY <1>1, <1>6, <2>2, <2>3 DEF Observer
  <2>5. k + 1 = 1
    BY <1>1, <1>3, <1>5, <2>1, <2>2, <2>4 DEF WireIds
  <2> QED
    BY <2>1, <2>5
<1>12. Told'
  <2>1. ASSUME NEW x, Says(x), x.id # inq[1].id, del[d].read # 0 => x.id # del[d].read
        PROVE  Says(x)'
    <3>1. x.kind = "read" =>
             /\ \A u \in Turns : x.snap[u] # "none" => turns'[u] # "none"
             /\ \A u \in Turns : x.snap[u] \in Final => turns'[u] = x.snap[u]
             /\ \A e \in Deliveries, u \in Turns :
                  /\ del[e].pc \in {"starting", "terminal"} /\ x.id = del[e].read /\ x.id # 0
                  /\ x.of = e /\ owner'[u] = e
                  => x.snap[u] # "none"
      BY <1>8, <2>1 DEF Says
    <3>2. x.kind = "start" =>
            \A e \in Deliveries : del[e].pc = "starting" /\ x.id = del[e].id /\ x.of = e =>
               /\ x.status # "error" => x.turn # 0 /\ owner[x.turn] = e
               /\ x.status = "error" => \A u \in Turns : owner[u] # e
      BY <2>1 DEF Says
    <3>3. \A e \in Deliveries : x.id = del[e].id => e # d
      BY <1>5, <2>1
    <3>4. \A e \in Deliveries : \A u : owner[u] = e => owner'[u] = e
      BY <1>6, <1>8 DEF Shaped
    <3>5. x.kind = "start" =>
            \A e \in Deliveries : del[e].pc = "starting" /\ x.id = del[e].id /\ x.of = e =>
               /\ x.status # "error" => x.turn # 0 /\ owner'[x.turn] = e
               /\ x.status = "error" => \A u \in Turns : owner'[u] # e
      BY <1>8, <3>2, <3>3, <3>4
    <3> QED
      BY <3>1, <3>5 DEF Says
  <2>2. \A k \in DOMAIN outq : \A x : x = outq[k] => Says(x)'
    <3>1. \A k \in DOMAIN outq : Says(outq[k]) /\ outq[k].id # inq[1].id
      BY <1>1, <1>3 DEF Told, WireIds
    <3> QED
      BY <1>5, <2>1, <3>1
  <2>3. \A x \in reply : Says(x)'
    BY <1>1, <1>3, <1>5, <2>1 DEF Told, Answers
  <2>4. Says(m)'
    <3>1. t # 0
      BY RpcAssumption DEF Turns
    <3> QED
      BY <1>4, <1>8, <3>1 DEF Says
  <2>5. Says(n)'
    BY DEF Says
  <2> QED
    <3>1. \A k \in DOMAIN outq' : \A x : x = outq'[k] => Says(x)'
      BY <1>7, <2>2, <2>4, <2>5
    <3> QED
      BY <2>3, <3>1 DEF Told
<1>13. Notices'
  <2>1. \A k \in DOMAIN outq', u \in Turns : Ends(k, u)' => k \in DOMAIN outq /\ Ends(k, u)
    BY <1>4, <1>7 DEF Ends
  <2>2. \A k \in DOMAIN outq', u \in Turns : Ends(k, u)' =>
          turns'[u] \in Final /\ waiter # 0 /\ owner'[u] = waiter
    BY <1>1, <1>8, <2>1 DEF Notices
  <2>3. \A j, k \in DOMAIN outq', u \in Turns : Ends(j, u)' /\ Ends(k, u)' => j = k
    BY <1>1, <2>1 DEF Notices
  <2>4. \A s \in DOMAIN signals : signals[s] \in Turns
    BY LineTypes DEF Shaped
  <2>5. waiter # 0 => \A s \in DOMAIN signals :
         /\ turns'[signals[s]] \in Final /\ owner'[signals[s]] = waiter
         /\ \A k \in DOMAIN outq' : ~Ends(k, signals[s])'
    <3>1. waiter # 0 => \A s \in DOMAIN signals :
            /\ turns[signals[s]] \in Final /\ owner[signals[s]] = waiter
            /\ \A k \in DOMAIN outq : ~Ends(k, signals[s])
      BY <1>1 DEF Notices
    <3>2. \A s \in DOMAIN signals, k \in DOMAIN outq' : \A u \in Turns :
             u = signals[s] /\ Ends(k, u)' => k \in DOMAIN outq /\ Ends(k, u)
      BY <2>1
    <3>3. \A s \in DOMAIN signals, k \in DOMAIN outq' :
             outq'[k].kind = "turn/completed" /\ outq'[k].turn = signals[s] =>
                k \in DOMAIN outq /\ outq[k].kind = "turn/completed" /\ outq[k].turn = signals[s]
      BY <1>4, <1>7
    <3> QED
      BY <1>8, <2>4, <3>1, <3>3 DEF Ends
  <2>6. \A k \in DOMAIN outq', u \in Turns :
         outq'[k].kind = "read" /\ outq'[k].snap[u] \in Final =>
            \A j \in DOMAIN outq' : Ends(j, u)' => j < k
    BY <1>1, <1>4, <1>7, <2>1 DEF Notices
  <2>7. \A x \in reply, u \in Turns :
         x.kind = "read" /\ x.snap[u] \in Final => \A j \in DOMAIN outq' : ~Ends(j, u)'
    BY <1>1, <2>1 DEF Notices
  <2> QED
    BY <2>2, <2>3, <2>4, <2>5, <2>6, <2>7 DEF Notices, Ends
<1> QED
  BY <1>2, <1>9, <1>10, <1>11, <1>12, <1>13 DEF AppInv

-----------------------------------------------------------------------------
(* A turn ends, or the child does.                                          *)

\* A running turn ends: its notice, if there is one, goes behind every snapshot
\* that still shows it running.
LEMMA FinishesInv ==
    ASSUME Shaped, Opened, App, AppInv, NEW t \in Turns, NEW s \in Final, NEW n \in Messages,
           IsNote(n), n.kind = "turn/completed", n.turn = t, turns[t] = "running",
           turns' = [turns EXCEPT ![t] = s], outq' \in {outq, Append(outq, n)},
           UNCHANGED <<dialect, owner, inq, reader, pending, reply, del, waiter, signals>>
    PROVE  AppInv'
<1>1. Waits /\ WireIds /\ Answers /\ Observer /\ Owned /\ Starts /\ Told /\ Notices
  BY DEF AppInv, App
<1>2. /\ DOMAIN outq \subseteq DOMAIN outq'
      /\ \A k \in DOMAIN outq : outq'[k] = outq[k]
      /\ \A k \in DOMAIN outq' : k \in DOMAIN outq \/ (outq'[k] = n /\ \A j \in DOMAIN outq : j < k)
      /\ \A j, k \in DOMAIN outq' : j \notin DOMAIN outq /\ k \notin DOMAIN outq => j = k
  <2>1. outq \in Seq(Messages)
    BY DEF Shaped, Lines
  <2> QED
    BY <2>1, AppendLine
<1>3. /\ turns'[t] = s /\ \A u \in Turns : u # t => turns'[u] = turns[u]
      /\ turns[t] \notin Final /\ s # "none" /\ s # "running"
  BY DEF Shaped, Final
<1>4. waiter # 0 /\ owner[t] = waiter
  BY <1>1 DEF Opened, Owned
<1>5. n.id = 0
  BY DEF IsNote
<1>6. Waits'
  BY <1>1 DEF Waits, LiveIds
<1>7. WireIds'
  <2>1. \A j, k \in DOMAIN outq' : outq'[j].id # 0 /\ outq'[j].id = outq'[k].id => j = k
    BY <1>1, <1>2, <1>5 DEF WireIds
  <2>2. \A j \in DOMAIN inq, k \in DOMAIN outq' : inq[j].id # outq'[k].id
    <3>1. \A j \in DOMAIN inq : inq[j].id # 0
      BY LineTypes DEF Shaped
    <3> QED
      BY <1>1, <1>2, <1>5, <3>1 DEF WireIds
  <2>3. \A e \in Deliveries, k \in DOMAIN outq' :
          outq'[k].id \in LiveIds(e) \cap pending =>
             outq'[k].of = e /\ outq'[k].kind = KindOf(e, outq'[k].id)
    BY <1>1, <1>2, <1>5 DEF WireIds, LiveIds
  <2>4. \A k \in DOMAIN outq' : /\ outq'[k].id = 0 <=> outq'[k].kind \in {"turn/started", "turn/completed"}
                                /\ outq'[k].kind # "exit"
                                /\ outq'[k].kind \in {"turn/started", "turn/completed"} =>
                                     outq'[k].turn # 0
    <3>1. t # 0
      BY RpcAssumption DEF Turns
    <3> QED
      BY <1>1, <1>2, <3>1 DEF WireIds, IsNote
  <2> QED
    BY <1>1, <2>1, <2>2, <2>3, <2>4 DEF WireIds, LiveIds, KindOf
<1>8. Answers'
  <2>1. \A x \in reply, k \in DOMAIN outq' : outq'[k].id # x.id
    BY <1>1, <1>2, <1>5 DEF Answers, LiveIds
  <2> QED
    BY <1>1, <2>1 DEF Answers, LiveIds, KindOf
<1>9. Observer'
  BY <1>1 DEF Observer
<1>10. Owned'
  <2>1. Known(turns') = Known(turns)
    BY <1>3 DEF Known
  <2>2. \A u \in Turns : turns'[u] = "none" => turns[u] = "none"
    BY <1>3
  <2>3. \A u \in Turns : turns'[u] = "running" => turns[u] = "running"
    BY <1>3
  <2>4. \A u \in Turns : turns[u] \in Final => turns'[u] = turns[u]
    BY <1>3
  <2> QED
    BY <1>1, <2>1, <2>2, <2>3, <2>4 DEF Owned, Known
<1>11. Starts'
  <2>1. \A d \in Deliveries : del[d].read # 0 /\ (\A j \in DOMAIN outq : outq[j].id # del[d].read) =>
           \A j \in DOMAIN outq' : outq'[j].id # del[d].read
    BY <1>2, <1>5
  <2>2. \A k \in DOMAIN inq : inq[k].of \in Deliveries
    BY LineTypes DEF Shaped
  <2> QED
    BY <1>1, <2>1, <2>2 DEF Starts
<1>12. Told'
  <2>1. \A x : Says(x) => Says(x)'
    BY <1>3 DEF Says
  <2>2. \A x : x = n => Says(x)'
    BY DEF Says
  <2>3. \A k \in DOMAIN outq' : \A x : x = outq'[k] => Says(x)'
    BY <1>1, <1>2, <2>1, <2>2 DEF Told
  <2> QED
    BY <1>1, <2>1, <2>3 DEF Told
<1>13. Notices'
  <2>1. \A k \in DOMAIN outq', u \in Turns :
          Ends(k, u)' => (k \in DOMAIN outq /\ Ends(k, u)) \/ (k \notin DOMAIN outq /\ u = t)
    BY <1>2 DEF Ends
  <2>2. \A k \in DOMAIN outq : ~Ends(k, t)
    BY <1>1, <1>3 DEF Notices
  <2>3. \A k \in DOMAIN outq', u \in Turns : Ends(k, u)' =>
          turns'[u] \in Final /\ waiter # 0 /\ owner[u] = waiter
    BY <1>1, <1>3, <1>4, <2>1 DEF Notices
  <2>4. \A j, k \in DOMAIN outq', u \in Turns : Ends(j, u)' /\ Ends(k, u)' => j = k
    BY <1>1, <1>2, <2>1, <2>2 DEF Notices
  <2>5. \A i \in DOMAIN signals : signals[i] \in Turns
    BY LineTypes DEF Shaped
  <2>6. \A i \in DOMAIN signals :
         /\ turns'[signals[i]] \in Final /\ owner[signals[i]] = waiter
         /\ \A k \in DOMAIN outq' : \A u \in Turns : u = signals[i] => ~Ends(k, u)'
    <3>1. \A i \in DOMAIN signals :
            /\ turns[signals[i]] \in Final /\ owner[signals[i]] = waiter
            /\ \A k \in DOMAIN outq : ~Ends(k, signals[i])
      BY <1>1, <1>4 DEF Notices
    <3> QED
      BY <1>3, <2>1, <2>5, <3>1
  <2>7. \A k \in DOMAIN outq', u \in Turns :
         outq'[k].kind = "read" /\ outq'[k].snap[u] \in Final =>
            \A j \in DOMAIN outq' : Ends(j, u)' => j < k
    <3> SUFFICES ASSUME NEW k \in DOMAIN outq', NEW u \in Turns, NEW j \in DOMAIN outq',
                        outq'[k].kind = "read", outq'[k].snap[u] \in Final, Ends(j, u)'
                 PROVE  j < k
      OBVIOUS
    <3>1. k \in DOMAIN outq /\ outq'[k] = outq[k]
      BY <1>2
    <3>2. turns[u] \in Final
      BY <1>1, <3>1 DEF Told, Says
    <3> QED
      BY <1>1, <1>3, <2>1, <3>1, <3>2 DEF Notices
  <2>8. \A x \in reply, u \in Turns :
         x.kind = "read" /\ x.snap[u] \in Final => \A j \in DOMAIN outq' : ~Ends(j, u)'
    <3> SUFFICES ASSUME NEW x \in reply, NEW u \in Turns, NEW j \in DOMAIN outq',
                        x.kind = "read", x.snap[u] \in Final, Ends(j, u)'
                 PROVE  FALSE
      OBVIOUS
    <3>1. turns[u] \in Final
      BY <1>1 DEF Told, Says
    <3> QED
      BY <1>1, <1>3, <2>1, <3>1 DEF Notices
  <2> QED
    BY <2>3, <2>4, <2>5, <2>6, <2>7, <2>8 DEF Notices
<1> QED
  BY <1>6, <1>7, <1>8, <1>9, <1>10, <1>11, <1>12, <1>13 DEF AppInv

\* The child exits: whatever ran has failed, with no notice of it.
LEMMA ExitsInv ==
    ASSUME Shaped, App, AppInv, inq' = <<>>,
           turns' = [t \in Turns |-> IF turns[t] = "running" THEN "failed" ELSE turns[t]],
           UNCHANGED <<dialect, owner, outq, reader, pending, reply, del, waiter, signals>>
    PROVE  AppInv'
<1>1. Waits /\ WireIds /\ Answers /\ Observer /\ Owned /\ Starts /\ Told /\ Notices
  BY DEF AppInv, App
<1>2. DOMAIN inq' = {}
  BY EmptyLine
<1>3. /\ \A u \in Turns : turns'[u] # "running" /\ (turns'[u] = "none" <=> turns[u] = "none")
      /\ \A u \in Turns : turns[u] \in Final => turns'[u] = turns[u]
  BY DEF Final
<1>4. Waits' /\ WireIds' /\ Answers'
  <2>1. Waits'
    BY <1>1, <1>2 DEF Waits, LiveIds
  <2>2. WireIds'
    BY <1>1, <1>2 DEF WireIds, LiveIds, KindOf
  <2>3. Answers'
    BY <1>1, <1>2 DEF Answers, LiveIds, KindOf
  <2> QED
    BY <2>1, <2>2, <2>3
<1>5. Observer'
  BY <1>1 DEF Observer
<1>6. Owned'
  <2>1. Known(turns') = Known(turns)
    BY <1>3 DEF Known
  <2> QED
    BY <1>1, <1>3, <2>1 DEF Owned, Known
<1>7. Starts'
  BY <1>2 DEF Starts
<1>8. Told'
  <2>1. \A x : Says(x) => Says(x)'
    BY <1>3 DEF Says
  <2> QED
    BY <1>1, <2>1 DEF Told
<1>9. Notices'
  <2>1. \A i \in DOMAIN signals : signals[i] \in Turns
    BY LineTypes DEF Shaped
  <2> QED
    BY <1>1, <1>3, <2>1 DEF Notices, Ends
<1> QED
  BY <1>4, <1>5, <1>6, <1>7, <1>8, <1>9 DEF AppInv

-----------------------------------------------------------------------------
(* The reader.                                                              *)

\* A response goes to the delivery that waits for it, or to nobody.
LEMMA RoutesInv ==
    ASSUME Shaped, App, AppInv, outq # <<>>, outq' = Tail(outq), outq[1].id # 0,
           reply' = (IF outq[1].id \in pending THEN reply \cup {outq[1]} ELSE reply),
           pending' = pending \ {outq[1].id},
           UNCHANGED <<dialect, turns, owner, inq, reader, del, waiter, signals>>
    PROVE  AppInv'
<1> DEFINE m == outq[1]
<1>1. Waits /\ WireIds /\ Answers /\ Observer /\ Owned /\ Starts /\ Told /\ Notices
  BY DEF AppInv, App
<1>2. /\ 1 \in DOMAIN outq
      /\ \A k \in DOMAIN outq' : k + 1 \in DOMAIN outq /\ outq'[k] = outq[k + 1] /\ k \in Nat /\ k > 0
  BY TailLine DEF Shaped, Lines
<1>3. /\ \A e \in Deliveries : LiveIds(e)' = LiveIds(e)
      /\ \A e \in Deliveries : \A i : KindOf(e, i)' = KindOf(e, i)
  BY DEF LiveIds, KindOf
<1>4. \A k \in DOMAIN outq' : outq'[k].id # m.id
  BY <1>1, <1>2 DEF WireIds
<1>5. m.id \in pending => /\ m.of \in Deliveries /\ m.id \in LiveIds(m.of)
                          /\ m.kind = KindOf(m.of, m.id) /\ m.kind # "exit"
                          /\ \A e \in Deliveries : m.id \in LiveIds(e) => e = m.of
  BY <1>1, <1>2 DEF Waits, WireIds
<1>6. \A x \in reply' : x \in reply \/ (x = m /\ m.id \in pending)
  OBVIOUS
<1>7. Waits'
  <2>1. \A e \in Deliveries : \A i \in LiveIds(e) :
           i \in pending' \/ \E x \in reply' : x.of = e /\ x.id = i
    BY <1>1, <1>5 DEF Waits
  <2> QED
    BY <1>1, <1>3, <2>1 DEF Waits
<1>8. WireIds'
  <2>1. \A j, k \in DOMAIN outq' : outq'[j].id # 0 /\ outq'[j].id = outq'[k].id => j = k
    <3>1. \A j, k \in DOMAIN outq' : outq'[j].id # 0 /\ outq'[j].id = outq'[k].id => j + 1 = k + 1
      BY <1>1, <1>2 DEF WireIds
    <3> QED
      BY <1>2, <3>1
  <2>2. \A j \in DOMAIN inq, k \in DOMAIN outq' : inq[j].id # outq'[k].id
    BY <1>1, <1>2 DEF WireIds
  <2>3. \A e \in Deliveries, k \in DOMAIN inq : \A i :
          i = inq[k].id /\ i \in LiveIds(e)' \cap pending' =>
             inq[k].of = e /\ inq[k].kind = KindOf(e, i)'
    BY <1>1, <1>3 DEF WireIds
  <2>4. \A e \in Deliveries, k \in DOMAIN outq' : \A i :
          i = outq'[k].id /\ i \in LiveIds(e)' \cap pending' =>
             outq'[k].of = e /\ outq'[k].kind = KindOf(e, i)'
    BY <1>1, <1>2, <1>3 DEF WireIds
  <2>5. \A k \in DOMAIN outq' : /\ outq'[k].id = 0 <=> outq'[k].kind \in {"turn/started", "turn/completed"}
                                /\ outq'[k].kind # "exit"
                                /\ outq'[k].kind \in {"turn/started", "turn/completed"} =>
                                     outq'[k].turn # 0
    BY <1>1, <1>2 DEF WireIds
  <2> QED
    BY <1>1, <2>1, <2>2, <2>3, <2>4, <2>5 DEF WireIds
<1>9. Answers'
  <2>1. \A x \in reply' :
          /\ x.of \in Deliveries /\ x.id \in LiveIds(x.of) /\ x.id \notin pending'
          /\ x.kind = "exit" => reader = "ended"
          /\ x.kind # "exit" => x.kind = KindOf(x.of, x.id)
    BY <1>1, <1>5, <1>6 DEF Answers
  <2>2. \A x \in reply' : /\ \A k \in DOMAIN inq : inq[k].id # x.id
                          /\ \A k \in DOMAIN outq' : outq'[k].id # x.id
    BY <1>1, <1>2, <1>4, <1>6 DEF Answers, WireIds
  <2>3. \A x, y \in reply' : x.id = y.id => x = y
    BY <1>1, <1>6 DEF Answers
  <2> QED
    BY <1>3, <2>1, <2>2, <2>3 DEF Answers
<1>10. Observer'
  BY <1>1 DEF Observer
<1>11. Owned'
  BY <1>1 DEF Owned, Known
<1>12. Starts'
  <2> SUFFICES ASSUME NEW k \in DOMAIN inq, inq[k].kind = "start"
               PROVE  LET d == inq[k].of IN
                      /\ del[d].pc = "starting" /\ inq[k].id = del[d].id /\ inq[k].id \in pending'
                      /\ \A t \in Turns : owner[t] # d
                      /\ del[d].read # 0 =>
                           /\ \A j \in DOMAIN inq : inq[j].id = del[d].read => j > k
                           /\ \A j \in DOMAIN outq' : outq'[j].id # del[d].read
                           /\ \A x \in reply' : x.id # del[d].read
    BY DEF Starts
  <2>1. inq[k].id # m.id
    BY <1>1, <1>2 DEF WireIds
  <2> QED
    BY <1>1, <1>2, <1>6, <2>1 DEF Starts
<1>13. Told'
  <2>1. \A x : Says(x) => Says(x)'
    BY DEF Says
  <2>2. Says(m)
    BY <1>1, <1>2 DEF Told
  <2>3. \A x \in reply' : Says(x)
    BY <1>1, <1>6, <2>2 DEF Told
  <2>4. \A k \in DOMAIN outq' : Says(outq[k + 1]) /\ outq'[k] = outq[k + 1]
    BY <1>1, <1>2 DEF Told
  <2>5. \A k \in DOMAIN outq' : \A x : x = outq'[k] => Says(x)'
    BY <2>1, <2>4
  <2> QED
    BY <2>1, <2>3, <2>5 DEF Told
<1>14. Notices'
  <2>1. \A k \in DOMAIN outq', t \in Turns : Ends(k, t)' => k + 1 \in DOMAIN outq /\ Ends(k + 1, t)
    BY <1>2 DEF Ends
  <2>2. \A k \in DOMAIN outq', t \in Turns : Ends(k, t)' =>
          turns[t] \in Final /\ waiter # 0 /\ owner[t] = waiter
    BY <1>1, <2>1 DEF Notices
  <2>3. \A j, k \in DOMAIN outq', t \in Turns : Ends(j, t)' /\ Ends(k, t)' => j = k
    <3>1. \A j, k \in DOMAIN outq', t \in Turns : Ends(j, t)' /\ Ends(k, t)' => j + 1 = k + 1
      BY <1>1, <2>1 DEF Notices
    <3> QED
      BY <1>2, <3>1
  <2>4. \A i \in DOMAIN signals : signals[i] \in Turns
    BY LineTypes DEF Shaped
  <2>5. waiter # 0 => \A i \in DOMAIN signals :
         /\ turns[signals[i]] \in Final /\ owner[signals[i]] = waiter
         /\ \A k \in DOMAIN outq' : \A u \in Turns : u = signals[i] => ~Ends(k, u)'
    BY <1>1, <2>1, <2>4 DEF Notices
  <2>6. \A k \in DOMAIN outq', t \in Turns :
         outq'[k].kind = "read" /\ outq'[k].snap[t] \in Final =>
            \A j \in DOMAIN outq' : Ends(j, t)' => j < k
    <3>1. \A k \in DOMAIN outq', t \in Turns :
            outq'[k].kind = "read" /\ outq'[k].snap[t] \in Final =>
               \A j \in DOMAIN outq' : Ends(j, t)' => j + 1 < k + 1
      BY <1>1, <1>2, <2>1 DEF Notices
    <3> QED
      BY <1>2, <3>1
  <2>7. \A x \in reply', t \in Turns :
         x.kind = "read" /\ x.snap[t] \in Final => \A j \in DOMAIN outq' : ~Ends(j, t)'
    <3>1. \A t \in Turns : m.kind = "read" /\ m.snap[t] \in Final =>
             \A j \in DOMAIN outq' : ~Ends(j + 1, t)
      <4>1. \A j \in DOMAIN outq' : ~(j + 1 < 1)
        BY <1>2
      <4> QED
        BY <1>1, <1>2, <4>1 DEF Notices
    <3> QED
      BY <1>1, <1>6, <2>1, <3>1 DEF Notices
  <2> QED
    BY <2>2, <2>3, <2>4, <2>5, <2>6, <2>7 DEF Notices
<1> QED
  BY <1>7, <1>8, <1>9, <1>10, <1>11, <1>12, <1>13, <1>14 DEF AppInv

\* A notification goes to the observer, if there is one.
LEMMA NotifiesInv ==
    ASSUME Shaped, App, AppInv, outq # <<>>, outq' = Tail(outq), outq[1].id = 0,
           signals' = (IF waiter # 0 /\ outq[1].kind = "turn/completed"
                       THEN Append(signals, outq[1].turn) ELSE signals),
           UNCHANGED <<dialect, turns, owner, inq, reader, pending, reply, del, waiter>>
    PROVE  AppInv'
<1> DEFINE m == outq[1]
<1>1. Waits /\ WireIds /\ Answers /\ Observer /\ Owned /\ Starts /\ Told /\ Notices
  BY DEF AppInv, App
<1>2. /\ 1 \in DOMAIN outq
      /\ \A k \in DOMAIN outq' : k + 1 \in DOMAIN outq /\ outq'[k] = outq[k + 1] /\ k \in Nat /\ k > 0
  BY TailLine DEF Shaped, Lines
<1>3. /\ \A e \in Deliveries : LiveIds(e)' = LiveIds(e)
      /\ \A e \in Deliveries : \A i : KindOf(e, i)' = KindOf(e, i)
  BY DEF LiveIds, KindOf
<1>4. m.turn \in Turns
  <2>1. m.turn # 0
    BY <1>1, <1>2 DEF WireIds
  <2>2. m.turn \in 0..MaxTurns
    BY <1>2, LineTypes DEF Shaped
  <2> QED
    BY <2>1, <2>2, RpcAssumption DEF Turns
<1>5. Waits'
  BY <1>1, <1>3 DEF Waits
<1>6. WireIds'
  <2>1. \A j, k \in DOMAIN outq' : outq'[j].id # 0 /\ outq'[j].id = outq'[k].id => j = k
    <3>1. \A j, k \in DOMAIN outq' : outq'[j].id # 0 /\ outq'[j].id = outq'[k].id => j + 1 = k + 1
      BY <1>1, <1>2 DEF WireIds
    <3> QED
      BY <1>2, <3>1
  <2>2. \A j \in DOMAIN inq, k \in DOMAIN outq' : inq[j].id # outq'[k].id
    BY <1>1, <1>2 DEF WireIds
  <2>3. \A e \in Deliveries, k \in DOMAIN inq : \A i :
          i = inq[k].id /\ i \in LiveIds(e)' \cap pending =>
             inq[k].of = e /\ inq[k].kind = KindOf(e, i)'
    BY <1>1, <1>3 DEF WireIds
  <2>4. \A e \in Deliveries, k \in DOMAIN outq' : \A i :
          i = outq'[k].id /\ i \in LiveIds(e)' \cap pending =>
             outq'[k].of = e /\ outq'[k].kind = KindOf(e, i)'
    BY <1>1, <1>2, <1>3 DEF WireIds
  <2>5. \A k \in DOMAIN outq' : /\ outq'[k].id = 0 <=> outq'[k].kind \in {"turn/started", "turn/completed"}
                                /\ outq'[k].kind # "exit"
                                /\ outq'[k].kind \in {"turn/started", "turn/completed"} =>
                                     outq'[k].turn # 0
    BY <1>1, <1>2 DEF WireIds
  <2> QED
    BY <1>1, <2>1, <2>2, <2>3, <2>4, <2>5 DEF WireIds
<1>7. Answers'
  BY <1>1, <1>2, <1>3 DEF Answers
<1>8. Observer'
  BY <1>1 DEF Observer
<1>9. Owned'
  BY <1>1 DEF Owned, Known
<1>10. Starts'
  BY <1>1, <1>2 DEF Starts
<1>11. Told'
  <2>1. \A x : Says(x) => Says(x)'
    BY DEF Says
  <2>2. \A k \in DOMAIN outq' : Says(outq[k + 1]) /\ outq'[k] = outq[k + 1]
    BY <1>1, <1>2 DEF Told
  <2>3. \A k \in DOMAIN outq' : \A x : x = outq'[k] => Says(x)'
    BY <2>1, <2>2
  <2> QED
    BY <1>1, <2>1, <2>3 DEF Told
<1>12. Notices'
  <2>1. \A k \in DOMAIN outq', t \in Turns : Ends(k, t)' => k + 1 \in DOMAIN outq /\ Ends(k + 1, t)
    BY <1>2 DEF Ends
  <2>2. \A k \in DOMAIN outq', t \in Turns : Ends(k, t)' =>
          turns[t] \in Final /\ waiter # 0 /\ owner[t] = waiter
    BY <1>1, <2>1 DEF Notices
  <2>3. \A j, k \in DOMAIN outq', t \in Turns : Ends(j, t)' /\ Ends(k, t)' => j = k
    <3>1. \A j, k \in DOMAIN outq', t \in Turns : Ends(j, t)' /\ Ends(k, t)' => j + 1 = k + 1
      BY <1>1, <2>1 DEF Notices
    <3> QED
      BY <1>2, <3>1
  <2>4. signals \in Seq(Turns)
    BY DEF Shaped, Lines
  <2>5. waiter # 0 /\ m.kind = "turn/completed" =>
           /\ turns[m.turn] \in Final /\ owner[m.turn] = waiter
           /\ \A k \in DOMAIN outq' : ~(outq'[k].kind = "turn/completed" /\ outq'[k].turn = m.turn)
    <3>1. m.kind = "turn/completed" => Ends(1, m.turn)
      BY DEF Ends
    <3>2. \A k \in DOMAIN outq' : outq'[k].kind = "turn/completed" /\ outq'[k].turn = m.turn
             => Ends(k + 1, m.turn)
      BY <1>2 DEF Ends
    <3>3. \A k \in DOMAIN outq' : Ends(1, m.turn) /\ Ends(k + 1, m.turn) => 1 = k + 1
      BY <1>1, <1>2, <1>4 DEF Notices
    <3>4. \A k \in DOMAIN outq' : 1 # k + 1
      BY <1>2
    <3>5. m.kind = "turn/completed" =>
            \A k \in DOMAIN outq' : ~(outq'[k].kind = "turn/completed" /\ outq'[k].turn = m.turn)
      BY <3>1, <3>2, <3>3, <3>4
    <3>6. m.kind = "turn/completed" => turns[m.turn] \in Final /\ owner[m.turn] = waiter
      BY <1>1, <1>2, <1>4, <3>1 DEF Notices
    <3> QED
      BY <3>5, <3>6
  <2>6. waiter # 0 => \A i \in DOMAIN signals :
         /\ turns[signals[i]] \in Final /\ owner[signals[i]] = waiter
         /\ \A k \in DOMAIN outq' : \A u \in Turns : u = signals[i] => ~Ends(k, u)'
    <3>1. \A i \in DOMAIN signals : signals[i] \in Turns
      BY LineTypes DEF Shaped
    <3> QED
      BY <1>1, <2>1, <3>1 DEF Notices
  <2>7. waiter # 0 => \A i \in DOMAIN signals' :
         /\ turns[signals'[i]] \in Final /\ owner[signals'[i]] = waiter
         /\ \A k \in DOMAIN outq' : ~(outq'[k].kind = "turn/completed" /\ outq'[k].turn = signals'[i])
    <3>1. \A i \in DOMAIN signals : signals[i] \in Turns
      BY LineTypes DEF Shaped
    <3>2. waiter # 0 => \A i \in DOMAIN signals :
            /\ turns[signals[i]] \in Final /\ owner[signals[i]] = waiter
            /\ \A k \in DOMAIN outq' : ~(outq'[k].kind = "turn/completed" /\ outq'[k].turn = signals[i])
      BY <2>6, <3>1 DEF Ends
    <3>3. \A i \in DOMAIN signals' : (i \in DOMAIN signals /\ signals'[i] = signals[i])
             \/ (waiter # 0 /\ m.kind = "turn/completed" /\ signals'[i] = m.turn)
      BY <1>4, <2>4, AppendLine
    <3> QED
      BY <2>5, <3>2, <3>3
  <2>8. \A k \in DOMAIN outq', t \in Turns :
         outq'[k].kind = "read" /\ outq'[k].snap[t] \in Final =>
            \A j \in DOMAIN outq' : Ends(j, t)' => j < k
    <3>1. \A k \in DOMAIN outq', t \in Turns :
            outq'[k].kind = "read" /\ outq'[k].snap[t] \in Final =>
               \A j \in DOMAIN outq' : Ends(j, t)' => j + 1 < k + 1
      BY <1>1, <1>2, <2>1 DEF Notices
    <3> QED
      BY <1>2, <3>1
  <2>9. \A x \in reply, t \in Turns :
         x.kind = "read" /\ x.snap[t] \in Final => \A j \in DOMAIN outq' : ~Ends(j, t)'
    BY <1>1, <2>1 DEF Notices
  <2> QED
    BY <2>2, <2>3, <2>7, <2>8, <2>9 DEF Notices, Ends
<1> QED
  BY <1>5, <1>6, <1>7, <1>8, <1>9, <1>10, <1>11, <1>12 DEF AppInv

\* The observer passes over a signal that is not of its turn.
LEMMA SkipInv ==
    ASSUME Shaped, App, AppInv, signals # <<>>, signals' = Tail(signals),
           UNCHANGED <<dialect, turns, owner, inq, outq, reader, pending, reply, waiter, del>>
    PROVE  AppInv'
<1>1. Waits /\ WireIds /\ Answers /\ Observer /\ Owned /\ Starts /\ Told /\ Notices
  BY DEF AppInv, App
<1>2. \A k \in DOMAIN signals' : k + 1 \in DOMAIN signals /\ signals'[k] = signals[k + 1]
  BY TailLine DEF Shaped, Lines
<1>3. Waits' /\ WireIds' /\ Answers' /\ Observer' /\ Owned' /\ Starts' /\ Told'
  <2>1. Waits'
    BY ZenonT(60), <1>1 DEF Waits, LiveIds
  <2>4. Answers' /\ Observer'
    BY <1>1 DEF Answers, Observer, LiveIds, KindOf
  <2>2. WireIds'
    BY <1>1 DEF WireIds, LiveIds, KindOf
  <2>3. Owned' /\ Starts' /\ Told'
    BY <1>1 DEF Owned, Starts, Told, Says, Known
  <2> QED
    BY <2>1, <2>2, <2>3, <2>4
<1>4. Notices'
  BY <1>1, <1>2 DEF Notices, Ends
<1> QED
  BY <1>3, <1>4 DEF AppInv

\* Nothing the correlation depends on changes.
Same == UNCHANGED <<dialect, turns, owner, inq, outq, reader, pending, reply, waiter, signals, del>>

\* The correlation depends on these variables only.
LEMMA SameInv ==
    ASSUME Same, AppInv
    PROVE  AppInv'
<1>1. App' = App /\ Waits' = Waits /\ WireIds' = WireIds /\ Answers' = Answers /\ Observer' = Observer
  BY DEF Same, App, Waits, WireIds, Answers, Observer, LiveIds, KindOf
<1>2. Owned' = Owned /\ Starts' = Starts /\ Told' = Told /\ Notices' = Notices
  BY DEF Same, Owned, Starts, Told, Notices, Says, Ends, Known
<1> QED
  BY <1>1, <1>2 DEF AppInv

\* stdout is closed.
LEMMA EofInv ==
    ASSUME Shaped, App, AppInv, reader = "reading", reader' = "marked",
           UNCHANGED <<dialect, turns, owner, inq, outq, pending, reply, waiter, signals, del>>
    PROVE  AppInv'
<1>1. Waits /\ WireIds /\ Answers /\ Observer /\ Owned /\ Starts /\ Told /\ Notices
  BY DEF AppInv, App
<1>2. Waits' /\ WireIds'
  <2>1. Waits'
    BY ZenonT(60), <1>1 DEF Waits, LiveIds
  <2>2. WireIds'
    BY <1>1 DEF WireIds, LiveIds, KindOf
  <2> QED
    BY <2>1, <2>2
<1>3. Answers'
  BY <1>1 DEF Answers, LiveIds, KindOf
<1>4. Observer'
  BY <1>1 DEF Observer
<1>5. Owned' /\ Starts' /\ Told' /\ Notices'
  BY <1>1 DEF Owned, Starts, Told, Notices, Says, Ends, Known
<1> QED
  BY <1>2, <1>3, <1>4, <1>5 DEF AppInv

\* The failure that delivery d gets for id i.
ExitOf(i, d) == Response([id |-> i, of |-> d, kind |-> "exit"], "exited", 0)
\* All of those.
Exits == UNION {{ExitOf(i, d) : i \in pending \cap {del[d].id, del[d].read}} : d \in Deliveries}

\* Every request that waits is answered, and nobody observes the thread.
LEMMA DrainedInv ==
    ASSUME Shaped, Opened, App, AppInv, reader = "marked", reader' = "ended",
           reply' = reply \cup Exits, pending' = {}, waiter' = 0,
           UNCHANGED <<dialect, turns, owner, inq, outq, signals, del>>
    PROVE  AppInv'
<1>1. Waits /\ WireIds /\ Answers /\ Observer /\ Owned /\ Starts /\ Told /\ Notices
  BY DEF AppInv, App
<1>2. /\ DOMAIN inq = {} /\ DOMAIN outq = {} /\ \A t \in Turns : turns[t] # "running"
  BY EmptyLine DEF Opened
<1>3. 0 \notin pending
  BY RpcAssumption DEF Shaped, Ids
<1>4. \A x \in Exits : \E d \in Deliveries : \E i \in LiveIds(d) \cap pending : x = ExitOf(i, d)
  BY <1>3 DEF Exits, LiveIds
<1>5. \A d \in Deliveries : \A i \in LiveIds(d) \cap pending : ExitOf(i, d) \in Exits
  BY DEF Exits, LiveIds
<1>6. \A i, d : /\ ExitOf(i, d).id = i /\ ExitOf(i, d).of = d /\ ExitOf(i, d).kind = "exit"
  BY DEF ExitOf, Response
<1>7. \A e \in Deliveries : LiveIds(e)' = LiveIds(e)
  BY DEF LiveIds
<1>8. Waits'
  BY <1>1, <1>5, <1>6, <1>7 DEF Waits
<1>9. WireIds'
  BY <1>2 DEF WireIds
<1>10. Answers'
  <2>1. \A x \in Exits : x.of \in Deliveries /\ x.id \in LiveIds(x.of) /\ x.id \in pending /\ x.kind = "exit"
    BY <1>4, <1>6
  <2>2. \A x, y \in Exits : x.id = y.id => x = y
    BY <1>1, <1>4, <1>6 DEF Waits
  <2>3. \A x \in reply' : /\ x.of \in Deliveries /\ x.id \in LiveIds(x.of)
                          /\ x.kind # "exit" => x.kind = KindOf(x.of, x.id)
    BY <1>1, <2>1 DEF Answers
  <2>4. \A x, y \in reply' : x.id = y.id => x = y
    BY <1>1, <2>1, <2>2 DEF Answers
  <2> QED
    BY <1>2, <1>7, <2>3, <2>4 DEF Answers, KindOf
<1>11. Observer'
  BY DEF Observer
<1>12. Owned'
  BY <1>1, <1>2 DEF Owned, Known
<1>13. Starts'
  BY <1>2 DEF Starts
<1>14. Told'
  <2>1. \A x : Says(x) => Says(x)'
    BY DEF Says
  <2>2. \A x \in Exits : Says(x)'
    BY <1>4, <1>6 DEF Says
  <2> QED
    BY <1>1, <1>2, <2>1, <2>2 DEF Told
<1>15. Notices'
  BY <1>2 DEF Notices
<1> QED
  BY <1>8, <1>9, <1>10, <1>11, <1>12, <1>13, <1>14, <1>15 DEF AppInv

-----------------------------------------------------------------------------
(* How a delivery may end.                                                  *)

\* The types of what a delivery changes.
DelTyped ==
    /\ del \in [Deliveries -> DelRecords]
    /\ \A d \in Deliveries : (del[d].result # "none") <=> (del[d].pc = "done")
    /\ pending \subseteq Ids /\ waiter \in Deliveries \cup {0}
    /\ inq \in Seq(Requests) /\ reply \subseteq Messages /\ signals \in Seq(Turns)

\* The types after a delivery has ended.
LEMMA LeavesTypes ==
    ASSUME DelTyped, NEW d \in Deliveries, NEW r \in Results, NEW t \in 0..MaxTurns,
           Leaves(d, r, t), MayEnd(d, r, t)
    PROVE  DelTyped'
<1>1. DoneRecord(r, t) \in DelRecords
  BY RpcAssumption DEF DoneRecord, DelRecords
<1>2. DoneRecord(r, t).pc = "done" /\ DoneRecord(r, t).result # "none"
  BY DEF DoneRecord, MayEnd
<1>3. del' \in [Deliveries -> DelRecords]
      /\ \A e \in Deliveries : (del'[e].result # "none") <=> (del'[e].pc = "done")
  BY <1>1, <1>2 DEF DelTyped, Leaves
<1>4. signals' \in Seq(Turns)
  BY EmptyLine DEF DelTyped, Leaves
<1> QED
  BY <1>3, <1>4 DEF DelTyped, Leaves

\* After a read.
LEMMA ReadOverTypes ==
    ASSUME DelTyped, NEW d \in Deliveries, NEW p, NEW b, ReadOver(d, p, b),
           \/ p = del[d].pc /\ b = del[d].base
           \/ del[d].pc = "base" /\ p = "register" /\ b \subseteq Turns
    PROVE  DelTyped'
<1> DEFINE rec == [del[d] EXCEPT !.pc = p, !.base = b, !.read = 0]
<1>1. /\ rec \in DelRecords
      /\ (rec.result # "none") <=> (rec.pc = "done")
  <2>1. 0 \in 0..MaxIds /\ del[d] \in DelRecords /\ ((del[d].result # "none") <=> (del[d].pc = "done"))
    BY RpcAssumption DEF DelTyped
  <2> QED
    BY <2>1 DEF DelRecords
<1>2. del' = [del EXCEPT ![d] = rec]
  BY DEF ReadOver
<1> HIDE DEF rec
<1>3. del' \in [Deliveries -> DelRecords]
      /\ \A e \in Deliveries : (del'[e].result # "none") <=> (del'[e].pc = "done")
  BY <1>1, <1>2 DEF DelTyped
<1> QED
  BY <1>3 DEF DelTyped, ReadOver

\* After its turn is known.
LEMMA SettlesTypes ==
    ASSUME DelTyped, NEW d \in Deliveries, NEW t \in 0..MaxTurns, Settles(d, t),
           del[d].pc = "starting"
    PROVE  DelTyped'
<1> DEFINE rec == [del[d] EXCEPT !.pc = "terminal", !.turn = t, !.id = 0, !.read = 0]
<1>1. /\ rec \in DelRecords
      /\ (rec.result # "none") <=> (rec.pc = "done")
  <2>1. 0 \in 0..MaxIds /\ del[d] \in DelRecords /\ ((del[d].result # "none") <=> (del[d].pc = "done"))
    BY RpcAssumption DEF DelTyped
  <2> QED
    BY <2>1 DEF DelRecords
<1>2. del' = [del EXCEPT ![d] = rec]
  BY DEF Settles
<1> HIDE DEF rec
<1>3. del' \in [Deliveries -> DelRecords]
      /\ \A e \in Deliveries : (del'[e].result # "none") <=> (del'[e].pc = "done")
  BY <1>1, <1>2 DEF DelTyped
<1> QED
  BY <1>3 DEF DelTyped, Settles

\* After a move.
LEMMA MovesTypes ==
    ASSUME DelTyped, NEW d \in Deliveries, NEW p, NEW b, NEW t \in 0..MaxTurns, Moves(d, p, b, t),
           del[d].pc \in {"new", "start", "gate"}, p \in {"start", "register", "gate", "steer"},
           b \subseteq Turns
    PROVE  DelTyped'
<1> DEFINE rec == [del[d] EXCEPT !.pc = p, !.base = b, !.turn = t]
<1>1. /\ rec \in DelRecords
      /\ (rec.result # "none") <=> (rec.pc = "done")
  <2>1. 0 \in 0..MaxIds /\ del[d] \in DelRecords /\ ((del[d].result # "none") <=> (del[d].pc = "done"))
    BY RpcAssumption DEF DelTyped
  <2> QED
    BY <2>1 DEF DelRecords
<1>2. del' = [del EXCEPT ![d] = rec]
  BY DEF Moves
<1> HIDE DEF rec
<1>3. del' \in [Deliveries -> DelRecords]
      /\ \A e \in Deliveries : (del'[e].result # "none") <=> (del'[e].pc = "done")
  BY <1>1, <1>2 DEF DelTyped
<1> QED
  BY <1>3 DEF DelTyped, Moves

\* After a request.
LEMMA AsksTypes ==
    ASSUME DelTyped, NEW d \in Deliveries, NEW i \in Ids, NEW kind \in {"read", "start", "steer", "prompt"},
           NEW t \in 0..MaxTurns, NEW rec \in DelRecords, Asks(d, i, kind, t, rec),
           (rec.result # "none") <=> (rec.pc = "done"),
           UNCHANGED <<waiter, signals>> \/ (waiter' = d /\ signals' = <<>>)
    PROVE  DelTyped'
<1>1. Line(d, i, kind, t) \in Requests
  BY DEF Line, Requests
<1>2. inq' \in Seq(Requests)
  <2>1. CASE inq' = inq
    BY <2>1 DEF DelTyped
  <2>2. CASE inq' = Append(inq, Line(d, i, kind, t))
    BY <1>1, <2>2, AppendLine DEF DelTyped
  <2> QED
    BY <2>1, <2>2 DEF Asks
<1>3. del' \in [Deliveries -> DelRecords]
      /\ \A e \in Deliveries : (del'[e].result # "none") <=> (del'[e].pc = "done")
  BY DEF DelTyped, Asks
<1>4. waiter' \in Deliveries \cup {0} /\ signals' \in Seq(Turns)
  BY EmptyLine DEF DelTyped
<1> QED
  BY <1>2, <1>3, <1>4 DEF DelTyped, Asks

\* The records of a delivery that asks have their type.
LEMMA AskedRecords ==
    ASSUME DelTyped, NEW d \in Deliveries, NEW i \in Ids
    PROVE  /\ \A p \in {"base", del[d].pc} : del[d].pc \in {"start", "starting", "terminal"} =>
                AskedRead(d, i, p) \in DelRecords
                /\ ((AskedRead(d, i, p).result # "none") <=> (AskedRead(d, i, p).pc = "done"))
           /\ del[d].pc = "register" =>
                AskedStart(d, i) \in DelRecords
                /\ ((AskedStart(d, i).result # "none") <=> (AskedStart(d, i).pc = "done"))
           /\ del[d].pc = "steer" =>
                AskedSteer(d, i) \in DelRecords
                /\ ((AskedSteer(d, i).result # "none") <=> (AskedSteer(d, i).pc = "done"))
<1>1. i \in 0..MaxIds
  BY RpcAssumption DEF Ids
<1> QED
  BY <1>1 DEF DelTyped, DelRecords, AskedRead, AskedStart, AskedSteer

\* What the invariant says of an app-server, part by part.
LEMMA AppFacts ==
    ASSUME HInv, App
    PROVE  /\ Shaped /\ Opened /\ AppInv
           /\ Waits /\ WireIds /\ Answers /\ Observer /\ Owned /\ Starts /\ Told /\ Notices
           /\ \A d \in Deliveries : (del[d].result # "none") <=> (del[d].pc = "done")
           /\ \A d \in Deliveries : del[d] \in DelRecords
           /\ 0 \notin pending /\ 0 \notin Deliveries
           /\ \A k \in DOMAIN inq : inq[k].of \in Deliveries
<1>1. Shaped
  BY TypeShaped DEF HInv
<1>2. 0 \notin pending /\ 0 \notin Deliveries
  BY <1>1, RpcAssumption DEF Shaped, Ids, Deliveries
<1>3. \A k \in DOMAIN inq : inq[k].of \in Deliveries
  BY LineTypes DEF HInv
<1>4. \A d \in Deliveries : del[d] \in DelRecords
  BY <1>1 DEF Shaped
<1>5. \A d \in Deliveries : (del[d].result # "none") <=> (del[d].pc = "done")
  BY DEF HInv, RpcTypeOK
<1>6. Waits /\ WireIds /\ Answers /\ Observer /\ Owned /\ Starts /\ Told /\ Notices
  BY DEF HInv, AppInv
<1>7. Opened /\ AppInv
  BY DEF HInv
<1> QED
  BY <1>1, <1>2, <1>3, <1>4, <1>5, <1>6, <1>7

\* What it says of types.
LEMMA TypeFacts ==
    ASSUME HInv
    PROVE  /\ DelTyped /\ rt.id \in 0..MaxTurns
           /\ \A d \in Deliveries : del[d].turn \in 0..MaxTurns
           /\ Known(turns) \subseteq Turns /\ 0 \in 0..MaxTurns /\ 0 \in 0..MaxIds
<1>1. Shaped
  BY TypeShaped DEF HInv
<1>2. \A d \in Deliveries : (del[d].result # "none") <=> (del[d].pc = "done")
  BY DEF HInv, RpcTypeOK
<1>3. DelTyped
  BY <1>1, <1>2 DEF DelTyped, Shaped, Lines
<1>4. \A d \in Deliveries : del[d].turn \in 0..MaxTurns
  BY <1>1 DEF Shaped, DelRecords
<1>5. rt.id \in 0..MaxTurns
  BY DEF HInv, RpcTypeOK
<1> QED
  BY <1>3, <1>4, <1>5, RpcAssumption DEF Known

\* The record that Done leaves.
LEMMA DoneIs ==
    ASSUME NEW d \in Deliveries, NEW r, NEW t, Done(d, r, t)
    PROVE  del' = [del EXCEPT ![d] = DoneRecord(r, t)]
<1> DEFINE rec == [NoDel EXCEPT !.pc = "done", !.result = r, !.turn = t]
<1>1. NoDel \in [pc : {"new"}, base : {{}}, turn : {0}, id : {0}, read : {0}, result : {"none"}]
  BY DEF NoDel
<1>2. rec \in [pc : {"done"}, base : {{}}, turn : {t}, id : {0}, read : {0}, result : {r}]
  BY <1>1
<1>3. del' = [del EXCEPT ![d] = rec]
  BY DEF Done
<1> HIDE DEF rec
<1>4. rec = DoneRecord(r, t)
  BY <1>2 DEF DoneRecord
<1> QED
  BY <1>3, <1>4

\* FinishDelivery is the end of a delivery as above.
LEMMA FinishLeaves ==
    ASSUME HInv, App, NEW d \in Deliveries, NEW r, NEW t, FinishDelivery(d, r, t)
    PROVE  Leaves(d, r, t)
<1>1. del' = [del EXCEPT ![d] = DoneRecord(r, t)]
  BY DoneIs DEF FinishDelivery
<1>2. pending' = pending \ LiveIds(d)
  BY AppFacts DEF FinishDelivery, Forget, LiveIds
<1> QED
  BY <1>1, <1>2 DEF FinishDelivery, Leaves, external

\* The steps before a turn is asked for.
Early == {"start", "base", "register", "gate", "steer"}

\* There a delivery may end in any way.
LEMMA EarlyEnd ==
    ASSUME HInv, App, NEW d \in Deliveries, del[d].pc \in Early, NEW r, NEW t, r # "none"
    PROVE  MayEnd(d, r, t) /\ waiter # d
<1>1. \A u \in Turns : owner[u] # d
  BY AppFacts DEF Owned, Early
<1>2. waiter # d
  BY AppFacts DEF Observer, Early
<1>3. \A k \in DOMAIN inq : inq[k].kind = "start" => inq[k].of # d
  BY AppFacts DEF Starts, Early
<1> QED
  BY <1>1, <1>2, <1>3 DEF MayEnd

\* It may end with the exit of the child, whatever its turn.
LEMMA DeadEnd ==
    ASSUME HInv, App, NEW d \in Deliveries, del[d].pc \in {"starting", "terminal"},
           reader # "reading", NEW t
    PROVE  MayEnd(d, "exited", t)
<1>1. DOMAIN inq = {} /\ DOMAIN outq = {} /\ \A u \in Turns : turns[u] # "running"
  BY AppFacts, EmptyLine DEF Opened
<1> QED
  BY <1>1 DEF MayEnd, Final

\* A reply that names the exit comes after the end of the output.
LEMMA ExitReply ==
    ASSUME HInv, App, NEW m \in reply, m.kind = "exit"
    PROVE  reader # "reading"
BY AppFacts DEF Answers

\* The one turn of the delivery has ended, and what is on the wire says so no more.
LEMMA TurnEnd ==
    ASSUME HInv, App, NEW d \in Deliveries, del[d].pc \in {"starting", "terminal"}, NEW t, NEW s,
           s \in Final, \A u \in Turns : owner[u] = d => u = t /\ turns[u] = s,
           \A k \in DOMAIN outq, u \in Turns : owner[u] = d => ~Ends(k, u),
           \A k \in DOMAIN inq : inq[k].kind = "start" => inq[k].of # d
    PROVE  MayEnd(d, s, t)
<1>1. waiter = d => /\ \A k \in DOMAIN outq, u \in Turns : ~Ends(k, u)
                    /\ \A u \in Turns : turns[u] # "running"
  BY AppFacts DEF Notices, Owned, Final
<1> QED
  BY <1>1 DEF MayEnd, Final

\* The child refused to start a turn.
LEMMA RefusedEnd ==
    ASSUME HInv, App, NEW d \in Deliveries, del[d].pc = "starting", NEW m \in reply,
           m.of = d, m.id = del[d].id, m.kind = "start", m.status = "error"
    PROVE  MayEnd(d, "rejected", 0)
<1>1. \A u \in Turns : owner[u] # d
  BY AppFacts DEF Told, Says
<1>2. \A k \in DOMAIN inq : inq[k].kind = "start" => inq[k].of # d
  BY AppFacts DEF Starts, Answers
<1>3. waiter = d => /\ \A k \in DOMAIN outq, u \in Turns : ~Ends(k, u)
                    /\ \A u \in Turns : turns[u] # "running"
  BY <1>1, AppFacts DEF Notices, Owned
<1> QED
  BY <1>1, <1>2, <1>3 DEF MayEnd, Final

\* What a read says of the turn of the delivery that asked for it.
LEMMA ReadTells ==
    ASSUME HInv, App, NEW d \in Deliveries, del[d].pc \in {"starting", "terminal"}, NEW m \in reply,
           m.of = d, m.id = del[d].read
    PROVE  /\ del[d].read # 0 /\ del[d].read \notin pending
           /\ \A k \in DOMAIN inq : inq[k].kind = "start" => inq[k].of # d
           /\ m.kind = "read" =>
                /\ \A u \in Turns : owner[u] = d => m.snap[u] # "none"
                /\ \A u \in Turns : m.snap[u] \in Final =>
                     turns[u] = m.snap[u] /\ \A k \in DOMAIN outq : ~Ends(k, u)
<1>1. del[d].read # 0 /\ del[d].read \notin pending
  BY AppFacts DEF Answers, LiveIds
<1>2. \A k \in DOMAIN inq : inq[k].kind = "start" => inq[k].of # d
  BY <1>1, AppFacts DEF Starts
<1>3. m.kind = "read" => /\ \A u \in Turns : owner[u] = d => m.snap[u] # "none"
                         /\ \A u \in Turns : m.snap[u] \in Final => turns[u] = m.snap[u]
  BY <1>1, AppFacts DEF Told, Says
<1>4. m.kind = "read" => \A u \in Turns : m.snap[u] \in Final => \A k \in DOMAIN outq : ~Ends(k, u)
  BY AppFacts DEF Notices
<1> QED
  BY <1>1, <1>2, <1>3, <1>4

-----------------------------------------------------------------------------
(* Each step of a delivery, for the app-server dialect.                     *)

\* deliver: from new to the first step.
LEMMA DeliverApp ==
    ASSUME HInv, App, NEW d \in Deliveries, deliver(d)
    PROVE  AppInv' /\ DelTyped'
<1> DEFINE p == CASE dialect = "acp" -> "send"
                  [] dialect # "acp" /\ steer_state = "Ready" -> "steer"
                  [] dialect # "acp" /\ steer_state = "AwaitingId" -> "gate"
                  [] OTHER -> "start"
           t == IF dialect = "acp" THEN 0 ELSE rt.id
<1>1. p \in {"start", "gate", "steer"}
  BY DEF App
<1>2. del' = [del EXCEPT ![d].pc = p, ![d].turn = t] /\ del[d].pc = "new"
  BY DEF deliver
<1>3. UNCHANGED <<dialect, turns, owner, inq, outq, reader, pending, reply, waiter, signals>>
  BY DEF deliver, external, routing
<1>6. t \in 0..MaxTurns
  BY TypeFacts
<1> HIDE DEF p, t
<1>4. Moves(d, p, del[d].base, t)
  BY <1>2, <1>3, AppFacts DEF Moves, Shaped, DelRecords
<1>5. del[d].base \subseteq Known(turns)
  BY AppFacts DEF Owned
<1> QED
  <2>1. AppInv'
    BY <1>1, <1>2, <1>4, <1>5, MovesInv, AppFacts
  <2>2. DelTyped'
    BY <1>1, <1>2, <1>4, <1>5, <1>6, MovesTypes, TypeFacts
  <2> QED
    BY <2>1, <2>2

\* thread_turn_baseline: from the launch, by a read, or refused.
LEMMA BaselineApp ==
    ASSUME HInv, App, NEW d \in Deliveries, thread_turn_baseline(d)
    PROVE  AppInv' /\ DelTyped'
<1>1. CASE /\ launch # {} /\ launch' = {} /\ mark_turn_started
           /\ del' = [del EXCEPT ![d].pc = "register", ![d].base = UNION launch]
           /\ UNCHANGED <<dialect, external, inq, outq, reader, pending, reply, routing, updates,
                          endpoint, cost>>
  <2>1. UNION launch \subseteq Known(turns)
    BY AppFacts DEF Opened
  <2>2. Moves(d, "register", UNION launch, del[d].turn)
    BY <1>1, AppFacts DEF Moves, Shaped, DelRecords, external, routing
  <2> QED
    <3>1. AppInv'
      BY <2>1, <2>2, MovesInv, AppFacts DEF thread_turn_baseline
    <3>2. DelTyped'
      BY <2>1, <2>2, MovesTypes, TypeFacts DEF thread_turn_baseline
    <3> QED
      BY <3>1, <3>2
<1>2. CASE /\ launch = {} /\ Alive /\ HasId /\ mark_turn_started
           /\ request(d, "read", 0, Fresh)
           /\ del' = [del EXCEPT ![d].pc = "base", ![d].read = Fresh]
           /\ UNCHANGED <<dialect, external, outq, reader, reply, routing, updates, launch, endpoint,
                          cost>>
  <2>1. FreshFor(Fresh)
    BY <1>2, FreshId DEF HInv, FreshFor
  <2>2. Asks(d, Fresh, "read", 0, AskedRead(d, Fresh, "base")) /\ UNCHANGED <<waiter, signals>>
    BY <1>2, AppFacts DEF Asks, AskedRead, request, Line, Shaped, DelRecords, external, routing
  <2>3. del[d].pc = "start" /\ del[d].read = 0
    BY AppFacts DEF thread_turn_baseline, Waits
  <2> QED
    <3>1. AppInv'
      BY <2>1, <2>2, <2>3, AskReadInv, AppFacts DEF FreshFor
    <3>2. DelTyped'
      BY <2>1, <2>2, <2>3, AsksTypes, TypeFacts, AskedRecords DEF FreshFor
    <3> QED
      BY <3>1, <3>2
<1>3. CASE FinishDelivery(d, "rejected", 0)
  <2>1. MayEnd(d, "rejected", 0)
    BY EarlyEnd DEF Early, thread_turn_baseline
  <2> QED
    <3>1. AppInv'
      BY <1>3, <2>1, FinishLeaves, LeavesInv, AppFacts, RpcAssumption DEF Results
    <3>2. DelTyped'
      BY <1>3, <2>1, FinishLeaves, LeavesTypes, TypeFacts, RpcAssumption DEF Results
    <3> QED
      BY <3>1, <3>2
<1> QED
  BY <1>1, <1>2, <1>3 DEF thread_turn_baseline

\* BaselineRead: the snapshot is the baseline.
LEMMA BaselineReadApp ==
    ASSUME HInv, App, NEW d \in Deliveries, BaselineRead(d)
    PROVE  AppInv' /\ DelTyped'
<1>1. ASSUME NEW m \in Replies(d), del[d].pc = "base", m.id = del[d].read, m.kind = "read",
             del' = [del EXCEPT ![d].pc = "register", ![d].base = Known(m.snap), ![d].read = 0],
             reply' = reply \ {m},
             UNCHANGED <<dialect, external, inq, outq, reader, pending, routing, updates, rt, launch,
                         endpoint, cost>>
      PROVE  AppInv' /\ DelTyped'
  <2>1. m \in reply /\ m.id # 0 /\ m.id \notin pending
    BY <1>1, AppFacts DEF Replies, Answers, LiveIds
  <2>2. Known(m.snap) \subseteq Known(turns)
    BY <1>1, <2>1, AppFacts DEF Told, Says, Known
  <2>3. reply' = {x \in reply : x.id # del[d].read}
    BY <1>1, <2>1, AppFacts DEF Answers
  <2>4. pending' = pending \ {del[d].read}
    BY <1>1, <2>1
  <2>5. ReadOver(d, "register", Known(m.snap))
    <3>1. del' = [del EXCEPT ![d] = [del[d] EXCEPT !.pc = "register", !.base = Known(m.snap), !.read = 0]]
      BY <1>1, AppFacts DEF Shaped, DelRecords
    <3> QED
      BY <1>1, <2>3, <2>4, <3>1 DEF ReadOver, external, routing
  <2> QED
    <3>1. AppInv'
      BY <1>1, <2>1, <2>2, <2>5, ReadOverInv, AppFacts
    <3>2. DelTyped'
      BY <1>1, <2>1, <2>2, <2>5, ReadOverTypes, TypeFacts
    <3> QED
      BY <3>1, <3>2
<1>2. CASE del[d].pc = "base" /\ FinishDelivery(d, "rejected", 0)
  <2>1. MayEnd(d, "rejected", 0)
    BY <1>2, EarlyEnd DEF Early
  <2> QED
    <3>1. AppInv'
      BY <1>2, <2>1, FinishLeaves, LeavesInv, AppFacts, RpcAssumption DEF Results
    <3>2. DelTyped'
      BY <1>2, <2>1, FinishLeaves, LeavesTypes, TypeFacts, RpcAssumption DEF Results
    <3> QED
      BY <3>1, <3>2
<1> QED
  BY <1>1, <1>2 DEF BaselineRead

\* A delivery that ends without an observer and without replies.
LEMMA PlainLeaves ==
    ASSUME HInv, App, NEW d \in Deliveries, del[d].pc \in Early, NEW r, NEW t, Done(d, r, t),
           pending' = pending \ LiveIds(d), reply' = {m \in reply : m.of # d},
           UNCHANGED <<dialect, turns, owner, inq, outq, reader, waiter, signals>>
    PROVE  Leaves(d, r, t)
<1>1. waiter # d
  BY EarlyEnd
<1> QED
  BY <1>1, DoneIs DEF Leaves

\* BaselineTimesOut: refused, and the late answer is dropped.
LEMMA BaselineTimesOutApp ==
    ASSUME HInv, App, NEW d \in Deliveries, BaselineTimesOut(d)
    PROVE  AppInv' /\ DelTyped'
<1>1. /\ del[d].pc = "base" /\ del[d].read \in pending /\ Done(d, "rejected", 0)
      /\ pending' = pending \ {del[d].read} /\ reply' = reply
      /\ UNCHANGED <<dialect, turns, owner, inq, outq, reader, waiter, signals>>
  BY DEF BaselineTimesOut, Forget, external, routing
<1>2. LiveIds(d) = {del[d].read}
  BY <1>1, AppFacts DEF LiveIds, Waits
<1>3. reply' = {m \in reply : m.of # d}
  BY <1>1, <1>2, AppFacts DEF Answers
<1>4. Leaves(d, "rejected", 0)
  BY <1>1, <1>2, <1>3, PlainLeaves DEF Early
<1>5. MayEnd(d, "rejected", 0)
  BY <1>1, EarlyEnd DEF Early
<1> QED
  <2>1. AppInv'
    BY <1>4, <1>5, LeavesInv, AppFacts, RpcAssumption DEF Results
  <2>2. DelTyped'
    BY <1>4, <1>5, LeavesTypes, TypeFacts, RpcAssumption DEF Results
  <2> QED
    BY <2>1, <2>2

\* RegisterAndStart: refused, ended or the observer.
LEMMA RegisterApp ==
    ASSUME HInv, App, NEW d \in Deliveries, RegisterAndStart(d)
    PROVE  AppInv' /\ DelTyped'
<1>1. CASE \E r \in {"rejected", "exited"} : FinishDelivery(d, r, 0)
  <2>1. \A r : r # "none" => MayEnd(d, r, 0)
    BY EarlyEnd DEF Early, RegisterAndStart
  <2> QED
    <3>1. AppInv'
      BY <1>1, <2>1, FinishLeaves, LeavesInv, AppFacts, RpcAssumption DEF Results
    <3>2. DelTyped'
      BY <1>1, <2>1, FinishLeaves, LeavesTypes, TypeFacts, RpcAssumption DEF Results
    <3> QED
      BY <3>1, <3>2
<1>2. CASE /\ register_turn_waiter(d) /\ Alive /\ HasId
           /\ waiter' = d /\ signals' = <<>>
           /\ request(d, "start", 0, Fresh)
           /\ del' = [del EXCEPT ![d].pc = "starting", ![d].id = Fresh]
           /\ UNCHANGED <<dialect, external, outq, reader, reply, updates, rt, launch, endpoint, cost>>
  <2>1. FreshFor(Fresh)
    BY <1>2, FreshId DEF HInv, FreshFor
  <2>2. Asks(d, Fresh, "start", 0, AskedStart(d, Fresh))
    BY <1>2, AppFacts DEF Asks, AskedStart, request, Line, Shaped, DelRecords, external
  <2>3. del[d].pc = "register" /\ waiter = 0 /\ reader = "reading"
    BY <1>2 DEF RegisterAndStart, register_turn_waiter, Alive
  <2> QED
    <3>1. AppInv'
      BY <1>2, <2>1, <2>2, <2>3, AskStartInv, AppFacts DEF FreshFor
    <3>2. DelTyped'
      BY <1>2, <2>1, <2>2, <2>3, AsksTypes, TypeFacts, AskedRecords DEF FreshFor
    <3> QED
      BY <3>1, <3>2
<1> QED
  BY <1>1, <1>2 DEF RegisterAndStart

\* StartReply: the turn, a refusal or the exit.
LEMMA StartReplyApp ==
    ASSUME HInv, App, NEW d \in Deliveries, StartReply(d)
    PROVE  AppInv' /\ DelTyped'
<1> PICK m \in Replies(d) :
       /\ del[d].pc = "starting" /\ m.id = del[d].id
       /\ CASE m.kind = "exit" -> FinishDelivery(d, "exited", 0)
            [] m.kind = "start" /\ m.status = "error" -> FinishDelivery(d, "rejected", 0)
            [] OTHER -> /\ del' = [del EXCEPT ![d].pc = "terminal", ![d].turn = m.turn, ![d].id = 0,
                                             ![d].read = 0]
                        /\ reply' = {x \in reply : x.of # d} /\ Forget({del[d].read})
                        /\ UNCHANGED <<dialect, external, inq, outq, reader, routing, updates, rt,
                                       launch, endpoint, cost>>
  BY DEF StartReply
<1>1. m \in reply /\ m.of = d
  BY DEF Replies
<1>2. CASE m.kind = "exit"
  <2>1. MayEnd(d, "exited", 0) /\ FinishDelivery(d, "exited", 0)
    BY <1>1, <1>2, ExitReply, DeadEnd
  <2> QED
    <3>1. AppInv'
      BY <2>1, FinishLeaves, LeavesInv, AppFacts, RpcAssumption DEF Results
    <3>2. DelTyped'
      BY <2>1, FinishLeaves, LeavesTypes, TypeFacts, RpcAssumption DEF Results
    <3> QED
      BY <3>1, <3>2
<1>3. CASE m.kind # "exit" /\ m.kind = "start" /\ m.status = "error"
  <2>1. MayEnd(d, "rejected", 0) /\ FinishDelivery(d, "rejected", 0)
    BY <1>1, <1>3, RefusedEnd
  <2> QED
    <3>1. AppInv'
      BY <2>1, FinishLeaves, LeavesInv, AppFacts, RpcAssumption DEF Results
    <3>2. DelTyped'
      BY <2>1, FinishLeaves, LeavesTypes, TypeFacts, RpcAssumption DEF Results
    <3> QED
      BY <3>1, <3>2
<1>4. CASE m.kind # "exit" /\ ~(m.kind = "start" /\ m.status = "error")
  <2>1. /\ del' = [del EXCEPT ![d].pc = "terminal", ![d].turn = m.turn, ![d].id = 0, ![d].read = 0]
        /\ reply' = {x \in reply : x.of # d} /\ pending' = pending \ {del[d].read}
        /\ UNCHANGED <<dialect, turns, owner, inq, outq, reader, waiter, signals>>
    BY <1>4 DEF Forget, external, routing
  <2>2. m.id # 0 /\ m.id # del[d].read /\ m.id \notin pending /\ m.kind = KindOf(d, m.id)
    BY <1>1, <1>4, AppFacts DEF Answers, LiveIds, Waits
  <2>3. m.kind = "start" /\ m.status # "error"
    BY <1>4, <2>2 DEF KindOf
  <2>4. m.turn # 0 /\ owner[m.turn] = d
    BY <1>1, <2>3, AppFacts DEF Told, Says
  <2>5. m.turn \in Turns
    <3>1. m.turn \in 0..MaxTurns
      BY <1>1, LineTypes DEF HInv
    <3> QED
      BY <2>4, <3>1, RpcAssumption DEF Turns
  <2>6. \A u \in Turns : owner[u] = d => u = m.turn
    BY <2>4, <2>5, AppFacts DEF Owned
  <2>7. pending' = pending \ LiveIds(d)
    BY <2>1, <2>2, AppFacts DEF LiveIds
  <2>8. Settles(d, m.turn)
    <3>1. del' = [del EXCEPT ![d] = [del[d] EXCEPT !.pc = "terminal", !.turn = m.turn, !.id = 0, !.read = 0]]
      BY <2>1, AppFacts DEF Shaped, DelRecords
    <3> QED
      BY <2>1, <2>7, <3>1 DEF Settles
  <2>9. \A k \in DOMAIN inq : inq[k].kind = "start" => inq[k].of # d
    BY <1>1, AppFacts DEF Starts, Answers
  <2> QED
    <3>1. AppInv'
      BY <2>6, <2>8, <2>9, SettlesInv, AppFacts
    <3>2. DelTyped'
      <4>1. m.turn \in 0..MaxTurns
        BY <2>5, RpcAssumption DEF Turns
      <4> QED
        BY <2>8, <4>1, SettlesTypes, TypeFacts
    <3> QED
      BY <3>1, <3>2
<1> QED
  BY <1>2, <1>3, <1>4

\* ObserveSignal: the end of the own turn is the result.
LEMMA SignalApp ==
    ASSUME HInv, App, NEW d \in Deliveries, ObserveSignal(d)
    PROVE  AppInv' /\ DelTyped'
<1> DEFINE t == Head(signals)
<1>1. waiter = d /\ signals # <<>> /\ del[d].pc \in {"starting", "terminal"} /\ d # 0
  BY AppFacts DEF ObserveSignal
<1>2. 1 \in DOMAIN signals /\ t = signals[1] /\ t \in Turns
  BY <1>1, TailLine DEF HInv, Lines
<1>3. turns[t] \in Final /\ owner[t] = d /\ \A k \in DOMAIN outq : ~Ends(k, t)
  BY <1>1, <1>2, AppFacts DEF Notices
<1>4. CASE FinishDelivery(d, turns[t], t)
  <2>1. \A u \in Turns : owner[u] = d => u = t
    BY <1>1, <1>2, <1>3, AppFacts DEF Owned
  <2>2. \A k \in DOMAIN inq : inq[k].kind = "start" => inq[k].of # d
    BY <1>2, <1>3, AppFacts DEF Starts
  <2> HIDE DEF t
  <2>3. MayEnd(d, turns[t], t)
    BY <1>1, <1>3, <2>1, <2>2, TurnEnd
  <2>4. turns[t] \in Results /\ t \in 0..MaxTurns
    BY <1>2, <1>3, RpcAssumption DEF Final, Results, Turns
  <2> QED
    <3>1. AppInv'
      BY <1>4, <2>3, <2>4, FinishLeaves, LeavesInv, AppFacts
    <3>2. DelTyped'
      BY <1>4, <2>3, <2>4, FinishLeaves, LeavesTypes, TypeFacts
    <3> QED
      BY <3>1, <3>2
<1>5. CASE /\ signals' = Tail(signals)
           /\ UNCHANGED <<dialect, external, inq, outq, reader, pending, reply, waiter, updates, rt,
                          launch, del, endpoint, cost>>
  <2>1. UNCHANGED <<dialect, turns, owner, inq, outq, reader, pending, reply, waiter, del>>
    BY <1>5 DEF external
  <2>2. AppInv'
    BY <1>1, <1>5, <2>1, SkipInv, AppFacts
  <2>3. signals' \in Seq(Turns)
    BY <1>1, <1>5, TailLine, TypeFacts DEF DelTyped
  <2>4. DelTyped'
    BY <2>1, <2>3, TypeFacts DEF DelTyped
  <2> QED
    BY <2>2, <2>4
<1> QED
  BY <1>4, <1>5 DEF ObserveSignal

\* Reconcile: a read while it observes.
LEMMA ReconcileApp ==
    ASSUME HInv, App, NEW d \in Deliveries, Reconcile(d)
    PROVE  AppInv' /\ DelTyped'
<1>1. del[d].pc \in {"starting", "terminal"} /\ del[d].read = 0
  BY DEF Reconcile
<1>2. CASE ~Alive
  <2>1. FinishDelivery(d, "exited", del[d].turn) /\ reader # "reading"
    BY <1>2 DEF Reconcile, Alive
  <2>2. MayEnd(d, "exited", del[d].turn)
    BY <1>1, <2>1, DeadEnd
  <2>3. del[d].turn \in 0..MaxTurns
    BY AppFacts DEF DelRecords
  <2> QED
    <3>1. AppInv'
      BY <2>1, <2>2, <2>3, FinishLeaves, LeavesInv, AppFacts DEF Results
    <3>2. DelTyped'
      BY <2>1, <2>2, <2>3, FinishLeaves, LeavesTypes, TypeFacts DEF Results
    <3> QED
      BY <3>1, <3>2
<1>3. CASE Alive
  <2>1. FreshFor(Fresh)
    BY <1>3, FreshId DEF HInv, FreshFor, Reconcile
  <2>2. Asks(d, Fresh, "read", 0, AskedRead(d, Fresh, del[d].pc)) /\ UNCHANGED <<waiter, signals>>
    <3>1. /\ request(d, "read", 0, Fresh) /\ del' = [del EXCEPT ![d].read = Fresh]
          /\ UNCHANGED <<dialect, external, outq, reader, reply, routing>>
      BY <1>3 DEF Reconcile
    <3> QED
      BY <3>1, AppFacts DEF Asks, AskedRead, request, Line, Shaped, DelRecords, external, routing
  <2> QED
    <3>1. AppInv'
      BY <1>1, <2>1, <2>2, AskReadInv, AppFacts DEF FreshFor
    <3>2. DelTyped'
      BY <1>1, <2>1, <2>2, AsksTypes, TypeFacts, AskedRecords DEF FreshFor
    <3> QED
      BY <3>1, <3>2
<1> QED
  BY <1>2, <1>3

\* reconcile_while_observing: the snapshot tells the turn, or its end, or neither.
LEMMA ReadReplyApp ==
    ASSUME HInv, App, NEW d \in Deliveries, reconcile_while_observing(d)
    PROVE  AppInv' /\ DelTyped'
<1> PICK m \in Replies(d) :
       LET new == new_turns(d, m.snap)
           t == IF del[d].pc = "terminal" THEN del[d].turn ELSE CHOOSE u \in new : TRUE
       IN /\ del[d].pc \in {"starting", "terminal"} /\ m.id = del[d].read
          /\ CASE m.kind = "exit" -> FinishDelivery(d, "exited", del[d].turn)
               [] m.kind = "read" /\ del[d].pc = "starting" /\ Cardinality(new) = 1 ->
                    Observe(d, t, m.snap[t])
               [] m.kind = "read" /\ del[d].pc = "terminal" /\ m.snap[t] \in {"completed", "failed"} ->
                    FinishDelivery(d, m.snap[t], t)
               [] OTHER -> /\ del' = [del EXCEPT ![d].read = 0] /\ reply' = reply \ {m}
                           /\ UNCHANGED <<dialect, external, inq, outq, reader, pending, routing,
                                          updates, rt, launch, endpoint, cost>>
  BY DEF reconcile_while_observing
<1> DEFINE new == new_turns(d, m.snap)
           t == IF del[d].pc = "terminal" THEN del[d].turn ELSE CHOOSE u \in new : TRUE
<1>1. m \in reply /\ m.of = d /\ del[d].pc \in {"starting", "terminal"} /\ m.id = del[d].read
  BY DEF Replies
<1>2. /\ del[d].read # 0 /\ del[d].read \notin pending
      /\ \A k \in DOMAIN inq : inq[k].kind = "start" => inq[k].of # d
      /\ m.kind = "read" =>
           /\ \A u \in Turns : owner[u] = d => m.snap[u] # "none"
           /\ \A u \in Turns : m.snap[u] \in Final =>
                turns[u] = m.snap[u] /\ \A k \in DOMAIN outq : ~Ends(k, u)
  BY <1>1, ReadTells
<1>3. m.snap \in [Turns -> TurnStates] /\ del[d].turn \in 0..MaxTurns
  <2>1. m.snap \in Snaps
    BY <1>1, LineTypes DEF HInv
  <2> QED
    BY <2>1, AppFacts DEF DelRecords, Snaps
\* The turn that the read settles is the turn of the delivery.
<1>4. ASSUME m.kind = "read", NEW u, u \in 0..MaxTurns, m.snap[u] \in Final, FinishDelivery(d, m.snap[u], u),
             \A v \in Turns : owner[v] = d => v = u
      PROVE  AppInv' /\ DelTyped'
  <2>1. MayEnd(d, m.snap[u], u)
    BY <1>1, <1>2, <1>4, TurnEnd
  <2>2. m.snap[u] \in Results
    BY <1>4 DEF Final, Results
  <2> QED
    <3>1. AppInv'
      BY <1>4, <2>1, <2>2, FinishLeaves, LeavesInv, AppFacts
    <3>2. DelTyped'
      BY <1>4, <2>1, <2>2, FinishLeaves, LeavesTypes, TypeFacts
    <3> QED
      BY <3>1, <3>2
<1>5. CASE m.kind = "exit"
  <2>1. MayEnd(d, "exited", del[d].turn) /\ FinishDelivery(d, "exited", del[d].turn)
    BY <1>1, <1>5, ExitReply, DeadEnd
  <2> QED
    <3>1. AppInv'
      BY <1>3, <2>1, FinishLeaves, LeavesInv, AppFacts DEF Results
    <3>2. DelTyped'
      BY <1>3, <2>1, FinishLeaves, LeavesTypes, TypeFacts DEF Results
    <3> QED
      BY <3>1, <3>2
<1>6. CASE m.kind = "read" /\ del[d].pc = "starting" /\ Cardinality(new) = 1
  <2>1. Observe(d, t, m.snap[t])
    BY <1>6
  <2>2. new \subseteq Turns
    BY DEF new_turns, Known
  <2>3. PICK w : new = {w}
    <3>1. IsFiniteSet(Turns)
      <4>1. 1 \in Int /\ MaxTurns \in Int
        BY RpcAssumption
      <4> QED
        BY <4>1, FS_Interval DEF Turns
    <3>2. IsFiniteSet(new)
      BY <2>2, <3>1, FS_Subset
    <3> QED
      BY <1>6, <3>2, FS_Singleton
  <2>4. t = w /\ t \in new /\ t \in Turns
    BY <1>6, <2>2, <2>3
  <2>5. \A v \in Turns : owner[v] = d => v = t
    <3>1. \A v \in Turns : owner[v] = d => v \in new
      BY <1>2, <1>6, AppFacts DEF Owned, new_turns, Known
    <3> QED
      BY <2>3, <2>4, <3>1
  <2>6. m.snap[t] # "none" /\ t \in 0..MaxTurns
    BY <2>4, RpcAssumption DEF new_turns, Known, Turns
  <2> HIDE DEF t, new
  <2>7. CASE m.snap[t] = "running"
    <3>1. /\ del' = [del EXCEPT ![d].pc = "terminal", ![d].turn = t, ![d].id = 0, ![d].read = 0]
          /\ pending' = pending \ {del[d].id, del[d].read} /\ reply' = {x \in reply : x.of # d}
          /\ UNCHANGED <<dialect, turns, owner, inq, outq, reader, waiter, signals>>
      BY <2>1, <2>7 DEF Observe, Forget, external, routing
    <3>2. pending' = pending \ LiveIds(d)
      BY <3>1, AppFacts DEF LiveIds
    <3>3. del' = [del EXCEPT ![d] = [del[d] EXCEPT !.pc = "terminal", !.turn = t, !.id = 0, !.read = 0]]
      BY <3>1, AppFacts DEF Shaped, DelRecords
    <3>4. Settles(d, t)
      BY <3>1, <3>2, <3>3 DEF Settles
    <3> QED
      <4>1. AppInv'
        BY <1>2, <1>6, <2>5, <3>4, SettlesInv, AppFacts
      <4>2. DelTyped'
        BY <1>6, <2>6, <3>4, SettlesTypes, TypeFacts
      <4> QED
        BY <4>1, <4>2
  <2>8. CASE m.snap[t] # "running"
    <3>1. m.snap[t] \in Final /\ FinishDelivery(d, m.snap[t], t)
      BY <1>3, <2>1, <2>4, <2>6, <2>8 DEF Observe, TurnStates, Final
    <3> QED
      BY <1>4, <1>6, <2>5, <2>6, <3>1
  <2> QED
    BY <2>7, <2>8
<1>7. CASE m.kind = "read" /\ del[d].pc = "terminal" /\ m.snap[t] \in {"completed", "failed"}
  <2>1. t = del[d].turn /\ FinishDelivery(d, m.snap[t], t)
    BY <1>7
  <2>2. \A v \in Turns : owner[v] = d => v = t
    BY <1>7, <2>1, AppFacts DEF Owned
  <2> HIDE DEF t
  <2> QED
    BY <1>3, <1>4, <1>7, <2>1, <2>2 DEF Final
<1>8. CASE /\ del' = [del EXCEPT ![d].read = 0] /\ reply' = reply \ {m}
           /\ UNCHANGED <<dialect, external, inq, outq, reader, pending, routing,
                          updates, rt, launch, endpoint, cost>>
  <2>1. reply' = {x \in reply : x.id # del[d].read}
    BY <1>1, <1>8, AppFacts DEF Answers
  <2>2. pending' = pending \ {del[d].read}
    BY <1>2, <1>8
  <2>3. del' = [del EXCEPT ![d] = [del[d] EXCEPT !.pc = del[d].pc, !.base = del[d].base, !.read = 0]]
    BY <1>8, AppFacts DEF Shaped, DelRecords
  <2>4. ReadOver(d, del[d].pc, del[d].base)
    BY <1>8, <2>1, <2>2, <2>3 DEF ReadOver, external, routing
  <2> QED
    <3>1. AppInv'
      BY <1>2, <2>4, ReadOverInv, AppFacts
    <3>2. DelTyped'
      BY <1>2, <2>4, ReadOverTypes, TypeFacts
    <3> QED
      BY <3>1, <3>2
<1> QED
  BY <1>5, <1>6, <1>7, <1>8

\* ReadTimesOut: it goes on without the snapshot.
LEMMA ReadTimesOutApp ==
    ASSUME HInv, App, NEW d \in Deliveries, ReadTimesOut(d)
    PROVE  AppInv' /\ DelTyped'
<1>1. /\ del[d].read \in pending /\ del' = [del EXCEPT ![d].read = 0]
      /\ pending' = pending \ {del[d].read} /\ reply' = reply
      /\ UNCHANGED <<dialect, turns, owner, inq, outq, reader, waiter, signals>>
  BY DEF ReadTimesOut, Forget, external, routing
<1>2. reply' = {x \in reply : x.id # del[d].read}
  BY <1>1, AppFacts DEF Answers
<1>3. del' = [del EXCEPT ![d] = [del[d] EXCEPT !.pc = del[d].pc, !.base = del[d].base, !.read = 0]]
  BY <1>1, AppFacts DEF Shaped, DelRecords
<1>4. ReadOver(d, del[d].pc, del[d].base)
  BY <1>1, <1>2, <1>3 DEF ReadOver
<1>5. del[d].read # 0
  BY <1>1, AppFacts
<1> QED
  <2>1. AppInv'
    BY <1>4, <1>5, ReadOverInv, AppFacts
  <2>2. DelTyped'
    BY <1>4, <1>5, ReadOverTypes, TypeFacts
  <2> QED
    BY <2>1, <2>2

\* spawn_app_server_steer_pending: the gate.
LEMMA SteerPendingApp ==
    ASSUME HInv, App, NEW d \in Deliveries, spawn_app_server_steer_pending(d)
    PROVE  AppInv' /\ DelTyped'
<1>1. /\ del[d].pc = "gate" /\ pending' = pending /\ reply' = reply
      /\ UNCHANGED <<dialect, turns, owner, inq, outq, reader, waiter, signals>>
  BY DEF spawn_app_server_steer_pending, external, routing
<1>2. CASE del' = [del EXCEPT ![d].pc = "steer", ![d].turn = rt.id]
  <2>1. Moves(d, "steer", del[d].base, rt.id)
    BY <1>1, <1>2, AppFacts DEF Moves, Shaped, DelRecords
  <2>2. del[d].base \subseteq Known(turns)
    BY AppFacts DEF Owned
  <2> QED
    <3>1. AppInv'
      BY <1>1, <2>1, <2>2, MovesInv, AppFacts
    <3>2. DelTyped'
      BY <1>1, <2>1, <2>2, MovesTypes, TypeFacts
    <3> QED
      BY <3>1, <3>2
<1>3. CASE Done(d, "dropped", 0)
  <2>1. LiveIds(d) = {}
    BY <1>1, AppFacts DEF LiveIds, Waits
  <2>2. pending' = pending \ LiveIds(d) /\ reply' = {m \in reply : m.of # d}
    BY <1>1, <2>1, AppFacts DEF Answers
  <2>3. Leaves(d, "dropped", 0)
    BY <1>1, <1>3, <2>2, PlainLeaves DEF Early
  <2>4. MayEnd(d, "dropped", 0)
    BY <1>1, EarlyEnd DEF Early
  <2> QED
    <3>1. AppInv'
      BY <2>3, <2>4, LeavesInv, AppFacts, RpcAssumption DEF Results
    <3>2. DelTyped'
      BY <2>3, <2>4, LeavesTypes, TypeFacts, RpcAssumption DEF Results
    <3> QED
      BY <3>1, <3>2
<1> QED
  BY <1>2, <1>3 DEF spawn_app_server_steer_pending

\* spawn_app_server_steer: asks, or ends with the child.
LEMMA SteerApp ==
    ASSUME HInv, App, NEW d \in Deliveries, spawn_app_server_steer(d)
    PROVE  AppInv' /\ DelTyped'
<1>1. /\ del[d].pc = "steer" /\ del[d].id = 0 /\ reply' = reply
      /\ UNCHANGED <<dialect, turns, owner, outq, reader, waiter, signals>>
  BY DEF spawn_app_server_steer, external, routing
<1>2. CASE Alive
  <2>1. FreshFor(Fresh)
    BY <1>2, FreshId DEF HInv, FreshFor, spawn_app_server_steer
  <2>2. Asks(d, Fresh, "steer", del[d].turn, AskedSteer(d, Fresh)) /\ UNCHANGED <<waiter, signals>>
    <3>1. /\ request(d, "steer", del[d].turn, Fresh) /\ del' = [del EXCEPT ![d].id = Fresh]
      BY <1>2 DEF spawn_app_server_steer
    <3> QED
      BY <1>1, <3>1, AppFacts DEF Asks, AskedSteer, request, Line, Shaped, DelRecords
  <2>3. del[d].turn \in 0..MaxTurns
    BY AppFacts DEF DelRecords
  <2> QED
    <3>1. AppInv'
      BY <1>1, <2>1, <2>2, <2>3, AskSteerInv, AppFacts DEF FreshFor
    <3>2. DelTyped'
      BY <1>1, <2>1, <2>2, <2>3, AsksTypes, TypeFacts, AskedRecords DEF FreshFor
    <3> QED
      BY <3>1, <3>2
<1>3. CASE ~Alive
  <2>1. Done(d, "dropped", 0) /\ pending' = pending /\ inq' = inq
    BY <1>3 DEF spawn_app_server_steer
  <2>2. LiveIds(d) = {}
    BY <1>1, AppFacts DEF LiveIds, Waits
  <2>3. pending' = pending \ LiveIds(d) /\ reply' = {m \in reply : m.of # d}
    BY <1>1, <2>1, <2>2, AppFacts DEF Answers
  <2>4. Leaves(d, "dropped", 0)
    BY <1>1, <2>1, <2>3, PlainLeaves DEF Early
  <2>5. MayEnd(d, "dropped", 0)
    BY <1>1, EarlyEnd DEF Early
  <2> QED
    <3>1. AppInv'
      BY <2>4, <2>5, LeavesInv, AppFacts, RpcAssumption DEF Results
    <3>2. DelTyped'
      BY <2>4, <2>5, LeavesTypes, TypeFacts, RpcAssumption DEF Results
    <3> QED
      BY <3>1, <3>2
<1> QED
  BY <1>2, <1>3

\* turn_steer: the answer of a steer.
LEMMA TurnSteerApp ==
    ASSUME HInv, App, NEW d \in Deliveries, turn_steer(d)
    PROVE  AppInv' /\ DelTyped'
<1>1. /\ del[d].pc = "steer" /\ del[d].id # 0
      /\ UNCHANGED <<dialect, turns, owner, inq, outq, reader, waiter, signals>>
  BY DEF turn_steer, external, routing
<1>2. LiveIds(d) = {del[d].id}
  BY <1>1, AppFacts DEF LiveIds, Waits
<1>3. PICK r \in {"steered", "dropped"} : Done(d, r, del[d].turn)
  BY DEF turn_steer
<1>4. pending' = pending \ LiveIds(d) /\ reply' = {m \in reply : m.of # d}
  <2>1. CASE (\E m \in Replies(d) : TRUE) /\ reply' = {x \in reply : x.of # d} /\ pending' = pending
    BY <1>2, <2>1, AppFacts DEF Replies, Answers
  <2>2. CASE del[d].id \in pending /\ pending' = pending \ {del[d].id} /\ reply' = reply
    BY <1>2, <2>2, AppFacts DEF Answers
  <2> QED
    BY <2>1, <2>2 DEF turn_steer, Forget
<1>5. Leaves(d, r, del[d].turn)
  BY <1>1, <1>3, <1>4, PlainLeaves DEF Early
<1>6. MayEnd(d, r, del[d].turn)
  BY <1>1, EarlyEnd DEF Early
<1>7. r \in Results /\ del[d].turn \in 0..MaxTurns
  BY AppFacts DEF Results, DelRecords
<1> QED
  <2>1. AppInv'
    BY <1>5, <1>6, <1>7, LeavesInv, AppFacts
  <2>2. DelTyped'
    BY <1>5, <1>6, <1>7, LeavesTypes, TypeFacts
  <2> QED
    BY <2>1, <2>2

\* An app-server gets no prompt.
LEMMA PromptApp ==
    ASSUME HInv, App, NEW d \in Deliveries, spawn_acp_prompt(d)
    PROVE  FALSE
BY AppFacts DEF spawn_acp_prompt, Waits

\* Every step of a delivery keeps the correlation.
LEMMA DeliveryApp ==
    ASSUME HInv, App, NEW d \in Deliveries, DeliveryStep(d)
    PROVE  AppInv' /\ DelTyped'
BY BaselineApp, BaselineReadApp, RegisterApp, StartReplyApp, SignalApp, ReconcileApp, ReadReplyApp,
   SteerPendingApp, SteerApp, TurnSteerApp, PromptApp, BaselineTimesOutApp, ReadTimesOutApp
   DEF DeliveryStep

-----------------------------------------------------------------------------
(* Types, the opening, and the ACP dialect: the deliveries.                 *)

\* All of the invariant but the correlation.
Base == RpcTypeOK /\ Lines /\ Opened /\ Acp
\* The budget of faults.
Costs == [losses : 0..MaxLosses, timeouts : 0..MaxTimeouts, kills : 0..MaxKills]

\* Paying keeps it.
LEMMA PayType ==
    ASSUME cost \in Costs, NEW c \in {"losses", "timeouts", "kills"}, Pay(c)
    PROVE  cost' \in Costs
<1>1. MaxLosses \in Nat /\ MaxTimeouts \in Nat /\ MaxKills \in Nat
  BY RpcAssumption
<1>2. CASE c = "losses"
  <2>1. cost.losses < MaxLosses /\ cost' = [cost EXCEPT !.losses = @ + 1]
    BY <1>2 DEF Pay, Limit
  <2> QED
    BY <1>1, <2>1 DEF Costs
<1>3. CASE c = "timeouts"
  <2>1. cost.timeouts < MaxTimeouts /\ cost' = [cost EXCEPT !.timeouts = @ + 1]
    BY <1>3 DEF Pay, Limit
  <2> QED
    BY <1>1, <2>1 DEF Costs
<1>4. CASE c = "kills"
  <2>1. cost.kills < MaxKills /\ cost' = [cost EXCEPT !.kills = @ + 1]
    BY <1>4 DEF Pay, Limit
  <2> QED
    BY <1>1, <2>1 DEF Costs
<1> QED
  BY <1>2, <1>3, <1>4

\* What a step of a delivery leaves alone.
Frame ==
    /\ UNCHANGED <<dialect, proc, phase, registered, turns, owner, outq, reader, updates, killing,
                   reaped>>
    /\ rt' \in [active : BOOLEAN, id : 0..MaxTurns] /\ launch' \in {launch, {}} /\ cost' \in Costs
    /\ (inq' = inq \/ proc = "running") /\ reply' \subseteq reply

\* Marking a turn started or finished keeps the type of the runtime.
LEMMA Marks ==
    ASSUME HInv
    PROVE  /\ cost \in Costs /\ rt \in [active : BOOLEAN, id : 0..MaxTurns]
           /\ mark_turn_started => rt' \in [active : BOOLEAN, id : 0..MaxTurns]
           /\ mark_turn_finished => rt' \in [active : BOOLEAN, id : 0..MaxTurns]
<1>1. cost \in Costs /\ rt \in [active : BOOLEAN, id : 0..MaxTurns]
  BY DEF HInv, RpcTypeOK, Costs
<1>2. mark_turn_started => rt' \in [active : BOOLEAN, id : 0..MaxTurns]
  BY <1>1 DEF mark_turn_started
<1>3. [active |-> FALSE, id |-> 0] \in [active : BOOLEAN, id : 0..MaxTurns]
  BY TypeFacts
<1> QED
  BY <1>1, <1>2, <1>3 DEF mark_turn_finished

\* The end of a delivery is within the frame,
LEMMA FinishFrame ==
    ASSUME HInv, NEW d \in Deliveries, NEW r, NEW t, FinishDelivery(d, r, t)
    PROVE  Frame
BY Marks DEF FinishDelivery, Frame, external, endpoint

\* and so is the price of a time-out,
LEMMA ExpiredCost ==
    ASSUME HInv, NEW i, Expired(i)
    PROVE  cost' \in Costs
BY Marks, PayType DEF Expired

\* and so is every step of a delivery.
LEMMA DeliveryFrame ==
    ASSUME HInv, NEW d \in Deliveries, DeliveryStep(d)
    PROVE  Frame
<1>1. CASE thread_turn_baseline(d)
  BY <1>1, Marks, FinishFrame DEF thread_turn_baseline, Frame, request, external, endpoint
<1>2. CASE BaselineRead(d)
  BY <1>2, Marks, FinishFrame DEF BaselineRead, Frame, external, endpoint
<1>3. CASE RegisterAndStart(d)
  BY <1>3, Marks, FinishFrame DEF RegisterAndStart, Frame, request, external, endpoint
<1>4. CASE StartReply(d)
  BY <1>4, Marks, FinishFrame DEF StartReply, Frame, external, endpoint
<1>5. CASE ObserveSignal(d)
  BY <1>5, Marks, FinishFrame DEF ObserveSignal, Frame, external, endpoint
<1>6. CASE Reconcile(d)
  <2>1. CASE ~Alive
    BY <1>6, <2>1, FinishFrame DEF Reconcile
  <2>2. CASE Alive
    <3>1. cost' \in Costs
      BY <1>6, <2>2, Marks, PayType DEF Reconcile
    <3> QED
      BY <1>6, <2>2, <3>1, Marks DEF Reconcile, Frame, request, external, endpoint
  <2> QED
    BY <2>1, <2>2
<1>7. CASE reconcile_while_observing(d)
  BY ZenonT(60), <1>7, Marks, FinishFrame
     DEF reconcile_while_observing, Observe, Frame, external, endpoint
<1>8. CASE spawn_app_server_steer_pending(d)
  <2>1. cost' \in Costs
    BY <1>8, Marks, PayType DEF spawn_app_server_steer_pending
  <2> QED
    BY <1>8, <2>1, Marks DEF spawn_app_server_steer_pending, Frame, external, endpoint
<1>9. CASE spawn_app_server_steer(d)
  BY <1>9, Marks DEF spawn_app_server_steer, Frame, request, external, endpoint
<1>10. CASE turn_steer(d)
  <2>1. cost' \in Costs
    BY <1>10, Marks, ExpiredCost DEF turn_steer
  <2> QED
    BY <1>10, <2>1, Marks DEF turn_steer, Frame, external, endpoint
<1>11. CASE spawn_acp_prompt(d)
  BY <1>11, Marks, FinishFrame DEF spawn_acp_prompt, Frame, request, external, endpoint
<1>12. CASE BaselineTimesOut(d)
  BY <1>12, Marks, ExpiredCost DEF BaselineTimesOut, Frame, external, endpoint
<1>13. CASE ReadTimesOut(d)
  BY <1>13, Marks, ExpiredCost DEF ReadTimesOut, Frame, external, endpoint
<1> QED
  BY <1>1, <1>2, <1>3, <1>4, <1>5, <1>6, <1>7, <1>8, <1>9, <1>10, <1>11, <1>12, <1>13
     DEF DeliveryStep

\* Within the frame the rest of the invariant holds on.
LEMMA FrameBase ==
    ASSUME HInv, Frame, DelTyped', phase = "open", Acp'
    PROVE  Base'
<1>1. RpcTypeOK'
  <2>1. launch' \subseteq {{}, {1}} /\ Cardinality(launch') <= 1
    <3>1. launch \subseteq {{}, {1}} /\ Cardinality(launch) <= 1
      BY DEF HInv, RpcTypeOK
    <3>2. Cardinality({}) = 0
      BY FS_EmptySet
    <3>3. CASE launch' = launch
      BY <3>1, <3>3
    <3>4. CASE launch' = {}
      BY <3>2, <3>4
    <3> QED
      BY <3>3, <3>4 DEF Frame
  <2>2. cost' \in [losses : 0..MaxLosses, timeouts : 0..MaxTimeouts, kills : 0..MaxKills]
    BY DEF Frame, Costs
  <2> QED
    BY <2>1, <2>2 DEF HInv, RpcTypeOK, Frame, DelTyped, DelRecords
<1>2. Lines'
  BY DEF HInv, Lines, Frame, DelTyped
<1>3. Opened'
  BY DEF HInv, Opened, Frame, Known
<1> QED
  BY <1>1, <1>2, <1>3 DEF Base

\* Deliveries run on an open child only.
LEMMA DeliveryOpen ==
    ASSUME HInv, NEW d \in Deliveries, DeliveryStep(d)
    PROVE  phase = "open"
<1>1. del[d].pc # "new"
  BY DEF DeliveryStep, thread_turn_baseline, BaselineRead, RegisterAndStart, StartReply,
     ObserveSignal,
         Reconcile, reconcile_while_observing, spawn_app_server_steer_pending, spawn_app_server_steer,
         turn_steer, spawn_acp_prompt, BaselineTimesOut, ReadTimesOut
<1> QED
  BY <1>1 DEF HInv, Opened

\* An ACP delivery has one step: the prompt.
LEMMA AcpOnly ==
    ASSUME HInv, ~App, NEW d \in Deliveries, DeliveryStep(d)
    PROVE  spawn_acp_prompt(d)
<1>1. dialect = "acp"
  BY DEF HInv, RpcTypeOK, App
<1>2. del[d].pc \in {"new", "send", "prompt", "done"}
  BY <1>1 DEF HInv, Acp
<1> QED
  BY <1>2 DEF DeliveryStep, thread_turn_baseline, BaselineRead, RegisterAndStart, StartReply,
         ObserveSignal, Reconcile, reconcile_while_observing, spawn_app_server_steer_pending,
         spawn_app_server_steer, turn_steer, BaselineTimesOut, ReadTimesOut

\* Its end.
LEMMA AcpFinish ==
    ASSUME HInv, dialect = "acp", NEW d \in Deliveries, NEW r \in Results, r # "none",
           FinishDelivery(d, r, 0)
    PROVE  DelTyped' /\ Acp'
<1>1. del' = [del EXCEPT ![d] = DoneRecord(r, 0)]
  BY DoneIs DEF FinishDelivery
<1>2. DoneRecord(r, 0) \in DelRecords /\ DoneRecord(r, 0).pc = "done" /\ DoneRecord(r, 0).result = r
  BY RpcAssumption DEF DoneRecord, DelRecords
<1>3. /\ del' \in [Deliveries -> DelRecords]
      /\ \A e \in Deliveries : (del'[e].result # "none") <=> (del'[e].pc = "done")
      /\ \A e \in Deliveries : del'[e].pc \in {del[e].pc, "done"}
  BY <1>1, <1>2, TypeFacts DEF DelTyped
<1>4. DelTyped'
  BY <1>3, TypeFacts, EmptyLine DEF DelTyped, FinishDelivery, Forget
<1>5. Acp'
  BY <1>3 DEF HInv, Acp, FinishDelivery
<1> QED
  BY <1>4, <1>5

\* Its sending, its answer and its end.
LEMMA PromptAcp ==
    ASSUME HInv, ~App, NEW d \in Deliveries, spawn_acp_prompt(d)
    PROVE  DelTyped' /\ Acp'
<1>1. dialect = "acp"
  BY DEF HInv, RpcTypeOK, App
<1>2. CASE /\ del[d].pc = "send" /\ Alive /\ HasId /\ mark_turn_started
           /\ request(d, "prompt", 0, Fresh)
           /\ del' = [del EXCEPT ![d].pc = "prompt", ![d].id = Fresh]
           /\ UNCHANGED <<dialect, external, outq, reader, reply, routing, updates, launch, endpoint,
                          cost>>
  <2> DEFINE rec == [del[d] EXCEPT !.pc = "prompt", !.id = Fresh]
  <2>1. Fresh \in Ids /\ Fresh \in 0..MaxIds
    BY <1>2, FreshId, RpcAssumption DEF HInv, Ids
  <2>2. del' = [del EXCEPT ![d] = rec]
    BY <1>2, TypeFacts DEF DelTyped, DelRecords
  <2>3. rec \in DelRecords /\ rec.pc = "prompt" /\ rec.result = "none"
    <3>1. del[d] \in DelRecords /\ del[d].result = "none"
      BY <1>2, TypeFacts DEF DelTyped
    <3> QED
      BY <2>1, <3>1 DEF DelRecords
  <2> HIDE DEF rec
  <2>4. Asks(d, Fresh, "prompt", 0, rec) /\ UNCHANGED <<waiter, signals>>
    BY <1>2, <2>2 DEF Asks, request, Line, external, routing
  <2>5. DelTyped'
    BY <2>1, <2>3, <2>4, AsksTypes, TypeFacts
  <2>6. \A k \in DOMAIN inq' : inq'[k].kind = "prompt"
    <3>1. \A k \in DOMAIN inq : inq[k].kind = "prompt"
      BY <1>1 DEF HInv, Acp
    <3>2. inq \in Seq(Requests) /\ Line(d, Fresh, "prompt", 0) \in Requests
      BY <2>1, TypeFacts DEF DelTyped, Requests, Line
    <3>3. Line(d, Fresh, "prompt", 0).kind = "prompt"
      BY DEF Line
    <3>4. CASE inq' = inq
      BY <3>1, <3>4
    <3>5. CASE inq' = Append(inq, Line(d, Fresh, "prompt", 0))
      BY <3>1, <3>2, <3>3, <3>5, AppendLine
    <3> QED
      BY <2>4, <3>4, <3>5 DEF Asks
  <2>7. \A e \in Deliveries : del'[e].pc \in {del[e].pc, "prompt"}
    BY <2>2, <2>3, TypeFacts DEF DelTyped
  <2>8. Acp'
    BY <1>1, <1>2, <2>6, <2>7 DEF HInv, Acp, routing
  <2> QED
    BY <2>5, <2>8
<1>3. CASE FinishDelivery(d, "exited", 0)
  BY <1>1, <1>3, AcpFinish DEF Results
<1>4. ASSUME NEW m \in Replies(d),
             FinishDelivery(d, CASE m.kind = "exit" -> "exited" [] m.status = "error" -> "rejected"
                      [] OTHER -> m.status, 0)
      PROVE  DelTyped' /\ Acp'
  <2> DEFINE r == CASE m.kind = "exit" -> "exited" [] m.status = "error" -> "rejected"
                    [] OTHER -> m.status
  <2>1. m.kind = "exit" \/ m.status \in {"error", "completed", "failed"}
    BY <1>1, <1>4 DEF HInv, Acp, Replies
  <2>2. r \in {"exited", "rejected", "completed", "failed"}
    <3>1. CASE m.kind = "exit"
      <4>1. m.status = "error" \/ m.status # "error"
        OBVIOUS
      <4> QED
        BY <3>1, <4>1
    <3>2. CASE m.kind # "exit"
      BY <2>1, <3>2
    <3> QED
      BY <3>1, <3>2
  <2>3. FinishDelivery(d, r, 0)
    BY <1>4
  <2> HIDE DEF r
  <2> QED
    BY <1>1, <2>2, <2>3, AcpFinish DEF Results
<1> QED
  BY <1>2, <1>3, <1>4 DEF spawn_acp_prompt

\* Every step of a delivery, in both dialects, keeps the invariant.
LEMMA DeliveryInv ==
    ASSUME HInv, NEW d \in Deliveries, DeliveryStep(d)
    PROVE  HInv'
<1>1. Frame /\ phase = "open"
  BY DeliveryFrame, DeliveryOpen
<1>2. CASE App
  <2>1. AppInv' /\ DelTyped'
    BY <1>2, DeliveryApp
  <2>2. Acp'
    BY <1>1, <1>2 DEF Acp, Frame, App
  <2>3. Base'
    BY <1>1, <2>1, <2>2, FrameBase
  <2> QED
    BY <2>1, <2>3 DEF HInv, Base
<1>3. CASE ~App
  <2>1. DelTyped' /\ Acp'
    BY <1>3, AcpOnly, PromptAcp
  <2>2. Base'
    BY <1>1, <2>1, FrameBase
  <2>3. AppInv'
    BY <1>1, <1>3 DEF AppInv, App, Frame
  <2> QED
    BY <2>2, <2>3 DEF HInv, Base
<1> QED
  BY <1>2, <1>3

\* So does the step that takes it up.
LEMMA DeliverInv ==
    ASSUME HInv, NEW d \in Deliveries, deliver(d)
    PROVE  HInv'
<1>1. Frame /\ phase = "open"
  BY Marks DEF deliver, Frame, external, endpoint
<1>2. CASE App
  <2>1. AppInv' /\ DelTyped'
    BY <1>2, DeliverApp
  <2>2. Acp'
    BY <1>1, <1>2 DEF Acp, Frame, App
  <2>3. Base'
    BY <1>1, <2>1, <2>2, FrameBase
  <2> QED
    BY <2>1, <2>3 DEF HInv, Base
<1>3. CASE ~App
  <2>1. dialect = "acp"
    BY <1>3 DEF HInv, RpcTypeOK, App
  <2> DEFINE rec == [del[d] EXCEPT !.pc = "send", !.turn = 0]
  <2>2. del' = [del EXCEPT ![d].pc = "send", ![d].turn = 0] /\ del[d].pc = "new"
    BY <2>1 DEF deliver
  <2>3. del' = [del EXCEPT ![d] = rec]
    BY <2>2, TypeFacts DEF DelTyped, DelRecords
  <2>4. rec \in DelRecords /\ rec.pc = "send" /\ rec.result = "none"
    <3>1. del[d] \in DelRecords /\ del[d].result = "none"
      BY <2>2, TypeFacts DEF DelTyped
    <3> QED
      BY <3>1, TypeFacts DEF DelRecords
  <2> HIDE DEF rec
  <2>5. /\ del' \in [Deliveries -> DelRecords]
        /\ \A e \in Deliveries : (del'[e].result # "none") <=> (del'[e].pc = "done")
        /\ \A e \in Deliveries : del'[e].pc \in {del[e].pc, "send"}
    BY <2>3, <2>4, TypeFacts DEF DelTyped
  <2>6. UNCHANGED <<dialect, inq, outq, pending, reply, waiter, signals>>
    BY DEF deliver, routing
  <2>7. DelTyped'
    BY <2>5, <2>6, TypeFacts DEF DelTyped
  <2>8. Acp'
    BY <2>1, <2>5, <2>6 DEF HInv, Acp
  <2>9. Base'
    BY <1>1, <2>7, <2>8, FrameBase
  <2>10. AppInv'
    BY <1>3, <2>6 DEF AppInv, App
  <2> QED
    BY <2>9, <2>10 DEF HInv, Base
<1> QED
  BY <1>2, <1>3

-----------------------------------------------------------------------------
(* The child.                                                               *)

\* A response is a line of the child,
LEMMA ResponseType ==
    ASSUME HInv, NEW r, NEW s \in Statuses, NEW t \in 0..MaxTurns,
           r.id \in 0..MaxIds, r.of \in 0..MaxDeliveries, r.kind \in Kinds
    PROVE  Response(r, s, t) \in Messages
<1>1. turns \in Snaps /\ NoTurns \in Snaps
  BY DEF HInv, RpcTypeOK, Snaps, NoTurns, TurnStates
<1> QED
  BY <1>1 DEF Response, Messages

\* and so is a notice.
LEMMA NoteType ==
    ASSUME NEW t \in 0..MaxTurns, NEW kind \in {"turn/started", "turn/completed"}
    PROVE  /\ Note(kind, t) \in Messages /\ Note(kind, t).id = 0 /\ Note(kind, t).kind = kind
           /\ Note(kind, t).turn = t
<1>1. NoTurns \in Snaps
  BY DEF Snaps, NoTurns, TurnStates
<1>2. 0 \in 0..MaxIds /\ 0 \in 0..MaxDeliveries
  BY RpcAssumption
<1> QED
  BY <1>1, <1>2 DEF Note, Messages, Kinds, Statuses

\* The line the child takes.
LEMMA TakenLine ==
    ASSUME HInv, inq # <<>>, NEW s \in Statuses, NEW t \in 0..MaxTurns
    PROVE  /\ Head(inq) = inq[1] /\ Head(inq) \in Requests /\ 1 \in DOMAIN inq
           /\ Response(Head(inq), s, t) \in Messages
           /\ Tail(inq) \in Seq(Requests) /\ phase = "open"
<1>1. inq \in Seq(Requests)
  BY DEF HInv, Lines
<1>2. /\ Head(inq) = inq[1] /\ Head(inq) \in Requests /\ 1 \in DOMAIN inq /\ Tail(inq) \in Seq(Requests)
  BY <1>1, TailLine
<1>3. /\ Head(inq).id \in 0..MaxIds /\ Head(inq).of \in 0..MaxDeliveries /\ Head(inq).kind \in Kinds
  BY SMTT(30), <1>2, RpcAssumption DEF Requests, Ids, Deliveries, Kinds
<1> QED
  BY <1>2, <1>3, ResponseType DEF HInv, Opened

\* The types of what the child changes.
ChildTyped ==
    /\ inq \in Seq(Requests) /\ outq \in Seq(Messages) /\ turns \in [Turns -> TurnStates]
    /\ owner \in [Turns -> Deliveries \cup {0}] /\ cost \in Costs
    /\ proc \in {"running", "gone"}

\* And what it leaves alone.
ChildFrame ==
    UNCHANGED <<dialect, reader, pending, reply, waiter, signals, updates, rt, launch, del, phase,
                registered, killing, reaped>>

\* Within those the rest of the invariant holds on.
LEMMA ChildBase ==
    ASSUME HInv, ChildFrame, ChildTyped', Opened', Acp'
    PROVE  Base'
<1>1. RpcTypeOK'
  BY ZenonT(60) DEF HInv, RpcTypeOK, ChildFrame, ChildTyped, Costs
<1>2. Lines'
  BY DEF HInv, Lines, ChildFrame, ChildTyped
<1> QED
  BY <1>1, <1>2 DEF Base

\* The child takes a line: the opening.
LEMMA TakesOpened ==
    ASSUME HInv, NEW lost \in BOOLEAN, ChildTakes(lost)
    PROVE  Opened'
<1>1. phase = "open" /\ Head(inq).of \in Deliveries /\ Head(inq).of # 0
  <2>1. "ok" \in Statuses /\ 0 \in 0..MaxTurns
    BY TypeFacts DEF Statuses
  <2>2. phase = "open" /\ Head(inq) \in Requests
    BY <2>1, TakenLine DEF ChildTakes
  <2> QED
    BY <2>2, RpcAssumption DEF Requests, Deliveries
<1>2. /\ proc = "running" /\ proc' = proc /\ reader' = reader /\ phase' = phase
      /\ registered' = registered /\ launch' = launch
  BY DEF ChildTakes, endpoint
<1>3. /\ \A t \in Turns : turns'[t] = "running" => owner'[t] # 0
      /\ Known(turns) \subseteq Known(turns')
  <2>1. CASE UNCHANGED <<turns, owner>>
    BY <2>1 DEF HInv, Opened
  <2>2. ASSUME NEW t \in FreeTurn, turns' = [turns EXCEPT ![t] = "running"],
               owner' = [owner EXCEPT ![t] = Head(inq).of]
        PROVE  /\ \A u \in Turns : turns'[u] = "running" => owner'[u] # 0
               /\ Known(turns) \subseteq Known(turns')
    BY <1>1, <2>2 DEF HInv, RpcTypeOK, Opened, Known
  <2> QED
    BY <2>1, <2>2 DEF ChildTakes
<1> QED
  BY <1>1, <1>2, <1>3 DEF HInv, Opened

\* The types and the frame.
LEMMA TakesTyped ==
    ASSUME HInv, NEW lost \in BOOLEAN, ChildTakes(lost)
    PROVE  ChildTyped' /\ ChildFrame
<1>1. ChildFrame
  BY DEF ChildTakes, ChildFrame, endpoint, routing
<1>2. inq # <<>> /\ {"ok", "error"} \subseteq Statuses /\ 0 \in 0..MaxTurns /\ Turns \subseteq 0..MaxTurns
  BY TypeFacts, RpcAssumption DEF ChildTakes, Statuses, Turns
<1>3. inq' \in Seq(Requests) /\ Head(inq) \in Requests
  BY <1>2, TakenLine DEF ChildTakes
<1>4. cost' \in Costs
  BY Marks, PayType DEF ChildTakes
<1>5. turns \in [Turns -> TurnStates] /\ owner \in [Turns -> Deliveries \cup {0}]
  BY DEF HInv, RpcTypeOK
<1>6. turns' \in [Turns -> TurnStates] /\ owner' \in [Turns -> Deliveries \cup {0}]
  <2>1. Head(inq).of \in Deliveries
    BY <1>3 DEF Requests
  <2> QED
    BY <1>5, <2>1 DEF ChildTakes, TurnStates
<1>7. outq' \in Seq(Messages)
  <2> DEFINE m(s, t) == Response(Head(inq), s, t)
  <2>1. outq \in Seq(Messages)
    BY DEF HInv, Lines
  <2>2. \A s \in {"ok", "error"}, t \in Turns \cup {0} : m(s, t) \in Messages
    BY <1>2, TakenLine
  <2>3. \A s \in {"ok", "error"}, t \in Turns \cup {0} : Append(outq, m(s, t)) \in Seq(Messages)
    BY <2>1, <2>2, AppendLine
  <2>4. \A t \in Turns : Note("turn/started", t) \in Messages
    BY <1>2, NoteType
  <2>5. CASE outq' = outq
    BY <2>1, <2>5
  <2>6. CASE \E s \in {"ok", "error"} : outq' = Append(outq, m(s, 0))
    BY <2>3, <2>6
  <2>7. ASSUME NEW t \in Turns, outq' = outq \o <<Note("turn/started", t)>>
        PROVE  outq' \in Seq(Messages)
    BY <2>1, <2>4, <2>7, ConcatLine, AppendLine
  <2>8. ASSUME NEW t \in Turns, outq' = Append(outq, m("ok", t)) \o <<Note("turn/started", t)>>
        PROVE  outq' \in Seq(Messages)
    <3>1. Append(outq, m("ok", t)) \in Seq(Messages)
      BY <2>3
    <3> HIDE DEF m
    <3>2. outq' = Append(Append(outq, m("ok", t)), Note("turn/started", t))
      BY <2>4, <2>8, <3>1, ConcatLine
    <3> QED
      BY <2>4, <3>1, <3>2, AppendLine
  <2>9. \/ outq' = outq
        \/ \E s \in {"ok", "error"} : outq' = Append(outq, m(s, 0))
        \/ \E t \in Turns : outq' = outq \o <<Note("turn/started", t)>>
        \/ \E t \in Turns : outq' = Append(outq, m("ok", t)) \o <<Note("turn/started", t)>>
    BY DEF ChildTakes, FreeTurn
  <2> HIDE DEF m
  <2> QED
    BY <2>5, <2>6, <2>7, <2>8, <2>9
<1> QED
  BY <1>1, <1>3, <1>4, <1>6, <1>7 DEF ChildTyped, ChildTakes, HInv, RpcTypeOK

\* The ACP dialect.
LEMMA TakesAcp ==
    ASSUME HInv, NEW lost \in BOOLEAN, ChildTakes(lost)
    PROVE  Acp'
<1> SUFFICES ASSUME dialect = "acp"
             PROVE  Acp'
  BY DEF Acp, ChildTakes
<1>1. /\ \A k \in DOMAIN inq : inq[k].kind = "prompt"
      /\ \A k \in DOMAIN outq : outq[k].status \in {"error", "completed", "failed"}
  BY DEF HInv, Acp
<1>2. inq # <<>> /\ inq \in Seq(Requests) /\ outq \in Seq(Messages) /\ inq' = Tail(inq)
  BY DEF ChildTakes, HInv, Lines
<1>3. \A k \in DOMAIN inq' : inq'[k].kind = "prompt"
  BY <1>1, <1>2, TailLine
<1>4. Head(inq).kind = "prompt"
  BY <1>1, <1>2, TailLine
<1>5. \A k \in DOMAIN outq' : outq'[k].status \in {"error", "completed", "failed"}
  <2>1. CASE outq' = outq
    BY <1>1, <2>1
  <2>2. CASE outq' = Append(outq, Response(Head(inq), "error", 0))
    <3>1. Response(Head(inq), "error", 0) \in Messages
      BY <1>2, TypeFacts, TakenLine DEF Statuses
    <3>2. Response(Head(inq), "error", 0).status = "error"
      BY DEF Response
    <3> QED
      BY <1>1, <1>2, <2>2, <3>1, <3>2, AppendLine
  <2> QED
    BY <1>4, <2>1, <2>2 DEF ChildTakes
<1> QED
  BY <1>3, <1>5 DEF HInv, Acp, ChildTakes, routing

\* The app-server.
LEMMA TakesApp ==
    ASSUME HInv, App, NEW lost \in BOOLEAN, ChildTakes(lost)
    PROVE  AppInv'
<1>1. /\ proc = "running" /\ inq # <<>> /\ inq' = Tail(inq)
      /\ UNCHANGED <<dialect, reader, pending, reply, del, waiter, signals>>
  BY DEF ChildTakes, routing
<1>2. /\ {"ok", "error"} \subseteq Statuses /\ 0 \in 0..MaxTurns /\ Turns \subseteq 0..MaxTurns
      /\ 0 \notin Turns
  BY TypeFacts, RpcAssumption DEF Statuses, Turns
<1>3. Head(inq).kind # "prompt"
  BY <1>1, <1>2, TakenLine, AppFacts DEF Waits
<1> DEFINE m(s, t) == Response(Head(inq), s, t)
<1>4. \A s \in {"ok", "error"}, t \in Turns \cup {0} :
        /\ m(s, t) \in Messages /\ Answers0(m(s, t)) /\ m(s, t).status = s /\ m(s, t).turn = t
        /\ Head(inq).kind = "read" => m(s, t).snap = turns
  <2>1. \A s \in {"ok", "error"}, t \in Turns \cup {0} : m(s, t) \in Messages
    BY <1>1, <1>2, TakenLine
  <2> QED
    BY <2>1 DEF Response, Answers0
<1> DEFINE quiet == Note("turn/started", 0)
<1>5. quiet \in Messages /\ IsNote(quiet)
  BY <1>2, NoteType DEF IsNote
<1> HIDE DEF m, quiet
\* A read, a steer, a refusal.
<1>6. ASSUME NEW s \in {"ok", "error"}, outq' \in {outq, Append(outq, m(s, 0))}, UNCHANGED <<turns, owner>>,
             Head(inq).kind = "start" => s = "error"
      PROVE  AppInv'
  <2> DEFINE a == m(s, 0)
  <2>1. /\ a \in Messages /\ Answers0(a) /\ a.status = s
        /\ Head(inq).kind = "read" => a.snap = turns
    BY <1>4
  <2>2. outq' \in {outq, Append(outq, a)}
    BY <1>6
  <2> HIDE DEF a
  <2> QED
    BY <1>1, <1>5, <1>6, <2>1, <2>2, TakeQuietInv, AppFacts
<1>7. ASSUME NEW t \in FreeTurn, Head(inq).kind = "start",
             turns' = [turns EXCEPT ![t] = "running"], owner' = [owner EXCEPT ![t] = Head(inq).of],
             outq' = (IF lost THEN outq ELSE Append(outq, m("ok", t))) \o <<Note("turn/started", t)>>
      PROVE  AppInv'
  <2> DEFINE a == m("ok", t)
             n == Note("turn/started", t)
  <2>1. t \in Turns /\ turns[t] = "none"
    BY DEF FreeTurn
  <2>2. a \in Messages /\ Answers0(a) /\ a.status = "ok" /\ a.turn = t
    BY <1>4, <2>1
  <2>3. /\ n \in Messages /\ IsNote(n) /\ n.kind = "turn/started" /\ n.turn # 0
    BY <1>2, <2>1, NoteType DEF IsNote
  <2>4. outq' = (IF lost THEN outq ELSE Append(outq, a)) \o <<n>>
    BY <1>7
  <2> HIDE DEF a, n
  <2>5. outq \in Seq(Messages) /\ Append(outq, a) \in Seq(Messages)
    BY <2>2, AppendLine DEF HInv, Lines
  <2>6. Writes(a, n)
    BY <2>3, <2>4, <2>5, ConcatLine DEF Writes
  <2> QED
    BY <1>1, <1>7, <2>1, <2>2, <2>3, <2>6, TakeStartInv, AppFacts
<1> QED
  BY <1>1, <1>3, <1>6, <1>7 DEF ChildTakes, m

\* All of it.
LEMMA TakesInv ==
    ASSUME HInv, NEW lost \in BOOLEAN, ChildTakes(lost)
    PROVE  HInv'
<1>1. Base'
  BY TakesOpened, TakesTyped, TakesAcp, ChildBase
<1>2. AppInv'
  <2>1. CASE App
    BY <2>1, TakesApp
  <2>2. CASE ~App
    BY <2>2 DEF AppInv, App, ChildTakes
  <2> QED
    BY <2>1, <2>2
<1> QED
  BY <1>1, <1>2 DEF HInv, Base

\* A turn ends.
LEMMA FinishInv ==
    ASSUME HInv, NEW t \in Turns, NEW lost \in BOOLEAN, ChildFinishes(t, lost)
    PROVE  HInv'
<1> PICK s \in Terminals :
       /\ proc = "running" /\ turns[t] = "running"
       /\ turns' = [turns EXCEPT ![t] = s]
       /\ IF lost THEN Pay("losses") ELSE UNCHANGED cost
       /\ outq' = CASE lost -> outq
                    [] ~lost /\ dialect = "app-server" -> Append(outq, Note("turn/completed", t))
                    [] OTHER -> Append(outq, Response([id |-> del[owner[t]].id, of |-> owner[t],
                                                       kind |-> "prompt"], s, t))
       /\ dialect = "acp" => ~lost
       /\ UNCHANGED <<dialect, proc, owner, inq, reader, pending, reply, routing, updates, rt, launch,
                      del, endpoint>>
  BY DEF ChildFinishes
<1> DEFINE m == Response([id |-> del[owner[t]].id, of |-> owner[t], kind |-> "prompt"], s, t)
           n == Note("turn/completed", t)
<1>1. s \in Final /\ s \in Statuses /\ s \in TurnStates /\ t \in 0..MaxTurns /\ t # 0
  BY RpcAssumption DEF Final, Statuses, TurnStates, Turns
<1>2. phase = "open" /\ owner[t] \in Deliveries
  BY DEF HInv, RpcTypeOK, Opened
<1>3. m \in Messages /\ m.status = s
  <2>1. del[owner[t]].id \in 0..MaxIds /\ owner[t] \in 0..MaxDeliveries
    <3>1. del[owner[t]] \in DelRecords
      BY <1>2, TypeFacts DEF DelTyped
    <3>2. Deliveries \subseteq 0..MaxDeliveries
      BY RpcAssumption DEF Deliveries
    <3> QED
      BY <1>2, <3>1, <3>2 DEF DelRecords
  <2> DEFINE r == [id |-> del[owner[t]].id, of |-> owner[t], kind |-> "prompt"]
  <2>2. r.id \in 0..MaxIds /\ r.of \in 0..MaxDeliveries /\ r.kind \in Kinds
    BY <2>1 DEF Kinds
  <2> HIDE DEF r
  <2>3. Response(r, s, t) \in Messages /\ Response(r, s, t).status = s
    BY <1>1, <2>2, ResponseType DEF Response
  <2> QED
    BY <2>3 DEF r
<1>4. n \in Messages /\ IsNote(n) /\ n.kind = "turn/completed" /\ n.turn = t
  BY <1>1, NoteType DEF IsNote
<1>5. outq \in Seq(Messages) /\ turns \in [Turns -> TurnStates]
  BY DEF HInv, Lines, RpcTypeOK
<1>6. /\ App => outq' \in {outq, Append(outq, n)}
      /\ ~App => outq' = Append(outq, m)
  BY DEF App, HInv, RpcTypeOK
<1> HIDE DEF m, n
<1>7. outq' \in Seq(Messages)
  BY <1>3, <1>4, <1>5, <1>6, AppendLine
<1>8. cost' \in Costs
  BY Marks, PayType
<1>9. ChildTyped' /\ ChildFrame
  BY <1>1, <1>5, <1>7, <1>8 DEF ChildTyped, ChildFrame, HInv, RpcTypeOK, Lines, routing, endpoint
<1>10. Opened'
  <2>1. Known(turns) \subseteq Known(turns') /\ \A u \in Turns : turns'[u] = "running" => turns[u] = "running"
    BY <1>1, <1>5 DEF Known, Final
  <2> QED
    BY <1>2, <2>1 DEF HInv, Opened, endpoint
<1>11. Acp'
  <2> SUFFICES ASSUME dialect = "acp"
               PROVE  Acp'
    BY DEF Acp
  <2>1. outq' = Append(outq, m) /\ \A k \in DOMAIN outq : outq[k].status \in {"error", "completed", "failed"}
    BY <1>6 DEF App, HInv, Acp
  <2>2. \A k \in DOMAIN outq' : outq'[k].status \in {"error", "completed", "failed"}
    BY <1>1, <1>3, <1>5, <2>1, AppendLine DEF Final
  <2> QED
    BY <2>2 DEF HInv, Acp, routing
<1>12. Base'
  BY <1>9, <1>10, <1>11, ChildBase
<1>13. AppInv'
  <2>1. CASE App
    BY <1>1, <1>4, <1>6, <2>1, FinishesInv, AppFacts DEF routing
  <2>2. CASE ~App
    BY <2>2 DEF AppInv, App
  <2> QED
    BY <2>1, <2>2
<1> QED
  BY <1>12, <1>13 DEF HInv, Base

\* The process is gone, by itself or because its handshake failed.
LEMMA GoneInv ==
    ASSUME HInv, ChildExits \/ failed_spawn
    PROVE  HInv'
<1>1. /\ proc' = "gone" /\ inq' = <<>>
      /\ UNCHANGED <<dialect, owner, outq, reader, pending, reply, waiter, signals, updates, rt, launch,
                     del, phase, registered, killing, reaped, cost>>
  BY DEF ChildExits, failed_spawn, routing, endpoint
<1>2. turns \in [Turns -> TurnStates]
  BY DEF HInv, RpcTypeOK
<1>3. turns' = [t \in Turns |-> IF turns[t] = "running" THEN "failed" ELSE turns[t]]
  <2>1. CASE failed_spawn
    <3>1. turns' = turns /\ \A t \in Turns : turns[t] # "running"
      BY <2>1 DEF failed_spawn, HInv, Opened
    <3> QED
      BY <1>2, <3>1
  <2> QED
    BY <2>1 DEF ChildExits
<1>4. /\ turns' \in [Turns -> TurnStates] /\ Known(turns') = Known(turns)
      /\ \A t \in Turns : turns'[t] # "running" /\ (turns[t] # "running" => turns'[t] = turns[t])
  BY <1>2, <1>3 DEF TurnStates, Known
<1>5. DOMAIN inq' = {} /\ inq' \in Seq(Requests)
  BY <1>1, EmptyLine
<1>6. ChildTyped' /\ ChildFrame
  BY <1>1, <1>4, <1>5, Marks DEF ChildTyped, ChildFrame, HInv, RpcTypeOK, Lines
<1>7. Opened'
  BY <1>1, <1>4 DEF HInv, Opened
<1>8. Acp'
  BY <1>1, <1>5 DEF HInv, Acp
<1>9. Base'
  BY <1>6, <1>7, <1>8, ChildBase
<1>10. AppInv'
  <2>1. CASE App
    BY <1>1, <1>3, <2>1, ExitsInv, AppFacts
  <2>2. CASE ~App
    BY <1>1, <2>2 DEF AppInv, App
  <2> QED
    BY <2>1, <2>2
<1> QED
  BY <1>9, <1>10 DEF HInv, Base

-----------------------------------------------------------------------------
(* The reader, the update drain, the handshake, kill and the reaper.        *)

\* The reader takes a line.
LEMMA DispatchInv ==
    ASSUME HInv, dispatch_inbound
    PROVE  HInv'
<1>1. /\ reader = "reading" /\ outq # <<>> /\ outq' = Tail(outq)
      /\ UNCHANGED <<dialect, proc, turns, owner, inq, reader, waiter, rt, launch, del, phase,
                     registered, killing, reaped, cost>>
  BY DEF dispatch_inbound, external, endpoint
<1>2. outq \in Seq(Messages) /\ updates \in Seq(Messages) /\ signals \in Seq(Turns)
  BY DEF HInv, Lines
<1>3. /\ Head(outq) = outq[1] /\ 1 \in DOMAIN outq /\ outq[1] \in Messages /\ outq' \in Seq(Messages)
      /\ \A k \in DOMAIN outq' : k + 1 \in DOMAIN outq /\ outq'[k] = outq[k + 1]
  BY <1>1, <1>2, TailLine
<1>4. \/ /\ outq[1].id # 0 /\ reply' = (IF outq[1].id \in pending THEN reply \cup {outq[1]} ELSE reply)
         /\ pending' = pending \ {outq[1].id} /\ UNCHANGED <<signals, updates>>
      \/ /\ outq[1].id = 0 /\ updates' = Append(updates, outq[1]) /\ UNCHANGED <<reply, pending>>
         /\ signals' = (IF waiter # 0 /\ outq[1].kind = "turn/completed"
                        THEN Append(signals, outq[1].turn) ELSE signals)
  BY <1>3 DEF dispatch_inbound, signal_turn, Forget
\* An ACP agent notifies of no turns.
<1>5. App => \/ outq[1].id # 0
             \/ outq[1].turn \in Turns
  <2>1. outq[1].turn \in 0..MaxTurns
    BY <1>3 DEF Messages
  <2>2. App /\ outq[1].id = 0 => outq[1].turn # 0
    BY <1>3, AppFacts DEF WireIds
  <2> QED
    BY <2>1, <2>2, RpcAssumption DEF Turns
<1>6. AppInv'
  <2>1. CASE ~App
    BY <1>1, <2>1 DEF AppInv, App
  <2>2. CASE App
    BY <1>1, <1>4, <2>2, RoutesInv, NotifiesInv, AppFacts
  <2> QED
    BY <2>1, <2>2
<1>7. Acp'
  <2>1. dialect = "acp" => reply' \subseteq reply \cup {outq[1]}
    BY <1>4
  <2> QED
    BY <1>1, <1>3, <2>1 DEF HInv, Acp
<1>8. signals' \in Seq(Turns)
  <2>1. CASE signals' = signals
    BY <1>2, <2>1
  <2>2. CASE outq[1].id = 0 /\ waiter # 0 /\ signals' = Append(signals, outq[1].turn)
    <3>1. App
      BY <2>2 DEF HInv, Acp, App, RpcTypeOK
    <3> QED
      BY <1>2, <1>5, <2>2, <3>1, AppendLine
  <2> QED
    BY <1>4, <2>1, <2>2
<1>9. updates' \in Seq(Messages) /\ reply' \subseteq Messages /\ pending' \subseteq Ids
  <2>1. updates' \in Seq(Messages)
    <3>1. updates' = updates \/ updates' = Append(updates, outq[1])
      BY <1>4
    <3>2. Append(updates, outq[1]) \in Seq(Messages)
      BY <1>2, <1>3, AppendLine
    <3> QED
      BY <1>2, <3>1, <3>2
  <2>2. reply \subseteq Messages /\ pending \subseteq Ids
    BY DEF HInv, Lines, RpcTypeOK
  <2> QED
    BY <1>3, <1>4, <2>1, <2>2
<1>10. RpcTypeOK'
  BY <1>1, <1>9 DEF HInv, RpcTypeOK
<1>11. Lines'
  BY <1>1, <1>3, <1>8, <1>9 DEF HInv, Lines
<1>12. Opened'
  BY <1>1 DEF HInv, Opened
<1> QED
  BY <1>6, <1>7, <1>10, <1>11, <1>12 DEF HInv

\* stdout is closed.
LEMMA EofHInv ==
    ASSUME HInv, ReaderEof
    PROVE  HInv'
<1>1. /\ reader = "reading" /\ proc = "gone" /\ outq = <<>> /\ reader' = "marked"
      /\ UNCHANGED <<dialect, proc, turns, owner, inq, outq, pending, reply, waiter, signals, updates, rt,
                     launch, del, phase, registered, killing, reaped, cost>>
  BY DEF ReaderEof, external, routing, endpoint
<1>2. RpcTypeOK'
  <2>1. RpcTypeOK
    BY DEF HInv
  <2>2. reader' \in {"reading", "marked", "ended"}
    BY <1>1
  <2> QED
    BY <1>1, <2>1, <2>2 DEF RpcTypeOK
<1>3. Lines' /\ Opened' /\ Acp'
  BY <1>1 DEF HInv, Lines, Opened, Acp
<1>4. AppInv'
  <2>1. CASE ~App
    BY <1>1, <2>1 DEF AppInv, App
  <2>2. CASE App
    BY <1>1, <2>2, EofInv, AppFacts
  <2> QED
    BY <2>1, <2>2
<1> QED
  BY <1>2, <1>3, <1>4 DEF HInv

\* The map is drained.
LEMMA DrainsHInv ==
    ASSUME HInv, ReaderDrains
    PROVE  HInv'
<1>1. /\ reader = "marked" /\ reader' = "ended" /\ pending' = {} /\ waiter' = 0
      /\ UNCHANGED <<dialect, proc, turns, owner, inq, outq, signals, updates, rt, launch, del, phase,
                     registered, killing, reaped, cost>>
  BY DEF ReaderDrains, external, endpoint
<1>2. reply' = reply \cup Exits
  BY DEF ReaderDrains, Exits, ExitOf
<1>3. Exits \subseteq Messages /\ \A x \in Exits : x.kind = "exit"
  <2> SUFFICES ASSUME NEW d \in Deliveries, NEW i \in pending
               PROVE  ExitOf(i, d) \in Messages /\ ExitOf(i, d).kind = "exit"
    BY DEF Exits
  <2> DEFINE r == [id |-> i, of |-> d, kind |-> "exit"]
  <2>1. i \in 0..MaxIds /\ d \in 0..MaxDeliveries /\ "exited" \in Statuses
    <3>1. pending \subseteq Ids
      BY DEF HInv, RpcTypeOK
    <3>2. i \in 0..MaxIds
      BY <3>1, RpcAssumption DEF Ids
    <3>3. d \in 0..MaxDeliveries
      BY RpcAssumption DEF Deliveries
    <3> QED
      BY <3>2, <3>3 DEF Statuses
  <2>2. r.id \in 0..MaxIds /\ r.of \in 0..MaxDeliveries /\ r.kind \in Kinds /\ r.kind = "exit"
    BY <2>1 DEF Kinds
  <2> HIDE DEF r
  <2>3. Response(r, "exited", 0) \in Messages /\ Response(r, "exited", 0).kind = "exit"
    BY <2>1, <2>2, ResponseType, TypeFacts DEF Response
  <2> QED
    BY <2>3 DEF r, ExitOf
<1>4. RpcTypeOK'
  BY <1>1 DEF HInv, RpcTypeOK
<1>5. Lines'
  BY <1>1, <1>2, <1>3 DEF HInv, Lines
<1>6. Opened'
  BY <1>1 DEF HInv, Opened
<1>7. Acp'
  BY <1>1, <1>2, <1>3 DEF HInv, Acp
<1>8. AppInv'
  <2>1. CASE ~App
    BY <1>1, <2>1 DEF AppInv, App
  <2>2. CASE App
    BY <1>1, <1>2, <2>2, DrainedInv, AppFacts
  <2> QED
    BY <2>1, <2>2
<1> QED
  BY <1>4, <1>5, <1>6, <1>7, <1>8 DEF HInv

\* Steps of the drain, the handshake, kill and the reaper leave the lines alone.
Aside ==
    UNCHANGED <<dialect, proc, turns, owner, inq, outq, reader, pending, reply, waiter, signals, del>>

\* They keep the invariant when they keep its types.
LEMMA AsideInv ==
    ASSUME HInv, Aside, RpcTypeOK', updates' \in Seq(Messages), Opened'
    PROVE  HInv'
<1>1. AppInv'
  BY SameInv DEF Aside, Same, HInv
<1>2. Lines' /\ Acp'
  BY DEF HInv, Lines, Acp, Aside
<1> QED
  BY <1>1, <1>2 DEF HInv

\* The update drain notes a turn.
LEMMA DrainUpdatesInv ==
    ASSUME HInv, DrainUpdates
    PROVE  HInv'
<1>1. /\ Aside /\ UNCHANGED <<launch, phase, registered, killing, reaped, cost>>
      /\ updates # <<>> /\ updates' = Tail(updates) /\ rt' = note_update(Head(updates))
  BY DEF DrainUpdates, Aside, external, routing, endpoint
<1>2. updates' \in Seq(Messages) /\ Head(updates) \in Messages
  BY <1>1, TailLine DEF HInv, Lines
<1>3. rt' \in [active : BOOLEAN, id : 0..MaxTurns]
  <2>1. Head(updates).turn \in 0..MaxTurns
    BY <1>2 DEF Messages
  <2>2. rt \in [active : BOOLEAN, id : 0..MaxTurns]
    BY Marks
  <2>3. note_update(Head(updates)) \in {[active |-> FALSE, id |-> 0],
                                        [active |-> TRUE, id |-> Head(updates).turn], rt}
    BY DEF note_update
  <2>4. /\ [active |-> FALSE, id |-> 0] \in [active : BOOLEAN, id : 0..MaxTurns]
        /\ [active |-> TRUE, id |-> Head(updates).turn] \in [active : BOOLEAN, id : 0..MaxTurns]
    BY <2>1, TypeFacts
  <2> QED
    BY <1>1, <2>2, <2>3, <2>4
<1>4. RpcTypeOK'
  <2>1. RpcTypeOK
    BY DEF HInv
  <2> QED
    BY SMTT(30), <1>1, <1>3, <2>1 DEF RpcTypeOK, Aside
<1>5. Opened'
  BY <1>1 DEF HInv, Opened, Aside
<1> QED
  BY <1>1, <1>2, <1>4, <1>5, AsideInv

\* One request of the handshake.
LEMMA HandshakeInv ==
    ASSUME HInv, NEW from, NEW to, NEW ok \in BOOLEAN, Handshake(from, to, ok),
           to \in {"initialized", "listed", "threaded", "opened"}, from # "open",
           launch' = launch \/ launch' = {Known(turns)}
    PROVE  HInv'
<1>1. /\ Aside /\ UNCHANGED <<updates, rt, registered, killing, reaped, cost>>
      /\ phase # "open" /\ phase' \in {to, "failed"}
  BY DEF Handshake, Aside, external, routing
<1>2. launch' \subseteq {{}, {1}} /\ Cardinality(launch') <= 1 /\ \A b \in launch' : b \subseteq Known(turns)
  <2>1. CASE launch' = launch
    BY <2>1 DEF HInv, RpcTypeOK, Opened
  <2>2. CASE launch' = {Known(turns)}
    <3>1. Known(turns) \subseteq {1}
      BY <1>1 DEF HInv, Opened, Known
    <3>2. Cardinality({Known(turns)}) = 1
      BY FS_Singleton
    <3> QED
      BY <2>2, <3>1, <3>2
  <2> QED
    BY <2>1, <2>2
<1>3. RpcTypeOK'
  <2>1. RpcTypeOK
    BY DEF HInv
  <2> QED
    BY <1>1, <1>2, <2>1 DEF RpcTypeOK, Aside
<1>4. Opened'
  BY <1>1, <1>2 DEF HInv, Opened, Aside
<1>5. updates' \in Seq(Messages)
  BY <1>1 DEF HInv, Lines
<1> QED
  BY <1>1, <1>3, <1>4, <1>5, AsideInv

\* All of them.
LEMMA OpeningInv ==
    ASSUME HInv, NEW ok \in BOOLEAN,
           initialize(ok) \/ session_new(ok) \/ model_catalog(ok) \/ thread_start(ok) \/ admit(ok)
    PROVE  HInv'
<1>1. CASE initialize(ok)
  BY <1>1, HandshakeInv DEF initialize
<1>2. CASE session_new(ok)
  BY <1>2, HandshakeInv DEF session_new
<1>3. CASE model_catalog(ok)
  BY <1>3, HandshakeInv DEF model_catalog
<1>4. CASE thread_start(ok)
  BY <1>4, HandshakeInv DEF thread_start
<1>5. CASE admit(ok)
  BY <1>5, HandshakeInv DEF admit
<1> QED
  BY <1>1, <1>2, <1>3, <1>4, <1>5

\* The registry entry, the phase and the kill; the child and its lines are left alone.
LEMMA RegistryInv ==
    ASSUME HInv, Reap \/ OpenExits \/ register_child \/ kill \/ KillReturns
    PROVE  HInv'
<1>1. Aside /\ UNCHANGED <<updates, rt, launch>>
  BY DEF Reap, OpenExits, register_child, kill, KillReturns, Aside, external, routing
<1>2. /\ phase' \in {"spawned", "initialized", "listed", "threaded", "opened", "open", "failed"}
      /\ registered' \in BOOLEAN /\ killing' \in BOOLEAN /\ reaped' \in BOOLEAN /\ cost' \in Costs
      /\ phase' = "open" \/ phase # "open"
      /\ phase' = "open" /\ proc = "running" => registered'
  <2>1. /\ phase \in {"spawned", "initialized", "listed", "threaded", "opened", "open", "failed"}
        /\ registered \in BOOLEAN /\ killing \in BOOLEAN /\ reaped \in BOOLEAN /\ cost \in Costs
        /\ phase = "open" /\ proc = "running" => registered
    BY Marks DEF HInv, RpcTypeOK, Opened
  <2>2. CASE Reap
    BY <2>1, <2>2 DEF Reap
  <2>3. CASE OpenExits
    BY <2>1, <2>3 DEF OpenExits, Opening
  <2>4. CASE register_child
    BY <2>1, <2>4 DEF register_child
  <2>5. CASE kill
    BY <2>1, <2>5, PayType DEF kill
  <2>6. CASE KillReturns
    <3>1. registered' = IF proc = "gone" THEN FALSE ELSE registered
      BY <2>6 DEF KillReturns, remove_after_exit_confirmation
    <3> QED
      BY <2>1, <2>6, <3>1 DEF KillReturns
  <2> QED
    BY <2>2, <2>3, <2>4, <2>5, <2>6
<1>3. RpcTypeOK'
  <2>1. RpcTypeOK
    BY DEF HInv
  <2> QED
    BY <1>1, <1>2, <2>1 DEF RpcTypeOK, Aside, Costs
<1>4. Opened'
  BY <1>1, <1>2 DEF HInv, Opened, Aside
<1>5. updates' \in Seq(Messages)
  BY <1>1 DEF HInv, Lines
<1> QED
  BY <1>1, <1>3, <1>4, <1>5, AsideInv

\* Every step keeps the invariant.
LEMMA HarnessStep ==
    ASSUME HInv, [RpcNext]_rpcVars
    PROVE  HInv'
<1>1. CASE UNCHANGED rpcVars
  <2>1. Aside /\ UNCHANGED <<updates, rt, launch, phase, registered, killing, reaped, cost>>
    BY <1>1 DEF rpcVars, Aside
  <2>2. RpcTypeOK' /\ Opened'
    BY <2>1 DEF HInv, RpcTypeOK, Opened, Aside
  <2>3. updates' \in Seq(Messages)
    BY <2>1 DEF HInv, Lines
  <2> QED
    BY <2>1, <2>2, <2>3, AsideInv
<1>2. CASE RpcNext
  BY <1>2, TakesInv, FinishInv, GoneInv, DispatchInv, EofHInv, DrainsHInv, DrainUpdatesInv,
     OpeningInv,
     RegistryInv, DeliverInv, DeliveryInv DEF RpcNext
<1> QED
  BY <1>1, <1>2

\* It holds at first.
LEMMA HarnessInit ==
    ASSUME RpcInit
    PROVE  HInv
<1>1. PICK h \in History : turns = [t \in Turns |-> IF t <= h THEN "completed" ELSE "none"]
  BY DEF RpcInit
<1>2. h \in {0, 1} /\ MaxTurns \in Nat /\ MaxIds \in Nat /\ MaxDeliveries \in Nat
      /\ MaxLosses \in Nat /\ MaxTimeouts \in Nat /\ MaxKills \in Nat
      /\ dialect \in {"acp", "app-server"}
  BY RpcAssumption DEF RpcInit
<1>3. /\ turns \in [Turns -> TurnStates] /\ owner \in [Turns -> Deliveries \cup {0}]
      /\ \A t \in Turns : owner[t] = 0
      /\ \A t \in Turns : turns[t] # "running" /\ (turns[t] # "none" => t = 1)
  BY <1>1, <1>2 DEF RpcInit, TurnStates, Turns
<1>4. /\ del \in [Deliveries -> DelRecords]
      /\ \A d \in Deliveries : del[d].pc = "new" /\ del[d].id = 0 /\ del[d].read = 0
                               /\ del[d].result = "none" /\ del[d].base = {}
  <2>1. NoDel \in DelRecords /\ NoDel.pc = "new" /\ NoDel.id = 0 /\ NoDel.read = 0
        /\ NoDel.result = "none" /\ NoDel.base = {}
    BY <1>2 DEF NoDel, DelRecords, Results
  <2> QED
    BY <2>1 DEF RpcInit
<1>5. 0 \notin Deliveries
  BY <1>2 DEF Deliveries
<1>6. /\ DOMAIN inq = {} /\ DOMAIN outq = {} /\ DOMAIN signals = {}
      /\ inq \in Seq(Requests) /\ outq \in Seq(Messages)
      /\ updates \in Seq(Messages) /\ signals \in Seq(Turns)
  BY EmptyLine DEF RpcInit
<1>7. RpcTypeOK
  <2>1. Cardinality({}) = 0
    BY FS_EmptySet
  <2>2. cost \in Costs
    BY <1>2 DEF RpcInit, Costs
  <2>3. rt \in [active : BOOLEAN, id : 0..MaxTurns]
    BY <1>2 DEF RpcInit
  <2>4. launch \subseteq {{}, {1}} /\ Cardinality(launch) <= 1
    BY <2>1 DEF RpcInit
  <2> QED
    BY <1>2, <1>3, <1>4, <2>2, <2>3, <2>4 DEF RpcInit, RpcTypeOK, Costs, DelRecords
<1>8. Lines
  BY <1>6 DEF RpcInit, Lines
<1>9. Opened
  BY <1>3, <1>4 DEF RpcInit, Opened
<1>10. Acp
  BY <1>4, <1>6 DEF RpcInit, Acp
<1>11. AppInv
  <2>1. \A d \in Deliveries : LiveIds(d) = {}
    BY <1>4 DEF LiveIds
  <2>2. Waits
    BY <1>4, <1>6, <2>1 DEF RpcInit, Waits
  <2>3. WireIds
    BY <1>6 DEF WireIds
  <2>4. Answers /\ Observer
    BY <1>4, <1>5 DEF RpcInit, Answers, Observer
  <2>5. Owned
    BY <1>3, <1>4, <1>5 DEF Owned
  <2>6. Starts /\ Told /\ Notices
    BY <1>6 DEF RpcInit, Starts, Told, Notices
  <2> QED
    BY <2>2, <2>3, <2>4, <2>5, <2>6 DEF AppInv
<1> QED
  BY <1>7, <1>8, <1>9, <1>10, <1>11 DEF HInv

\* One observer, and a turn has one owner: two turns that run are the same turn.
LEMMA HarnessMeans ==
    ASSUME HInv
    PROVE  HarnessSafe
<1>1. NoConcurrentTurns
  <2> SUFFICES ASSUME App
               PROVE  Cardinality({t \in Turns : turns[t] = "running"}) <= 1
    BY DEF NoConcurrentTurns, App
  <2> DEFINE running == {t \in Turns : turns[t] = "running"}
  <2>1. \A t, u \in running : t = u
    BY AppFacts DEF Owned, Opened
  <2> HIDE DEF running
  <2>2. CASE running = {}
    <3>1. Cardinality({}) = 0
      BY FS_EmptySet
    <3> QED
      BY <2>2, <3>1 DEF running
  <2>3. CASE running # {}
    <3>1. PICK t \in running : TRUE
      BY <2>3
    <3>2. running = {t}
      BY <2>1, <3>1
    <3>3. Cardinality({t}) = 1
      BY FS_Singleton
    <3> QED
      BY <3>2, <3>3 DEF running
  <2> QED
    BY <2>2, <2>3
<1>2. OutcomeHonest
  BY AppFacts DEF OutcomeHonest, App, Owned, Final
<1>3. RunningIsRegistered
  BY DEF HInv, Opened, RunningIsRegistered
<1> QED
  BY <1>1, <1>2, <1>3 DEF HInv, HarnessSafe

\* Whatever the child does, an app-server thread runs one turn at a time
\* (app_server/turn_protocol.rs:175), a delivery whose request started a turn reports
\* how that turn ended and never that it was refused before it started
\* (session_transport.rs:175), and in both dialects the registry has every child that
\* runs (acp/registry.rs), however responses, notices, reads, steers, time-outs, kills
\* and the exit are lost or overlap.
THEOREM HarnessSafeCorrect == RpcSpec => []HarnessSafe
<1>1. RpcInit => HInv
  BY HarnessInit
<1>2. HInv /\ [RpcNext]_rpcVars => HInv'
  BY HarnessStep
<1>3. HInv => HarnessSafe
  BY HarnessMeans
<1> QED
  BY <1>1, <1>2, <1>3, PTL DEF RpcSpec
=============================================================================
