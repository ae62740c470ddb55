--------------------------- MODULE PtyOwnership ---------------------------
(***************************************************************************)
(* The processes of one PTY endpoint: the launcher that starts a           *)
(* supervisor and rolls a failed start back (pty/launch.rs), the           *)
(* supervisor's own start (pty/supervisor.rs), and the explicit            *)
(* termination by process id (pty/meta.rs).  The operating system is the   *)
(* table of process ids: an id is free once its process is reaped, and     *)
(* then any other program may get it.                                      *)
(***************************************************************************)
EXTENDS Naturals, FiniteSets

CONSTANTS
    Pids,        \* process ids
    MaxOthers,   \* unrelated processes that start
    OMaxFaults   \* failed writes, crashes and slow starts

ASSUME OwnershipBounds == Pids \subseteq Nat /\ MaxOthers \in Nat /\ OMaxFaults \in Nat

VARIABLES
    table,     \* what runs under each id, and how
    file,      \* the launch metadata: none, half written or whole, with the child if known
    launcher,  \* spawn_session: its step, the supervisor's id, the child it found
    super,     \* how far the supervisor's start got
    killer,    \* terminate_owned_supervisor: its step, the child, its answer
    struck,    \* signals that reached a process of somebody else
    swapped,   \* an id was given away while the termination was under way
    crashed,   \* the supervisor died of something else
    others, ofaults

ptyVars == <<table, file, launcher, super, killer, struck, swapped, crashed, others, ofaults>>

NoFile == [st |-> "none", child |-> {}]
FreePid == [who |-> "free", st |-> "run"]
OFault == ofaults < OMaxFaults /\ ofaults' = ofaults + 1

Is(p, who) == table[p].who = who
\* process_running: a zombie does not count.
process_running(p) == ~Is(p, "free") /\ table[p].st # "zombie"
Free == {p \in Pids : Is(p, "free")}
Live(who) == {p \in Pids : Is(p, who) /\ process_running(p)}
Sup == launcher.sup

\* A dead child is its parent's to reap; without a parent it goes at once.
Reaped(t) ==
    IF \E p \in Pids : t[p].who = "sup" /\ t[p].st # "zombie" THEN t
    ELSE [p \in Pids |-> IF t[p].who = "child" /\ t[p].st = "zombie" THEN FreePid ELSE t[p]]

Dies(p) == Reaped([table EXCEPT ![p].st = "zombie"])

---------------------------------------------------------------------------
(* The launcher.                                                           *)

spawn_session_with_executable ==
    \E p \in Free :
        /\ launcher.pc = "idle"
        /\ table' = [table EXCEPT ![p] = [who |-> "sup", st |-> "run"]]
        /\ launcher' = [launcher EXCEPT !.pc = "write", !.sup = {p}]
        /\ super' = "boot"
        /\ UNCHANGED <<file, killer, struck, swapped, crashed, others, ofaults>>

\* write_metadata truncates the file, then fills it; or it fails.
write_metadata(ok) ==
    /\ launcher.pc \in {"write", "fill"}
    /\ IF ok THEN UNCHANGED ofaults ELSE OFault
    /\ file' = IF ok /\ launcher.pc = "fill" THEN [st |-> "whole", child |-> {}]
               ELSE [st |-> "torn", child |-> {}]
    /\ launcher' = [launcher EXCEPT !.pc = IF ~ok THEN "roll"
                                           ELSE IF @ = "write" THEN "fill" ELSE "wait"]
    /\ UNCHANGED <<table, super, killer, struck, swapped, crashed, others>>

\* wait_until_ready: ready, gone, or out of time.
wait_until_ready ==
    /\ launcher.pc = "wait"
    /\ \/ super = "ready" /\ launcher' = [launcher EXCEPT !.pc = "ok"] /\ UNCHANGED ofaults
       \/ Live("sup") = {} /\ launcher' = [launcher EXCEPT !.pc = "roll"] /\ UNCHANGED ofaults
       \/ OFault /\ launcher' = [launcher EXCEPT !.pc = "roll"]
    /\ UNCHANGED <<table, file, super, killer, struck, swapped, crashed, others>>

\* Mutant: the supervisor runs on while the rollback looks for its child.
StopNothing == UNCHANGED table

\* SIGSTOP, so that no child appears after the inspection.
StopSupervisor == table' = [p \in Pids |-> IF p \in Sup THEN [table[p] EXCEPT !.st = "stopped"]
                                           ELSE table[p]]

\* rollback_spawned_supervisor.  The launcher has not reaped the supervisor, so its
\* id is its own throughout.
rollback_spawned_supervisor ==
    /\ launcher.pc = "roll"
    /\ IF Live("sup") = {} THEN launcher' = [launcher EXCEPT !.pc = "reap"] /\ UNCHANGED table
                           ELSE launcher' = [launcher EXCEPT !.pc = "discover"] /\ StopSupervisor
    /\ UNCHANGED <<file, super, killer, struck, swapped, crashed, others, ofaults>>

\* discover_owned_child and verify_owned_child.
discover_owned_child ==
    /\ launcher.pc = "discover"
    /\ launcher' = [launcher EXCEPT !.pc = "child", !.child = Live("child")]
    /\ UNCHANGED <<table, file, super, killer, struck, swapped, crashed, others, ofaults>>

RollbackChild ==
    /\ launcher.pc = "child"
    /\ table' = Reaped([p \in Pids |-> IF p \in launcher.child /\ Is(p, "child")
                                       THEN [table[p] EXCEPT !.st = "zombie"] ELSE table[p]])
    /\ launcher' = [launcher EXCEPT !.pc = "kill"]
    /\ UNCHANGED <<file, super, killer, struck, swapped, crashed, others, ofaults>>

RollbackSupervisor ==
    /\ launcher.pc = "kill"
    /\ \E p \in Sup : table' = Dies(p)
    /\ super' = "dead"
    /\ launcher' = [launcher EXCEPT !.pc = "reap"]
    /\ UNCHANGED <<file, killer, struck, swapped, crashed, others, ofaults>>

\* supervisor.wait, then the socket and the metadata of the failed launch go.
cleanup_failed_launch ==
    /\ launcher.pc = "reap"
    /\ table' = [p \in Pids |-> IF p \in Sup THEN FreePid ELSE table[p]]
    /\ file' = NoFile
    /\ launcher' = [launcher EXCEPT !.pc = "failed"]
    /\ UNCHANGED <<super, killer, struck, swapped, crashed, others, ofaults>>

\* After a good start a thread of the launcher waits for the supervisor.
ReapSupervisor ==
    /\ launcher.pc = "ok" /\ \E p \in Sup : Is(p, "sup") /\ table[p].st = "zombie"
    /\ table' = [p \in Pids |-> IF p \in Sup THEN FreePid ELSE table[p]]
    /\ UNCHANGED <<file, launcher, super, killer, struck, swapped, crashed, others, ofaults>>

---------------------------------------------------------------------------
(* The supervisor, while it is neither stopped nor dead.                   *)

SupRuns == \E p \in Sup : Is(p, "sup") /\ table[p].st = "run"

SpawnChild ==
    \E p \in Free :
        /\ SupRuns /\ super = "boot" /\ super' = "spawned"
        /\ table' = [table EXCEPT ![p] = [who |-> "child", st |-> "run"]]
        /\ UNCHANGED <<file, launcher, killer, struck, swapped, crashed, others, ofaults>>

\* record_child_pid, then the socket: a file that is half written or never appears is
\* only logged, and the child stays unrecorded.
record_child_pid ==
    /\ SupRuns /\ super = "spawned" /\ super' = "ready"
    /\ \/ file.st = "whole" /\ file' = [file EXCEPT !.child = {p \in Pids : Is(p, "child")}]
       \/ file.st # "whole" /\ UNCHANGED file
    /\ UNCHANGED <<table, launcher, killer, struck, swapped, crashed, others, ofaults>>

\* child.try_wait: the child's id is free from here on.
ReapChild ==
    /\ SupRuns /\ super = "ready" /\ Live("child") = {} /\ super' = "reaped"
    /\ table' = [p \in Pids |-> IF Is(p, "child") THEN FreePid ELSE table[p]]
    /\ UNCHANGED <<file, launcher, killer, struck, swapped, crashed, others, ofaults>>

\* Then the supervisor removes its socket and metadata and exits.
run_supervisor ==
    /\ SupRuns /\ super = "reaped" /\ super' = "dead" /\ file' = NoFile
    /\ \E p \in Sup : table' = Dies(p)
    /\ UNCHANGED <<launcher, killer, struck, swapped, crashed, others, ofaults>>

ChildDies ==
    /\ \E p \in Live("child") : table' = Dies(p)
    /\ UNCHANGED <<file, launcher, super, killer, struck, swapped, crashed, others, ofaults>>

\* The supervisor dies of something else; its metadata stays.
SupervisorCrashes ==
    /\ OFault /\ crashed' = TRUE /\ super' = "dead"
    /\ \E p \in Live("sup") : table' = Dies(p)
    /\ UNCHANGED <<file, launcher, killer, struck, swapped, others>>

\* An unrelated program gets a free id.
OtherStarts ==
    /\ others < MaxOthers /\ others' = others + 1
    /\ \E p \in Free : table' = [table EXCEPT ![p] = [who |-> "other", st |-> "run"]]
    /\ swapped' = (swapped \/ killer.pc \notin {"idle", "verify", "done"})
    /\ UNCHANGED <<file, launcher, super, killer, struck, crashed, ofaults>>

---------------------------------------------------------------------------
(* terminate_owned_supervisor, by process id.                              *)

PtyAnswer(k) == [killer EXCEPT !.pc = "done", !.result = k]
Strike(p, sig) == struck' = IF Is(p, "other") THEN struck \cup {sig} ELSE struck

\* read_all_metadata skips a file it cannot parse.
read_all_metadata ==
    /\ killer.pc = "idle" /\ launcher.pc = "ok"
    /\ killer' = IF file.st = "whole" THEN [killer EXCEPT !.pc = "verify", !.child = file.child]
                 ELSE PtyAnswer("missing")
    /\ UNCHANGED <<table, file, launcher, super, struck, swapped, crashed, others, ofaults>>

\* command_owns_endpoint: the command line names this endpoint and instance.
command_owns_endpoint(p) == Is(p, "sup")

verify_owned_process ==
    /\ killer.pc = "verify"
    /\ \E p \in Sup :
         \/ /\ ~process_running(p) /\ file' = NoFile /\ killer' = PtyAnswer("terminated")
         \/ /\ process_running(p) /\ command_owns_endpoint(p)
            /\ killer' = [killer EXCEPT !.pc = "child"] /\ UNCHANGED file
         \/ /\ process_running(p) /\ ~command_owns_endpoint(p)
            /\ killer' = PtyAnswer("refused") /\ UNCHANGED file
    /\ UNCHANGED <<table, launcher, super, struck, swapped, crashed, others, ofaults>>

\* The parent of the child is the verified supervisor.
OwnedChild(c) == c # {} /\ c \subseteq Live("child") /\ Live("sup") # {}

\* The recorded child, or else the supervisor's only one; an unknown one is a refusal.
verify_owned_child ==
    /\ killer.pc = "child"
    /\ LET c == IF killer.child # {} THEN killer.child ELSE Live("child")
       IN killer' = IF OwnedChild(c) THEN [killer EXCEPT !.pc = "hup", !.child = c]
                    ELSE PtyAnswer("refused")
    /\ UNCHANGED <<table, file, launcher, super, struck, swapped, crashed, others, ofaults>>

\* terminate_owned_child: SIGHUP, which the child may ignore; no process is an error.
HangUp ==
    \E c \in killer.child :
        /\ killer.pc = "hup"
        /\ killer' = IF Is(c, "free") THEN PtyAnswer("refused") ELSE [killer EXCEPT !.pc = "waitchild"]
        /\ Strike(c, "HUP")
        /\ \/ Is(c, "child") /\ table' = Dies(c)
           \/ UNCHANGED table
        /\ UNCHANGED <<file, launcher, super, swapped, crashed, others, ofaults>>

\* Whatever still runs under the id after the wait gets SIGKILL.
KillChild ==
    \E c \in killer.child :
        /\ killer.pc = "waitchild" /\ killer' = [killer EXCEPT !.pc = "term"]
        /\ IF process_running(c) THEN Strike(c, "KILL") /\ table' = Dies(c)
                                 ELSE UNCHANGED <<struck, table>>
        /\ UNCHANGED <<file, launcher, super, swapped, crashed, others, ofaults>>

\* SIGTERM to the supervisor's id, unless nothing runs under it.
TermSupervisor ==
    \E p \in Sup :
        /\ killer.pc = "term"
        /\ IF process_running(p)
           THEN /\ killer' = [killer EXCEPT !.pc = "waitsup"] /\ Strike(p, "TERM")
                /\ \/ table' = Dies(p) /\ super' = (IF Is(p, "sup") THEN "dead" ELSE super)
                   \/ UNCHANGED <<table, super>>
                /\ UNCHANGED file
           ELSE /\ killer' = PtyAnswer("terminated") /\ file' = NoFile
                /\ UNCHANGED <<table, super, struck>>
        /\ UNCHANGED <<launcher, swapped, crashed, others, ofaults>>

\* A supervisor that outlived SIGTERM is verified again and killed.
KillSupervisor ==
    \E p \in Sup :
        /\ killer.pc = "waitsup"
        /\ IF process_running(p) /\ ~command_owns_endpoint(p)
           THEN killer' = PtyAnswer("refused") /\ UNCHANGED <<table, file, super>>
           ELSE /\ killer' = PtyAnswer("terminated") /\ file' = NoFile
                /\ IF process_running(p) THEN table' = Dies(p) /\ super' = "dead"
                                         ELSE UNCHANGED <<table, super>>
        /\ UNCHANGED <<launcher, struck, swapped, crashed, others, ofaults>>

---------------------------------------------------------------------------

PtyInit ==
    /\ table = [p \in Pids |-> FreePid] /\ file = NoFile /\ super = "none"
    /\ launcher = [pc |-> "idle", sup |-> {}, child |-> {}]
    /\ killer = [pc |-> "idle", child |-> {}, result |-> "none"]
    /\ struck = {} /\ swapped = FALSE /\ crashed = FALSE /\ others = 0 /\ ofaults = 0

PtyNext ==
    \/ spawn_session_with_executable
    \/ \E ok \in BOOLEAN : write_metadata(ok)
    \/ wait_until_ready
    \/ rollback_spawned_supervisor
    \/ discover_owned_child
    \/ RollbackChild
    \/ RollbackSupervisor
    \/ cleanup_failed_launch
    \/ ReapSupervisor
    \/ SpawnChild
    \/ record_child_pid
    \/ ReapChild
    \/ run_supervisor
    \/ ChildDies
    \/ SupervisorCrashes
    \/ OtherStarts
    \/ read_all_metadata
    \/ verify_owned_process
    \/ verify_owned_child
    \/ HangUp
    \/ KillChild
    \/ TermSupervisor
    \/ KillSupervisor

PtySpec == PtyInit /\ [][PtyNext]_ptyVars

---------------------------------------------------------------------------

\* Type correctness, with one live supervisor and one live child at most, and a child
\* recorded only in metadata that can be read.
PtyTypeOK ==
    /\ table \in [Pids -> [who : {"free", "sup", "child", "other"}, st : {"run", "stopped", "zombie"}]]
    /\ file \in [st : {"none", "torn", "whole"}, child : SUBSET Pids]
    /\ file.child # {} => file.st = "whole"
    /\ Cardinality(Live("sup")) <= 1 /\ Cardinality(Live("child")) <= 1
    /\ killer.result \in {"none", "missing", "refused", "terminated"}
    /\ others \in 0..MaxOthers /\ ofaults \in 0..OMaxFaults

\* A launch that reports failure leaves nothing behind: no supervisor, no child that
\* appeared while it was being rolled back, no metadata (launch.rs:103-114).  A child
\* whose supervisor died under it by itself is the exception.
FailedLaunchLeavesNothing ==
    launcher.pc = "failed" => Live("sup") = {} /\ file = NoFile /\ (Live("child") = {} \/ crashed)

\* Stale metadata alone never directs a signal at somebody else's process: that takes
\* an id given away after the ownership check (meta.rs:146-148).
SparedUnlessRecycled == struck # {} => swapped

\* A termination that answers Ok(true) has ended both processes, unless the supervisor
\* had already died and left its child (meta.rs:157-160).
TerminatedIsGone ==
    killer.result = "terminated" /\ ~crashed => Live("sup") = {} /\ Live("child") = {}

\* What a launch and a termination promise of the processes they answer for.
PtySafe == PtyTypeOK /\ FailedLaunchLeavesNothing /\ SparedUnlessRecycled /\ TerminatedIsGone

\* What the comment on terminate_owned_supervisor says: the identity check keeps a
\* recycled process id from becoming the kill of an unrelated process (meta.rs:146-148).
StrangersSpared == "KILL" \notin struck
===========================================================================
