-------------------------- MODULE SessionLifecycle --------------------------
(***************************************************************************)
(* The managed runtime of one pubkey: its durable row, the detached PTY    *)
(* supervisor of each generation, and the daemon tasks that keep the two   *)
(* in agreement.  Everything here happens per pubkey (every statement of   *)
(* src/state/session_lifecycle.rs is WHERE pubkey=?1), so one pubkey is    *)
(* the whole system as far as these properties go.                         *)
(*                                                                         *)
(* A step is what one holder of one lock does: one store call, one request *)
(* served by a supervisor, one change of a supervisor's client set.        *)
(* Between two steps of a task every other task may run; a crash of the    *)
(* daemon loses the tasks and keeps the row, the supervisors and the exit  *)
(* reports on disk.                                                        *)
(***************************************************************************)
EXTENDS SessionRow, FiniteSets

CONSTANTS
  MaxGen,       \* bound: runtime generations (launches)
  MaxEpoch,     \* bound: attach/detach transitions of one supervisor
  MaxClients,   \* bound: clients attached at once
  MaxTime,      \* bound: the clock
  MaxLe,        \* bound: lifecycle edges after which no eviction is reserved
  MaxCrashes,   \* bound: daemon crashes
  MaxOps,       \* bound: operator kill / forget requests
  MaxMail,      \* bound: mentions enqueued
  MaxTurns,     \* bound: turns started
  Successes     \* bound: whether a child exits with status zero, or both ways

ASSUME BoundsAssumption ==
  /\ MaxGen \in Nat \ {0} /\ MaxEpoch \in Nat /\ MaxClients \in Nat
  /\ MaxTime \in Nat \ {0} /\ MaxLe \in Nat /\ MaxCrashes \in Nat
  /\ MaxOps \in Nat /\ MaxMail \in Nat /\ MaxTurns \in Nat /\ Successes \subseteq BOOLEAN

Gens == 1 .. MaxGen

VARIABLES
  now,      \* wall clock, seconds
  row,      \* the sessions row
  loc,      \* runtime_generation of the PTY locator row, 0 when there is none
  bound,    \* per generation: the PTY registered for it (locator value, child_pid)
  inbox,    \* state of the pubkey's one outstanding inbox row
  pty,      \* supervisor of each generation
  report,   \* exit reports on disk, by pty
  notices,  \* pty_presentation_changed calls in flight
  calls,    \* pty_supervisor_exit calls in flight, by pty
  worker,   \* the tick loop, the boot task and the exit handler
  pres,     \* the pty_presentation_changed handler
  op,       \* the operator's kill / forget handler
  launch,   \* the launch in progress
  engine,   \* per-session engine task of each generation
  adopted,  \* startup_sessions: the row as the current daemon found it
  crashes, ops, mail

daemon == <<worker, pres, op, launch, engine, adopted>>
supervisor == <<pty, report, notices, calls>>
vars == <<now, row, loc, bound, inbox, supervisor, daemon, crashes, ops, mail>>

-----------------------------------------------------------------------------
(* The shapes of the state.                                                *)

\* What a supervisor reports of its client set: PresentationSnapshot.
Snapshot == [ep: Nat, headed: BOOLEAN, at: Nat]
NoSnapshot == [ep |-> 0, headed |-> FALSE, at |-> 0]

\* What the exit report says: child_success and attached_clients > 0.
ExitStatus == {"none", "clean_headed", "clean_headless", "failed"}

\* "exiting": the child is gone, the exit report is not yet on disk;
\* "reported": it is, and the supervisor waits for its call to the daemon.
Pty == [st: {"none", "live", "exiting", "reported", "dead"}, clients: Nat, ep: Nat,
        at: Nat, exit: ExitStatus]
NoPty == [st |-> "none", clients |-> 0, ep |-> 0, at |-> 0, exit |-> "none"]

Workers == {"tick", "boot", "exit"}
WorkerPc == {"idle", "replay", "probe", "probed", "stopping", "evict",
             "asked", "finished", "revive", "lookup", "settle", "clear",
             "remove"}
Outcome == {"none", "ok", "changed", "killed", "error", "gone"}
Worker == [pc: WorkerPc, s: Held, out: Outcome, obs: Snapshot, g: Nat]
Idle == [pc |-> "idle", s |-> Hold(NoSession), out |-> "none", obs |-> NoSnapshot,
         g |-> 0]

NoPres == [pc |-> "idle", s |-> Hold(NoSession), obs |-> NoSnapshot]
NoOp == [pc |-> "idle", kind |-> "kill", s |-> Hold(NoSession)]
NoLaunch == [pc |-> "idle", g |-> 0]

Busy == inbox \in {"pending", "injected"}

\* snapshot_locked
SnapshotOf(p) == [ep |-> p.ep, headed |-> p.clients > 0, at |-> p.at]

\* The runtime locator of exactly generation g is registered.
Located(g) == g # 0 /\ loc = g

\* session_for_runtime_locator: the row whose current generation the locator
\* of PTY p names.
SessionForPty(p) == Located(row.gen) /\ bound[loc] = p

\* pid_alive(child_pid): the pid tracked for a PTY session is the supervisor's.
PidAlive(g) ==
  /\ g \in Gens /\ bound[g] # 0
  /\ pty[bound[g]].st \in {"live", "exiting", "reported"}

Init ==
  /\ now = 1 /\ row = NoSession /\ loc = 0 /\ bound = [g \in Gens |-> 0] /\ inbox = "none"
  /\ pty = [g \in Gens |-> NoPty]
  /\ report = {} /\ notices = {} /\ calls = {}
  /\ worker = [a \in Workers |-> IF a = "tick" THEN [Idle EXCEPT !.pc = "replay"]
                                               ELSE Idle]
  /\ pres = NoPres /\ op = NoOp /\ launch = NoLaunch
  /\ engine = [g \in Gens |-> "none"] /\ adopted = Hold(NoSession)
  /\ crashes = 0 /\ ops = 0 /\ mail = 0

Tick ==
  /\ now < MaxTime
  /\ now' = now + 1
  /\ UNCHANGED <<row, loc, bound, inbox, supervisor, daemon, crashes, ops, mail>>

-----------------------------------------------------------------------------
(* The PTY supervisor (pty/supervisor.rs).  Its client set, epoch and the  *)
(* conditional kill live under one mutex.                                  *)

\* attach_client; the notification thread may be late, reordered or lost.
Attach(g) ==
  /\ pty[g].st = "live" /\ pty[g].clients < MaxClients /\ pty[g].ep < MaxEpoch
  /\ LET p == [pty[g] EXCEPT !.clients = @ + 1, !.ep = @ + 1, !.at = now]
     IN /\ pty' = [pty EXCEPT ![g] = p]
        /\ notices' = notices \cup {<<g, SnapshotOf(p)>>}
  /\ UNCHANGED <<now, row, loc, bound, inbox, report, calls, daemon, crashes, ops, mail>>

DetachOf(g, k, p) ==
  /\ pty[g].st = "live" /\ pty[g].ep + k <= MaxEpoch
  /\ pty' = [pty EXCEPT ![g] = p]
  /\ notices' = notices \cup {<<g, SnapshotOf(p)>>}
  /\ UNCHANGED <<now, row, loc, bound, inbox, report, calls, daemon, crashes, ops, mail>>

\* Mutant: the reader thread and fanout both count the same client out.
DetachCountedTwice(g) ==
  \E k \in 1 .. pty[g].clients :
    DetachOf(g, k, [pty[g] EXCEPT !.clients = @ - k - 1, !.ep = @ + k, !.at = now])

\* Mutant: losing a client is not an attachment transition.
DetachSameEpoch(g) ==
  \E k \in 1 .. pty[g].clients :
    DetachOf(g, k, [pty[g] EXCEPT !.clients = @ - k, !.at = now])

\* Mutant: changed_at keeps the time of the attach.
DetachKeepingTime(g) ==
  \E k \in 1 .. pty[g].clients :
    DetachOf(g, k, [pty[g] EXCEPT !.clients = @ - k, !.ep = @ + k])

\* Reader thread EOF, or fanout dropping the k clients it cannot write to.
Detach(g) ==
  \E k \in 1 .. pty[g].clients :
    DetachOf(g, k, [pty[g] EXCEPT !.clients = @ - k, !.ep = @ + k, !.at = now])

\* The child is gone and record_child_exit has its status and presentation.
ChildGone(p, ok) ==
  [p EXCEPT !.st = "exiting", !.clients = 0,
            !.exit = IF ~ok THEN "failed" ELSE
                     IF p.clients > 0 THEN "clean_headed" ELSE "clean_headless"]

\* The child exits on its own.
ChildExits(g) ==
  /\ pty[g].st = "live"
  /\ \E ok \in Successes : pty' = [pty EXCEPT ![g] = ChildGone(@, ok)]
  /\ UNCHANGED <<now, row, loc, bound, inbox, report, notices, calls, daemon, crashes, ops, mail>>

\* SessionExitGuard::drop: persist the report, then call the daemon and wait
\* for the answer before the process ends.
SupervisorReports(g) ==
  /\ pty[g].st = "exiting"
  /\ pty' = [pty EXCEPT ![g].st = "reported"]
  /\ report' = report \cup {g}
  /\ calls' = calls \cup {g}
  /\ UNCHANGED <<now, row, loc, bound, inbox, notices, daemon, crashes, ops, mail>>

Gone(p) == [NoPty EXCEPT !.st = "dead", !.ep = p.ep, !.exit = p.exit]

\* The call was answered, or the daemon could not be reached.
SupervisorEnds(g) ==
  /\ pty[g].st = "reported" /\ worker["exit"].g # g
  /\ pty' = [pty EXCEPT ![g] = Gone(@)]
  /\ calls' = calls \ {g}
  /\ UNCHANGED <<now, row, loc, bound, inbox, report, notices, daemon, crashes, ops, mail>>

\* SIGKILL, or a full disk: no report is left behind.
SupervisorVanishes(g) ==
  /\ pty[g].st \in {"live", "exiting"}
  /\ pty' = [pty EXCEPT ![g] = Gone(@)]
  /\ UNCHANGED <<now, row, loc, bound, inbox, report, notices, calls, daemon, crashes, ops,
                 mail>>

-----------------------------------------------------------------------------
(* Launch: reserve the generation, open the endpoint, register it.         *)

Reserve ==
  /\ launch.pc = "idle" /\ row.gen < MaxGen
  /\ CanReserve(row)
  /\ row' = ReserveGeneration(row)
  /\ launch' = [pc |-> "reserved", g |-> row.gen + 1]
  /\ UNCHANGED <<now, loc, bound, inbox, supervisor, worker, pres, op, engine, adopted, crashes, ops, mail>>

\* The transport could not open the endpoint: admission::release.
OpenFails ==
  /\ launch.pc = "reserved"
  /\ row' = MarkRuntimeStopped(row, launch.g, "unknown")
  /\ launch' = NoLaunch
  /\ UNCHANGED <<now, loc, bound, inbox, supervisor, worker, pres, op, engine, adopted, crashes, ops, mail>>

OpenEndpoint ==
  /\ launch.pc = "reserved"
  /\ pty' = [pty EXCEPT ![launch.g] = [NoPty EXCEPT !.st = "live", !.at = now]]
  /\ launch' = [launch EXCEPT !.pc = "opened"]
  /\ UNCHANGED <<now, row, loc, bound, inbox, report, notices, calls, worker, pres, op,
                 engine, adopted, crashes, ops, mail>>

\* session_start of the endpoint p: the running generation, or a new one when
\* the row has been stopped meanwhile, gets p's pid and locator and an engine.
CanRegister == row.rec # "revoked" /\ (row.rt = "running" \/ row.rt = "stopped")

RegisterEndpoint(p) ==
  LET r == IF row.rt = "running" THEN row ELSE ReserveGeneration(row) IN
  /\ CanRegister /\ r.gen \in Gens
  /\ row' = r
  /\ loc' = r.gen
  /\ bound' = [bound EXCEPT ![r.gen] = p]
  /\ engine' = [engine EXCEPT ![r.gen] = IF @ = "none" THEN "live" ELSE @]

\* bootstrap_hosted_session_start, the last stage of a launch.
Register ==
  /\ launch.pc = "opened"
  /\ RegisterEndpoint(launch.g)
  /\ launch' = NoLaunch
  /\ UNCHANGED <<now, inbox, supervisor, worker, pres, op, adopted, crashes, ops, mail>>

\* The harness's own session_start hook registers the endpoint it runs in.
HookRegister(p) ==
  /\ pty[p].st = "live"
  /\ RegisterEndpoint(p)
  /\ UNCHANGED <<now, inbox, supervisor, worker, pres, op, launch, adopted, crashes,
                 ops, mail>>

\* session_start refuses (the pubkey is taken or revoked) or fails: kill the
\* endpoint, release the generation.
RegisterFails ==
  /\ launch.pc = "opened"
  /\ pty' = IF pty[launch.g].st = "live"
            THEN [pty EXCEPT ![launch.g] = ChildGone(@, FALSE)] ELSE pty
  /\ row' = MarkRuntimeStopped(row, launch.g, "unknown")
  /\ launch' = NoLaunch
  /\ UNCHANGED <<now, loc, bound, inbox, report, notices, calls, worker, pres, op,
                 engine, adopted, crashes, ops, mail>>

-----------------------------------------------------------------------------
(* The engine task: cancelled by whoever stops the generation, or ended by *)
(* the death of the watched pid; its teardown stops a row still running.   *)

Cancelled(g) ==
  IF g \in Gens /\ engine[g] = "live" THEN [engine EXCEPT ![g] = "cancelled"]
                                     ELSE engine

EngineExits(g) ==
  /\ \/ engine[g] = "cancelled"
     \/ engine[g] = "live" /\ ~PidAlive(g)
  /\ engine' = [engine EXCEPT ![g] = "none"]
  /\ row' = MarkRuntimeStopped(row, g, "crash")
  /\ UNCHANGED <<now, loc, bound, inbox, supervisor, worker, pres, op, launch, adopted, crashes, ops, mail>>

-----------------------------------------------------------------------------
(* Turns and work.  A hook or a managed completion names the generation it *)
(* was started for, which may no longer be the current one.                *)

TurnStarted(g) ==
  /\ bound[g] # 0 /\ row.turns < MaxTurns
  /\ row' = ApplyTurnStarted(row, g)
  /\ UNCHANGED <<now, loc, bound, inbox, supervisor, daemon, crashes, ops, mail>>

TurnEnded(g) ==
  /\ bound[g] # 0
  /\ row' = ApplyTurnEnded(row, g, now)
  /\ inbox' = IF TurnEndApplies(row, g) /\ inbox = "injected" THEN "none" ELSE inbox
  /\ UNCHANGED <<now, loc, bound, supervisor, daemon, crashes, ops, mail>>

\* enqueue_inbox of a new mention.
Enqueue ==
  /\ inbox = "none" /\ row.gen > 0 /\ mail < MaxMail
  /\ mail' = mail + 1
  /\ inbox' = "pending"
  /\ row' = CancelDeadlineForWork(row)
  /\ UNCHANGED <<now, loc, bound, supervisor, daemon, crashes, ops>>

\* claim, then injected, surfaced by a hook, or re-enqueued on an error.
Deliver ==
  /\ \/ inbox = "pending" /\ inbox' = "delivered"
     \/ inbox = "delivered" /\ inbox' \in {"injected", "none", "pending"}
  /\ UNCHANGED <<now, row, loc, bound, supervisor, daemon, crashes, ops, mail>>

-----------------------------------------------------------------------------
(* pty_presentation_changed: look the session up, then apply.              *)

PresentationCall(g) ==
  /\ pres.pc = "idle"
  /\ \E n \in notices :
       /\ n[1] = g
       /\ notices' = notices \ {n}
       /\ pres' = IF SessionForPty(g)
                  THEN [pc |-> "apply", s |-> Hold(row), obs |-> n[2]] ELSE NoPres
  /\ UNCHANGED <<now, row, loc, bound, inbox, pty, report, calls, worker, op, launch,
                 engine, adopted, crashes, ops, mail>>

PresentationApply ==
  /\ pres.pc = "apply"
  /\ row' = ApplyObservation(row, pres.s, pres.obs.ep, pres.obs.headed, pres.obs.at)
  /\ pres' = NoPres
  /\ UNCHANGED <<now, loc, bound, inbox, supervisor, worker, op, launch, engine, adopted, crashes, ops, mail>>

-----------------------------------------------------------------------------
(* supervisor_exited, run by the tick loop and the boot task for a report  *)
(* on disk and by the exit handler for a call.                             *)

\* Where a worker goes when a stage is over.
Continue(a, stage) ==
  CASE a = "exit" -> "idle"
    [] a = "tick" -> CASE stage = "replay" -> "probe"
                       [] stage = "probe" -> "stopping"
                       [] stage = "stopping" -> "evict"
                       [] OTHER -> "replay"
    [] a = "boot" -> CASE stage = "replay" -> "stopping"
                       [] stage = "stopping" -> "revive"
                       [] OTHER -> "idle"

To(a, pc) == worker' = [worker EXCEPT ![a] = [Idle EXCEPT !.pc = pc]]

\* rpc_pty_supervisor_exit waits for a RUNNING session with this locator.
ExitCall(g) ==
  /\ g \in calls /\ worker["exit"].pc = "idle"
  /\ calls' = calls \ {g}
  /\ IF SessionForPty(g) /\ row.rt = "running"
     THEN worker' = [worker EXCEPT !["exit"] = [Idle EXCEPT !.pc = "lookup", !.g = g]]
     ELSE UNCHANGED worker
  /\ UNCHANGED <<now, row, loc, bound, inbox, pty, report, notices, pres, op, launch,
                 engine, adopted, crashes, ops, mail>>

\* replay_supervisor_exits picks a report that has a session.
Replay(a, g) ==
  /\ worker[a].pc = "replay" /\ g \in report /\ SessionForPty(g)
  /\ worker' = [worker EXCEPT ![a] = [Idle EXCEPT !.pc = "lookup", !.g = g]]
  /\ UNCHANGED <<now, row, loc, bound, inbox, supervisor, pres, op, launch, engine,
                 adopted, crashes, ops, mail>>

\* Reports without a session are kept for 300 s, then removed.
ReplayDone(a) ==
  /\ worker[a].pc = "replay" /\ \A g \in report : ~SessionForPty(g)
  /\ report' \in {report, {}}
  /\ To(a, Continue(a, "replay"))
  /\ UNCHANGED <<now, row, loc, bound, inbox, pty, notices, calls, pres, op, launch,
                 engine, adopted, crashes, ops, mail>>

ExitLookup(a) ==
  /\ worker[a].pc = "lookup"
  /\ worker' = [worker EXCEPT ![a] =
                  IF SessionForPty(@.g) THEN [@ EXCEPT !.pc = "settle", !.s = Hold(row)]
                                        ELSE [@ EXCEPT !.pc = "remove"]]
  /\ UNCHANGED <<now, row, loc, bound, inbox, supervisor, pres, op, launch, engine,
                 adopted, crashes, ops, mail>>

\* The reason a running session is stopped for when its supervisor exits.
ExitReason(p) ==
  CASE p.exit = "clean_headed" -> "attached_clean_exit"
    [] p.exit = "clean_headless" -> "headless_exit"
    [] OTHER -> "crash"

ExitSettle(a) ==
  LET s == worker[a].s IN
  /\ worker[a].pc = "settle"
  /\ row' = CASE s.rt = "stopping" -> FinalizeRuntimeStopped(row, s.gen, s.le)
              [] s.rt = "running" ->
                   MarkRuntimeStopped(row, s.gen, ExitReason(pty[worker[a].g]))
              [] OTHER -> row
  /\ engine' = IF s.rt = "stopped" THEN engine ELSE Cancelled(s.gen)
  /\ worker' = [worker EXCEPT ![a].pc = "clear"]
  /\ UNCHANGED <<now, loc, bound, inbox, supervisor, pres, op, launch, adopted, crashes, ops, mail>>

\* clear_runtime_locator_if_generation
Cleared(g) == IF loc = g THEN 0 ELSE loc

ExitClear(a) ==
  /\ worker[a].pc = "clear"
  /\ loc' = Cleared(worker[a].s.gen)
  /\ worker' = [worker EXCEPT ![a].pc = "remove"]
  /\ UNCHANGED <<now, row, bound, inbox, supervisor, pres, op, launch, engine, adopted, crashes, ops, mail>>

ExitRemove(a) ==
  /\ worker[a].pc = "remove"
  /\ report' = report \ {worker[a].g}
  /\ To(a, CASE a = "exit" -> "idle"
             [] worker[a].g = 0 -> Continue(a, "stopping")
             [] OTHER -> "replay")
  /\ UNCHANGED <<now, row, loc, bound, inbox, pty, notices, calls, pres, op, launch,
                 engine, adopted, crashes, ops, mail>>

-----------------------------------------------------------------------------
(* presentation::reconcile: probe the supervisor of a running session.     *)

Probe ==
  LET w == worker["tick"] IN
  /\ w.pc = "probe" /\ row.rt = "running" /\ Located(row.gen)
  /\ \/ /\ pty[bound[loc]].st = "live"
        /\ worker' = [worker EXCEPT !["tick"] =
             [@ EXCEPT !.pc = "probed", !.s = Hold(row), !.out = "ok",
                       !.obs = SnapshotOf(pty[bound[loc]])]]
     \/ worker' = [worker EXCEPT !["tick"] =
             [@ EXCEPT !.pc = "probed", !.s = Hold(row),
                       !.out = IF PidAlive(row.gen) THEN "error" ELSE "gone"]]
  /\ UNCHANGED <<now, row, loc, bound, inbox, supervisor, pres, op, launch, engine,
                 adopted, crashes, ops, mail>>

ProbeSkip ==
  /\ worker["tick"].pc = "probe" /\ ~(row.rt = "running" /\ Located(row.gen))
  /\ To("tick", "stopping")
  /\ UNCHANGED <<now, row, loc, bound, inbox, supervisor, pres, op, launch, engine,
                 adopted, crashes, ops, mail>>

Probed ==
  LET w == worker["tick"] IN
  /\ w.pc = "probed"
  /\ CASE w.out = "ok" ->
            /\ row' = ApplyObservation(row, w.s, w.obs.ep, w.obs.headed, w.obs.at)
            /\ UNCHANGED engine
       [] w.out = "error" ->
            /\ row' = RecordControlUnavailable(row, w.s, now)
            /\ UNCHANGED engine
       [] OTHER ->
            /\ row' = MarkRuntimeStopped(row, w.s.gen, "crash")
            /\ engine' = Cancelled(w.s.gen)
  /\ To("tick", "stopping")
  /\ UNCHANGED <<now, loc, bound, inbox, supervisor, pres, op, launch, adopted, crashes, ops, mail>>

-----------------------------------------------------------------------------
(* Idle eviction (managed_lifecycle/eviction.rs).                          *)

\* reconcile_stopping adopts a row left in "stopping".  (Only the tick loop
\* makes a row "stopping", so for it an empty list stays empty until Evict.)
AdoptStopping(a) ==
  /\ worker[a].pc = "stopping" /\ (a = "boot" \/ row.rt = "stopping")
  /\ IF row.rt = "stopping"
     THEN worker' = [worker EXCEPT ![a] = [Idle EXCEPT !.pc = "asked", !.s = Hold(row)]]
     ELSE To(a, Continue(a, "stopping"))
  /\ UNCHANGED <<now, row, loc, bound, inbox, supervisor, pres, op, launch, engine,
                 adopted, crashes, ops, mail>>

\* evict_due_idle_sessions: list, then reserve (which re-checks everything).
Evict ==
  /\ \/ worker["tick"].pc = "evict"
     \/ worker["tick"].pc = "stopping" /\ row.rt # "stopping"
  /\ IF EvictionDue(row, now, Busy) /\ row.le < MaxLe
     THEN /\ row' = ReserveEviction(row)
          /\ worker' = [worker EXCEPT !["tick"] =
                          [Idle EXCEPT !.pc = "asked", !.s = Hold(row')]]
     ELSE To("tick", "replay") /\ UNCHANGED row
  /\ UNCHANGED <<now, loc, bound, inbox, supervisor, pres, op, launch, engine, adopted, crashes, ops, mail>>

\* clients::kill_if_headless, under the lock of the client set.
KillableHeadless(p, epoch) == p.st = "live" /\ p.clients = 0 /\ p.ep = epoch

\* terminate_automatic_if_unattached on the PTY transport.  Any request may
\* time out, also one the supervisor has served.
KillIfHeadless(a) ==
  LET w == worker[a]
      p == bound[w.s.gen]
      done(out, obs) == worker' = [worker EXCEPT ![a] =
                          [@ EXCEPT !.pc = "finished", !.out = out, !.obs = obs]]
  IN
  /\ w.pc = "asked"
  /\ \/ /\ Located(w.s.gen) /\ KillableHeadless(pty[p], w.s.ae)
        /\ \E ok \in Successes : pty' = [pty EXCEPT ![p] = ChildGone(@, ok)]
        /\ \E out \in {"killed", "error"} : done(out, NoSnapshot)
     \/ /\ Located(w.s.gen) /\ pty[p].st = "live" /\ ~KillableHeadless(pty[p], w.s.ae)
        /\ done("changed", SnapshotOf(pty[p]))
        /\ UNCHANGED pty
     \/ done("error", NoSnapshot) /\ UNCHANGED pty
  /\ UNCHANGED <<now, row, loc, bound, inbox, report, notices, calls, pres, op, launch,
                 engine, adopted, crashes, ops, mail>>

\* The rest of finish_idle_eviction: a confirmed kill finalizes (and then
\* clears the locator), everything else gives the row back to "running".
FinishEviction(a) ==
  LET w == worker[a]
      finalized == w.out = "killed" /\ FinalizeApplies(row, w.s.gen, w.s.le)
  IN
  /\ w.pc = "finished"
  /\ row' = CASE w.out = "killed" -> FinalizeRuntimeStopped(row, w.s.gen, w.s.le)
              [] w.out = "changed" ->
                   ApplyObservation(row, w.s, w.obs.ep, w.obs.headed, w.obs.at)
              [] OTHER -> RecordControlUnavailable(row, w.s, now)
  /\ engine' = IF w.out = "killed" THEN Cancelled(w.s.gen) ELSE engine
  /\ IF finalized THEN worker' = [worker EXCEPT ![a].pc = "clear"]
                  ELSE To(a, Continue(a, "stopping"))
  /\ UNCHANGED <<now, loc, bound, inbox, supervisor, pres, op, launch, adopted, crashes, ops, mail>>

-----------------------------------------------------------------------------
(* Operator kill and forget (session_end.rs).                              *)

OpBegin ==
  /\ op.pc = "idle" /\ ops < MaxOps /\ row.gen > 0
  /\ ops' = ops + 1
  /\ \/ /\ op' = [pc |-> "terminate", kind |-> "kill", s |-> Hold(row)]
        /\ UNCHANGED <<row, engine>>
     \/ /\ row' = RevokeRecovery(row, row.gen)
        /\ op' = [pc |-> "terminate", kind |-> "forget", s |-> Hold(row')]
        /\ engine' = Cancelled(row.gen)
  /\ UNCHANGED <<now, loc, bound, inbox, supervisor, worker, pres, launch, adopted, crashes, mail>>

\* terminate_explicit: needs the exact locator and a confirmed exit.
OpTerminate ==
  /\ op.pc = "terminate"
  /\ \/ /\ op.s.rt = "stopped"
        /\ op' = [op EXCEPT !.pc = "stop"] /\ UNCHANGED pty
     \/ /\ op.s.rt # "stopped" /\ loc = op.s.gen
        /\ op' = [op EXCEPT !.pc = "clear"]
        /\ \E ok \in Successes :
             pty' = IF pty[bound[loc]].st = "live"
                    THEN [pty EXCEPT ![bound[loc]] = ChildGone(@, ok)] ELSE pty
     \/ /\ op.s.rt # "stopped" /\ (loc # op.s.gen \/ PidAlive(op.s.gen))
        /\ op' = NoOp /\ UNCHANGED pty
  /\ UNCHANGED <<now, row, loc, bound, inbox, report, notices, calls, worker, pres,
                 launch, engine, adopted, crashes, ops, mail>>

OpClear ==
  /\ op.pc = "clear"
  /\ loc' = Cleared(op.s.gen)
  /\ op' = [op EXCEPT !.pc = "stop"]
  /\ UNCHANGED <<now, row, bound, inbox, supervisor, worker, pres, launch, engine,
                 adopted, crashes, ops, mail>>

\* stop_generation for a kill, finalize_session_recovery_revocation (which
\* also deletes every locator) for a forget.
OpStop ==
  /\ op.pc = "stop"
  /\ IF op.kind = "kill"
     THEN /\ row' = MarkRuntimeStopped(row, op.s.gen, "operator_kill")
          /\ engine' = Cancelled(op.s.gen)
          /\ UNCHANGED loc
     ELSE /\ row' = FinalizeRevocation(row, op.s.gen)
          /\ loc' = IF row.gen = op.s.gen THEN 0 ELSE loc
          /\ UNCHANGED engine
  /\ op' = NoOp
  /\ UNCHANGED <<now, bound, inbox, supervisor, worker, pres, launch, adopted, crashes, ops, mail>>

-----------------------------------------------------------------------------
(* Daemon crash and restart.                                               *)

\* Every task is gone; the new daemon starts the tick loop and the boot task
\* and freezes the rows it found running (startup_sessions).
Crash ==
  /\ crashes < MaxCrashes
  /\ crashes' = crashes + 1
  /\ worker' = [a \in Workers |->
                  IF a = "exit" THEN Idle ELSE [Idle EXCEPT !.pc = "replay"]]
  /\ pres' = NoPres /\ op' = NoOp /\ launch' = NoLaunch
  /\ engine' = [g \in Gens |-> "none"]
  /\ adopted' = Hold(row)
  /\ UNCHANGED <<now, row, loc, bound, inbox, supervisor, ops, mail>>

\* reconcile_sessions, after its replay and its reconcile_stopping, works on
\* the frozen snapshot: revive a live endpoint (its engine too, unless the
\* admission it re-confirms turned out stale), stop a supervisor proven gone,
\* retain the uncertain ones as unavailable.
Revive ==
  LET s == adopted
      g == s.gen
      spawned == [engine EXCEPT ![g] = IF @ = "none" THEN "live" ELSE @]
      current == Owns(row, g) /\ row.le = s.le /\ row.rec # "revoked"
  IN
  /\ worker["boot"].pc = "revive"
  /\ To("boot", "idle")
  /\ \/ /\ s.rt # "running"
        /\ UNCHANGED <<row, engine>>
     \/ /\ s.rt = "running" /\ loc = g /\ PidAlive(g)
        /\ row' \in {row, RecordControlUnavailable(row, s, now)}
        /\ engine' \in {spawned} \cup (IF current THEN {} ELSE {engine})
     \/ /\ s.rt = "running" /\ loc = g /\ ~PidAlive(g)
        /\ row' \in {MarkRuntimeStopped(row, g, "crash"),
                     RecordControlUnavailable(row, s, now)}
        /\ UNCHANGED engine
     \/ /\ s.rt = "running" /\ loc # g
        /\ row' = RecordControlUnavailable(row, s, now)
        /\ UNCHANGED engine
  /\ UNCHANGED <<now, loc, bound, inbox, supervisor, pres, op, launch, adopted, crashes, ops, mail>>

-----------------------------------------------------------------------------
Supervisor(g) == Attach(g) \/ Detach(g) \/ ChildExits(g)
                 \/ SupervisorReports(g) \/ SupervisorEnds(g) \/ SupervisorVanishes(g)

LaunchStep == OpenFails \/ OpenEndpoint \/ Register \/ RegisterFails

Launch == Reserve \/ LaunchStep \/ \E p \in Gens : HookRegister(p)

Work == Enqueue \/ Deliver
        \/ \E g \in 1 .. row.gen : TurnStarted(g) \/ TurnEnded(g)

WorkerStep(a) ==
  \/ \E g \in Gens : Replay(a, g)
  \/ ReplayDone(a) \/ ExitLookup(a) \/ ExitSettle(a) \/ ExitClear(a) \/ ExitRemove(a)
  \/ AdoptStopping(a) \/ KillIfHeadless(a) \/ FinishEviction(a)

TickStep == WorkerStep("tick") \/ Probe \/ ProbeSkip \/ Probed \/ Evict

BootStep == WorkerStep("boot") \/ Revive

ExitHandler == WorkerStep("exit")

Operator == OpTerminate \/ OpClear \/ OpStop

Next ==
  \/ Tick \/ Crash \/ Launch \/ Work
  \/ \E g \in Gens : Supervisor(g) \/ EngineExits(g) \/ PresentationCall(g) \/ ExitCall(g)
  \/ PresentationApply
  \/ TickStep \/ BootStep \/ ExitHandler
  \/ OpBegin \/ Operator

\* The tick loop, the boot task, the handlers and the engine tasks are tokio
\* tasks that are always polled again; the supervisor runs to its end.
Fairness ==
  /\ WF_vars(TickStep) /\ WF_vars(BootStep) /\ WF_vars(ExitHandler)
  /\ WF_vars(Operator) /\ WF_vars(PresentationApply) /\ WF_vars(LaunchStep)
  /\ \A g \in Gens : /\ WF_vars(SupervisorReports(g)) /\ WF_vars(SupervisorEnds(g))
                     /\ WF_vars(EngineExits(g))

Spec == Init /\ [][Next]_vars /\ Fairness

-----------------------------------------------------------------------------
(* Properties.                                                             *)

TypeOK ==
  /\ now \in Nat /\ row \in Session /\ loc \in Gens \cup {0}
  /\ bound \in [Gens -> Gens \cup {0}]
  /\ inbox \in {"none", "pending", "delivered", "injected"}
  /\ pty \in [Gens -> Pty]
  /\ report \subseteq Gens /\ calls \subseteq Gens
  /\ notices \subseteq Gens \X Snapshot
  /\ worker \in [Workers -> Worker]
  /\ pres \in [pc: {"idle", "apply"}, s: Held, obs: Snapshot]
  /\ op \in [pc: {"idle", "terminate", "clear", "stop"}, kind: {"kill", "forget"}, s: Held]
  /\ launch \in [pc: {"idle"}, g: {0}] \cup [pc: {"reserved", "opened"}, g: Gens]
  /\ engine \in [Gens -> {"none", "live", "cancelled"}]
  /\ adopted \in Held
  /\ crashes \in Nat /\ ops \in Nat /\ mail \in Nat

\* However the presentation notifications are delayed, reordered or lost, a
\* row that carries the supervisor's own epoch says what the supervisor would
\* say (apply_session_presentation_edge): headed exactly when a client is
\* attached.
PresentationAgreement ==
  row.gen \in Gens /\ bound[row.gen] # 0 =>
    LET p == pty[bound[row.gen]] IN
    p.st = "live" =>
      /\ row.ae <= p.ep
      /\ row.ae = p.ep /\ row.pres # "unavailable"
           => (row.pres = "headed" <=> p.clients > 0)

\* While the row says stopped (and may be relaunched) no process of the pubkey
\* runs: no stale snapshot, late exit report, lost control channel or failed
\* probe makes the daemon disown a live runtime.
StoppedIsDead ==
  row.rt = "stopped" /\ row.rec # "revoked" => \A p \in Gens : pty[p].st # "live"

\* reserve_session_with_facts reserves "the sole running incarnation": the
\* pubkey never has two live processes.
SingleRuntime ==
  \A p, q \in Gens : pty[p].st = "live" /\ pty[q].st = "live" => p = q

\* An eviction is only ever scheduled for a running, headless, idle runtime.
DeadlineOnlyWhenIdleHeadless ==
  row.deadline > 0 => row.rt = "running" /\ row.pres = "headless" /\ row.work = "idle"

\* Within a generation the attachment epoch never goes back, and no turn, stop
\* or cancelled eviction lets lifecycle_epoch repeat a value.
EpochsMonotone ==
  [][/\ row'.gen >= row.gen /\ row'.le >= row.le
     /\ row'.gen = row.gen => row'.ae >= row.ae
     /\ row'.rt # row.rt => row'.le > row.le]_vars

\* Forgetting is irrevocable: no later step relaunches a revoked pubkey.
RevokedForever ==
  [][row.rec = "revoked" => row'.rec = "revoked" /\ row'.gen = row.gen]_vars

\* A reserved eviction is always settled: the row never stays in "stopping".
StoppingResolves == []<>(row.rt # "stopping")

\* The process of a session is gone and its row does not say so.
ProcessGone ==
  /\ row.gen # 0 /\ row.rt # "stopped" /\ launch.pc = "idle"
  /\ \A p \in Gens : pty[p].st \in {"none", "dead"}

=============================================================================
