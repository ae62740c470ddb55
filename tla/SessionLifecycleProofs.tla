----------------------- MODULE SessionLifecycleProofs -----------------------
(***************************************************************************)
(* Proofs about SessionLifecycle for every value of its bounds.  Every     *)
(* step of the lifecycle writes the sessions row only through the store's  *)
(* reducers (RowStep), so the row's invariant and the monotonicity of its  *)
(* epochs follow from SessionRowProofs once types are known; types and the *)
(* row invariant are proved together, because the types of the row are     *)
(* preserved only for rows that satisfy the invariant.                     *)
(***************************************************************************)
EXTENDS SessionLifecycle, SessionRowProofs

USE DEF Gens

\* A registered locator names a generation that has been given an endpoint.
LocatorIsBound == loc # 0 => bound[loc] # 0

IInv == TypeOK /\ RowInv(row) /\ LocatorIsBound

-----------------------------------------------------------------------------
(* Types of the values that the actions build.                             *)

\* The fields a task holds of a row are of the row's types.
LEMMA HoldType == ASSUME NEW r \in Session PROVE Hold(r) \in Held
  BY DEF Hold, Held, Session

\* A supervisor's answer (snapshot_locked) is a presentation snapshot.
LEMMA SnapshotType == ASSUME NEW p \in Pty PROVE SnapshotOf(p) \in Snapshot
  BY DEF SnapshotOf, Snapshot, Pty

\* A supervisor whose child is gone, or that has ended, is a supervisor.
LEMMA PtyTypes ==
  ASSUME NEW p \in Pty, NEW ok
  PROVE  ChildGone(p, ok) \in Pty /\ Gone(p) \in Pty /\ NoPty \in Pty
<1>1. ChildGone(p, ok) \in Pty
  BY DEF ChildGone, Pty, ExitStatus
<1>2. Gone(p) \in Pty
  BY DEF Gone, Pty, NoPty, ExitStatus
<1>3. NoPty \in Pty
  BY DEF Pty, NoPty, ExitStatus
<1> QED BY <1>1, <1>2, <1>3

\* The initial values of the tasks are of the tasks' types.
LEMMA InitialTypes ==
  /\ NoSession \in Session /\ Hold(NoSession) \in Held
  /\ NoSnapshot \in Snapshot /\ Idle \in Worker
<1>1. NoSession \in Session
  BY DEF NoSession, Session, RuntimeState, PresentationState, WorkState, RecoveryState,
         StopReason
<1>2. Hold(NoSession) \in Held
  BY <1>1, HoldType
<1>3. NoSnapshot \in Snapshot
  BY DEF NoSnapshot, Snapshot
<1>4. Idle \in Worker
  BY <1>2, <1>3 DEF Idle, Worker, WorkerPc, Outcome
<1> QED BY <1>1, <1>2, <1>3, <1>4

\* A worker at a known stage with nothing in hand is a worker.
LEMMA StageType == ASSUME NEW pc \in WorkerPc PROVE [Idle EXCEPT !.pc = pc] \in Worker
  BY InitialTypes DEF Worker

\* The next stage is a stage (managed_lifecycle::spawn, reconcile_sessions).
LEMMA ContinueType ==
  ASSUME NEW a \in Workers, NEW stage PROVE Continue(a, stage) \in WorkerPc
  BY DEF Continue, Workers, WorkerPc

\* StopReason values the lifecycle writes.
LEMMA Reasons ==
  /\ "unknown" \in StopReason /\ "crash" \in StopReason /\ "operator_kill" \in StopReason
  /\ \A p : ExitReason(p) \in StopReason
  BY DEF StopReason, ExitReason

-----------------------------------------------------------------------------
\* The lifecycle coordinator, the supervisors' handlers, the launch path, the
\* operator's requests and the boot task all write the row through the store's
\* reducers, with arguments of their types.
LEMMA RowSteps == TypeOK /\ [Next]_vars => RowStep(row, row')
<1> SUFFICES ASSUME TypeOK, [Next]_vars PROVE RowStep(row, row')
  OBVIOUS
<1>0. row' = row => RowStep(row, row')
  BY DEF RowStep
<1>t. /\ now \in Nat /\ row \in Session /\ row.gen \in Nat /\ launch.g \in Nat
      /\ adopted \in Held /\ adopted.gen \in Nat
      /\ op.s \in Held /\ op.s.gen \in Nat
      /\ pres.s \in Held /\ pres.obs \in Observation
      /\ \A a \in Workers : /\ worker[a].s \in Held /\ worker[a].obs \in Observation
                            /\ worker[a].s.gen \in Nat /\ worker[a].s.le \in Nat
  <2>1. now \in Nat /\ row \in Session /\ row.gen \in Nat /\ adopted \in Held
    BY DEF TypeOK, Session
  <2>2. launch.g \in Nat
    BY BoundsAssumption DEF TypeOK
  <2>3. op.s \in Held /\ pres.s \in Held /\ pres.obs \in Observation
    BY DEF TypeOK, Snapshot, Observation
  <2>4. \A a \in Workers : worker[a].s \in Held /\ worker[a].obs \in Observation
    BY DEF TypeOK, Worker, Snapshot, Observation
  <2> QED BY <2>1, <2>2, <2>3, <2>4 DEF Held
<1> DEFINE Stop(g, why) == row' = MarkRuntimeStopped(row, g, why)
<1>s. ASSUME NEW g \in Nat, NEW why \in StopReason, Stop(g, why) PROVE RowStep(row, row')
  BY <1>s DEF RowStep
<1>u. ASSUME NEW h \in Held, NEW t \in Nat, row' = RecordControlUnavailable(row, h, t)
      PROVE  RowStep(row, row')
  BY <1>u DEF RowStep
<1>o. ASSUME NEW h \in Held, NEW o \in Observation,
             row' = ApplyObservation(row, h, o.ep, o.headed, o.at)
      PROVE  RowStep(row, row')
  BY <1>o DEF RowStep
<1>1. CASE Reserve
  BY <1>1 DEF Reserve, RowStep
<1>2. CASE OpenFails \/ RegisterFails
  BY <1>2, <1>t, <1>s, Reasons DEF OpenFails, RegisterFails
<1>3. ASSUME NEW p, RegisterEndpoint(p) PROVE RowStep(row, row')
  BY <1>3, <1>0 DEF RegisterEndpoint, CanRegister, CanReserve, RowStep
<1>4. ASSUME NEW g \in Gens, EngineExits(g) PROVE RowStep(row, row')
  BY <1>4, <1>s, Reasons DEF EngineExits
<1>5. ASSUME NEW g \in 1 .. row.gen, TurnStarted(g) \/ TurnEnded(g) PROVE RowStep(row, row')
  <2>1. g \in Nat
    BY <1>t
  <2> QED BY <1>5, <1>t, <2>1 DEF TurnStarted, TurnEnded, RowStep
<1>6. CASE Enqueue
  BY <1>6 DEF Enqueue, RowStep
<1>7. CASE PresentationApply
  BY <1>7, <1>t, <1>o DEF PresentationApply
<1>8. ASSUME NEW a \in Workers, ExitSettle(a) PROVE RowStep(row, row')
  <2>1. \/ row' = FinalizeRuntimeStopped(row, worker[a].s.gen, worker[a].s.le)
        \/ \E p : Stop(worker[a].s.gen, ExitReason(p))
        \/ row' = row
    BY <1>8 DEF ExitSettle
  <2>2. CASE row' = FinalizeRuntimeStopped(row, worker[a].s.gen, worker[a].s.le)
    BY <2>2, <1>t DEF RowStep
  <2> HIDE DEF Stop
  <2> QED BY <2>1, <2>2, <1>0, <1>t, <1>s, Reasons
<1>9. CASE Probed
  <2>1. \/ row' = ApplyObservation(row, worker["tick"].s, worker["tick"].obs.ep,
                                  worker["tick"].obs.headed, worker["tick"].obs.at)
        \/ row' = RecordControlUnavailable(row, worker["tick"].s, now)
        \/ Stop(worker["tick"].s.gen, "crash")
    BY <1>9 DEF Probed
  <2>2. "tick" \in Workers
    BY DEF Workers
  <2> HIDE DEF Stop
  <2> QED BY <2>1, <2>2, <1>t, <1>s, <1>u, <1>o, Reasons
<1>10. CASE Evict
  <2>1. row' = row \/ (EvictionDue(row, now, Busy) /\ row' = ReserveEviction(row))
    BY <1>10 DEF Evict
  <2>2. Busy \in BOOLEAN
    BY DEF Busy
  <2> QED BY <2>1, <2>2, <1>t DEF RowStep
<1>11. ASSUME NEW a \in Workers, FinishEviction(a) PROVE RowStep(row, row')
  <2>1. \/ row' = FinalizeRuntimeStopped(row, worker[a].s.gen, worker[a].s.le)
        \/ row' = ApplyObservation(row, worker[a].s, worker[a].obs.ep,
                                  worker[a].obs.headed, worker[a].obs.at)
        \/ row' = RecordControlUnavailable(row, worker[a].s, now)
    BY <1>11 DEF FinishEviction
  <2>2. CASE row' = FinalizeRuntimeStopped(row, worker[a].s.gen, worker[a].s.le)
    BY <2>2, <1>t DEF RowStep
  <2> QED BY <2>1, <2>2, <1>t, <1>u, <1>o
<1>12. CASE OpBegin
  BY <1>12, <1>t, <1>0 DEF OpBegin, RowStep
<1>13. CASE OpStop
  <2>1. Stop(op.s.gen, "operator_kill") \/ row' = FinalizeRevocation(row, op.s.gen)
    BY <1>13 DEF OpStop
  <2>2. CASE row' = FinalizeRevocation(row, op.s.gen)
    BY <2>2, <1>t DEF RowStep
  <2> HIDE DEF Stop
  <2> QED BY <2>1, <2>2, <1>t, <1>s, Reasons
<1>14. CASE Revive
  <2>1. \/ row' = row
        \/ row' = RecordControlUnavailable(row, adopted, now)
        \/ Stop(adopted.gen, "crash")
    BY <1>14 DEF Revive
  <2> HIDE DEF Stop
  <2> QED BY <2>1, <1>0, <1>t, <1>s, <1>u, Reasons
<1> HIDE DEF Stop
<1>15. ASSUME NEW a \in Workers, WorkerStep(a) PROVE RowStep(row, row')
  BY <1>15, <1>0, <1>8, <1>11
     DEF WorkerStep, Replay, ReplayDone, ExitLookup, ExitClear, ExitRemove, AdoptStopping,
         KillIfHeadless
<1>16. CASE UNCHANGED vars
  BY <1>16, <1>0 DEF vars
<1>17. CASE Tick \/ Crash \/ Launch \/ Work
  <2>1. CASE Launch
    BY <2>1, <1>0, <1>1, <1>2, <1>3
       DEF Launch, LaunchStep, OpenEndpoint, Register, HookRegister
  <2>2. CASE Work
    BY <2>2, <1>0, <1>5, <1>6 DEF Work, Deliver
  <2> QED BY <2>1, <2>2, <1>17, <1>0 DEF Tick, Crash
<1>18. ASSUME NEW g \in Gens,
              Supervisor(g) \/ EngineExits(g) \/ PresentationCall(g) \/ ExitCall(g)
       PROVE  RowStep(row, row')
  BY <1>18, <1>0, <1>4
     DEF Supervisor, Attach, Detach, DetachOf, ChildExits, SupervisorReports,
         SupervisorEnds, SupervisorVanishes, PresentationCall, ExitCall
<1>19. CASE TickStep \/ BootStep \/ ExitHandler
  <2>1. "tick" \in Workers /\ "boot" \in Workers /\ "exit" \in Workers
    BY DEF Workers
  <2> QED BY <2>1, <1>19, <1>0, <1>9, <1>10, <1>14, <1>15
          DEF TickStep, BootStep, ExitHandler, Probe, ProbeSkip
<1>20. CASE Operator
  BY <1>20, <1>0, <1>13 DEF Operator, OpTerminate, OpClear
<1> QED
  BY <1>7, <1>12, <1>16, <1>17, <1>18, <1>19, <1>20 DEF Next

-----------------------------------------------------------------------------
(* Type correctness, one lemma per actor.                                  *)

\* The steps of a supervisor (pty/supervisor.rs) keep the types.
LEMMA SupervisorTypes ==
  ASSUME TypeOK, NEW g \in Gens, Supervisor(g) PROVE TypeOK'
<1>p. pty[g] \in Pty /\ now \in Nat
  BY DEF TypeOK
<1>1. ASSUME NEW p \in Pty, pty' = [pty EXCEPT ![g] = p],
             UNCHANGED <<now, row, loc, bound, inbox, daemon, crashes, ops, mail>>,
             report' \subseteq Gens, calls' \subseteq Gens, notices' \subseteq Gens \X Snapshot
      PROVE  TypeOK'
  BY <1>1 DEF TypeOK, daemon
<1>2. ASSUME NEW p \in Pty, pty' = [pty EXCEPT ![g] = p],
             notices' = notices \cup {<<g, SnapshotOf(p)>>},
             UNCHANGED <<now, row, loc, bound, inbox, report, calls, daemon, crashes, ops, mail>>
      PROVE  TypeOK'
  <2>1. notices' \subseteq Gens \X Snapshot
    BY <1>2, SnapshotType DEF TypeOK
  <2>2. report' \subseteq Gens /\ calls' \subseteq Gens
    BY <1>2 DEF TypeOK
  <2> QED BY <1>1, <1>2, <2>1, <2>2
<1>3. CASE Attach(g)
  <2> DEFINE c == pty[g].clients + 1
             e == pty[g].ep + 1
             p == [pty[g] EXCEPT !.clients = c, !.ep = e, !.at = now]
  <2>1. c \in Nat /\ e \in Nat
    BY <1>p DEF Pty
  <2>2. pty' = [pty EXCEPT ![g] = p] /\ notices' = notices \cup {<<g, SnapshotOf(p)>>}
    BY <1>3 DEF Attach
  <2>3. p \in Pty
    <3> HIDE DEF c, e
    <3> QED BY <1>p, <2>1 DEF Pty
  <2> QED BY <1>2, <1>3, <2>2, <2>3 DEF Attach
<1>4. CASE Detach(g)
  <2>1. PICK k \in 1 .. pty[g].clients :
          DetachOf(g, k, [pty[g] EXCEPT !.clients = @ - k, !.ep = @ + k, !.at = now])
    BY <1>4 DEF Detach
  <2> DEFINE p == [pty[g] EXCEPT !.clients = @ - k, !.ep = @ + k, !.at = now]
  <2>2. pty[g].clients - k \in Nat /\ pty[g].ep + k \in Nat
    BY <1>p DEF Pty
  <2>3. p \in Pty
    BY <1>p, <2>2 DEF Pty
  <2> HIDE DEF p
  <2>4. DetachOf(g, k, p)
    BY <2>1 DEF p
  <2> QED BY <1>2, <2>3, <2>4 DEF DetachOf
<1>5. CASE ChildExits(g)
  BY <1>1, <1>5, <1>p, PtyTypes DEF ChildExits, TypeOK
<1>6. CASE SupervisorReports(g)
  <2> DEFINE p == [pty[g] EXCEPT !.st = "reported"]
  <2>1. p \in Pty /\ pty' = [pty EXCEPT ![g] = p]
    BY <1>6, <1>p DEF SupervisorReports, Pty
  <2> QED BY <1>1, <1>6, <2>1 DEF SupervisorReports, TypeOK
<1>7. CASE SupervisorEnds(g) \/ SupervisorVanishes(g)
  <2>1. Gone(pty[g]) \in Pty
    BY <1>p, PtyTypes
  <2> QED BY <1>1, <1>7, <2>1 DEF SupervisorEnds, SupervisorVanishes, TypeOK
<1> QED BY <1>3, <1>4, <1>5, <1>6, <1>7 DEF Supervisor

\* Cancelling an engine task (cancel_session) keeps the engines' type.
LEMMA CancelledType == ASSUME TypeOK, NEW g PROVE
    Cancelled(g) \in [Gens -> {"none", "live", "cancelled"}]
  BY DEF Cancelled, TypeOK

\* Launches and registrations (spawn_agent, session_start) keep the types.
LEMMA LaunchTypes ==
  ASSUME TypeOK, Launch, row' \in Session PROVE TypeOK'
<1>1. CASE Reserve
  <2>1. row.gen + 1 \in Gens
    BY <1>1, BoundsAssumption DEF Reserve, TypeOK, Session
  <2>2. launch' \in [pc: {"reserved", "opened"}, g: Gens]
    BY <1>1, <2>1 DEF Reserve
  <2> QED BY <1>1, <2>2 DEF Reserve, TypeOK, supervisor
<1>2. CASE OpenFails
  <2>1. launch' \in [pc: {"idle"}, g: {0}]
    BY <1>2 DEF OpenFails, NoLaunch
  <2> QED BY <1>2, <2>1 DEF OpenFails, TypeOK, supervisor
<1>3. CASE OpenEndpoint
  <2>1. launch' \in [pc: {"reserved", "opened"}, g: Gens]
    BY <1>3 DEF OpenEndpoint, TypeOK
  <2>2. [NoPty EXCEPT !.st = "live", !.at = now] \in Pty
    BY DEF NoPty, Pty, ExitStatus, TypeOK
  <2>3. pty' \in [Gens -> Pty]
    BY <1>3, <2>2 DEF OpenEndpoint, TypeOK
  <2> QED BY <1>3, <2>1, <2>3 DEF OpenEndpoint, TypeOK
<1>4. ASSUME NEW p \in Gens, RegisterEndpoint(p)
      PROVE  /\ loc' \in Gens \cup {0} /\ bound' \in [Gens -> Gens \cup {0}]
             /\ engine' \in [Gens -> {"none", "live", "cancelled"}]
  <2>1. PICK r : /\ r.gen \in Gens /\ loc' = r.gen
                 /\ bound' = [bound EXCEPT ![r.gen] = p]
                 /\ engine' = [engine EXCEPT ![r.gen] = IF @ = "none" THEN "live" ELSE @]
    BY <1>4 DEF RegisterEndpoint
  <2> QED BY <2>1 DEF TypeOK
<1>5. CASE Register
  <2>1. launch.g \in Gens
    BY <1>5 DEF Register, TypeOK
  <2>2. launch' \in [pc: {"idle"}, g: {0}]
    BY <1>5 DEF Register, NoLaunch
  <2>3. RegisterEndpoint(launch.g)
    BY <1>5 DEF Register
  <2>4. /\ loc' \in Gens \cup {0} /\ bound' \in [Gens -> Gens \cup {0}]
        /\ engine' \in [Gens -> {"none", "live", "cancelled"}]
    BY <1>4, <2>1, <2>3
  <2> QED BY <1>5, <2>2, <2>4 DEF Register, TypeOK, supervisor
<1>6. CASE RegisterFails
  <2>1. launch.g \in Gens /\ pty[launch.g] \in Pty
    BY <1>6 DEF RegisterFails, TypeOK
  <2>2. launch' \in [pc: {"idle"}, g: {0}]
    BY <1>6 DEF RegisterFails, NoLaunch
  <2>3. ChildGone(pty[launch.g], FALSE) \in Pty
    BY <2>1, PtyTypes
  <2>4. pty' \in [Gens -> Pty]
    BY <1>6, <2>1, <2>3 DEF RegisterFails, TypeOK
  <2> QED BY <1>6, <2>2, <2>4 DEF RegisterFails, TypeOK
<1>7. ASSUME NEW p \in Gens, HookRegister(p) PROVE TypeOK'
  <2>1. /\ loc' \in Gens \cup {0} /\ bound' \in [Gens -> Gens \cup {0}]
        /\ engine' \in [Gens -> {"none", "live", "cancelled"}]
    BY <1>4, <1>7 DEF HookRegister
  <2> QED BY <1>7, <2>1 DEF HookRegister, TypeOK, supervisor
<1> QED BY <1>1, <1>2, <1>3, <1>5, <1>6, <1>7 DEF Launch, LaunchStep

\* The clock, the engine tasks, turns, mail and the presentation handler keep
\* the types.
LEMMA HandlerTypes ==
  ASSUME TypeOK, row' \in Session,
         \/ Tick \/ Work \/ PresentationApply
         \/ \E g \in Gens : EngineExits(g) \/ PresentationCall(g)
  PROVE  TypeOK'
<1>1. CASE Tick
  BY <1>1 DEF Tick, TypeOK, supervisor, daemon
<1>2. CASE Work
  <2>1. CASE Enqueue
    <3>1. mail' \in Nat /\ inbox' = "pending"
      BY <2>1 DEF Enqueue, TypeOK
    <3> QED BY <2>1, <3>1 DEF Enqueue, TypeOK, supervisor, daemon
  <2>3. CASE Deliver
    <3>1. inbox' \in {"none", "pending", "delivered", "injected"}
      BY <2>3 DEF Deliver
    <3> QED BY <2>3, <3>1 DEF Deliver, TypeOK, supervisor, daemon
  <2>2. ASSUME NEW g, TurnStarted(g) \/ TurnEnded(g) PROVE TypeOK'
    BY <2>2 DEF TurnStarted, TurnEnded, TypeOK, supervisor, daemon
  <2> QED BY <1>2, <2>1, <2>2, <2>3 DEF Work
<1>n. NoPres \in [pc: {"idle", "apply"}, s: Held, obs: Snapshot]
  BY InitialTypes DEF NoPres
<1>3. CASE PresentationApply
  BY <1>3, <1>n DEF PresentationApply, TypeOK, supervisor
<1>4. ASSUME NEW g \in Gens, EngineExits(g) PROVE TypeOK'
  BY <1>4 DEF EngineExits, TypeOK, supervisor
<1>5. ASSUME NEW g \in Gens, PresentationCall(g) PROVE TypeOK'
  <2>1. PICK n \in notices :
          /\ notices' = notices \ {n}
          /\ pres' = IF SessionForPty(g)
                     THEN [pc |-> "apply", s |-> Hold(row), obs |-> n[2]] ELSE NoPres
    BY <1>5 DEF PresentationCall
  <2>2. Hold(row) \in Held /\ n[2] \in Snapshot
    BY HoldType DEF TypeOK
  <2>3. pres' \in [pc: {"idle", "apply"}, s: Held, obs: Snapshot]
    BY <1>n, <2>1, <2>2
  <2>4. notices' \subseteq Gens \X Snapshot
    BY <2>1 DEF TypeOK
  <2> QED BY <1>5, <2>3, <2>4 DEF PresentationCall, TypeOK
<1> QED BY <1>1, <1>2, <1>3, <1>4, <1>5

\* The steps that the tick loop, the boot task and the exit handler share
\* (replay_supervisor_exits, supervisor_exited, finish_idle_eviction) keep the
\* types.
LEMMA WorkerTypes ==
  ASSUME TypeOK, LocatorIsBound, NEW a \in Workers, WorkerStep(a), row' \in Session
  PROVE  TypeOK'
<1>w. worker[a] \in Worker /\ Idle \in Worker
  BY InitialTypes DEF TypeOK
<1>x. ASSUME NEW w \in Worker, worker' = [worker EXCEPT ![a] = w]
      PROVE  worker' \in [Workers -> Worker]
  BY <1>x DEF TypeOK
<1>t. ASSUME NEW stage, To(a, Continue(a, stage)) PROVE worker' \in [Workers -> Worker]
  <2>1. Continue(a, stage) \in WorkerPc
    BY ContinueType
  <2> HIDE DEF Continue
  <2>2. [Idle EXCEPT !.pc = Continue(a, stage)] \in Worker
    BY <2>1, StageType
  <2> QED BY <1>x, <1>t, <2>2 DEF To
<1>pc. ASSUME NEW pc \in WorkerPc, worker' = [worker EXCEPT ![a].pc = pc]
       PROVE  worker' \in [Workers -> Worker]
  <2>1. [worker[a] EXCEPT !.pc = pc] \in Worker
    BY <1>w DEF Worker
  <2>2. worker' = [worker EXCEPT ![a] = [worker[a] EXCEPT !.pc = pc]]
    BY <1>pc
  <2> QED BY <1>x, <2>1, <2>2
<1>1. ASSUME NEW g \in Gens, Replay(a, g) PROVE TypeOK'
  <2>0. g \in Nat
    BY BoundsAssumption
  <2>1. [Idle EXCEPT !.pc = "lookup", !.g = g] \in Worker
    BY <1>w, <2>0 DEF Worker, WorkerPc
  <2>2. worker' \in [Workers -> Worker]
    BY <1>x, <1>1, <2>1 DEF Replay
  <2> QED BY <1>1, <2>2 DEF Replay, TypeOK, supervisor
<1>2. CASE ReplayDone(a)
  <2>1. worker' \in [Workers -> Worker]
    BY <1>2, <1>t DEF ReplayDone
  <2> QED BY <1>2, <2>1 DEF ReplayDone, TypeOK
<1>3. CASE ExitLookup(a)
  <2> DEFINE w == IF SessionForPty(worker[a].g)
                  THEN [worker[a] EXCEPT !.pc = "settle", !.s = Hold(row)]
                  ELSE [worker[a] EXCEPT !.pc = "remove"]
  <2>1. Hold(row) \in Held
    BY HoldType DEF TypeOK
  <2>2. w \in Worker
    BY <1>w, <2>1 DEF Worker, WorkerPc
  <2>3. worker' = [worker EXCEPT ![a] = w]
    BY <1>3 DEF ExitLookup
  <2>4. worker' \in [Workers -> Worker]
    BY <1>x, <2>2, <2>3
  <2> QED BY <1>3, <2>4 DEF ExitLookup, TypeOK, supervisor
<1>4. CASE ExitSettle(a)
  <2>1. worker' \in [Workers -> Worker]
    BY <1>pc, <1>4 DEF ExitSettle, WorkerPc
  <2>2. engine' \in [Gens -> {"none", "live", "cancelled"}]
    BY <1>4, CancelledType DEF ExitSettle, TypeOK
  <2> QED BY <1>4, <2>1, <2>2 DEF ExitSettle, TypeOK, supervisor
<1>5. CASE ExitClear(a)
  <2>1. worker' \in [Workers -> Worker]
    BY <1>pc, <1>5 DEF ExitClear, WorkerPc
  <2>2. loc' \in Gens \cup {0}
    BY <1>5 DEF ExitClear, Cleared, TypeOK
  <2> QED BY <1>5, <2>1, <2>2 DEF ExitClear, TypeOK, supervisor
<1>6. CASE ExitRemove(a)
  <2>1. PICK pc \in WorkerPc : To(a, pc)
    <3>1. Continue(a, "stopping") \in WorkerPc
      BY ContinueType
    <3> HIDE DEF Continue
    <3> QED BY <1>6, <3>1 DEF ExitRemove, WorkerPc
  <2>2. [Idle EXCEPT !.pc = pc] \in Worker
    BY StageType
  <2>3. worker' \in [Workers -> Worker]
    BY <1>x, <2>1, <2>2 DEF To
  <2>4. report' \subseteq Gens
    BY <1>6 DEF ExitRemove, TypeOK
  <2> QED BY <1>6, <2>3, <2>4 DEF ExitRemove, TypeOK
<1>7. CASE AdoptStopping(a)
  <2>1. Hold(row) \in Held
    BY HoldType DEF TypeOK
  <2>2. [Idle EXCEPT !.pc = "asked", !.s = Hold(row)] \in Worker
    BY <1>w, <2>1 DEF Worker, WorkerPc
  <2>3. worker' \in [Workers -> Worker]
    BY <1>7, <1>x, <1>t, <2>2 DEF AdoptStopping
  <2> QED BY <1>7, <2>3 DEF AdoptStopping, TypeOK, supervisor
<1>8. CASE KillIfHeadless(a)
  <2> DEFINE p == bound[worker[a].s.gen]
             w(out, obs) == [worker[a] EXCEPT !.pc = "finished", !.out = out, !.obs = obs]
  <2>1. ASSUME NEW out \in Outcome, NEW obs \in Snapshot,
               worker' = [worker EXCEPT ![a] = w(out, obs)]
        PROVE  worker' \in [Workers -> Worker]
    <3>1. w(out, obs) \in Worker
      BY <1>w DEF Worker, WorkerPc
    <3> QED BY <1>x, <2>1, <3>1
  <2>2. ASSUME Located(worker[a].s.gen) PROVE p \in Gens /\ pty[p] \in Pty
    BY <2>2 DEF Located, LocatorIsBound, TypeOK
  <2>3. "killed" \in Outcome /\ "error" \in Outcome /\ "changed" \in Outcome
        /\ NoSnapshot \in Snapshot
    BY InitialTypes DEF Outcome
  <2>4. worker' \in [Workers -> Worker] /\ pty' \in [Gens -> Pty]
    <3>1. CASE /\ Located(worker[a].s.gen)
               /\ \E ok \in Successes : pty' = [pty EXCEPT ![p] = ChildGone(@, ok)]
               /\ \E out \in {"killed", "error"} :
                    worker' = [worker EXCEPT ![a] = w(out, NoSnapshot)]
      <4>1. \A ok \in Successes : ChildGone(pty[p], ok) \in Pty
        BY <2>2, <3>1, PtyTypes
      <4>2. pty' \in [Gens -> Pty]
        BY <2>2, <3>1, <4>1 DEF TypeOK
      <4> QED BY <2>1, <2>3, <3>1, <4>2
    <3>2. CASE /\ Located(worker[a].s.gen) /\ UNCHANGED pty
               /\ worker' = [worker EXCEPT ![a] = w("changed", SnapshotOf(pty[p]))]
      <4>1. SnapshotOf(pty[p]) \in Snapshot
        BY <2>2, <3>2, SnapshotType
      <4>2. worker' \in [Workers -> Worker]
        BY <2>1, <2>3, <3>2, <4>1
      <4> QED BY <3>2, <4>2 DEF TypeOK
    <3>3. CASE UNCHANGED pty /\ worker' = [worker EXCEPT ![a] = w("error", NoSnapshot)]
      BY <2>1, <2>3, <3>3 DEF TypeOK
    <3> QED BY <1>8, <3>1, <3>2, <3>3 DEF KillIfHeadless
  <2> QED BY <1>8, <2>4 DEF KillIfHeadless, TypeOK
<1>9. CASE FinishEviction(a)
  <2>1. worker' \in [Workers -> Worker]
    <3>1. "clear" \in WorkerPc
      BY DEF WorkerPc
    <3> QED BY <1>9, <1>pc, <1>t, <3>1 DEF FinishEviction
  <2>2. engine' \in [Gens -> {"none", "live", "cancelled"}]
    BY <1>9, CancelledType DEF FinishEviction, TypeOK
  <2> QED BY <1>9, <2>1, <2>2 DEF FinishEviction, TypeOK, supervisor
<1> QED BY <1>1, <1>2, <1>3, <1>4, <1>5, <1>6, <1>7, <1>8, <1>9 DEF WorkerStep

\* The probe and the eviction of the tick loop, the boot task's revival and a
\* supervisor's exit call keep the types.
LEMMA DaemonTypes ==
  ASSUME TypeOK, LocatorIsBound, row' \in Session,
         \/ Probe \/ ProbeSkip \/ Probed \/ Evict \/ Revive \/ Crash
         \/ \E g \in Gens : ExitCall(g)
  PROVE  TypeOK'
<1>w. "tick" \in Workers /\ "boot" \in Workers /\ "exit" \in Workers
  BY DEF Workers
<1>x. ASSUME NEW a \in Workers, NEW w \in Worker, worker' = [worker EXCEPT ![a] = w]
      PROVE  worker' \in [Workers -> Worker]
  BY <1>x DEF TypeOK
<1>t. ASSUME NEW a \in Workers, NEW pc \in WorkerPc, To(a, pc)
      PROVE  worker' \in [Workers -> Worker]
  <2>1. [Idle EXCEPT !.pc = pc] \in Worker
    BY StageType
  <2> QED BY <1>x, <1>t, <2>1 DEF To
<1>s. "stopping" \in WorkerPc /\ "replay" \in WorkerPc /\ "idle" \in WorkerPc
  BY DEF WorkerPc
<1>h. Hold(row) \in Held /\ Hold(row') \in Held /\ Idle \in Worker
  BY HoldType, InitialTypes DEF TypeOK
<1>1. CASE Probe
  <2> DEFINE t == worker["tick"]
  <2>1. t \in Worker
    BY <1>w DEF TypeOK
  <2>2. pty[bound[loc]] \in Pty
    BY <1>1 DEF Probe, Located, LocatorIsBound, TypeOK
  <2>3. SnapshotOf(pty[bound[loc]]) \in Snapshot
    BY <2>2, SnapshotType
  <2>4. \A out \in Outcome, obs \in Snapshot :
          [t EXCEPT !.pc = "probed", !.s = Hold(row), !.out = out, !.obs = obs] \in Worker
    BY <1>h, <2>1 DEF Worker, WorkerPc
  <2>5. \A out \in Outcome :
          [t EXCEPT !.pc = "probed", !.s = Hold(row), !.out = out] \in Worker
    BY <1>h, <2>1 DEF Worker, WorkerPc
  <2>6. PICK w \in Worker : worker' = [worker EXCEPT !["tick"] = w]
    <3>1. "ok" \in Outcome /\ "error" \in Outcome /\ "gone" \in Outcome
      BY DEF Outcome
    <3>2. \/ worker' = [worker EXCEPT !["tick"] =
                 [t EXCEPT !.pc = "probed", !.s = Hold(row), !.out = "ok",
                           !.obs = SnapshotOf(pty[bound[loc]])]]
          \/ worker' = [worker EXCEPT !["tick"] =
                 [t EXCEPT !.pc = "probed", !.s = Hold(row), !.out = "error"]]
          \/ worker' = [worker EXCEPT !["tick"] =
                 [t EXCEPT !.pc = "probed", !.s = Hold(row), !.out = "gone"]]
      BY <1>1 DEF Probe
    <3> HIDE DEF t
    <3> QED BY <2>3, <2>4, <2>5, <3>1, <3>2
  <2>7. worker' \in [Workers -> Worker]
    BY <1>w, <1>x, <2>6
  <2> QED BY <1>1, <2>7 DEF Probe, TypeOK, supervisor
<1>2. CASE ProbeSkip
  <2>1. worker' \in [Workers -> Worker]
    BY <1>2, <1>t, <1>s, <1>w DEF ProbeSkip
  <2> QED BY <1>2, <2>1 DEF ProbeSkip, TypeOK, supervisor
<1>3. CASE Probed
  <2>1. worker' \in [Workers -> Worker]
    BY <1>3, <1>t, <1>s, <1>w DEF Probed
  <2>2. engine' \in [Gens -> {"none", "live", "cancelled"}]
    BY <1>3, CancelledType DEF Probed, TypeOK
  <2> QED BY <1>3, <2>1, <2>2 DEF Probed, TypeOK, supervisor
<1>4. CASE Evict
  <2>1. [Idle EXCEPT !.pc = "asked", !.s = Hold(row')] \in Worker
    BY <1>h DEF Worker, WorkerPc
  <2>2. worker' \in [Workers -> Worker]
    BY <1>4, <1>x, <1>t, <1>s, <1>w, <2>1 DEF Evict
  <2> QED BY <1>4, <2>2 DEF Evict, TypeOK, supervisor
<1>5. CASE Revive
  <2>1. worker' \in [Workers -> Worker]
    BY <1>5, <1>t, <1>s, <1>w DEF Revive
  <2> DEFINE E == [Gens -> {"none", "live", "cancelled"}]
  <2>2. engine \in E
    BY DEF TypeOK
  <2>3. [engine EXCEPT ![adopted.gen] = IF @ = "none" THEN "live" ELSE @] \in E
    BY <2>2
  <2>4. engine' \in E
    BY <1>5, <2>2, <2>3 DEF Revive
  <2> QED BY <1>5, <2>1, <2>4 DEF Revive, TypeOK, supervisor
<1>6. CASE Crash
  <2>1. [Idle EXCEPT !.pc = "replay"] \in Worker
    BY <1>s, StageType
  <2>2. worker' \in [Workers -> Worker]
    BY <1>6, <1>h, <2>1 DEF Crash
  <2>3. /\ pres' \in [pc: {"idle", "apply"}, s: Held, obs: Snapshot]
        /\ op' \in [pc: {"idle", "terminate", "clear", "stop"}, kind: {"kill", "forget"},
                    s: Held]
        /\ launch' \in [pc: {"idle"}, g: {0}]
    BY <1>6, InitialTypes DEF Crash, NoPres, NoOp, NoLaunch
  <2>4. crashes' \in Nat /\ adopted' \in Held
        /\ engine' \in [Gens -> {"none", "live", "cancelled"}]
    BY <1>6, <1>h DEF Crash, TypeOK
  <2> QED BY <1>6, <2>2, <2>3, <2>4 DEF Crash, TypeOK, supervisor
<1>7. ASSUME NEW g \in Gens, ExitCall(g) PROVE TypeOK'
  <2>1. g \in Nat
    BY BoundsAssumption
  <2>2. [Idle EXCEPT !.pc = "lookup", !.g = g] \in Worker
    BY <1>h, <2>1 DEF Worker, WorkerPc
  <2>3. worker' \in [Workers -> Worker]
    BY <1>7, <1>x, <1>w, <2>2 DEF ExitCall, TypeOK
  <2> QED BY <1>7, <2>3 DEF ExitCall, TypeOK
<1> QED BY <1>1, <1>2, <1>3, <1>4, <1>5, <1>6, <1>7

\* The operator's kill and forget (session_end.rs) keep the types.
LEMMA OperatorTypes ==
  ASSUME TypeOK, row' \in Session, OpBegin \/ Operator PROVE TypeOK'
<1> DEFINE Op == [pc: {"idle", "terminate", "clear", "stop"}, kind: {"kill", "forget"},
                  s: Held]
           E == [Gens -> {"none", "live", "cancelled"}]
<1>h. Hold(row) \in Held /\ Hold(row') \in Held /\ NoOp \in Op /\ op \in Op
  BY HoldType, InitialTypes DEF TypeOK, NoOp
<1>1. CASE OpBegin
  <2>1. op' \in Op
    BY <1>1, <1>h DEF OpBegin
  <2>2. engine' \in E /\ ops' \in Nat
    BY <1>1, CancelledType DEF OpBegin, TypeOK
  <2> QED BY <1>1, <2>1, <2>2 DEF OpBegin, TypeOK, supervisor
<1>2. CASE OpTerminate
  <2>1. op' \in Op
    BY <1>2, <1>h DEF OpTerminate
  <2>2. ASSUME NEW p, NEW ok \in Successes
        PROVE  [pty EXCEPT ![p] = ChildGone(@, ok)] \in [Gens -> Pty]
    <3>1. p \in Gens => ChildGone(pty[p], ok) \in Pty
      BY PtyTypes DEF TypeOK
    <3> QED BY <3>1 DEF TypeOK
  <2>3. pty' \in [Gens -> Pty]
    BY <1>2, <2>2 DEF OpTerminate, TypeOK
  <2> QED BY <1>2, <2>1, <2>3 DEF OpTerminate, TypeOK
<1>3. CASE OpClear
  <2>1. op' \in Op
    BY <1>3, <1>h DEF OpClear
  <2>2. loc' \in Gens \cup {0}
    BY <1>3 DEF OpClear, Cleared, TypeOK
  <2> QED BY <1>3, <2>1, <2>2 DEF OpClear, TypeOK, supervisor
<1>4. CASE OpStop
  <2>1. op' \in Op
    BY <1>4, <1>h DEF OpStop
  <2>2. loc' \in Gens \cup {0} /\ engine' \in E
    BY <1>4, CancelledType DEF OpStop, TypeOK
  <2> QED BY <1>4, <2>1, <2>2 DEF OpStop, TypeOK, supervisor
<1> QED BY <1>1, <1>2, <1>3, <1>4 DEF Operator

-----------------------------------------------------------------------------
(* The invariant is inductive.                                             *)

\* Every step keeps a registered locator on a generation with an endpoint:
\* only a registration (bind_locators) sets either, and it sets both.
LEMMA LocatorStep == TypeOK /\ LocatorIsBound /\ [Next]_vars => LocatorIsBound'
<1> SUFFICES ASSUME TypeOK, LocatorIsBound, [Next]_vars PROVE LocatorIsBound'
  OBVIOUS
<1>0. loc' \in {0, loc} /\ bound' = bound => LocatorIsBound'
  BY DEF LocatorIsBound
<1>1. ASSUME NEW p \in Gens, RegisterEndpoint(p) PROVE LocatorIsBound'
  <2>1. PICK r : /\ r.gen \in Gens /\ loc' = r.gen
                 /\ bound' = [bound EXCEPT ![r.gen] = p]
    BY <1>1 DEF RegisterEndpoint
  <2>2. bound'[r.gen] = p
    BY <2>1 DEF TypeOK
  <2> QED BY <2>1, <2>2, BoundsAssumption DEF LocatorIsBound
<1>2. CASE Tick \/ Crash \/ Launch \/ Work
  <2>1. CASE Launch
    <3>1. CASE Register
      <4>1. launch.g \in Gens
        BY <3>1 DEF Register, TypeOK
      <4> QED BY <1>1, <3>1, <4>1 DEF Register
    <3> QED BY <2>1, <1>0, <1>1, <3>1
            DEF Launch, LaunchStep, Reserve, OpenFails, OpenEndpoint, HookRegister,
                RegisterFails
  <2>2. CASE Work
    BY <2>2, <1>0 DEF Work, Deliver, Enqueue, TurnStarted, TurnEnded
  <2> QED BY <2>1, <2>2, <1>2, <1>0 DEF Tick, Crash
<1>3. ASSUME NEW g \in Gens,
             Supervisor(g) \/ EngineExits(g) \/ PresentationCall(g) \/ ExitCall(g)
      PROVE  LocatorIsBound'
  BY <1>3, <1>0
     DEF Supervisor, Attach, Detach, DetachOf, ChildExits, SupervisorReports,
         SupervisorEnds, SupervisorVanishes, PresentationCall, ExitCall, EngineExits
<1>4. ASSUME NEW a \in Workers, WorkerStep(a) PROVE LocatorIsBound'
  BY <1>4, <1>0
     DEF WorkerStep, Replay, ReplayDone, ExitLookup, ExitSettle, ExitClear, ExitRemove,
         AdoptStopping, KillIfHeadless, FinishEviction, Cleared
<1>5. CASE TickStep \/ BootStep \/ ExitHandler
  <2>1. "tick" \in Workers /\ "boot" \in Workers /\ "exit" \in Workers
    BY DEF Workers
  <2> QED BY <2>1, <1>5, <1>0, <1>4
          DEF TickStep, BootStep, ExitHandler, Probe, ProbeSkip, Probed, Evict, Revive
<1>6. CASE OpBegin \/ Operator
  BY <1>6, <1>0 DEF OpBegin, Operator, OpTerminate, OpClear, OpStop, Cleared
<1>7. CASE PresentationApply \/ UNCHANGED vars
  BY <1>7, <1>0 DEF PresentationApply, vars
<1> QED BY <1>2, <1>3, <1>5, <1>6, <1>7 DEF Next

\* The initial state satisfies the invariant.
LEMMA InitInv == Init => IInv
<1> SUFFICES ASSUME Init PROVE IInv
  OBVIOUS
<1>1. /\ NoPres \in [pc: {"idle", "apply"}, s: Held, obs: Snapshot]
      /\ NoOp \in [pc: {"idle", "terminate", "clear", "stop"}, kind: {"kill", "forget"},
                   s: Held]
      /\ NoLaunch \in [pc: {"idle"}, g: {0}]
  BY InitialTypes DEF NoPres, NoOp, NoLaunch
<1>2. worker \in [Workers -> Worker]
  <2>1. "replay" \in WorkerPc
    BY DEF WorkerPc
  <2>2. [Idle EXCEPT !.pc = "replay"] \in Worker
    BY <2>1, StageType
  <2> QED BY <2>2, InitialTypes DEF Init
<1>3. NoPty \in Pty
  BY DEF NoPty, Pty, ExitStatus
<1>4. TypeOK
  BY <1>1, <1>2, <1>3, InitialTypes DEF Init, TypeOK
<1>5. RowInv(row)
  BY DEF Init, RowInv, NoSession
<1> QED BY <1>4, <1>5 DEF IInv, LocatorIsBound, Init

\* Every step preserves the invariant and moves the row only forward.
LEMMA StepInv == IInv /\ [Next]_vars => IInv' /\ RowMonotone(row, row')
<1> SUFFICES ASSUME IInv, [Next]_vars PROVE IInv' /\ RowMonotone(row, row')
  OBVIOUS
<1>1. TypeOK /\ RowInv(row) /\ LocatorIsBound
  BY DEF IInv
<1>2. RowStep(row, row')
  BY <1>1, RowSteps
<1>3. row' \in Session /\ RowInv(row') /\ RowMonotone(row, row')
  <2>1. row \in Session
    BY <1>1 DEF TypeOK
  <2> QED BY <2>1, <1>1, <1>2, RowStepSound
<1>4. LocatorIsBound'
  BY <1>1, LocatorStep
<1>5. TypeOK'
  <2>1. CASE UNCHANGED vars
    BY <1>1, <2>1 DEF vars, TypeOK, supervisor, daemon
  <2>2. CASE Tick \/ Work \/ PresentationApply
    BY <1>1, <1>3, <2>2, HandlerTypes
  <2>3. ASSUME NEW g \in Gens,
               Supervisor(g) \/ EngineExits(g) \/ PresentationCall(g) \/ ExitCall(g)
        PROVE  TypeOK'
    BY <1>1, <1>3, <2>3, SupervisorTypes, HandlerTypes, DaemonTypes
  <2>4. CASE TickStep \/ BootStep \/ ExitHandler
    <3>1. "tick" \in Workers /\ "boot" \in Workers /\ "exit" \in Workers
      BY DEF Workers
    <3> QED BY <1>1, <1>3, <2>4, <3>1, WorkerTypes, DaemonTypes
            DEF TickStep, BootStep, ExitHandler
  <2>5. CASE OpBegin \/ Operator
    BY <1>1, <1>3, <2>5, OperatorTypes
  <2>6. CASE Launch
    BY <1>1, <1>3, <2>6, LaunchTypes
  <2>7. CASE Crash
    BY <1>1, <1>3, <2>7, DaemonTypes
  <2> QED BY <2>1, <2>2, <2>3, <2>4, <2>5, <2>6, <2>7 DEF Next
<1> QED BY <1>3, <1>4, <1>5 DEF IInv

\* The strengthened invariant holds of every behaviour.
THEOREM Invariance == Spec => []IInv
  BY InitInv, StepInv, PTL DEF Spec

\* Whatever the interleaving of supervisors, daemon tasks, operator and
\* crashes, and however large the bounds, every variable keeps its type.
THEOREM TypeCorrect == Spec => []TypeOK
<1>1. IInv => TypeOK
  BY DEF IInv
<1> QED BY <1>1, Invariance, PTL

\* No reordering of presentation edges, turns, mail, probes and evictions
\* leaves an idle deadline armed on a row that is not running, headless and
\* idle: a session somebody is attached to, or that is working, is never due.
THEOREM DeadlineCorrect == Spec => []DeadlineOnlyWhenIdleHeadless
<1>1. IInv => DeadlineOnlyWhenIdleHeadless
  BY DEF IInv, RowInv, DeadlineOnlyWhenIdleHeadless
<1> QED BY <1>1, Invariance, PTL

\* The fences are monotone in every behaviour: the generation and the lifecycle
\* epoch never go back, nor does the attachment epoch within a generation, and
\* every change of the runtime state takes a new lifecycle epoch.
THEOREM FencesMonotone == Spec => EpochsMonotone
<1> DEFINE A == /\ row'.gen >= row.gen /\ row'.le >= row.le
                /\ row'.gen = row.gen => row'.ae >= row.ae
                /\ row'.rt # row.rt => row'.le > row.le
<1>1. RowMonotone(row, row') => A
  BY DEF RowMonotone
<1>2. IInv /\ [Next]_vars => [A]_vars
  BY <1>1, StepInv
<1> QED BY <1>2, Invariance, PTL DEF Spec, EpochsMonotone

\* Revocation is final in every behaviour: neither a launch, a registration, a
\* late exit report nor a restart gives a forgotten pubkey a new generation.
THEOREM RevocationFinal == Spec => RevokedForever
<1> DEFINE A == row.rec = "revoked" => row'.rec = "revoked" /\ row'.gen = row.gen
<1>1. RowMonotone(row, row') => A
  BY DEF RowMonotone
<1>2. IInv /\ [Next]_vars => [A]_vars
  BY <1>1, StepInv
<1> QED BY <1>2, Invariance, PTL DEF Spec, RevokedForever

-----------------------------------------------------------------------------
(* The process side: a stopped row has no live process, a pubkey never has  *)
(* two, and a row that carries a supervisor's epoch says what that          *)
(* supervisor says.  The three are proved together.  A generation is bound  *)
(* to its endpoint once; whoever stops a row knows that the endpoint of the *)
(* generation it holds has ended; and an endpoint that has ended stays so.  *)

\* A process of the pubkey is up.
Live(p) == pty[p].st = "live"

\* Generation g has an endpoint registered; and that endpoint's child is gone.
Registered(g) == g \in Gens /\ bound[g] # 0
Ended(g) == Registered(g) /\ ~Live(bound[g])

\* Observation o is one a supervisor p may have made: no newer than p is, and if
\* it is as new, it says what p says.
SeenOf(p, o) == o.ep <= p.ep /\ (o.ep = p.ep => (o.headed <=> p.clients > 0))

Seen(g, o) == Registered(g) /\ (Live(bound[g]) => SeenOf(pty[bound[g]], o))

\* The endpoint of generation g has gone through attachment epoch e.
Reached(g, e) == Registered(g) /\ (Live(bound[g]) => e <= pty[bound[g]].ep)

\* Generations beyond the row's have no process and no endpoint yet.
Untouched ==
  /\ row.gen <= MaxGen /\ (row.gen = 0 => row.rt = "stopped")
  /\ \A g \in Gens : g > row.gen => pty[g].st = "none" /\ bound[g] = 0

\* Endpoints are opened before they are registered, and engines, reports, calls and
\* notices come after that.
Opened ==
  /\ \A g \in Gens : /\ bound[g] # 0 => pty[bound[g]].st # "none"
                     /\ engine[g] # "none" => bound[g] # 0
  /\ loc # 0 => bound[loc] # 0
  /\ \A g \in report \cup calls : pty[g].st \in {"reported", "dead"}
  /\ \A n \in notices : /\ pty[n[1]].st # "none"
                        /\ Live(n[1]) => SeenOf(pty[n[1]], n[2])

\* A row whose generation has no endpoint has not been observed.
Unobserved ==
  ~Registered(row.gen) => row.pres = "unavailable" /\ row.ae = 0 /\ row.rt # "stopping"

\* The live process is the one the row's generation is bound to.
BoundIsLive ==
  \A p \in Gens : Live(p) /\ Registered(row.gen) => bound[row.gen] = p

Launching ==
  /\ launch.pc = "reserved" =>
       /\ launch.g = row.gen /\ bound[launch.g] = 0 /\ pty[launch.g].st = "none"
       /\ \A p \in Gens : ~Live(p)
       /\ row.rt # "stopped" \/ row.rec = "revoked"
  /\ launch.pc = "opened" =>
       /\ launch.g <= row.gen /\ bound[row.gen] \in {0, launch.g}
       /\ pty[launch.g].st # "none"
       /\ \A p \in Gens : Live(p) => p = launch.g

\* What a task that carries the row across an await knows of the runtime.
WorkerKnows(w) ==
  /\ w.pc = "lookup" => w.g \in Gens /\ pty[w.g].st \in {"reported", "dead"}
  /\ w.pc = "settle" => Ended(w.s.gen)
  /\ w.pc = "probed" =>
       /\ Registered(w.s.gen) /\ w.s.rt = "running"
       /\ w.out \notin {"ok", "error"} => Ended(w.s.gen)
       /\ w.out = "ok" => Seen(w.s.gen, w.obs)
  /\ w.pc \in {"asked", "finished"} => Reached(w.s.gen, w.s.ae)
  /\ w.pc = "finished" =>
       /\ w.out = "killed" => Ended(w.s.gen)
       /\ w.out = "changed" => Seen(w.s.gen, w.obs)

Knows ==
  /\ \A a \in Workers : WorkerKnows(worker[a])
  /\ pres.pc = "apply" => Seen(pres.s.gen, pres.obs)
  /\ op.pc = "clear" => Ended(op.s.gen)
  /\ op.pc = "stop" => op.s.rt = "stopped" \/ Ended(op.s.gen)
  /\ op.pc # "idle" =>
       /\ op.s.gen # 0 /\ op.s.gen <= row.gen
       /\ op.s.rt = "stopped" /\ op.s.gen = row.gen => row.rt = "stopped"

\* An engine is cancelled when its process is gone or its pubkey forgotten.
CancelledIsOver ==
  \A g \in Gens :
    engine[g] = "cancelled" /\ g = row.gen /\ row.rt # "stopped" /\ row.rec # "revoked"
    => Ended(g)

RuntimeInv ==
  /\ Untouched /\ Opened /\ Unobserved /\ BoundIsLive /\ Launching /\ Knows
  /\ CancelledIsOver /\ SingleRuntime /\ StoppedIsDead /\ PresentationAgreement

-----------------------------------------------------------------------------
(* Who changes what.                                                       *)

\* The tasks and requests that change each part of the state.
LEMMA Changes ==
  ASSUME [Next]_vars
  PROVE  /\ bound' # bound => Register \/ \E p \in Gens : HookRegister(p)
         /\ pty' # pty => \/ \E g \in Gens : Supervisor(g)
                          \/ OpenEndpoint \/ RegisterFails \/ OpTerminate
                          \/ \E a \in Workers : KillIfHeadless(a)
         /\ launch' # launch => Reserve \/ LaunchStep \/ Crash
         /\ pres' # pres => \/ \E g \in Gens : PresentationCall(g)
                            \/ PresentationApply \/ Crash
         /\ op' # op => OpBegin \/ Operator \/ Crash
         /\ row' # row => \/ Reserve \/ OpenFails \/ Register \/ RegisterFails \/ Enqueue
                          \/ \E g \in 1 .. row.gen : TurnStarted(g) \/ TurnEnded(g)
                          \/ \E g \in Gens : HookRegister(g) \/ EngineExits(g)
                          \/ \E a \in Workers : ExitSettle(a) \/ FinishEviction(a)
                          \/ PresentationApply \/ Probed \/ Evict \/ Revive \/ OpBegin
                          \/ OpStop
<1> USE DEF Next, Launch, LaunchStep, Work, WorkerStep, TickStep, BootStep, ExitHandler,
            Operator, Supervisor, Workers, vars, supervisor, daemon,
            Tick, Crash, Reserve, OpenFails, OpenEndpoint, Register, RegisterFails,
            HookRegister, Enqueue, Deliver, TurnStarted, TurnEnded, Attach, Detach, DetachOf,
            ChildExits, SupervisorReports, SupervisorEnds, SupervisorVanishes, EngineExits,
            PresentationCall, ExitCall, PresentationApply, Replay, ReplayDone, ExitLookup,
            ExitSettle, ExitClear, ExitRemove, AdoptStopping, KillIfHeadless,
            FinishEviction, Probe, ProbeSkip, Probed, Evict, Revive, OpBegin, OpTerminate,
            OpClear, OpStop
<1>1. bound' # bound => Register \/ \E p \in Gens : HookRegister(p)
  OBVIOUS
<1>2. pty' # pty => \/ \E g \in Gens : Supervisor(g)
                    \/ OpenEndpoint \/ RegisterFails \/ OpTerminate
                    \/ \E a \in Workers : KillIfHeadless(a)
  OBVIOUS
<1>3. launch' # launch => Reserve \/ LaunchStep \/ Crash
  OBVIOUS
<1>4. pres' # pres => \/ \E g \in Gens : PresentationCall(g)
                      \/ PresentationApply \/ Crash
  OBVIOUS
<1>5. op' # op => OpBegin \/ Operator \/ Crash
  OBVIOUS
<1>6. row' # row => \/ Reserve \/ OpenFails \/ Register \/ RegisterFails \/ Enqueue
                    \/ \E g \in 1 .. row.gen : TurnStarted(g) \/ TurnEnded(g)
                    \/ \E g \in Gens : HookRegister(g) \/ EngineExits(g)
                    \/ \E a \in Workers : ExitSettle(a) \/ FinishEviction(a)
                    \/ PresentationApply \/ Probed \/ Evict \/ Revive \/ OpBegin
                    \/ OpStop
  OBVIOUS
<1> QED BY <1>1, <1>2, <1>3, <1>4, <1>5, <1>6

\* The reducers give a row a new generation only by reserving it, never restart one
\* that is stopped, and start the eviction of a headless row only.
LEMMA RowEdges ==
  ASSUME NEW r \in Session, NEW q, RowStep(r, q)
  PROVE  /\ q.gen # r.gen => q = ReserveGeneration(r) /\ CanReserve(r)
         /\ q.gen = r.gen /\ r.rt = "stopped" => q.rt = "stopped"
         /\ q.rt = "stopping" => q.gen = r.gen /\ (r.rt = "stopping" \/ r.pres = "headless")
         /\ q.rec # "revoked" => r.rec # "revoked"
<1> DEFINE Good == /\ q.gen # r.gen => q = ReserveGeneration(r) /\ CanReserve(r)
                   /\ q.gen = r.gen /\ r.rt = "stopped" => q.rt = "stopped"
                   /\ q.rt = "stopping" =>
                        q.gen = r.gen /\ (r.rt = "stopping" \/ r.pres = "headless")
                   /\ q.rec # "revoked" => r.rec # "revoked"
<1>0. q = r => Good
  OBVIOUS
<1>1. ASSUME CanReserve(r), q = ReserveGeneration(r) PROVE Good
  BY <1>1 DEF CanReserve, ReserveGeneration, Session
<1>2. ASSUME NEW g \in Nat, NEW why, q = MarkRuntimeStopped(r, g, why) PROVE Good
  BY <1>2 DEF MarkRuntimeStopped, Stopped, Session
<1>3. ASSUME NEW g, NEW e, NEW p, NEW t, q = ApplyPresentationEdge(r, g, e, p, t) PROVE Good
  BY <1>3 DEF ApplyPresentationEdge, Session
<1>4. ASSUME NEW g, NEW le, NEW e, NEW p, NEW t, q = CancelEviction(r, g, le, e, p, t)
      PROVE  Good
  BY <1>4 DEF CancelEviction, Session
<1>5. ASSUME NEW g, NEW e, q = MarkPresentationUnavailable(r, g, e) PROVE Good
  BY <1>5 DEF MarkPresentationUnavailable, Session
<1>6. ASSUME NEW h, NEW e, NEW b, NEW t, q = ApplyObservation(r, h, e, b, t) PROVE Good
  <2>1. \/ q = r
        \/ \E p : q = ApplyPresentationEdge(r, h.gen, e, p, t)
        \/ \E p : q = CancelEviction(r, h.gen, h.le, e, p, t)
    BY <1>6 DEF ApplyObservation
  <2> HIDE DEF Good
  <2> QED BY <1>0, <1>3, <1>4, <2>1
<1>7. ASSUME NEW h, NEW t, q = RecordControlUnavailable(r, h, t) PROVE Good
  <2>1. \/ q = r \/ q = MarkPresentationUnavailable(r, h.gen, h.ae)
        \/ q = CancelEviction(r, h.gen, h.le, h.ae, "unavailable", t)
    BY <1>7 DEF RecordControlUnavailable
  <2> HIDE DEF Good
  <2> QED BY <1>0, <1>4, <1>5, <2>1
<1>8. ASSUME NEW g, NEW t, q = ApplyTurnStarted(r, g) \/ q = ApplyTurnEnded(r, g, t)
      PROVE  Good
  BY <1>8 DEF ApplyTurnStarted, ApplyTurnEnded, Session
<1>9. ASSUME q = CancelDeadlineForWork(r) PROVE Good
  BY <1>9 DEF CancelDeadlineForWork, Session
<1>10. ASSUME NEW t, NEW busy, EvictionDue(r, t, busy), q = ReserveEviction(r) PROVE Good
  BY <1>10 DEF EvictionDue, ReserveEviction, Session
<1>11. ASSUME NEW g, NEW le, q = FinalizeRuntimeStopped(r, g, le) PROVE Good
  BY <1>11 DEF FinalizeRuntimeStopped, Stopped, Session
<1>12. ASSUME NEW g, q = RevokeRecovery(r, g) \/ q = FinalizeRevocation(r, g) PROVE Good
  BY <1>12 DEF RevokeRecovery, FinalizeRevocation, Stopped, Session
<1> HIDE DEF Good
<1>13. Good
  BY <1>0, <1>1, <1>2, <1>6, <1>7, <1>8, <1>9, <1>10, <1>11, <1>12 DEF RowStep
<1> QED BY <1>13 DEF Good

-----------------------------------------------------------------------------
(* Processes and endpoints.                                                *)

\* What a step may do to the supervisor of generation p: nothing, a change of its
\* client set (which takes a new epoch), an end, or the start the launch reserved.
PtyStep(p) ==
  \/ pty'[p] = pty[p]
  \/ Live(p) /\ Live(p)' /\ pty'[p].ep > pty[p].ep
  \/ /\ pty[p].st # "none" /\ pty'[p].st \notin {"none", "live"}
     /\ pty[p].st \in {"reported", "dead"} => pty'[p].st \in {"reported", "dead"}
  \/ OpenEndpoint /\ p = launch.g

\* A child that is gone leaves its supervisor exiting, an ended supervisor is dead.
LEMMA Ends ==
  ASSUME NEW r \in Pty, NEW ok
  PROVE  ChildGone(r, ok).st = "exiting" /\ Gone(r).st = "dead"
<1>1. ChildGone(r, ok).st = "exiting"
  BY DEF ChildGone, Pty
<1>2. Gone(r).st = "dead"
  BY DEF Gone, NoPty
<1> QED BY <1>1, <1>2

\* A supervisor only goes through its states, and starts only as reserved.
LEMMA PtySteps ==
  ASSUME TypeOK, [Next]_vars, NEW p \in Gens PROVE PtyStep(p)
<1>0. pty \in [Gens -> Pty] /\ pty[p] \in Pty
  BY DEF TypeOK
<1>1. ASSUME NEW g, pty' = [pty EXCEPT ![g] = ChildGone(pty[g], TRUE)] \/
                    pty' = [pty EXCEPT ![g] = ChildGone(pty[g], FALSE)],
             pty[g].st = "live"
      PROVE  PtyStep(p)
  <2>1. CASE p = g
    <3>1. pty'[p].st = "exiting"
      BY <1>0, <1>1, <2>1, Ends
    <3> QED BY <1>1, <2>1, <3>1 DEF PtyStep
  <2>2. CASE p # g
    BY <1>0, <1>1, <2>2 DEF PtyStep
  <2> QED BY <2>1, <2>2
<1>2. ASSUME NEW g, \E ok \in Successes : pty' = [pty EXCEPT ![g] = ChildGone(@, ok)],
             pty[g].st = "live"
      PROVE  PtyStep(p)
  BY <1>1, <1>2, BoundsAssumption
<1>3. ASSUME NEW g \in Gens, Attach(g) PROVE PtyStep(p)
  <2>1. /\ pty[g].st = "live"
        /\ pty' = [pty EXCEPT ![g] = [pty[g] EXCEPT !.clients = @ + 1, !.ep = @ + 1, !.at = now]]
    BY <1>3 DEF Attach
  <2>2. CASE p = g
    BY <1>0, <2>1, <2>2 DEF PtyStep, Live, Pty
  <2>3. CASE p # g
    BY <1>0, <2>1, <2>3 DEF PtyStep
  <2> QED BY <2>2, <2>3
<1>4. ASSUME NEW g \in Gens, Detach(g) PROVE PtyStep(p)
  <2>1. PICK k \in 1 .. pty[g].clients :
          pty' = [pty EXCEPT ![g] = [pty[g] EXCEPT !.clients = @ - k, !.ep = @ + k, !.at = now]]
    BY <1>4 DEF Detach, DetachOf
  <2>2. pty[g].st = "live" /\ pty[g].clients \in Nat
    BY <1>4, <1>0 DEF Detach, DetachOf, Pty
  <2>3. CASE p = g
    BY <1>0, <2>1, <2>2, <2>3 DEF PtyStep, Live, Pty
  <2>4. CASE p # g
    BY <1>0, <2>1, <2>4 DEF PtyStep
  <2> QED BY <2>3, <2>4
<1>5. ASSUME NEW g \in Gens, SupervisorReports(g) \/ SupervisorEnds(g) \/ SupervisorVanishes(g)
      PROVE  PtyStep(p)
  <2>1. CASE p = g
    <3>1. pty[p].st # "none" /\ pty'[p].st \in {"reported", "dead"}
      BY <1>0, <1>5, <2>1, Ends DEF SupervisorReports, SupervisorEnds, SupervisorVanishes,
         Pty
    <3> QED BY <3>1 DEF PtyStep
  <2>2. CASE p # g
    BY <1>0, <1>5, <2>2 DEF SupervisorReports, SupervisorEnds, SupervisorVanishes, PtyStep
  <2> QED BY <2>1, <2>2
<1>6. CASE OpenEndpoint
  BY <1>0, <1>6 DEF OpenEndpoint, PtyStep
<1>7. CASE RegisterFails
  BY <1>1, <1>7 DEF RegisterFails, PtyStep
<1>8. CASE OpTerminate
  BY <1>2, <1>8 DEF OpTerminate, PtyStep
<1>9. ASSUME NEW a \in Workers, KillIfHeadless(a) PROVE PtyStep(p)
  BY <1>2, <1>9 DEF KillIfHeadless, KillableHeadless, PtyStep
<1>10. CASE pty' = pty
  BY <1>10 DEF PtyStep
<1>11. ASSUME NEW g \in Gens, ChildExits(g) PROVE PtyStep(p)
  BY <1>2, <1>11 DEF ChildExits
<1> QED BY <1>3, <1>4, <1>5, <1>6, <1>7, <1>8, <1>9, <1>10, <1>11, Changes DEF Supervisor

\* The registration of endpoint p: the generation it goes to had none, or p.
LEMMA Registration ==
  ASSUME TypeOK, RuntimeInv, NEW p \in Gens, RegisterEndpoint(p),
         \/ Live(p)
         \/ launch.pc = "opened" /\ p = launch.g
  PROVE  /\ row'.gen \in Gens /\ bound[row'.gen] \in {0, p}
         /\ bound' = [bound EXCEPT ![row'.gen] = p] /\ bound'[row'.gen] = p
         /\ \A q \in Gens : Live(q) => q = p
         /\ row' = row \/ row' = ReserveGeneration(row)
         /\ row'.rt = "running" /\ pty[p].st # "none"
<1>0. /\ row \in Session /\ bound \in [Gens -> Gens \cup {0}] /\ row.gen \in Nat
      /\ launch.pc = "opened" => launch.g \in Gens
  BY DEF TypeOK, Session
<1>1. \A q \in Gens : Live(q) => q = p
  BY DEF RuntimeInv, SingleRuntime, Launching, Live
<1>2. /\ row'.gen \in Gens /\ bound' = [bound EXCEPT ![row'.gen] = p]
      /\ row' = row \/ row' = ReserveGeneration(row)
  BY DEF RegisterEndpoint
<1>3. row'.rt = "running"
  BY <1>0 DEF RegisterEndpoint, CanRegister, ReserveGeneration, Session
<1>4. bound[row'.gen] \in {0, p}
  <2>1. CASE row' = row
    BY <1>0, <1>2, <2>1 DEF RuntimeInv, BoundIsLive, Launching, Registered
  <2>2. CASE row' = ReserveGeneration(row)
    <3>1. row'.gen > row.gen
      BY <1>0, <2>2 DEF ReserveGeneration, Session
    <3> QED BY <1>2, <3>1 DEF RuntimeInv, Untouched
  <2> QED BY <1>2, <2>1, <2>2
<1>5. pty[p].st # "none"
  BY DEF RuntimeInv, Launching, Live
<1> QED BY <1>0, <1>1, <1>2, <1>3, <1>4, <1>5

\* A registration, by the launch or by the harness's own hook.
Binds(p) ==
  /\ RegisterEndpoint(p)
  /\ Live(p) \/ (launch.pc = "opened" /\ p = launch.g)
  /\ UNCHANGED <<pty, report, calls, notices, worker, pres, op>>

\* Nothing but a registration binds an endpoint.
LEMMA Bindings ==
  ASSUME TypeOK, [Next]_vars
  PROVE  /\ bound' = bound \/ \E p \in Gens : Binds(p)
         /\ Register => \E p \in Gens : Binds(p)
         /\ \A p \in Gens : HookRegister(p) => Binds(p)
<1>1. Register => \E p \in Gens : Binds(p)
  <2> SUFFICES ASSUME Register PROVE Binds(launch.g) /\ launch.g \in Gens
    OBVIOUS
  <2> QED BY DEF Register, Binds, TypeOK, supervisor
<1>2. \A p \in Gens : HookRegister(p) => Binds(p)
  BY DEF HookRegister, Binds, Live, supervisor
<1> QED BY <1>1, <1>2, Changes

\* An endpoint is registered at most once per generation: no step binds a
\* generation to another one.
LEMMA BoundOnce ==
  ASSUME TypeOK, RuntimeInv, [Next]_vars, NEW g \in Gens, bound[g] # 0
  PROVE  bound'[g] = bound[g]
<1>0. bound \in [Gens -> Gens \cup {0}]
  BY DEF TypeOK
<1>1. ASSUME NEW p \in Gens, Binds(p) PROVE bound'[g] = bound[g]
  BY <1>0, <1>1, Registration DEF Binds
<1> QED BY <1>1, Bindings

\* What a task knows of an endpoint stays true: a registered generation stays
\* registered, an ended endpoint stays ended, an observation stays one.
LEMMA Knowledge ==
  ASSUME TypeOK, TypeOK', RuntimeInv, [Next]_vars, NEW g
  PROVE  /\ Registered(g) => Registered(g)' /\ bound'[g] = bound[g]
         /\ Ended(g) => Ended(g)'
         /\ \A o \in Snapshot : Seen(g, o) => Seen(g, o)'
         /\ \A e \in Nat : Reached(g, e) => Reached(g, e)'
<1> SUFFICES ASSUME Registered(g)
             PROVE  /\ Registered(g)' /\ bound'[g] = bound[g]
                    /\ Ended(g) => Ended(g)'
                    /\ \A o \in Snapshot : Seen(g, o) => Seen(g, o)'
                    /\ \A e \in Nat : Reached(g, e) => Reached(g, e)'
  BY DEF Ended, Seen, Reached
<1>0. g \in Gens /\ bound[g] # 0 /\ bound[g] \in Gens /\ bound'[g] = bound[g]
  BY BoundOnce DEF Registered, TypeOK
<1>1. Registered(g)'
  BY <1>0 DEF Registered
<1>2. PICK p \in Gens : p = bound[g]
  BY <1>0
<1>3. /\ pty[p].ep \in Nat /\ pty'[p].ep \in Nat /\ pty[p].st # "none"
  BY <1>0, <1>2 DEF TypeOK, Pty, RuntimeInv, Opened
<1>4. ~(OpenEndpoint /\ p = launch.g)
  BY <1>3 DEF OpenEndpoint, RuntimeInv, Launching
<1>5. \/ pty'[p] = pty[p]
      \/ Live(p) /\ Live(p)' /\ pty'[p].ep > pty[p].ep
      \/ ~Live(p)'
  BY <1>4, PtySteps DEF PtyStep, Live
<1>6. /\ Ended(g) <=> ~Live(p)
      /\ Ended(g)' <=> ~Live(p)'
      /\ \A o : Seen(g, o) <=> (Live(p) => SeenOf(pty[p], o))
      /\ \A o : Seen(g, o)' <=> (Live(p)' => SeenOf(pty'[p], o))
      /\ \A e : Reached(g, e) <=> (Live(p) => e <= pty[p].ep)
      /\ \A e : Reached(g, e)' <=> (Live(p)' => e <= pty'[p].ep)
  BY <1>0, <1>1, <1>2 DEF Ended, Seen, Live, Reached
<1>7. Ended(g) => Ended(g)'
  BY <1>5, <1>6 DEF Live
<1>8. ASSUME NEW o \in Snapshot, Seen(g, o) PROVE Seen(g, o)'
  <2>0. o.ep \in Nat
    BY DEF Snapshot
  <2>1. CASE pty'[p] = pty[p]
    BY <1>6, <1>8, <2>1 DEF Live
  <2>2. CASE Live(p) /\ pty'[p].ep > pty[p].ep
    BY <1>3, <1>6, <1>8, <2>0, <2>2 DEF SeenOf
  <2>3. CASE ~Live(p)'
    BY <1>6, <2>3
  <2> QED BY <1>5, <2>1, <2>2, <2>3
<1>9. ASSUME NEW e \in Nat, Reached(g, e) PROVE Reached(g, e)'
  BY <1>3, <1>5, <1>6, <1>9 DEF Live
<1> QED BY <1>0, <1>1, <1>7, <1>8, <1>9

-----------------------------------------------------------------------------
(* The row.                                                                *)

\* A step that observes nothing new: presentation and epoch stay, or the
\* presentation becomes unknown.
Dims(r, q) == q.gen = r.gen /\ q.ae = r.ae /\ q.pres \in {r.pres, "unavailable"}

\* Stops, turns, mail, revocation and a control channel lost while running observe
\* nothing.
LEMMA DimReducers ==
  ASSUME NEW r \in Session, NEW q, NEW g, NEW t,
         \/ \E why : q = MarkRuntimeStopped(r, g, why)
         \/ \E le : q = FinalizeRuntimeStopped(r, g, le)
         \/ q = ApplyTurnStarted(r, g) \/ q = ApplyTurnEnded(r, g, t)
         \/ q = CancelDeadlineForWork(r) \/ q = ReserveEviction(r)
         \/ q = RevokeRecovery(r, g) \/ q = FinalizeRevocation(r, g)
         \/ \E e : q = MarkPresentationUnavailable(r, g, e)
         \/ q = r
  PROVE  Dims(r, q)
<1>1. ASSUME NEW why, q = Stopped(r, why) PROVE Dims(r, q)
  BY <1>1 DEF Stopped, Dims, Session
<1>2. CASE q = r
  BY <1>2 DEF Dims
<1>3. CASE \/ \E why : q = MarkRuntimeStopped(r, g, why)
           \/ \E le : q = FinalizeRuntimeStopped(r, g, le)
           \/ q = FinalizeRevocation(r, g)
  BY <1>1, <1>2, <1>3 DEF MarkRuntimeStopped, FinalizeRuntimeStopped, FinalizeRevocation
<1>4. CASE q = ApplyTurnStarted(r, g) \/ q = ApplyTurnEnded(r, g, t)
  BY <1>4 DEF ApplyTurnStarted, ApplyTurnEnded, Dims, Session
<1>5. CASE q = CancelDeadlineForWork(r) \/ q = ReserveEviction(r) \/ q = RevokeRecovery(r, g)
  BY <1>5 DEF CancelDeadlineForWork, ReserveEviction, RevokeRecovery, Dims, Session
<1>6. CASE \E e : q = MarkPresentationUnavailable(r, g, e)
  BY <1>6 DEF MarkPresentationUnavailable, Dims, Session
<1> QED BY <1>2, <1>3, <1>4, <1>5, <1>6

\* An observation o is written into the row of its generation as it is.
Writes(r, q, o) ==
  q.gen = r.gen /\ q.ae = o.ep /\ q.pres = IF o.headed THEN "headed" ELSE "headless"

\* What presentation::apply does with the snapshot a caller holds.
LEMMA ObservationEffect ==
  ASSUME NEW r \in Session, NEW q, NEW h, NEW o,
         q = ApplyObservation(r, h, o.ep, o.headed, o.at)
  PROVE  /\ q = r \/ (h.gen = r.gen /\ Writes(r, q, o))
         /\ q.rt = "stopped" => r.rt = "stopped"
<1> DEFINE p == IF o.headed THEN "headed" ELSE "headless"
<1>1. \/ q = r
      \/ q = ApplyPresentationEdge(r, h.gen, o.ep, p, o.at)
      \/ q = CancelEviction(r, h.gen, h.le, o.ep, p, o.at)
  BY DEF ApplyObservation
<1>2. CASE q = ApplyPresentationEdge(r, h.gen, o.ep, p, o.at)
  BY <1>2 DEF ApplyPresentationEdge, Owns, Writes, Session
<1>3. CASE q = CancelEviction(r, h.gen, h.le, o.ep, p, o.at)
  BY <1>3 DEF CancelEviction, Writes, Session
<1> QED BY <1>1, <1>2, <1>3

\* What a lost control channel does to the row.
LEMMA ControlLossEffect ==
  ASSUME NEW r \in Session, NEW q, NEW h, NEW t, q = RecordControlUnavailable(r, h, t)
  PROVE  /\ \/ Dims(r, q)
            \/ /\ h.rt = "stopping" /\ h.gen = r.gen /\ q.gen = r.gen /\ q.ae = h.ae
               /\ q.pres = "unavailable"
         /\ q.rt = "stopped" => r.rt = "stopped"
<1>1. CASE h.rt = "running"
  <2>1. q = MarkPresentationUnavailable(r, h.gen, h.ae)
    BY <1>1 DEF RecordControlUnavailable
  <2>2. Dims(r, q)
    BY <2>1, DimReducers
  <2> QED BY <2>1, <2>2 DEF MarkPresentationUnavailable, Session
<1>2. CASE h.rt = "stopping"
  <2>1. q = CancelEviction(r, h.gen, h.le, h.ae, "unavailable", t)
    BY <1>2 DEF RecordControlUnavailable
  <2> QED BY <1>2, <2>1 DEF CancelEviction, Dims, Session
<1>3. CASE h.rt \notin {"running", "stopping"}
  BY <1>3 DEF RecordControlUnavailable, Dims
<1> QED BY <1>1, <1>2, <1>3

\* The ways a step changes the row: a new generation, nothing observed, or an
\* observation of the endpoint that the row's generation is bound to.
LEMMA RowKinds ==
  ASSUME TypeOK, RuntimeInv, [Next]_vars
  PROVE  \/ Reserve
         \/ \E p \in Gens : Binds(p)
         \/ Dims(row, row')
         \/ \E o \in Snapshot : Seen(row.gen, o) /\ Writes(row, row', o)
         \/ \E e \in Nat : /\ Reached(row.gen, e) /\ row'.gen = row.gen
                           /\ row'.ae = e /\ row'.pres = "unavailable"
<1> DEFINE Kinds == \/ Reserve
                    \/ \E p \in Gens : Binds(p)
                    \/ Dims(row, row')
                    \/ \E o \in Snapshot : Seen(row.gen, o) /\ Writes(row, row', o)
                    \/ \E e \in Nat : /\ Reached(row.gen, e) /\ row'.gen = row.gen
                                      /\ row'.ae = e /\ row'.pres = "unavailable"
<1>0. /\ row \in Session /\ pres.obs \in Snapshot /\ Dims(row, row)
      /\ \A a \in Workers : /\ worker[a].obs \in Snapshot /\ worker[a].s.ae \in Nat
                            /\ WorkerKnows(worker[a])
  BY DEF TypeOK, Worker, Held, RuntimeInv, Knows, Dims
<1>1. CASE Register
  BY <1>1, Bindings
<1>2. CASE \E p \in Gens : HookRegister(p)
  BY <1>2, Bindings
<1>3. CASE OpenFails \/ RegisterFails
  BY <1>0, <1>3, DimReducers DEF OpenFails, RegisterFails
<1>4. CASE Enqueue \/ \E g \in 1 .. row.gen : TurnStarted(g) \/ TurnEnded(g)
  BY <1>0, <1>4, DimReducers DEF Enqueue, TurnStarted, TurnEnded
<1>5. CASE \E g \in Gens : EngineExits(g)
  BY <1>0, <1>5, DimReducers DEF EngineExits
<1>6. ASSUME NEW h, NEW o \in Snapshot, Seen(h.gen, o),
             row' = ApplyObservation(row, h, o.ep, o.headed, o.at)
      PROVE  Kinds
  BY <1>0, <1>6, ObservationEffect
<1>7. CASE PresentationApply
  <2>1. Seen(pres.s.gen, pres.obs)
    BY <1>7 DEF PresentationApply, RuntimeInv, Knows
  <2> QED BY <1>0, <1>6, <1>7, <2>1 DEF PresentationApply
<1>8. ASSUME NEW a \in Workers, ExitSettle(a) PROVE Kinds
  <2>1. \/ row' = FinalizeRuntimeStopped(row, worker[a].s.gen, worker[a].s.le)
        \/ row' = MarkRuntimeStopped(row, worker[a].s.gen, ExitReason(pty[worker[a].g]))
        \/ row' = row
    BY <1>8 DEF ExitSettle
  <2> QED BY <1>0, <2>1, DimReducers
<1>9. CASE Probed
  <2> DEFINE w == worker["tick"]
  <2>0. "tick" \in Workers /\ w.pc = "probed" /\ WorkerKnows(w) /\ w.obs \in Snapshot
    BY <1>0, <1>9 DEF Probed, Workers
  <2>1. \/ w.out = "ok" /\ row' = ApplyObservation(row, w.s, w.obs.ep, w.obs.headed, w.obs.at)
        \/ row' = RecordControlUnavailable(row, w.s, now)
        \/ row' = MarkRuntimeStopped(row, w.s.gen, "crash")
    BY <1>9 DEF Probed
  <2>2. (w.out = "ok" => Seen(w.s.gen, w.obs)) /\ w.s.rt = "running"
    BY <2>0 DEF WorkerKnows
  <2> HIDE DEF w
  <2>3. CASE row' = RecordControlUnavailable(row, w.s, now)
    BY <1>0, <2>2, <2>3, ControlLossEffect
  <2> QED BY <1>0, <1>6, <2>0, <2>1, <2>2, <2>3, DimReducers
<1>10. ASSUME NEW a \in Workers, FinishEviction(a) PROVE Kinds
  <2> DEFINE w == worker[a]
  <2>0. w.pc = "finished" /\ WorkerKnows(w) /\ w.obs \in Snapshot /\ w.s.ae \in Nat
    BY <1>0, <1>10 DEF FinishEviction
  <2>1. \/ row' = FinalizeRuntimeStopped(row, w.s.gen, w.s.le)
        \/ w.out = "changed" /\ row' = ApplyObservation(row, w.s, w.obs.ep, w.obs.headed, w.obs.at)
        \/ row' = RecordControlUnavailable(row, w.s, now)
    BY <1>10 DEF FinishEviction
  <2>2. (w.out = "changed" => Seen(w.s.gen, w.obs)) /\ Reached(w.s.gen, w.s.ae)
    BY <2>0 DEF WorkerKnows
  <2> HIDE DEF w
  <2>3. CASE row' = RecordControlUnavailable(row, w.s, now)
    BY <1>0, <2>0, <2>2, <2>3, ControlLossEffect
  <2> QED BY <1>0, <1>6, <2>0, <2>1, <2>2, <2>3, DimReducers
<1>11. CASE Evict
  BY <1>0, <1>11, DimReducers DEF Evict
<1>12. CASE Revive
  <2>1. \/ row' = row
        \/ row' = MarkRuntimeStopped(row, adopted.gen, "crash")
        \/ adopted.rt = "running" /\ row' = RecordControlUnavailable(row, adopted, now)
    BY <1>12 DEF Revive
  <2>2. CASE adopted.rt = "running" /\ row' = RecordControlUnavailable(row, adopted, now)
    BY <1>0, <2>2, ControlLossEffect
  <2> QED BY <1>0, <2>1, <2>2, DimReducers
<1>13. CASE OpBegin \/ OpStop
  BY <1>0, <1>13, DimReducers DEF OpBegin, OpStop
<1> HIDE DEF Kinds
<1>14. CASE row' = row
  BY <1>0, <1>14 DEF Kinds
<1>15. Kinds
  BY <1>1, <1>2, <1>3, <1>4, <1>5, <1>7, <1>8, <1>9, <1>10, <1>11, <1>12, <1>13, <1>14, Changes
  DEF Kinds
<1> QED BY <1>15 DEF Kinds

\* Whoever stops a session that is not forgotten is the launch that gives up, or
\* knows that the endpoint of the row's generation has ended.
LEMMA Stops ==
  ASSUME TypeOK, RuntimeInv, [Next]_vars, row.rt # "stopped", row'.rt = "stopped",
         row'.rec # "revoked"
  PROVE  OpenFails \/ RegisterFails \/ Ended(row.gen)
<1>0. /\ row \in Session /\ row' # row
      /\ \A a \in Workers : WorkerKnows(worker[a])
  BY DEF TypeOK, RuntimeInv, Knows
<1>1. ASSUME NEW p, RegisterEndpoint(p) PROVE FALSE
  BY <1>0, <1>1 DEF RegisterEndpoint, CanRegister, ReserveGeneration, Session
<1>2. ASSUME Reserve \/ Enqueue \/ OpBegin
             \/ \E g \in 1 .. row.gen : TurnStarted(g) \/ TurnEnded(g)
      PROVE  FALSE
  BY <1>0, <1>2 DEF Reserve, Enqueue, OpBegin, TurnStarted, TurnEnded, ReserveGeneration,
     CancelDeadlineForWork, RevokeRecovery, ApplyTurnStarted, ApplyTurnEnded, Session
<1>3. ASSUME NEW g, NEW why, row' = MarkRuntimeStopped(row, g, why)
      PROVE  g = row.gen /\ row.rt = "running" /\ row.rec # "revoked"
  BY <1>0, <1>3 DEF MarkRuntimeStopped, Owns, Stopped, Session
<1>4. ASSUME NEW g, NEW le, row' = FinalizeRuntimeStopped(row, g, le) PROVE g = row.gen
  BY <1>0, <1>4 DEF FinalizeRuntimeStopped, FinalizeApplies
<1>o. ASSUME NEW h, NEW o, row' = ApplyObservation(row, h, o.ep, o.headed, o.at) PROVE FALSE
  BY <1>0, <1>o, ObservationEffect
<1>c. ASSUME NEW h, NEW t, row' = RecordControlUnavailable(row, h, t) PROVE FALSE
  BY <1>0, <1>c, ControlLossEffect
<1>5. CASE \E g \in Gens : EngineExits(g)
  <2>1. PICK g \in Gens : EngineExits(g)
    BY <1>5
  <2>2. g = row.gen /\ row.rt = "running" /\ row.rec # "revoked"
    BY <1>3, <2>1 DEF EngineExits
  <2>3. CASE engine[g] = "cancelled"
    BY <2>2, <2>3 DEF RuntimeInv, CancelledIsOver
  <2>4. CASE engine[g] = "live" /\ ~PidAlive(g)
    BY <2>2, <2>4 DEF RuntimeInv, Opened, PidAlive, Ended, Registered, Live
  <2> QED BY <2>1, <2>3, <2>4 DEF EngineExits
<1>6. CASE PresentationApply
  BY <1>o, <1>6 DEF PresentationApply
<1>7. ASSUME NEW a \in Workers, ExitSettle(a) PROVE Ended(row.gen)
  <2>1. \/ row' = FinalizeRuntimeStopped(row, worker[a].s.gen, worker[a].s.le)
        \/ row' = MarkRuntimeStopped(row, worker[a].s.gen, ExitReason(pty[worker[a].g]))
    BY <1>0, <1>7 DEF ExitSettle
  <2>2. Ended(worker[a].s.gen)
    BY <1>0, <1>7 DEF ExitSettle, WorkerKnows
  <2> QED BY <1>3, <1>4, <2>1, <2>2
<1>8. CASE Probed
  <2> DEFINE w == worker["tick"]
  <2>0. "tick" \in Workers /\ w.pc = "probed" /\ WorkerKnows(w)
    BY <1>0, <1>8 DEF Probed, Workers
  <2>1. \/ row' = ApplyObservation(row, w.s, w.obs.ep, w.obs.headed, w.obs.at)
        \/ row' = RecordControlUnavailable(row, w.s, now)
        \/ /\ w.out \notin {"ok", "error"}
           /\ row' = MarkRuntimeStopped(row, w.s.gen, "crash")
    BY <1>8 DEF Probed
  <2>2. w.out \notin {"ok", "error"} => Ended(w.s.gen)
    BY <2>0 DEF WorkerKnows
  <2> HIDE DEF w
  <2> QED BY <1>3, <1>o, <1>c, <2>1, <2>2
<1>9. ASSUME NEW a \in Workers, FinishEviction(a) PROVE Ended(row.gen)
  <2> DEFINE w == worker[a]
  <2>0. w.pc = "finished" /\ WorkerKnows(w)
    BY <1>0, <1>9 DEF FinishEviction
  <2>1. \/ w.out = "killed" /\ row' = FinalizeRuntimeStopped(row, w.s.gen, w.s.le)
        \/ row' = ApplyObservation(row, w.s, w.obs.ep, w.obs.headed, w.obs.at)
        \/ row' = RecordControlUnavailable(row, w.s, now)
    BY <1>9 DEF FinishEviction
  <2>2. w.out = "killed" => Ended(w.s.gen)
    BY <2>0 DEF WorkerKnows
  <2> HIDE DEF w
  <2> QED BY <1>4, <1>o, <1>c, <2>1, <2>2
<1>10. ASSUME Evict PROVE FALSE
  BY <1>0, <1>10 DEF Evict, ReserveEviction, Session
<1>11. CASE Revive
  <2>1. \/ row' = RecordControlUnavailable(row, adopted, now)
        \/ /\ loc = adopted.gen /\ ~PidAlive(loc)
           /\ row' = MarkRuntimeStopped(row, adopted.gen, "crash")
    BY <1>0, <1>11 DEF Revive
  <2>2. CASE /\ loc = adopted.gen /\ ~PidAlive(loc)
             /\ row' = MarkRuntimeStopped(row, adopted.gen, "crash")
    <3>1. loc = row.gen /\ row.gen # 0
      BY <1>3, <2>2 DEF RuntimeInv, Untouched
    <3> QED BY <2>2, <3>1 DEF RuntimeInv, Opened, PidAlive, Ended, Registered, Live, TypeOK
  <2> QED BY <1>c, <2>1, <2>2
<1>12. CASE OpStop
  <2>1. CASE row' = FinalizeRevocation(row, op.s.gen)
    BY <1>0, <2>1 DEF FinalizeRevocation, Stopped, Session
  <2>2. CASE row' = MarkRuntimeStopped(row, op.s.gen, "operator_kill")
    BY <1>3, <1>12, <2>2 DEF OpStop, RuntimeInv, Knows
  <2> QED BY <1>12, <2>1, <2>2 DEF OpStop
<1> QED BY <1>0, <1>1, <1>2, <1>5, <1>6, <1>7, <1>8, <1>9, <1>10, <1>11, <1>12, Changes
        DEF Register, HookRegister

-----------------------------------------------------------------------------
(* Each part of the invariant is kept.                                     *)

\* A supervisor that is live after a step was live, or has just been opened.
LEMMA LiveBefore ==
  ASSUME TypeOK, [Next]_vars, NEW p \in Gens, Live(p)'
  PROVE  Live(p) \/ (OpenEndpoint /\ p = launch.g)
  BY PtySteps DEF PtyStep, Live

\* The row's generation moves forward, by at most one, and stays within bounds.
LEMMA UntouchedStep ==
  ASSUME TypeOK, TypeOK', RuntimeInv, [Next]_vars PROVE Untouched'
<1>0. /\ row \in Session /\ row.gen \in Nat /\ MaxGen \in Nat /\ row.gen <= MaxGen
      /\ RowStep(row, row')
  BY RowSteps, BoundsAssumption DEF TypeOK, Session, RuntimeInv, Untouched
<1>1. row'.gen <= MaxGen /\ row'.gen >= row.gen
  <2>1. CASE Reserve
    BY <1>0, <2>1 DEF Reserve, ReserveGeneration, Session
  <2>2. CASE \E p \in Gens : Binds(p)
    <3>1. row'.gen \in Gens /\ (row' = row \/ row' = ReserveGeneration(row))
      BY <2>2, Registration DEF Binds
    <3>2. ReserveGeneration(row).gen = row.gen + 1
      BY <1>0 DEF ReserveGeneration, Session
    <3> QED BY <1>0, <3>1, <3>2 DEF Gens
  <2>3. CASE row'.gen = row.gen
    BY <1>0, <2>3
  <2> QED BY <2>1, <2>2, <2>3, RowKinds DEF Dims, Writes
<1>2. row'.gen = 0 => row'.rt = "stopped"
  <2> SUFFICES ASSUME row'.gen = 0 PROVE row'.rt = "stopped"
    OBVIOUS
  <2>1. row.gen = 0
    BY <1>0, <1>1
  <2> QED BY <1>0, <2>1, RowEdges DEF RuntimeInv, Untouched
<1>3. ASSUME NEW g \in Gens, g > row'.gen PROVE pty'[g].st = "none" /\ bound'[g] = 0
  <2>1. g \in Nat /\ row'.gen \in Nat
    BY DEF TypeOK, Session, Gens
  <2>2. g > row.gen /\ g # row'.gen
    BY <1>0, <1>1, <1>3, <2>1
  <2>3. pty[g].st = "none" /\ bound[g] = 0
    BY <2>2 DEF RuntimeInv, Untouched
  <2>4. ~(OpenEndpoint /\ g = launch.g)
    BY <1>0, <2>1, <2>2 DEF OpenEndpoint, RuntimeInv, Launching
  <2>5. pty'[g].st = "none"
    BY <2>3, <2>4, PtySteps DEF PtyStep, Live
  <2>6. bound'[g] = 0
    <3>1. CASE \E p \in Gens : Binds(p)
      BY <2>2, <2>3, <3>1, Registration DEF Binds, TypeOK
    <3> QED BY <2>3, <3>1, Bindings
  <2> QED BY <2>5, <2>6
<1> QED BY <1>1, <1>2, <1>3 DEF Untouched

\* The row's generation is bound to the process that is live.
LEMMA BoundIsLiveStep ==
  ASSUME TypeOK, TypeOK', RuntimeInv, [Next]_vars PROVE BoundIsLive'
<1> SUFFICES ASSUME NEW p \in Gens, Live(p)', Registered(row.gen)'
             PROVE  bound'[row'.gen] = p
  BY DEF BoundIsLive
<1>1. CASE \E q \in Gens : Binds(q)
  <2>1. PICK q \in Gens : Binds(q)
    BY <1>1
  <2>2. Live(p)
    BY <2>1 DEF Binds, Live
  <2> QED BY <2>1, <2>2, Registration DEF Binds
<1>2. CASE ~\E q \in Gens : Binds(q)
  <2>1. bound' = bound
    BY <1>2, Bindings
  <2>2. row'.gen = row.gen
    <3>1. ASSUME Reserve PROVE FALSE
      <4>1. row'.gen > row.gen /\ row'.gen \in Gens
        BY <3>1 DEF Reserve, ReserveGeneration, Session, TypeOK, Registered
      <4> QED BY <2>1, <4>1 DEF Registered, RuntimeInv, Untouched
    <3> QED BY <1>2, <3>1, RowKinds DEF Dims, Writes
  <2>3. Registered(row.gen)
    BY <2>1, <2>2 DEF Registered
  <2>4. Live(p)
    BY <2>3, LiveBefore DEF OpenEndpoint, RuntimeInv, Launching, Registered
  <2> QED BY <2>1, <2>2, <2>3, <2>4 DEF RuntimeInv, BoundIsLive
<1> QED BY <1>1, <1>2

\* No second process: the only start of one finds none.
LEMMA SingleStep ==
  ASSUME TypeOK, RuntimeInv, [Next]_vars PROVE SingleRuntime'
<1> SUFFICES ASSUME NEW p \in Gens, NEW q \in Gens, Live(p)', Live(q)' PROVE p = q
  BY DEF SingleRuntime, Live
<1>1. CASE Live(p) /\ Live(q)
  BY <1>1 DEF RuntimeInv, SingleRuntime, Live
<1>2. CASE OpenEndpoint
  <2>1. ~Live(p) /\ ~Live(q)
    BY <1>2 DEF OpenEndpoint, RuntimeInv, Launching
  <2> QED BY <2>1, LiveBefore
<1> QED BY <1>1, <1>2, LiveBefore

\* A row that stops, or is stopped, has no process.
LEMMA StoppedStep ==
  ASSUME TypeOK, RuntimeInv, [Next]_vars PROVE StoppedIsDead'
<1> SUFFICES ASSUME row'.rt = "stopped", row'.rec # "revoked", NEW p \in Gens, Live(p)'
             PROVE  FALSE
  BY DEF StoppedIsDead, Live
<1>0. row \in Session /\ RowStep(row, row')
  BY RowSteps DEF TypeOK
<1>1. row.rec # "revoked"
  BY <1>0, RowEdges
<1>2. CASE row.rt = "stopped"
  <2>1. ~Live(p)
    BY <1>1, <1>2 DEF RuntimeInv, StoppedIsDead, Live
  <2>2. OpenEndpoint
    BY <2>1, LiveBefore
  <2> QED BY <1>1, <1>2, <2>2 DEF OpenEndpoint, RuntimeInv, Launching
<1>3. CASE OpenFails
  BY <1>3 DEF OpenFails, supervisor, RuntimeInv, Launching, Live
<1>4. CASE RegisterFails
  <2>1. launch.pc = "opened" /\ (Live(p) => p = launch.g)
    BY <1>4 DEF RegisterFails, RuntimeInv, Launching
  <2>2. p = launch.g
    BY <2>1, LiveBefore
  <2>3. pty'[p].st # "live"
    BY <1>4, <2>2, Ends DEF RegisterFails, TypeOK
  <2> QED BY <2>3 DEF Live
<1>5. CASE Ended(row.gen)
  <2>1. ~Live(p)
    BY <1>5 DEF Ended, RuntimeInv, BoundIsLive
  <2>2. OpenEndpoint
    BY <2>1, LiveBefore
  <2> QED BY <1>5, <2>2 DEF OpenEndpoint, RuntimeInv, Launching, Ended, Registered
<1> QED BY <1>2, <1>3, <1>4, <1>5, Stops

\* A launch goes on undisturbed: until its endpoint is open nothing stops, binds or
\* starts anything else.
LEMMA LaunchingStep ==
  ASSUME TypeOK, TypeOK', RuntimeInv, [Next]_vars PROVE Launching'
<1>0. /\ row \in Session /\ row.gen \in Nat /\ row'.gen \in Nat /\ RowStep(row, row')
      /\ launch.pc \in {"reserved", "opened"} => launch.g \in Gens
  BY RowSteps DEF TypeOK, Session
<1>1. CASE launch' = launch /\ launch.pc = "reserved"
  <2>1. /\ launch.g = row.gen /\ bound[row.gen] = 0 /\ pty[row.gen].st = "none"
        /\ \A p \in Gens : ~Live(p)
        /\ row.rt # "stopped" \/ row.rec = "revoked"
        /\ row.gen \in Gens
    BY <1>0, <1>1 DEF RuntimeInv, Launching
  <2>2. ~OpenEndpoint /\ ~Reserve /\ ~OpenFails /\ ~RegisterFails
    BY <1>1 DEF OpenEndpoint, Reserve, OpenFails, RegisterFails, NoLaunch, TypeOK
  <2>3. ~\E p \in Gens : Binds(p)
    BY <1>1, <2>1 DEF Binds
  <2>4. bound' = bound /\ row'.gen = row.gen
    BY <2>2, <2>3, Bindings, RowKinds DEF Dims, Writes
  <2>5. \A p \in Gens : ~Live(p)'
    BY <2>1, <2>2, LiveBefore
  <2>6. pty'[row.gen].st = "none"
    BY <2>1, <2>2, PtySteps DEF PtyStep
  <2>7. row'.rt # "stopped" \/ row'.rec = "revoked"
    BY <1>0, <2>1, <2>2, Stops, RowEdges DEF Ended, Registered
  <2> QED BY <1>1, <2>1, <2>4, <2>5, <2>6, <2>7 DEF Launching
<1>2. CASE launch' = launch /\ launch.pc = "opened"
  <2>1. /\ launch.g <= row.gen /\ bound[row.gen] \in {0, launch.g}
        /\ pty[launch.g].st # "none"
        /\ \A p \in Gens : Live(p) => p = launch.g
    BY <1>2 DEF RuntimeInv, Launching
  <2>2. ~OpenEndpoint /\ ~Reserve
    BY <1>2 DEF OpenEndpoint, Reserve
  <2>3. \A p \in Gens : Live(p)' => p = launch.g
    BY <2>1, <2>2, LiveBefore
  <2>4. pty'[launch.g].st # "none"
    BY <1>0, <1>2, <2>1, <2>2, PtySteps DEF PtyStep, Live
  <2>5. launch.g <= row'.gen /\ bound'[row'.gen] \in {0, launch.g}
    <3>1. CASE \E p \in Gens : Binds(p)
      <4>1. PICK p \in Gens : Binds(p)
        BY <3>1
      <4>2. p = launch.g
        BY <2>1, <4>1 DEF Binds
      <4>3. bound'[row'.gen] = p /\ (row' = row \/ row' = ReserveGeneration(row))
        BY <4>1, Registration DEF Binds
      <4>4. row'.gen >= row.gen
        <5>1. ReserveGeneration(row).gen = row.gen + 1
          BY <1>0 DEF ReserveGeneration, Session
        <5> QED BY <1>0, <4>3, <5>1
      <4>5. launch.g \in Nat
        BY <1>0, <1>2 DEF Gens
      <4> QED BY <1>0, <2>1, <4>2, <4>3, <4>4, <4>5
    <3>2. CASE ~\E p \in Gens : Binds(p)
      BY <2>1, <2>2, <3>2, Bindings, RowKinds DEF Dims, Writes
    <3> QED BY <3>1, <3>2
  <2> QED BY <1>2, <2>3, <2>4, <2>5 DEF Launching
<1>3. CASE Reserve
  <2>1. /\ launch' = [pc |-> "reserved", g |-> row.gen + 1] /\ row' = ReserveGeneration(row)
        /\ CanReserve(row) /\ UNCHANGED <<bound, pty>> /\ row.gen < MaxGen
    BY <1>3 DEF Reserve, supervisor
  <2>2. row'.gen = row.gen + 1 /\ row'.rt = "running"
    BY <1>0, <2>1 DEF ReserveGeneration, Session
  <2>3. row.gen + 1 \in Gens /\ row.gen + 1 > row.gen
    BY <1>0, <2>1, BoundsAssumption DEF Gens
  <2>4. bound[row.gen + 1] = 0 /\ pty[row.gen + 1].st = "none"
    BY <2>3 DEF RuntimeInv, Untouched
  <2>5. \A p \in Gens : ~Live(p)
    BY <2>1 DEF CanReserve, RuntimeInv, StoppedIsDead, Live
  <2> QED BY <2>1, <2>2, <2>4, <2>5 DEF Launching, Live
<1>4. CASE OpenEndpoint
  <2>1. /\ launch.pc = "reserved" /\ launch'.pc = "opened" /\ launch'.g = launch.g
        /\ launch.g \in Gens /\ launch.g = row.gen /\ bound[row.gen] = 0
        /\ row' = row /\ bound' = bound
        /\ pty' = [pty EXCEPT ![launch.g] = [NoPty EXCEPT !.st = "live", !.at = now]]
    BY <1>0, <1>4 DEF OpenEndpoint, TypeOK, RuntimeInv, Launching
  <2>2. pty'[launch.g].st = "live"
    BY <2>1 DEF TypeOK, NoPty
  <2>3. \A p \in Gens : Live(p)' => p = launch.g
    BY <2>1, LiveBefore DEF RuntimeInv, Launching
  <2> QED BY <1>0, <2>1, <2>2, <2>3 DEF Launching
<1>5. CASE launch'.pc = "idle"
  BY <1>5 DEF Launching
<1>6. CASE OpenFails \/ Register \/ RegisterFails \/ Crash
  <2>1. launch' = NoLaunch
    BY <1>6 DEF OpenFails, Register, RegisterFails, Crash
  <2> QED BY <1>5, <2>1 DEF NoLaunch
<1>7. launch.pc \in {"idle", "reserved", "opened"}
  BY DEF TypeOK
<1> QED BY <1>1, <1>2, <1>3, <1>4, <1>5, <1>6, <1>7, Changes DEF LaunchStep
-----------------------------------------------------------------------------
(* Engines, reports and notices.                                           *)

\* The tasks and requests that change an engine, a report, a call or a notice.
LEMMA TraceChanges ==
  ASSUME [Next]_vars
  PROVE  /\ engine' # engine =>
              \/ Register \/ Probed \/ Revive \/ OpBegin \/ OpStop \/ Crash
              \/ \E g \in Gens : HookRegister(g) \/ EngineExits(g)
              \/ \E a \in Workers : ExitSettle(a) \/ FinishEviction(a)
         /\ \/ report' \subseteq report /\ calls' \subseteq calls
            \/ \E g \in Gens : SupervisorReports(g)
         /\ notices' \subseteq notices \/ \E g \in Gens : Attach(g) \/ Detach(g)
<1> USE DEF Next, Launch, LaunchStep, Work, WorkerStep, TickStep, BootStep, ExitHandler,
            Operator, Supervisor, Workers, vars, supervisor, daemon,
            Tick, Crash, Reserve, OpenFails, OpenEndpoint, Register, RegisterFails,
            HookRegister, Enqueue, Deliver, TurnStarted, TurnEnded, Attach, Detach, DetachOf,
            ChildExits, SupervisorReports, SupervisorEnds, SupervisorVanishes, EngineExits,
            PresentationCall, ExitCall, PresentationApply, Replay, ReplayDone, ExitLookup,
            ExitSettle, ExitClear, ExitRemove, AdoptStopping, KillIfHeadless,
            FinishEviction, Probe, ProbeSkip, Probed, Evict, Revive, OpBegin, OpTerminate,
            OpClear, OpStop
<1>1. engine' # engine => \/ Register \/ Probed \/ Revive \/ OpBegin \/ OpStop \/ Crash
                          \/ \E g \in Gens : HookRegister(g) \/ EngineExits(g)
                          \/ \E a \in Workers : ExitSettle(a) \/ FinishEviction(a)
  OBVIOUS
<1>2. \/ report' \subseteq report /\ calls' \subseteq calls
      \/ \E g \in Gens : SupervisorReports(g)
  OBVIOUS
<1>3. notices' \subseteq notices \/ \E g \in Gens : Attach(g) \/ Detach(g)
  OBVIOUS
<1> QED BY <1>1, <1>2, <1>3

\* An engine starts for a registered generation, and is cancelled by somebody who
\* has ended the process, forgets the pubkey, or stops the row.
LEMMA EngineSteps ==
  ASSUME TypeOK, RuntimeInv, [Next]_vars, NEW g \in Gens
  PROVE  \/ engine'[g] \in {engine[g], "none"}
         \/ engine'[g] = "live" /\ Registered(g)'
         \/ /\ engine[g] = "live" /\ engine'[g] = "cancelled"
            /\ \/ Ended(g) \/ row'.rec = "revoked" \/ row'.gen # g \/ row'.rt = "stopped"
<1> DEFINE Goal == \/ engine'[g] \in {engine[g], "none"}
                   \/ engine'[g] = "live" /\ Registered(g)'
                   \/ /\ engine[g] = "live" /\ engine'[g] = "cancelled"
                      /\ \/ Ended(g) \/ row'.rec = "revoked" \/ row'.gen # g
                         \/ row'.rt = "stopped"
<1>0. /\ engine \in [Gens -> {"none", "live", "cancelled"}] /\ row \in Session
      /\ bound \in [Gens -> Gens \cup {0}]
      /\ \A a \in Workers : WorkerKnows(worker[a])
  BY DEF TypeOK, RuntimeInv, Knows
<1>1. ASSUME NEW h, engine' = Cancelled(h),
             \/ Ended(h) \/ row'.rec = "revoked" \/ row'.gen # h \/ row'.rt = "stopped"
      PROVE  Goal
  BY <1>0, <1>1 DEF Cancelled
<1>2. ASSUME NEW p \in Gens, Binds(p) PROVE Goal
  <2>1. bound'[row'.gen] = p /\ row'.gen \in Gens
    BY <1>2, Registration DEF Binds
  <2>2. engine' = [engine EXCEPT ![row'.gen] = IF @ = "none" THEN "live" ELSE @]
    BY <1>2 DEF Binds, RegisterEndpoint
  <2> QED BY <1>0, <2>1, <2>2 DEF Registered, Gens
<1>3. CASE \E h \in Gens : EngineExits(h)
  BY <1>0, <1>3 DEF EngineExits
<1>4. ASSUME NEW a \in Workers, ExitSettle(a) PROVE Goal
  <2>1. Ended(worker[a].s.gen)
    BY <1>0, <1>4 DEF ExitSettle, WorkerKnows
  <2>2. engine' = engine \/ engine' = Cancelled(worker[a].s.gen)
    BY <1>4 DEF ExitSettle
  <2> QED BY <1>1, <2>1, <2>2
<1>5. ASSUME NEW a \in Workers, FinishEviction(a) PROVE Goal
  <2>1. worker[a].out = "killed" => Ended(worker[a].s.gen)
    BY <1>0, <1>5 DEF FinishEviction, WorkerKnows
  <2>2. \/ engine' = engine
        \/ worker[a].out = "killed" /\ engine' = Cancelled(worker[a].s.gen)
    BY <1>5 DEF FinishEviction
  <2> QED BY <1>1, <2>1, <2>2
<1>6. CASE Probed
  <2> DEFINE w == worker["tick"]
  <2>1. w.out \notin {"ok", "error"} => Ended(w.s.gen)
    BY <1>0, <1>6 DEF Probed, WorkerKnows, Workers
  <2>2. \/ engine' = engine
        \/ w.out \notin {"ok", "error"} /\ engine' = Cancelled(w.s.gen)
    BY <1>6 DEF Probed
  <2> HIDE DEF w
  <2> QED BY <1>1, <2>1, <2>2
<1>7. CASE OpBegin
  <2>1. \/ engine' = engine
        \/ engine' = Cancelled(row.gen) /\ row' = RevokeRecovery(row, row.gen)
    BY <1>7 DEF OpBegin
  <2>2. RevokeRecovery(row, row.gen).rec = "revoked"
    BY <1>0 DEF RevokeRecovery, Session
  <2> QED BY <1>1, <2>1, <2>2
<1>8. CASE OpStop
  <2>1. \/ engine' = engine
        \/ /\ engine' = Cancelled(op.s.gen)
           /\ row' = MarkRuntimeStopped(row, op.s.gen, "operator_kill")
    BY <1>8 DEF OpStop
  <2>2. \/ Ended(op.s.gen)
        \/ op.s.gen # row.gen \/ row.rt = "stopped"
    BY <1>8 DEF OpStop, RuntimeInv, Knows
  <2>3. ASSUME row' = MarkRuntimeStopped(row, op.s.gen, "operator_kill")
        PROVE  \/ Ended(op.s.gen) \/ row'.gen # op.s.gen \/ row'.rt = "stopped"
    BY <1>0, <2>2, <2>3 DEF MarkRuntimeStopped, Stopped, Owns, Session
  <2> QED BY <1>1, <2>1, <2>3
<1>9. CASE Revive
  <2>1. \/ engine' = engine
        \/ /\ PidAlive(adopted.gen) /\ bound' = bound
           /\ engine' = [engine EXCEPT ![adopted.gen] = IF @ = "none" THEN "live" ELSE @]
    BY <1>9 DEF Revive
  <2> QED BY <1>0, <2>1 DEF PidAlive, Registered
<1>10. CASE Crash
  BY <1>10 DEF Crash
<1>11. CASE engine' = engine
  BY <1>11
<1> HIDE DEF Goal
<1>12. CASE Register \/ \E p \in Gens : HookRegister(p)
  BY <1>2, <1>12, Bindings DEF Goal
<1>13. Goal
  BY <1>3, <1>4, <1>5, <1>6, <1>7, <1>8, <1>9, <1>10, <1>11, <1>12, TraceChanges DEF Goal
<1> QED BY <1>13 DEF Goal

\* A supervisor's own answer is one it may have made.
LEMMA SnapshotSeen == ASSUME NEW p \in Pty PROVE SeenOf(p, SnapshotOf(p))
<1>1. p.ep \in Nat
  BY DEF Pty
<1>2. SnapshotOf(p).ep = p.ep /\ (SnapshotOf(p).headed <=> p.clients > 0)
  BY Zenon DEF SnapshotOf
<1> QED BY <1>1, <1>2 DEF SeenOf

\* A supervisor that is up stays known, and one that has reported stays so.
LEMMA PtyKept ==
  ASSUME TypeOK, RuntimeInv, [Next]_vars, NEW p \in Gens, pty[p].st # "none"
  PROVE  /\ pty'[p].st # "none"
         /\ pty[p].st \in {"reported", "dead"} => pty'[p].st \in {"reported", "dead"}
         /\ Live(p)' => Live(p) /\ (pty'[p] = pty[p] \/ pty'[p].ep > pty[p].ep)
<1>1. ~(OpenEndpoint /\ p = launch.g)
  BY DEF OpenEndpoint, RuntimeInv, Launching
<1> QED BY <1>1, PtySteps DEF PtyStep, Live

\* What exists belongs to an endpoint that was opened.
LEMMA OpenedStep ==
  ASSUME TypeOK, TypeOK', RuntimeInv, [Next]_vars PROVE Opened'
<1>0. /\ bound \in [Gens -> Gens \cup {0}] /\ pty \in [Gens -> Pty]
      /\ bound' \in [Gens -> Gens \cup {0}] /\ pty' \in [Gens -> Pty]
      /\ report \subseteq Gens /\ calls \subseteq Gens /\ notices \subseteq Gens \X Snapshot
  BY DEF TypeOK
<1>1. ASSUME NEW g \in Gens, bound'[g] # 0 PROVE pty'[bound'[g]].st # "none"
  <2>1. CASE bound[g] # 0
    <3>1. bound'[g] = bound[g] /\ bound[g] \in Gens /\ pty[bound[g]].st # "none"
      BY <1>0, <2>1, BoundOnce DEF RuntimeInv, Opened
    <3> QED BY <3>1, PtyKept
  <2>2. CASE bound[g] = 0
    <3>1. PICK p \in Gens : Binds(p)
      BY <1>1, <2>2, Bindings
    <3>2. bound' = [bound EXCEPT ![row'.gen] = p] /\ pty[p].st # "none"
      BY <3>1, Registration DEF Binds
    <3>3. bound'[g] = p
      BY <1>0, <1>1, <2>2, <3>2
    <3> QED BY <3>1, <3>2, <3>3 DEF Binds
  <2> QED BY <2>1, <2>2
<1>2. ASSUME NEW g \in Gens, engine'[g] # "none" PROVE bound'[g] # 0
  <2>1. bound[g] # 0 \/ Registered(g)'
    BY <1>2, EngineSteps DEF RuntimeInv, Opened
  <2> QED BY <2>1, BoundOnce DEF Registered
<1>3. loc' # 0 => bound'[loc'] # 0
  BY LocatorStep DEF RuntimeInv, Opened, LocatorIsBound
<1>4. ASSUME NEW g \in report' \cup calls' PROVE pty'[g].st \in {"reported", "dead"}
  <2>1. CASE g \in report \cup calls
    BY <1>0, <2>1, PtyKept DEF RuntimeInv, Opened
  <2>2. CASE \E h \in Gens : SupervisorReports(h)
    <3>1. PICK h \in Gens : SupervisorReports(h)
      BY <2>2
    <3>2. CASE g = h
      BY <1>0, <3>1, <3>2 DEF SupervisorReports, Pty
    <3>3. CASE g # h
      BY <1>4, <2>1, <3>1, <3>3 DEF SupervisorReports
    <3> QED BY <3>2, <3>3
  <2> QED BY <1>4, <2>1, <2>2, TraceChanges
<1>5. ASSUME NEW n \in notices'
      PROVE  pty'[n[1]].st # "none" /\ (Live(n[1])' => SeenOf(pty'[n[1]], n[2]))
  <2>1. CASE n \in notices
    <3>1. PICK p \in Gens, o \in Snapshot : n = <<p, o>>
      BY <1>0, <2>1
    <3>2. pty[p].st # "none" /\ (Live(p) => SeenOf(pty[p], o))
      BY <2>1, <3>1 DEF RuntimeInv, Opened
    <3>3. pty[p].ep \in Nat /\ pty'[p].ep \in Nat /\ o.ep \in Nat
      BY <1>0 DEF Pty, Snapshot
    <3>4. pty'[p].st # "none" /\ (Live(p)' => SeenOf(pty'[p], o))
      BY <3>2, <3>3, PtyKept DEF SeenOf
    <3> QED BY <3>1, <3>4
  <2>2. CASE \E g \in Gens : Attach(g) \/ Detach(g)
    <3>1. PICK g \in Gens : Attach(g) \/ Detach(g)
      BY <2>2
    <3>2. /\ notices' = notices \cup {<<g, SnapshotOf(pty'[g])>>}
          /\ pty'[g].st = "live"
      BY <1>0, <3>1 DEF Attach, Detach, DetachOf, Pty
    <3>3. CASE n = <<g, SnapshotOf(pty'[g])>>
      <4>1. pty'[g] \in Pty
        BY <1>0
      <4>2. SeenOf(pty'[g], SnapshotOf(pty'[g]))
        BY <4>1, SnapshotSeen
      <4>3. n[1] = g /\ n[2] = SnapshotOf(pty'[g])
        BY <3>3
      <4> QED BY <3>2, <4>2, <4>3
    <3> QED BY <1>5, <2>1, <3>2, <3>3
  <2> QED BY <1>5, <2>1, <2>2, TraceChanges
<1> QED BY <1>1, <1>2, <1>3, <1>4, <1>5 DEF Opened

\* A generation without endpoint is not observed.
LEMMA UnobservedStep ==
  ASSUME TypeOK, TypeOK', RuntimeInv, [Next]_vars PROVE Unobserved'
<1> SUFFICES ASSUME ~Registered(row.gen)'
             PROVE  row'.pres = "unavailable" /\ row'.ae = 0 /\ row'.rt # "stopping"
  BY DEF Unobserved
<1>0. row \in Session /\ RowStep(row, row')
  BY RowSteps DEF TypeOK
<1>1. CASE Reserve
  BY <1>0, <1>1 DEF Reserve, ReserveGeneration, Session
<1>2. ~\E p \in Gens : Binds(p)
  <2> SUFFICES ASSUME NEW p \in Gens, Binds(p) PROVE FALSE
    OBVIOUS
  <2>1. bound'[row'.gen] = p /\ row'.gen \in Gens
    BY Registration DEF Binds
  <2> QED BY <2>1 DEF Registered, Gens
<1>3. CASE row'.gen = row.gen
  <2>1. ~Registered(row.gen)
    BY <1>3, Knowledge DEF Registered
  <2>2. row.pres = "unavailable" /\ row.ae = 0 /\ row.rt # "stopping"
    BY <2>1 DEF RuntimeInv, Unobserved
  <2>3. row'.rt # "stopping"
    BY <1>0, <2>2, RowEdges
  <2>4. CASE Dims(row, row')
    BY <2>2, <2>3, <2>4 DEF Dims
  <2> QED BY <1>1, <1>2, <2>1, <2>4, RowKinds DEF Seen, Reached
<1> QED BY <1>1, <1>2, <1>3, RowKinds DEF Dims, Writes

\* A row that carries an epoch of its endpoint agrees with what was seen at it.
View(r) == [ep |-> r.ae, headed |-> r.pres = "headed", at |-> 0]

Agrees(r) ==
  Registered(r.gen) => /\ Reached(r.gen, r.ae)
                       /\ r.pres # "unavailable" => Seen(r.gen, View(r))

LEMMA AgreementIsSeen ==
  ASSUME NEW r, NEW p
  PROVE  (r.ae <= p.ep /\ (r.pres # "unavailable" => SeenOf(p, View(r))))
         <=> (/\ r.ae <= p.ep
              /\ r.ae = p.ep /\ r.pres # "unavailable"
                   => (r.pres = "headed" <=> p.clients > 0))
<1>1. View(r).ep = r.ae /\ (View(r).headed <=> r.pres = "headed")
  BY Zenon DEF View
<1> QED BY <1>1 DEF SeenOf

\* Observations reach the row in any order; it keeps what its epoch says.
LEMMA AgreementStep ==
  ASSUME TypeOK, TypeOK', RuntimeInv, [Next]_vars PROVE PresentationAgreement'
<1>0. /\ row \in Session /\ row.ae \in Nat /\ row'.ae \in Nat /\ RowStep(row, row')
      /\ bound \in [Gens -> Gens \cup {0}] /\ pty \in [Gens -> Pty] /\ pty' \in [Gens -> Pty]
      /\ View(row) \in Snapshot /\ row'.pres \in PresentationState
  BY RowSteps DEF TypeOK, Session, View, Snapshot
<1>1. Agrees(row)
  BY AgreementIsSeen DEF RuntimeInv, PresentationAgreement, Agrees, Registered, Reached, Seen,
     Live
<1> SUFFICES Agrees(row)'
  BY AgreementIsSeen DEF PresentationAgreement, Agrees, Registered, Reached, Seen, Live
<1>2. ASSUME row'.ae = 0, row'.pres = "unavailable" PROVE Agrees(row)'
  <2>1. Registered(row.gen)' => Reached(row.gen, row.ae)'
    BY <1>0, <1>2 DEF Registered, Reached, Pty, TypeOK
  <2> QED BY <1>2, <2>1 DEF Agrees
<1>3. CASE Reserve
  BY <1>0, <1>2, <1>3 DEF Reserve, ReserveGeneration, Session
<1>4. CASE \E p \in Gens : Binds(p)
  <2>1. PICK p \in Gens : Binds(p)
    BY <1>4
  <2>2. /\ row' = row \/ row' = ReserveGeneration(row)
        /\ pty' = pty
        /\ row'.gen \in Gens /\ bound[row'.gen] \in {0, p} /\ bound'[row'.gen] = p
    BY <2>1, Registration DEF Binds
  <2>3. CASE row' = ReserveGeneration(row)
    BY <1>0, <1>2, <2>3 DEF ReserveGeneration, Session
  <2>4. CASE row' = row /\ bound[row.gen] = 0
    BY <1>2, <2>4 DEF RuntimeInv, Unobserved, Registered
  <2>5. CASE row' = row /\ bound[row.gen] = p
    BY <1>1, <2>1, <2>2, <2>5 DEF Agrees, Registered, Reached, Seen, Live, Gens
  <2> QED BY <2>2, <2>3, <2>4, <2>5
<1>5. CASE /\ row'.gen = row.gen /\ ~\E p \in Gens : Binds(p)
  <2>0. bound' = bound
    BY <1>5, Bindings
  <2> SUFFICES ASSUME Registered(row.gen)
               PROVE  /\ Reached(row.gen, row.ae)'
                      /\ row'.pres # "unavailable" => Seen(row.gen, View(row))'
    BY <1>5, <2>0 DEF Agrees, Registered
  <2>1. CASE Dims(row, row')
    <3>1. Reached(row.gen, row.ae) /\ Reached(row.gen, row.ae)'
      BY <1>0, <1>1, <1>5, <2>1, Knowledge DEF Agrees, Dims, Reached
    <3>2. ASSUME row'.pres # "unavailable" PROVE Seen(row.gen, View(row))'
      <4>1. row'.pres = row.pres /\ row'.ae = row.ae
        BY <2>1, <3>2 DEF Dims
      <4>2. View(row)' = View(row)
        BY <4>1 DEF View
      <4> QED BY <1>0, <1>1, <1>5, <3>2, <4>1, <4>2, Knowledge DEF Agrees, Seen
    <3> QED BY <3>1, <3>2
  <2>2. ASSUME NEW o \in Snapshot, Seen(row.gen, o), Writes(row, row', o)
        PROVE  /\ Reached(row.gen, row.ae)'
               /\ row'.pres # "unavailable" => Seen(row.gen, View(row))'
    <3>1. /\ Registered(row.gen)'
          /\ Live(bound[row.gen])' => SeenOf(pty'[bound'[row'.gen]], o)
      BY <1>5, <2>2, Knowledge DEF Seen
    <3>2. row'.ae = o.ep /\ (row'.pres = "headed" <=> o.headed)
      BY <2>2 DEF Writes, Snapshot
    <3>3. View(row').ep = o.ep /\ (View(row').headed <=> o.headed)
      BY <3>2, Zenon DEF View
    <3>4. Reached(row.gen, row.ae)'
      BY <3>1, <3>2 DEF Reached, SeenOf
    <3>5. Seen(row.gen, View(row))'
      BY <3>1, <3>3 DEF Seen, SeenOf
    <3> QED BY <3>4, <3>5
  <2>3. ASSUME NEW e \in Nat, Reached(row.gen, e), row'.ae = e, row'.pres = "unavailable"
        PROVE  Reached(row.gen, row.ae)'
    BY <1>5, <2>3, Knowledge DEF Reached
  <2>4. ~Reserve
    <3>1. row.gen \in Nat /\ ReserveGeneration(row).gen = row.gen + 1
      BY <1>0 DEF ReserveGeneration, Session
    <3> QED BY <1>5, <3>1 DEF Reserve
  <2> QED BY <1>5, <2>1, <2>2, <2>3, <2>4, RowKinds
<1> QED BY <1>3, <1>4, <1>5, RowKinds DEF Dims, Writes

\* A cancelled engine's generation is over.
LEMMA CancelledStep ==
  ASSUME TypeOK, TypeOK', RuntimeInv, [Next]_vars PROVE CancelledIsOver'
<1> SUFFICES ASSUME NEW g \in Gens, engine'[g] = "cancelled", g = row'.gen,
                    row'.rt # "stopped", row'.rec # "revoked"
             PROVE  Ended(g)'
  BY DEF CancelledIsOver
<1>0. row \in Session /\ row.gen \in Nat /\ RowStep(row, row')
  BY RowSteps DEF TypeOK, Session
<1>1. Ended(g) \/ engine[g] = "cancelled"
  BY EngineSteps
<1>2. CASE engine[g] = "cancelled"
  <2>1. row.gen = g
    <3> SUFFICES ASSUME row'.gen # row.gen PROVE FALSE
      OBVIOUS
    <3>0. ReserveGeneration(row).gen = row.gen + 1
      BY <1>0 DEF ReserveGeneration, Session
    <3>1. g = row.gen + 1
      BY <1>0, <3>0, RowEdges
    <3> QED BY <1>0, <1>2, <3>1 DEF RuntimeInv, Untouched, Opened
  <2>2. row.rt # "stopped" /\ row.rec # "revoked"
    BY <1>0, <2>1, RowEdges
  <2> QED BY <1>2, <2>1, <2>2, Knowledge DEF RuntimeInv, CancelledIsOver
<1> QED BY <1>1, <1>2, Knowledge

-----------------------------------------------------------------------------
(* What the tasks know.                                                    *)

\* The steps of a task, and who takes them.
LEMMA WorkerChanges ==
  ASSUME [Next]_vars, worker' # worker
  PROVE  \/ Probe \/ ProbeSkip \/ Probed \/ Evict \/ Revive \/ Crash
         \/ \E g \in Gens : ExitCall(g)
         \/ \E a \in Workers : WorkerStep(a)
<1> USE DEF Next, Launch, LaunchStep, Work, TickStep, BootStep, ExitHandler,
            Operator, Supervisor, Workers, vars, supervisor, daemon,
            Tick, Reserve, OpenFails, OpenEndpoint, Register, RegisterFails,
            HookRegister, Enqueue, Deliver, TurnStarted, TurnEnded, Attach, Detach, DetachOf,
            ChildExits, SupervisorReports, SupervisorEnds, SupervisorVanishes, EngineExits,
            PresentationCall, PresentationApply, OpBegin, OpTerminate, OpClear, OpStop
<1> QED OBVIOUS

\* What a task holds stays true while others run.
LEMMA KeepsKnowing ==
  ASSUME TypeOK, TypeOK', RuntimeInv, [Next]_vars, NEW w \in Worker, WorkerKnows(w)
  PROVE  WorkerKnows(w)'
<1>0. w.obs \in Snapshot /\ w.s.ae \in Nat
  BY DEF Worker, Held
<1>1. CASE w.pc = "lookup"
  <2>1. w.g \in Gens /\ pty[w.g].st \in {"reported", "dead"}
    BY <1>1 DEF WorkerKnows
  <2>2. pty'[w.g].st \in {"reported", "dead"}
    BY <2>1, PtyKept
  <2> QED BY <1>1, <2>1, <2>2 DEF WorkerKnows
<1>2. CASE w.pc = "settle"
  BY <1>2, Knowledge DEF WorkerKnows
<1>3. CASE w.pc = "probed"
  BY <1>0, <1>3, Knowledge DEF WorkerKnows
<1>4. CASE w.pc \in {"asked", "finished"}
  BY <1>0, <1>4, Knowledge DEF WorkerKnows
<1>5. CASE w.pc \notin {"lookup", "settle", "probed", "asked", "finished"}
  BY <1>5 DEF WorkerKnows
<1> QED BY <1>1, <1>2, <1>3, <1>4, <1>5

\* Stages that rely on nothing learnt before.
Quiet == WorkerPc \ {"lookup", "settle", "probed", "asked", "finished"}

\* Each stage learns what the next one relies on.
LEMMA Learns ==
  ASSUME TypeOK, TypeOK', RuntimeInv, [Next]_vars, NEW a \in Workers
  PROVE  WorkerKnows(worker[a])'
<1>0. /\ worker \in [Workers -> Worker] /\ worker[a] \in Worker /\ WorkerKnows(worker[a])
      /\ row \in Session /\ bound \in [Gens -> Gens \cup {0}] /\ pty \in [Gens -> Pty]
      /\ loc \in Gens \cup {0} /\ "tick" \in Workers /\ "boot" \in Workers
      /\ "exit" \in Workers /\ report \subseteq Gens /\ calls \subseteq Gens
  BY DEF TypeOK, RuntimeInv, Knows, Workers
<1>1. CASE worker'[a] = worker[a]
  <2>1. PICK w \in Worker : w = worker[a]
    BY <1>0
  <2>2. WorkerKnows(w)'
    BY <1>0, <2>1, KeepsKnowing
  <2> QED BY <1>1, <2>1, <2>2
<1>2. CASE worker'[a].pc \in Quiet
  BY <1>2 DEF Quiet, WorkerKnows
<1>3. ASSUME NEW b, NEW pc \in Quiet, To(b, pc) PROVE WorkerKnows(worker[a])'
  BY <1>0, <1>1, <1>2, <1>3 DEF To, Idle
<1>4. ASSUME NEW b \in Workers, NEW pc \in Quiet, worker' = [worker EXCEPT ![b].pc = pc]
      PROVE  WorkerKnows(worker[a])'
  BY <1>0, <1>1, <1>2, <1>4 DEF Worker
<1>5. ASSUME NEW b \in Workers, NEW g \in Gens, pty[g].st \in {"reported", "dead"}, pty' = pty,
             worker' = [worker EXCEPT ![b] = [Idle EXCEPT !.pc = "lookup", !.g = g]]
      PROVE  WorkerKnows(worker[a])'
  <2>1. CASE a = b
    <3>1. worker'[a].pc = "lookup" /\ worker'[a].g = g
      BY <1>0, <1>5, <2>1 DEF Idle
    <3> QED BY <1>5, <3>1 DEF WorkerKnows
  <2> QED BY <1>0, <1>1, <1>5, <2>1
<1>6. ASSUME NEW b \in Workers, NEW stage PROVE Continue(b, stage) \in Quiet
  BY DEF Continue, Quiet, WorkerPc, Workers
<1>7. ASSUME NEW g \in Gens, ExitCall(g) PROVE WorkerKnows(worker[a])'
  <2>1. pty[g].st \in {"reported", "dead"} /\ pty' = pty
    BY <1>7 DEF ExitCall, RuntimeInv, Opened
  <2>2. \/ worker' = worker
        \/ worker' = [worker EXCEPT !["exit"] = [Idle EXCEPT !.pc = "lookup", !.g = g]]
    BY <1>7 DEF ExitCall
  <2> QED BY <1>0, <1>1, <1>5, <2>1, <2>2
<1>8. ASSUME NEW b \in Workers, NEW g \in Gens, Replay(b, g) PROVE WorkerKnows(worker[a])'
  <2>1. pty[g].st \in {"reported", "dead"} /\ pty' = pty
    BY <1>8 DEF Replay, RuntimeInv, Opened, supervisor
  <2> QED BY <1>5, <1>8, <2>1 DEF Replay
<1>9. ASSUME NEW b \in Workers, ExitLookup(b) PROVE WorkerKnows(worker[a])'
  <2>1. pty' = pty /\ bound' = bound
    BY <1>9 DEF ExitLookup, supervisor
  <2>2. worker[b].pc = "lookup" /\ worker[b] \in Worker /\ WorkerKnows(worker[b])
    BY <1>0, <1>9 DEF ExitLookup, TypeOK, RuntimeInv, Knows
  <2>3. CASE ~SessionForPty(worker[b].g)
    <3>1. worker' = [worker EXCEPT ![b] = [@ EXCEPT !.pc = "remove"]]
      BY <1>9, <2>3 DEF ExitLookup
    <3> QED BY <1>0, <1>1, <1>2, <2>2, <3>1 DEF Quiet, WorkerPc, Worker
  <2>4. CASE SessionForPty(worker[b].g) /\ a = b
    <3>1. worker' = [worker EXCEPT ![b] = [@ EXCEPT !.pc = "settle", !.s = Hold(row)]]
      BY <1>9, <2>4 DEF ExitLookup
    <3>2. worker'[a].pc = "settle" /\ worker'[a].s.gen = row.gen
      <4> DEFINE v == [worker[b] EXCEPT !.pc = "settle", !.s = Hold(row)]
      <4>1. v.pc = "settle" /\ v.s = Hold(row) /\ Hold(row).gen = row.gen
        BY <2>2 DEF Worker, Hold
      <4>2. worker'[a] = v
        BY <1>0, <2>4, <3>1
      <4> QED BY <4>1, <4>2
    <3>3. Ended(row.gen)
      <4>1. worker[b].g \in Gens /\ pty[worker[b].g].st # "live" /\ worker[b].g # 0
        BY <2>2 DEF WorkerKnows, Gens
      <4>2. row.gen \in Gens /\ bound[row.gen] = worker[b].g
        BY <1>0, <2>4 DEF SessionForPty, Located
      <4> QED BY <4>1, <4>2 DEF Ended, Registered, Live
    <3>4. Ended(worker[a].s.gen)'
      BY <2>1, <3>2, <3>3 DEF Ended, Registered, Live
    <3> QED BY <3>2, <3>4 DEF WorkerKnows
  <2>5. CASE SessionForPty(worker[b].g) /\ a # b
    BY <1>0, <1>1, <1>9, <2>5 DEF ExitLookup
  <2> QED BY <2>3, <2>4, <2>5
<1>10. CASE Probe
  <2>1. /\ row.rt = "running" /\ Located(row.gen) /\ pty' = pty /\ bound' = bound
        /\ worker["tick"] \in Worker
    BY <1>0, <1>10 DEF Probe, supervisor, TypeOK
  <2>2. /\ Registered(row.gen) /\ bound[row.gen] \in Gens /\ loc = row.gen
        /\ pty[bound[row.gen]] \in Pty
    BY <1>0, <2>1 DEF Located, Registered, RuntimeInv, Opened
  <2>3. CASE a = "tick"
    <3>0. PICK v : v = worker'[a]
      OBVIOUS
    <3>1. /\ v.pc = "probed" /\ v.s = Hold(row)
          /\ \/ v.out = "ok" /\ v.obs = SnapshotOf(pty[bound[row.gen]])
             \/ v.out = IF PidAlive(row.gen) THEN "error" ELSE "gone"
      <4> DEFINE u == [worker["tick"] EXCEPT !.pc = "probed", !.s = Hold(row), !.out = "ok",
                                             !.obs = SnapshotOf(pty[bound[row.gen]])]
                 x == [worker["tick"] EXCEPT !.pc = "probed", !.s = Hold(row),
                                     !.out = IF PidAlive(row.gen) THEN "error" ELSE "gone"]
      <4>1. /\ u.pc = "probed" /\ u.s = Hold(row) /\ u.out = "ok"
            /\ u.obs = SnapshotOf(pty[bound[row.gen]])
        BY <2>1 DEF Worker
      <4>2. /\ x.pc = "probed" /\ x.s = Hold(row)
            /\ x.out = IF PidAlive(row.gen) THEN "error" ELSE "gone"
        BY <2>1 DEF Worker
      <4>3. worker' = [worker EXCEPT !["tick"] = u] \/ worker' = [worker EXCEPT !["tick"] = x]
        BY <1>10, <2>2 DEF Probe
      <4>4. worker'[a] = u \/ worker'[a] = x
        BY <1>0, <2>3, <4>3
      <4> QED BY <3>0, <4>1, <4>2, <4>4
    <3>2. Hold(row).gen = row.gen /\ Hold(row).rt = "running"
      BY <2>1 DEF Hold
    <3>3. Seen(row.gen, SnapshotOf(pty[bound[row.gen]]))
      BY <2>2, SnapshotSeen DEF Seen
    <3>4. ~PidAlive(row.gen) => Ended(row.gen)
      BY <2>2 DEF PidAlive, Ended, Registered, Live
    <3>5. WorkerKnows(v)
      BY <2>2, <3>1, <3>2, <3>3, <3>4 DEF WorkerKnows
    <3>6. WorkerKnows(v)'
      BY <2>1, <3>5 DEF WorkerKnows, Registered, Seen, Ended, Reached, Live
    <3> QED BY <3>0, <3>6
  <2>4. CASE a # "tick"
    BY <1>0, <1>1, <1>10, <2>4 DEF Probe
  <2> QED BY <2>3, <2>4
<1>11. ASSUME NEW b \in Workers, Reached(row.gen, row.ae), row'.gen = row.gen, row'.ae = row.ae,
              pty' = pty, bound' = bound, NEW r, r.gen = row.gen, r.ae = row.ae,
              worker' = [worker EXCEPT ![b] = [Idle EXCEPT !.pc = "asked", !.s = Hold(r)]]
       PROVE  WorkerKnows(worker[a])'
  <2>1. CASE a = b
    <3>1. worker'[a].pc = "asked" /\ worker'[a].s.gen = row.gen /\ worker'[a].s.ae = row.ae
      BY <1>0, <1>11, <2>1 DEF Idle, Hold
    <3>2. Reached(worker[a].s.gen, worker[a].s.ae)'
      BY <1>11, <3>1 DEF Reached, Registered, Live
    <3> QED BY <3>1, <3>2 DEF WorkerKnows
  <2> QED BY <1>0, <1>1, <1>11, <2>1
<1>12. row.rt = "stopping" \/ row.pres = "headless" => Reached(row.gen, row.ae)
  BY DEF RuntimeInv, Unobserved, PresentationAgreement, Reached, Registered, Live
<1>13. ASSUME NEW b \in Workers, AdoptStopping(b) PROVE WorkerKnows(worker[a])'
  <2>1. CASE row.rt = "stopping"
    BY <1>11, <1>12, <1>13, <2>1 DEF AdoptStopping, supervisor
  <2>2. CASE row.rt # "stopping"
    BY <1>3, <1>6, <1>13, <2>2 DEF AdoptStopping
  <2> QED BY <2>1, <2>2
<1>14. CASE Evict
  <2>1. CASE EvictionDue(row, now, Busy) /\ row.le < MaxLe
    <3>1. /\ row' = ReserveEviction(row) /\ pty' = pty /\ bound' = bound
          /\ worker' = [worker EXCEPT !["tick"] = [Idle EXCEPT !.pc = "asked", !.s = Hold(row')]]
      BY <1>14, <2>1 DEF Evict, supervisor
    <3>2. row'.gen = row.gen /\ row'.ae = row.ae /\ Reached(row.gen, row.ae)
      BY <1>0, <1>12, <2>1, <3>1 DEF ReserveEviction, EvictionDue, Session
    <3> QED BY <1>0, <1>11, <3>1, <3>2
  <2>2. CASE ~(EvictionDue(row, now, Busy) /\ row.le < MaxLe)
    BY <1>3, <1>14, <2>2 DEF Evict, Quiet, WorkerPc
  <2> QED BY <2>1, <2>2
<1>15. ASSUME NEW b \in Workers, KillIfHeadless(b) PROVE WorkerKnows(worker[a])'
  <2>0. PICK w \in Worker : w = worker[b]
    BY <1>0 DEF TypeOK
  <2>1. /\ w.pc = "asked" /\ bound' = bound /\ w.s.ae \in Nat /\ WorkerKnows(w)
        /\ Reached(w.s.gen, w.s.ae)
    BY <1>0, <1>15, <2>0 DEF KillIfHeadless, Worker, Held, WorkerKnows, RuntimeInv, Knows
  <2>2. Reached(w.s.gen, w.s.ae)'
    BY <2>1, Knowledge
  <2>3. Registered(w.s.gen) /\ bound[w.s.gen] \in Gens /\ pty[bound[w.s.gen]] \in Pty
    BY <1>0, <2>1 DEF Reached, Registered
  <2>4. PICK out, obs :
          /\ worker' = [worker EXCEPT ![b] = [w EXCEPT !.pc = "finished", !.out = out, !.obs = obs]]
          /\ out = "killed" => pty'[bound[w.s.gen]].st = "exiting"
          /\ out = "changed" => obs = SnapshotOf(pty[bound[w.s.gen]]) /\ pty' = pty
    <3> DEFINE p == bound[w.s.gen]
               done(out, obs) == worker' = [worker EXCEPT ![b] =
                                   [w EXCEPT !.pc = "finished", !.out = out, !.obs = obs]]
    <3>1. CASE /\ \E ok \in Successes : pty' = [pty EXCEPT ![p] = ChildGone(pty[p], ok)]
               /\ \E out \in {"killed", "error"} : done(out, NoSnapshot)
      <4>1. pty'[p].st = "exiting"
        BY <1>0, <2>3, <3>1, Ends
      <4> QED BY <3>1, <4>1
    <3>2. CASE done("changed", SnapshotOf(pty[p])) /\ pty' = pty
      <4> WITNESS "changed", SnapshotOf(pty[p])
      <4> QED BY <3>2
    <3>3. CASE done("error", NoSnapshot)
      <4> WITNESS "error", NoSnapshot
      <4> QED BY <3>3
    <3> QED BY <1>15, <2>0, <3>1, <3>2, <3>3 DEF KillIfHeadless
  <2>5. CASE a = b
    <3>1. PICK v : v = [w EXCEPT !.pc = "finished", !.out = out, !.obs = obs]
      OBVIOUS
    <3>2. v.pc = "finished" /\ v.s = w.s /\ v.out = out /\ v.obs = obs
      BY <3>1 DEF Worker
    <3>3. worker'[a] = v
      BY <1>0, <2>4, <2>5, <3>1
    <3>4. out = "killed" => Ended(w.s.gen)'
      BY <2>1, <2>3, <2>4 DEF Ended, Registered, Live
    <3>5. out = "changed" => Seen(w.s.gen, obs)'
      <4>1. Seen(w.s.gen, SnapshotOf(pty[bound[w.s.gen]]))
        BY <2>3, SnapshotSeen DEF Seen
      <4> QED BY <2>1, <2>4, <4>1 DEF Seen, Registered, Live
    <3>6. WorkerKnows(v)'
      BY <2>2, <3>2, <3>4, <3>5 DEF WorkerKnows
    <3> QED BY <3>3, <3>6
  <2> QED BY <1>0, <1>1, <2>4, <2>5
<1>16. CASE \/ \E b \in Workers : ReplayDone(b) \/ ExitSettle(b) \/ ExitClear(b) \/ ExitRemove(b)
                                  \/ FinishEviction(b)
            \/ ProbeSkip \/ Probed \/ Revive \/ Crash
  <2>q. "clear" \in Quiet /\ "remove" \in Quiet /\ "idle" \in Quiet /\ "replay" \in Quiet
        /\ "stopping" \in Quiet
    BY DEF Quiet, WorkerPc
  <2>1. CASE \E b \in Workers : ReplayDone(b)
    BY <1>3, <1>6, <2>1 DEF ReplayDone
  <2>2. CASE \E b \in Workers : ExitSettle(b) \/ ExitClear(b)
    BY <1>4, <2>q, <2>2 DEF ExitSettle, ExitClear
  <2>3. ASSUME NEW b \in Workers, ExitRemove(b) PROVE WorkerKnows(worker[a])'
    <3>1. PICK pc : To(b, pc) /\ pc \in {"idle", "replay", Continue(b, "stopping")}
      BY <2>3 DEF ExitRemove
    <3> QED BY <1>3, <1>6, <2>q, <3>1
  <2>4. ASSUME NEW b \in Workers, FinishEviction(b) PROVE WorkerKnows(worker[a])'
    <3>1. \/ worker' = [worker EXCEPT ![b].pc = "clear"] \/ To(b, Continue(b, "stopping"))
      BY <2>4 DEF FinishEviction
    <3> QED BY <1>3, <1>4, <1>6, <2>q, <3>1
  <2>5. CASE ProbeSkip \/ Probed
    BY <1>3, <2>q, <2>5 DEF ProbeSkip, Probed
  <2>6. CASE Revive
    BY <1>3, <2>q, <2>6 DEF Revive
  <2>7. CASE Crash
    BY <1>2, <2>q, <2>7 DEF Crash, Idle
  <2> QED BY <1>16, <2>1, <2>2, <2>3, <2>4, <2>5, <2>6, <2>7
<1>17. CASE worker' = worker
  BY <1>1, <1>17
<1> QED BY <1>7, <1>8, <1>9, <1>10, <1>13, <1>14, <1>15, <1>16, <1>17, WorkerChanges
        DEF WorkerStep

\* The presentation handler holds an observation of the session's own endpoint.
LEMMA PresentationKnows ==
  ASSUME TypeOK, TypeOK', RuntimeInv, [Next]_vars, pres'.pc = "apply"
  PROVE  Seen(pres.s.gen, pres.obs)'
<1>0. /\ pres \in [pc: {"idle", "apply"}, s: Held, obs: Snapshot]
      /\ bound \in [Gens -> Gens \cup {0}] /\ notices \subseteq Gens \X Snapshot
      /\ loc \in Gens \cup {0}
  BY DEF TypeOK
<1>1. CASE pres' = pres
  <2>1. PICK g, o : g = pres.s.gen /\ o = pres.obs /\ o \in Snapshot
    BY <1>0
  <2>2. Seen(g, o)
    BY <1>1, <2>1 DEF RuntimeInv, Knows
  <2>3. Seen(g, o)'
    BY <2>1, <2>2, Knowledge
  <2> QED BY <1>1, <2>1, <2>3
<1>2. CASE \E g \in Gens : PresentationCall(g)
  <2>1. PICK g \in Gens, n \in notices :
          /\ n[1] = g /\ pty' = pty /\ bound' = bound
          /\ pres' = IF SessionForPty(g)
                     THEN [pc |-> "apply", s |-> Hold(row), obs |-> n[2]] ELSE NoPres
    BY <1>2 DEF PresentationCall
  <2>2. SessionForPty(g)
    BY <2>1 DEF NoPres
  <2>3. pres'.s.gen = row.gen /\ pres'.obs = n[2]
    BY <2>1, <2>2 DEF Hold
  <2>4. bound[row.gen] = g /\ row.gen \in Gens /\ g # 0
    BY <1>0, <2>2 DEF SessionForPty, Located, Gens
  <2>5. Live(g) => SeenOf(pty[g], n[2])
    BY <2>1 DEF RuntimeInv, Opened
  <2> QED BY <2>1, <2>3, <2>4, <2>5 DEF Seen, Registered, Live
<1>3. CASE PresentationApply \/ Crash
  BY <1>3 DEF PresentationApply, Crash, NoPres
<1> QED BY <1>1, <1>2, <1>3, Changes

\* The operator's handler clears and stops a generation it has ended, or one whose
\* row it read as stopped.
LEMMA OperatorKnows ==
  ASSUME TypeOK, TypeOK', RuntimeInv, [Next]_vars
  PROVE  /\ op'.pc = "clear" => Ended(op.s.gen)'
         /\ op'.pc = "stop" => op'.s.rt = "stopped" \/ Ended(op.s.gen)'
         /\ op'.pc # "idle" =>
              /\ op'.s.gen # 0 /\ op'.s.gen <= row'.gen
              /\ op'.s.rt = "stopped" /\ op'.s.gen = row'.gen => row'.rt = "stopped"
<1> DEFINE Ok == /\ op'.pc = "clear" => Ended(op.s.gen)'
                 /\ op'.pc = "stop" => op'.s.rt = "stopped" \/ Ended(op.s.gen)'
                 /\ op'.pc # "idle" =>
                      /\ op'.s.gen # 0 /\ op'.s.gen <= row'.gen
                      /\ op'.s.rt = "stopped" /\ op'.s.gen = row'.gen => row'.rt = "stopped"
           Op == [pc: {"idle", "terminate", "clear", "stop"}, kind: {"kill", "forget"}, s: Held]
<1>0. /\ op \in Op /\ row \in Session /\ row.gen \in Nat /\ row'.gen \in Nat
      /\ RowStep(row, row') /\ op.s.gen \in Nat
      /\ bound \in [Gens -> Gens \cup {0}] /\ pty \in [Gens -> Pty]
      /\ loc \in Gens \cup {0}
  BY RowSteps DEF TypeOK, Session, Held
<1>1. row'.gen >= row.gen /\ (row'.gen = row.gen /\ row.rt = "stopped" => row'.rt = "stopped")
  <2>1. ReserveGeneration(row).gen = row.gen + 1
    BY <1>0 DEF ReserveGeneration, Session
  <2> QED BY <1>0, <2>1, RowEdges
<1>2. ASSUME op.pc # "idle"
      PROVE  /\ op.s.gen # 0 /\ op.s.gen <= row'.gen
             /\ op.s.rt = "stopped" /\ op.s.gen = row'.gen => row'.rt = "stopped"
  <2>1. /\ op.s.gen # 0 /\ op.s.gen <= row.gen
        /\ op.s.rt = "stopped" /\ op.s.gen = row.gen => row.rt = "stopped"
    BY <1>2 DEF RuntimeInv, Knows
  <2> QED BY <1>0, <1>1, <2>1
<1>3. CASE op' = op
  <2>1. PICK g : g = op.s.gen
    OBVIOUS
  <2>2. Ended(g) => Ended(g)'
    BY Knowledge
  <2>3. Ended(op.s.gen) => Ended(op.s.gen)'
    BY <1>3, <2>1, <2>2 DEF Ended, Registered
  <2> QED BY <1>2, <1>3, <2>3 DEF RuntimeInv, Knows
<1>4. CASE op'.pc = "idle"
  BY <1>4
<1>5. CASE OpBegin
  <2>1. PICK r : /\ op'.pc = "terminate" /\ op'.s = Hold(r) /\ r = row'
                 /\ row' = row \/ row' = RevokeRecovery(row, row.gen)
                 /\ row.gen > 0
    BY <1>5 DEF OpBegin
  <2>2. row'.gen = row.gen
    BY <1>0, <2>1 DEF RevokeRecovery, Session
  <2>3. op'.s.gen = row'.gen /\ op'.s.rt = row'.rt
    BY <2>1 DEF Hold
  <2> QED BY <1>0, <2>1, <2>2, <2>3
<1>6. CASE OpTerminate
  <2>1. CASE op.s.rt = "stopped" /\ op' = [op EXCEPT !.pc = "stop"] /\ op.pc = "terminate"
    <3>1. op'.pc = "stop" /\ op'.s = op.s
      BY <1>0, <2>1
    <3> QED BY <1>2, <2>1, <3>1
  <2>2. CASE /\ op.pc = "terminate" /\ loc = op.s.gen /\ op' = [op EXCEPT !.pc = "clear"]
             /\ \E ok \in Successes :
                  pty' = IF pty[bound[loc]].st = "live"
                         THEN [pty EXCEPT ![bound[loc]] = ChildGone(@, ok)] ELSE pty
    <3>1. op'.pc = "clear" /\ op'.s = op.s
      BY <1>0, <2>2
    <3>2. loc \in Gens /\ bound[loc] # 0 /\ bound[loc] \in Gens /\ bound' = bound
      BY <1>0, <1>2, <1>6, <2>2 DEF RuntimeInv, Opened, OpTerminate
    <3>3. pty'[bound[loc]].st # "live"
      BY <1>0, <2>2, <3>2, Ends
    <3>4. Ended(op.s.gen)'
      BY <2>2, <3>1, <3>2, <3>3 DEF Ended, Registered, Live
    <3> QED BY <1>2, <2>2, <3>1, <3>4
  <2>3. CASE op' = NoOp
    BY <1>4, <2>3 DEF NoOp
  <2> QED BY <1>6, <2>1, <2>2, <2>3 DEF OpTerminate
<1>7. CASE OpClear
  <2>1. op'.pc = "stop" /\ op'.s = op.s /\ op.pc = "clear" /\ pty' = pty /\ bound' = bound
    BY <1>0, <1>7 DEF OpClear, supervisor
  <2>2. Ended(op.s.gen)
    BY <2>1 DEF RuntimeInv, Knows
  <2>3. Ended(op.s.gen)'
    BY <2>1, <2>2 DEF Ended, Registered, Live
  <2> QED BY <1>2, <2>1, <2>3
<1>8. CASE OpStop \/ Crash
  BY <1>4, <1>8 DEF OpStop, Crash, NoOp
<1> QED BY <1>3, <1>5, <1>6, <1>7, <1>8, Changes DEF Operator

LEMMA KnowsStep ==
  ASSUME TypeOK, TypeOK', RuntimeInv, [Next]_vars PROVE Knows'
  BY Learns, PresentationKnows, OperatorKnows DEF Knows

-----------------------------------------------------------------------------
(* The theorems.                                                           *)

\* A fresh store has no process, no endpoint and no task that knows anything.
LEMMA InitRuntime == Init => RuntimeInv
<1> SUFFICES ASSUME Init PROVE RuntimeInv
  OBVIOUS
<1> USE BoundsAssumption
<1>1. /\ row = NoSession /\ loc = 0 /\ report = {} /\ calls = {} /\ notices = {}
      /\ \A g \in Gens : bound[g] = 0 /\ engine[g] = "none" /\ pty[g].st = "none"
  BY DEF Init, NoPty
<1>2. /\ row.gen = 0 /\ row.rt = "stopped" /\ row.pres = "unavailable" /\ row.ae = 0
      /\ row.gen <= MaxGen /\ row.gen \notin Gens
  BY <1>1 DEF NoSession, Gens
<1>3. pres.pc = "idle" /\ op.pc = "idle" /\ launch.pc = "idle"
  BY DEF Init, NoPres, NoOp, NoLaunch
<1>4. ASSUME NEW a \in Workers PROVE worker[a].pc \in {"idle", "replay"}
  BY <1>4 DEF Init, Idle
<1>5. Untouched /\ Opened /\ Unobserved /\ BoundIsLive /\ Launching /\ CancelledIsOver
  BY <1>1, <1>2, <1>3 DEF Untouched, Opened, Unobserved, BoundIsLive, Launching,
     CancelledIsOver, Live, Registered
<1>6. Knows
  BY <1>3, <1>4 DEF Knows, WorkerKnows
<1>7. SingleRuntime /\ StoppedIsDead /\ PresentationAgreement
  BY <1>1, <1>2 DEF SingleRuntime, StoppedIsDead, PresentationAgreement
<1> QED BY <1>5, <1>6, <1>7 DEF RuntimeInv

LEMMA StepRuntime == TypeOK /\ TypeOK' /\ RuntimeInv /\ [Next]_vars => RuntimeInv'
  BY UntouchedStep, OpenedStep, UnobservedStep, BoundIsLiveStep, LaunchingStep, KnowsStep,
     CancelledStep, SingleStep, StoppedStep, AgreementStep DEF RuntimeInv

\* The runtime invariant holds of every behaviour.
THEOREM RuntimeInvariance == Spec => []RuntimeInv
<1>1. IInv => TypeOK
  BY DEF IInv
<1> QED BY <1>1, Invariance, InitRuntime, StepRuntime, PTL DEF Spec

\* Whatever is crashed, lost, delayed or reordered, and however many launches,
\* registrations and evictions run, a pubkey never has two live processes
\* (reserve_session_with_facts).
THEOREM SingleRuntimeCorrect == Spec => []SingleRuntime
<1>1. RuntimeInv => SingleRuntime
  BY DEF RuntimeInv
<1> QED BY <1>1, RuntimeInvariance, PTL

\* A session the store calls stopped, and may relaunch, has no live process: a stale
\* exit report, a failed probe or a kill of an older generation never disowns one
\* (mark_runtime_stopped_if_generation, finalize_runtime_stopped_if_epoch).
THEOREM StoppedCorrect == Spec => []StoppedIsDead
<1>1. RuntimeInv => StoppedIsDead
  BY DEF RuntimeInv
<1> QED BY <1>1, RuntimeInvariance, PTL

\* However presentation notices and probes are delayed, reordered or lost, a row that
\* carries its supervisor's epoch is headed exactly when that supervisor has a client
\* (apply_session_presentation_edge, cancel_idle_eviction_on_presentation_change).
THEOREM PresentationCorrect == Spec => []PresentationAgreement
<1>1. RuntimeInv => PresentationAgreement
  BY DEF RuntimeInv
<1> QED BY <1>1, RuntimeInvariance, PTL
=============================================================================
