---------------------------- MODULE MCLifecycle ----------------------------
(***************************************************************************)
(* SessionLifecycle for TLC.  A behaviour takes its bounds from one of the *)
(* scenarios, which are small in different respects: the constants of      *)
(* SessionLifecycle are the largest of them.  A history variable keeps the *)
(* last instant at which the session was not truly inactive (a client      *)
(* attached, a turn under way, or accepted work).                          *)
(***************************************************************************)
EXTENDS SessionLifecycle

CONSTANT Scenarios  \* the bounds a behaviour may have

VARIABLES
  caps,   \* the bounds of this behaviour
  quiet   \* since when the session has been inactive

hvars == <<vars, caps, quiet>>

\* "exits": a process may end of itself, and not only when it is killed.
Caps(gen, epoch, time, crash, operator, letters, turns, exits) ==
  [gen |-> gen, epoch |-> epoch, time |-> time, crash |-> crash, operator |-> operator,
   letters |-> letters, turns |-> turns, exits |-> exits]

\* Clients that come and go while the idle evictor is at work, and a relaunch
\* with an operator who kills or forgets, each also with a process that ends of
\* itself on a smaller scale.
SafetyScenarios ==
  {Caps(1, 2, 2, 0, 0, 0, 0, FALSE), Caps(1, 1, 2, 0, 0, 0, 0, TRUE),
   Caps(2, 0, 1, 0, 1, 0, 0, FALSE), Caps(1, 0, 1, 0, 1, 0, 0, TRUE),
   Caps(2, 0, 1, 0, 0, 0, 0, TRUE)}

\* Evictions with a crash of the daemon or with a process that ends of itself,
\* both together where the clock leaves no time for an eviction, and there also
\* turns with an operator and turns with mail.
LivenessScenarios ==
  {Caps(1, 0, 2, 1, 0, 0, 0, FALSE), Caps(1, 0, 2, 0, 0, 0, 0, TRUE),
   Caps(1, 0, 1, 1, 0, 0, 0, TRUE), Caps(1, 0, 1, 0, 1, 0, 1, TRUE),
   Caps(1, 0, 1, 0, 0, 1, 1, TRUE)}

Fits ==
  /\ row.gen <= caps.gen /\ now <= caps.time /\ row.turns <= caps.turns
  /\ \A g \in Gens : pty[g].ep <= caps.epoch
  /\ crashes <= caps.crash /\ ops <= caps.operator /\ mail <= caps.letters

TrulyInactive ==
  /\ row.work = "idle" /\ ~Busy
  /\ \A p \in Gens : pty[p].clients = 0

HInit == Init /\ caps \in Scenarios /\ quiet = now

In(A) ==
  /\ UNCHANGED caps /\ A /\ Fits'
  /\ quiet' = IF TrulyInactive' THEN quiet ELSE now'

HNext ==
  \/ In(Tick) \/ In(Crash)
  \/ In(Reserve) \/ In(OpenFails) \/ In(OpenEndpoint) \/ In(Register) \/ In(RegisterFails)
  \/ In(Enqueue) \/ In(Deliver)
  \/ \E g \in 1 .. row.gen : In(TurnStarted(g)) \/ In(TurnEnded(g))
  \/ \E g \in Gens :
       \/ In(HookRegister(g)) \/ In(Attach(g)) \/ In(Detach(g)) \/ In(EngineExits(g))
       \/ caps.exits /\ (In(ChildExits(g)) \/ In(SupervisorVanishes(g)))
       \/ In(SupervisorReports(g)) \/ In(SupervisorEnds(g))
       \/ In(PresentationCall(g)) \/ In(ExitCall(g))
  \/ In(PresentationApply)
  \/ \E a \in Workers, g \in Gens : In(Replay(a, g))
  \/ \E a \in Workers :
       \/ In(ReplayDone(a)) \/ In(ExitLookup(a)) \/ In(ExitSettle(a)) \/ In(ExitClear(a))
       \/ In(ExitRemove(a)) \/ In(AdoptStopping(a)) \/ In(KillIfHeadless(a))
       \/ In(FinishEviction(a))
  \/ In(Probe) \/ In(ProbeSkip) \/ In(Probed) \/ In(Evict) \/ In(Revive)
  \/ In(OpBegin) \/ In(OpTerminate) \/ In(OpClear) \/ In(OpStop)

HSpec == HInit /\ [][HNext]_hvars

FairHSpec == HSpec /\ Fairness

\* The idle evictor (finish_idle_eviction, KILL_IF_HEADLESS) only ever kills a
\* process that has been without client, turn and pending work for IdleTimeout
\* seconds, whatever notifications and probes went through before.
KilledAfterInactivity ==
  [][\A a \in Workers, g \in Gens :
       /\ worker[a].pc = "asked" /\ worker'[a].pc = "finished"
       /\ pty[g].st = "live" /\ pty'[g].st = "exiting"
       => now - quiet >= IdleTimeout]_hvars

\* A session whose process is gone does not keep a running row (reap_dead,
\* supervisor_exited, the engine's pid watch), in the scenarios without eviction
\* and without a crash of the daemon.
GoneWithoutEviction ==
  []<>(caps.time = IdleTimeout /\ caps.crash = 0 => ~ProcessGone)
=============================================================================
