----------------------------- MODULE MCCommands -----------------------------
(***************************************************************************)
(* How a command reaches the daemon, and a conversation a channel of its   *)
(* own: the daemon's processes and the channel move.  They share no state, *)
(* so a behaviour of this module is one of one of them while the other     *)
(* rests in an initial state.                                              *)
(***************************************************************************)
EXTENDS MCDaemon, MCMove

VARIABLE component   \* the one that runs

commandsVars == <<component, dvars, vars>>

Rests(c) ==
  CASE c = "daemon" -> job = (CHOOSE w \in Workloads : TRUE) /\ sock = {}
    [] c = "move" -> scen = CHOOSE s \in Scenarios : TRUE

CommandsInit ==
  /\ component \in {"daemon", "move"}
  /\ DaemonInit /\ MoveInit
  /\ \A c \in {"daemon", "move"} \ {component} : Rests(c)

InDaemon(A) == component = "daemon" /\ A /\ UNCHANGED <<component, vars>>

InMove(A) == component = "move" /\ A /\ UNCHANGED <<component, dvars>>

CommandsNext ==
  \/ \E d \in Daemons :
       \/ InDaemon(AcquireLock(d)) \/ InDaemon(bind_socket(d)) \/ InDaemon(StartServing(d))
       \/ InDaemon(ReachSelect(d)) \/ InDaemon(cleanup(d)) \/ InDaemon(DropLock(d))
       \/ InDaemon(ExitProcess(d)) \/ InDaemon(HandlePleaseExit(d)) \/ InDaemon(Crash(d))
  \/ \E r \in reqs : InDaemon(Dispatch(r))
  \/ \E c \in Clients :
       \/ InDaemon(StartCommand(c)) \/ InDaemon(HookInhibited(c)) \/ InDaemon(Dial(c))
       \/ InDaemon(Welcome(c)) \/ InDaemon(NoWelcome(c)) \/ InDaemon(Decide(c))
       \/ InDaemon(GraceEnds(c)) \/ InDaemon(Answer(c)) \/ InDaemon(NoAnswer(c))
       \/ InDaemon(PingAnswered(c)) \/ InDaemon(PingUnanswered(c)) \/ InDaemon(TryLock(c))
       \/ InDaemon(ReclaimSocket(c)) \/ InDaemon(spawn_detached_daemon(c))
       \/ InDaemon(DropStartupLock(c)) \/ InDaemon(poll_spawned_child(c))
       \/ InDaemon(WaitForExit(c)) \/ InDaemon(ReleaseProbe(c)) \/ InDaemon(SetInhibit(c))
       \/ InDaemon(DeadlinePasses(c)) \/ InDaemon(KillCommand(c))
  \/ \E s \in Sessions :
       \/ InMove(maybe_nudge(s)) \/ InMove(EnterExisting(s)) \/ InMove(CreateChild(s))
       \/ InMove(NextParticipant(s)) \/ InMove(JoinPeer(s))
       \/ InMove(ensure_backend_admin(s)) \/ InMove(publish_running_only_moves(s))
       \/ InMove(CheckPointer(s)) \/ InMove(PostPointer(s)) \/ InMove(Talks(s))
       \/ InMove(Stops(s)) \/ InMove(Relaunches(s)) \/ InMove(Leaves(s))
  \/ \E s \in Sessions, n \in scen.names : InMove(rpc_accept(s, n))
  \/ \E o \in orch : InMove(RemoteHandles(o))
  \/ \E i \in Invites :
       \/ InMove(rpc_invite(i)) \/ InMove(pull_live_session(i))
       \/ InMove(resume_local_session(i)) \/ InMove(invite_remote_session(i))
       \/ InMove(wait_until(i))
  \/ InMove(Tick) \/ InMove(Restart)

CommandsSpec ==
  /\ CommandsInit /\ [][CommandsNext]_commandsVars
  /\ \A d \in Daemons : WF_dvars(InDaemon(MainTask(d))) /\ WF_dvars(InDaemon(HandlePleaseExit(d)))
  /\ \A c \in Clients : WF_dvars(InDaemon(ClientStep(c)))
  /\ WF_dvars(InDaemon(\E r \in reqs : Dispatch(r)))
  /\ WF_vars(InMove(\E s \in Sessions : AcceptStep(s)))
  /\ WF_vars(InMove(\E o \in orch : RemoteHandles(o)))
  /\ WF_vars(InMove(\E i \in Invites : InviteStep(i)))

\* Commands get on: no command is stranded by a race to start or replace the daemon, an
\* older daemon does not stay in the way, every move and invite is answered, those asked
\* to move arrive, and no invite is committed for a session that has relaunched since it
\* was read.
CommandsProgress == []SpawnRaceServed /\ []UpgradeNotStranded /\ OldDaemonGoes /\ CallsAnswer
                    /\ RequestedArrive /\ InviteFenced
=============================================================================
