------------------------------ MODULE MCAgents ------------------------------
(***************************************************************************)
(* How an agent comes to run and what it is told: the launch paths, the    *)
(* context of its turns, the gateway of remote agents, and the processes   *)
(* of its terminal.  The four share no state, so a behaviour of this       *)
(* module is one of one of them while the others rest in an initial state. *)
(***************************************************************************)
EXTENDS SessionLaunch, MCTurn, MCMcp, PtyOwnership, TLC

VARIABLE component   \* the one that runs

agentsVars == <<component, launchVars, tvars, mcpVars, ptyVars>>

Rests(c) ==
  CASE c = "launch" -> minted = 0
    [] c = "turn" -> scen = (CHOOSE s \in Scenarios : s.env = {}) /\ cursor = 0
    [] c = "mcp" -> scene = "feed"
    [] c = "pty" -> TRUE

\* "relaunch": the launch paths after an earlier session.
AgentsInit ==
  /\ component \in {"launch", "relaunch", "turn", "mcp", "pty"}
  /\ LaunchInit /\ TurnInit /\ McpInit /\ PtyInit
  /\ IF component = "relaunch" THEN minted = 1 ELSE Rests("launch")
  /\ \A c \in {"turn", "mcp", "pty"} \ {component} : Rests(c)

\* An action treats the native ids alike and no property names one.
NativeSymmetry == Permutations(Natives)

\* Calls and failing steps of a behaviour of the launch paths, together.
LaunchEffort == IF component = "launch" THEN 3 ELSE 2

InLaunch(A) ==
  /\ component \in {"launch", "relaunch"} /\ A /\ nlaunch' + lfaults' <= LaunchEffort
  /\ UNCHANGED <<component, tvars, mcpVars, ptyVars>>

InTurn(A) == component = "turn" /\ A /\ UNCHANGED <<component, launchVars, mcpVars, ptyVars>>

InMcp(A) ==
  /\ component = "mcp" /\ A /\ Cardinality(Posted') + mfaults' <= McpEffort
  /\ UNCHANGED <<component, launchVars, tvars, ptyVars>>

InPty(A) == component = "pty" /\ A /\ UNCHANGED <<component, launchVars, tvars, mcpVars>>

AgentsNext ==
  \/ \E c \in LCallers :
       \/ InLaunch(rpc_pty_spawn(c)) \/ InLaunch(SpawnDurable(c))
       \/ InLaunch(rpc_pty_resume(c)) \/ InLaunch(rpc_pty_resume_native(c))
       \/ InLaunch(decide_pty_wrap(c)) \/ InLaunch(Hook(c))
       \/ InLaunch(prepare_session_identity(c)) \/ InLaunch(PrepareDurable(c))
       \/ InLaunch(WrapKill(c)) \/ InLaunch(LoadIdentity(c))
       \/ InLaunch(reserve_prepared(c)) \/ InLaunch(Claim(c))
       \/ InLaunch(open_agent_session(c)) \/ InLaunch(SessionStartLocate(c))
       \/ InLaunch(retire_conflicting_pid_runtime(c)) \/ InLaunch(CheckRunning(c))
       \/ InLaunch(reserve_generation(c)) \/ InLaunch(BindRuntime(c))
       \/ InLaunch(retire_reclaimed_profile(c)) \/ InLaunch(spawn_session(c))
  \/ InLaunch(UserStarts) \/ InLaunch(UserClears) \/ InLaunch(ProcessExits)
  \/ InLaunch(EngineExits) \/ InLaunch(GracePasses)
  \/ \E h \in THooks :
       \/ InTurn(TurnStart(h)) \/ InTurn(TurnCheck(h)) \/ InTurn(drive_cursor_request(h))
       \/ InTurn(capture_inputs(h)) \/ InTurn(CaptureError(h)) \/ InTurn(Answer(h))
  \/ \E h \in THooks, ok \in BOOLEAN :
       \/ InTurn(assemble_turn_start(h, ok)) \/ InTurn(assemble_turn_check(h, ok))
  \/ \E h \in THooks, aged \in BOOLEAN : InTurn(render_context(h, aged))
  \/ InTurn(TTick)
  \/ \E i \in Items : InTurn(InjectMention(i))
  \/ \E i \in Items : \E at \in {clock - 1, clock} : InTurn(Materialize(i, at))
  \/ \E c \in TChannels :
       \/ InTurn(ChannelArrives(c)) \/ InTurn(ChannelArchived(c))
  \/ InTurn(ModeChanges) \/ InTurn(HostGranted) \/ InTurn(TurnEnd) \/ InTurn(TRestart)
  \/ \E b \in Browsers : InMcp(InLogin(authorize_page(b)))
  \/ \E b \in Browsers : \E f \in flow[b].forms, evs \in Proofs(b) :
       \/ InMcp(InLogin(authorize_submit(b, f, evs)))
  \/ \E b \in Browsers : \E c \in codes : InMcp(InLogin(token(b, c)))
  \/ InMcp(InLogin(LoginTick))
  \/ \E r \in MReqs :
       \/ Joins(r) /\ InMcp(InActor(post_mcp(r)))
       \/ InMcp(InActor(resolve(r)))
       \/ InMcp(InActor(mcp_actor_pubkey(r))) \/ InMcp(InActor(Activate(r)))
       \/ InMcp(InActor(reserve_mcp_actor_session(r))) \/ InMcp(InActor(bind_mcp_actor(r)))
       \/ InMcp(InActor(get_session(r))) \/ InMcp(InActor(call_as(r)))
  \/ \E r \in MReqs, ok \in BOOLEAN :
       \/ InMcp(InActor(ensure_joinable(r, ok))) \/ InMcp(InActor(publish_profile(r, ok)))
  \/ \E p \in ActorPubs :
       \/ InMcp(InActor(StopActor(p)))
       \/ InMcp(InActor(revoke_session_recovery_if_generation(p)))
       \/ InMcp(InActor(FinishStop(p)))
  \/ InMcp(InActor(DaemonRestart))
  \/ \E u \in Uris :
       \/ InMcp(InFeed(add(u))) \/ InMcp(InFeed(remove(u)))
  \/ InMcp(InFeed(shutdown)) \/ InMcp(InFeed(Update)) \/ InMcp(InFeed(get_mcp))
  \/ InMcp(InFeed(ListenerReads))
  \/ \E s \in streams :
       \/ InMcp(InFeed(StreamEnds(s))) \/ InMcp(InFeed(run_subscription(s)))
  \/ InPty(spawn_session_with_executable)
  \/ \E ok \in BOOLEAN : InPty(write_metadata(ok))
  \/ InPty(wait_until_ready) \/ InPty(rollback_spawned_supervisor)
  \/ InPty(discover_owned_child) \/ InPty(RollbackChild) \/ InPty(RollbackSupervisor)
  \/ InPty(cleanup_failed_launch) \/ InPty(ReapSupervisor) \/ InPty(SpawnChild)
  \/ InPty(record_child_pid) \/ InPty(ReapChild) \/ InPty(run_supervisor)
  \/ InPty(ChildDies) \/ InPty(SupervisorCrashes) \/ InPty(OtherStarts)
  \/ InPty(read_all_metadata) \/ InPty(verify_owned_process) \/ InPty(verify_owned_child)
  \/ InPty(HangUp) \/ InPty(KillChild) \/ InPty(TermSupervisor) \/ InPty(KillSupervisor)

AgentsSpec == AgentsInit /\ [][AgentsNext]_agentsVars

=============================================================================
