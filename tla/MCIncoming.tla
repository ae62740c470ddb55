----------------------------- MODULE MCIncoming -----------------------------
(***************************************************************************)
(* From a relay event to an agent's turn: the ingest of fabric events and  *)
(* the harness child that the turns run in.  They share no state, so a     *)
(* behaviour of this module is one of one of them while the other rests    *)
(* in an initial state.                                                    *)
(***************************************************************************)
EXTENDS MCIngest, RpcHarness

VARIABLE component   \* the one that runs

incomingVars == <<component, ingestVars, rpcVars>>

Rests(c) ==
  CASE c = "ingest" -> published = {} /\ sess["d"] = "stopped"
    [] c = "rpc" -> dialect = "acp"

IncomingInit ==
  /\ component \in {"ingest", "rpc"}
  /\ IngestInit /\ RpcInit
  /\ \A c \in {"ingest", "rpc"} \ {component} : Rests(c)

\* Events published and faults of a behaviour of the ingest, together.
IngestEffort == 3

InIngest(A) ==
  /\ component = "ingest" /\ A /\ Cardinality(published') + faults' <= IngestEffort
  /\ UNCHANGED <<component, rpcVars>>

InRpc(A) == component = "rpc" /\ A /\ UNCHANGED <<component, ingestVars>>

IncomingNext ==
  \/ InIngest(RosterChanges) \/ InIngest(drive_retries) \/ InIngest(wait_dispatch_ack)
  \/ InIngest(send_dispatch_message) \/ InIngest(Crash)
  \/ \E role \in {"admin", "member"}, v \in DOMAIN AdminRoster :
       \/ InIngest(materialize_roster(role, v))
  \/ \E e \in Events :
       \/ InIngest(handle_incoming(e)) \/ InIngest(rpc_dispatch(e))
  \/ \E e \in published, k \in Keys : InIngest(Ages(e, k))
  \/ \E p \in Hosted : InIngest(SessionStops(p))
  \/ \E j \in jobs :
       \/ InIngest(MentionStart(j)) \/ InIngest(MentionResume(j))
       \/ InIngest(MentionRelaunch(j)) \/ InIngest(MentionSpawn(j))
       \/ InIngest(confirm_recovery_standing(j)) \/ InIngest(handle_orchestration(j))
       \/ InIngest(handle_session_dispatch(j)) \/ InIngest(ClaimTarget(j))
       \/ InIngest(admit_running_target(j)) \/ InIngest(resume_target(j))
       \/ InIngest(spawn_target(j)) \/ InIngest(spawn_dispatched(j))
       \/ InIngest(accept_command(j)) \/ InIngest(kill_session(j))
       \/ InIngest(archive_named_channel(j)) \/ InIngest(list_sessions(j))
       \/ InIngest(CompleteCommand(j))
  \/ \E lost \in BOOLEAN : InRpc(ChildTakes(lost))
  \/ \E lost \in BOOLEAN, t \in Turns : InRpc(ChildFinishes(t, lost))
  \/ InRpc(ChildExits) \/ InRpc(dispatch_inbound) \/ InRpc(ReaderEof) \/ InRpc(ReaderDrains)
  \/ InRpc(DrainUpdates) \/ InRpc(Reap)
  \/ \E ok \in BOOLEAN :
       \/ InRpc(initialize(ok)) \/ InRpc(session_new(ok)) \/ InRpc(model_catalog(ok))
       \/ InRpc(thread_start(ok)) \/ InRpc(admit(ok))
  \/ InRpc(OpenExits) \/ InRpc(failed_spawn) \/ InRpc(register_child) \/ InRpc(kill)
  \/ InRpc(KillReturns)
  \/ \E d \in Deliveries :
       \/ InRpc(deliver(d)) \/ InRpc(thread_turn_baseline(d)) \/ InRpc(BaselineRead(d))
       \/ InRpc(RegisterAndStart(d)) \/ InRpc(StartReply(d)) \/ InRpc(ObserveSignal(d))
       \/ InRpc(Reconcile(d)) \/ InRpc(reconcile_while_observing(d))
       \/ InRpc(spawn_app_server_steer_pending(d)) \/ InRpc(spawn_app_server_steer(d))
       \/ InRpc(turn_steer(d)) \/ InRpc(spawn_acp_prompt(d)) \/ InRpc(BaselineTimesOut(d))
       \/ InRpc(ReadTimesOut(d))

IncomingSpec ==
  /\ IncomingInit /\ [][IncomingNext]_incomingVars
  /\ WF_ingestVars(InIngest(\E j \in jobs : JobStep(j)))
  /\ WF_ingestVars(InIngest(drive_retries))
  /\ WF_ingestVars(InIngest(\E e \in published, k \in Keys : Ages(e, k)))
  /\ WF_ingestVars(InIngest(\E e \in replaying : handle_incoming(e)))
  /\ WF_rpcVars(InRpc(ChildTakes(FALSE))) /\ \A t \in Turns : WF_rpcVars(InRpc(ChildFinishes(t, FALSE)))
  /\ WF_rpcVars(InRpc(dispatch_inbound)) /\ WF_rpcVars(InRpc(ReaderEof)) /\ WF_rpcVars(InRpc(ReaderDrains))
  /\ WF_rpcVars(InRpc(DrainUpdates)) /\ WF_rpcVars(InRpc(Reap)) /\ WF_rpcVars(InRpc(register_child))
  /\ \A d \in Deliveries : /\ WF_rpcVars(InRpc(DeliveryStep(d)))
                            /\ WF_rpcVars(InRpc(StartReply(d))) /\ WF_rpcVars(InRpc(ObserveSignal(d)))

\* What came in is dealt with in the end: mentions are queued and settled, deliveries to
\* an RPC harness resolved, and the entry of a child that exits reaped.
IncomingProgress == MentionsSettle /\ ClaimedIsQueued /\ DeliveryResolves /\ ExitIsReaped
=============================================================================
