----------------------------- MODULE MCChannels -----------------------------
(***************************************************************************)
(* A channel as its sessions use it: messages, the subscriptions that      *)
(* bring them in, and the membership it takes.  The three share no state,  *)
(* so a behaviour of this module is one of one of them while the others    *)
(* rest in an initial state.  Memberships see no crash, store error or     *)
(* leave here: their bounds are zero, and MCStanding has those.            *)
(***************************************************************************)
EXTENDS MCMessaging, RelayCoverage, SessionStanding

VARIABLE component   \* the one that runs

channelsVars == <<component, messagingVars, cvars, vars>>

Rests(c) ==
  CASE c = "messaging" -> scen = CHOOSE t \in Traffic : TRUE
    [] c = "coverage" -> part = "coverage"
    [] c = "standing" -> TRUE

ChannelsInit ==
  /\ component \in {"messaging", "coverage", "standing"}
  /\ MessagingInit /\ CoverageInit /\ Init
  /\ \A c \in {"messaging", "coverage", "standing"} \ {component} : Rests(c)

InMessaging(A) == component = "messaging" /\ A /\ UNCHANGED <<component, cvars, vars>>

InCoverage(A) == component = "coverage" /\ A /\ UNCHANGED <<component, messagingVars, vars>>

InStanding(A) == component = "standing" /\ A /\ UNCHANGED <<component, messagingVars, cvars>>

ChannelsNext ==
  \/ \E o \in Ids :
       \/ InMessaging(rpc_channel_send(o)) \/ InMessaging(rpc_channel_reply(o))
       \/ InMessaging(publish_invite_orchestration(o)) \/ InMessaging(SelectAccount(o))
       \/ InMessaging(sign_event(o)) \/ InMessaging(RestoreAccount(o))
       \/ InMessaging(publish_signed_chat_event_checked(o))
       \/ InMessaging(submit_intents(o)) \/ InMessaging(wait_for_write_blocking(o))
       \/ InMessaging(seed_chat_read_models(o)) \/ InMessaging(RouteLocally(o))
       \/ InMessaging(FinishSend(o)) \/ InMessaging(RemotePublishes(o))
       \/ InMessaging(on_event(o)) \/ InMessaging(derive_and_emit_tail_events(o))
  \/ \E o \in Ids, r \in Relays : InMessaging(RelayAnswers(r, o))
  \/ \E r \in DOMAIN rd :
       \/ InMessaging(wait_scope_and_cursor(r)) \/ InMessaging(WaitSubscribes(r))
       \/ InMessaging(drain_matching(r)) \/ InMessaging(WaitWakes(r))
       \/ InMessaging(LiveSubscribes(r)) \/ InMessaging(handle_channel_read(r))
       \/ InMessaging(LiveNext(r)) \/ InMessaging(build_backfill(r))
       \/ InMessaging(handle_tail(r)) \/ InMessaging(WaitTimesOut(r))
  \/ InMessaging(replay_quarantined_chat) \/ InMessaging(drain_once)
  \/ InMessaging(replace_pending_writes) \/ InMessaging(MessagingTick)
  \/ \E s \in Sessions :
       \/ InMessaging(SessionStops(s)) \/ InMessaging(SessionRestarts(s))
  \/ InCoverage(EventArrives) \/ InCoverage(Materialize)
  \/ \E d \in drains : InCoverage(DrainSends(d))
  \/ \E t \in SyncTasks :
       \/ InCoverage(FactChanges(t)) \/ InCoverage(PlanSync(t))
       \/ InCoverage(ApplyEffect(t)) \/ InCoverage(SyncReturns(t))
  \/ \E c \in CChannels :
       \/ InCoverage(ScheduleReplay(c)) \/ InCoverage(replay_channel_chat(c))
  \/ InCoverage(fetch_from) \/ InCoverage(ReadEnds) \/ InCoverage(ReadDelivered)
  \/ \E n \in 0..1, ev \in Evidence : InCoverage(Frame(n, ev))
  \/ InCoverage(schedule_backend_profile_refresh) \/ InCoverage(Second)
  \/ \E t \in adv.tasks :
       \/ InCoverage(backend_profile_snapshot(t)) \/ InCoverage(publish_backend_profile(t))
  \/ InStanding(Tick) \/ InStanding(Launch) \/ InStanding(RuntimeStops)
  \/ InStanding(EvictionReserved) \/ InStanding(EvictionCancelled)
  \/ InStanding(EvictionFinalized)
  \/ \E t \in Callers :
       \/ InStanding(Request(t)) \/ InStanding(RecoveryRequest(t))
  \/ \E t \in Callers \cup {"tick", "forget"} :
       \/ InStanding(AdmitLock(t)) \/ InStanding(Grant(t)) \/ InStanding(Commit(t))
       \/ InStanding(Remove(t)) \/ InStanding(Mark(t))
  \/ InStanding(Repair) \/ InStanding(Expire) \/ InStanding(ForgetRevoke)
  \/ InStanding(ForgetTerminate) \/ InStanding(ForgetFinalize) \/ InStanding(ForgetLock)

ChannelsSpec ==
  /\ ChannelsInit /\ [][ChannelsNext]_channelsVars
  /\ WF_messagingVars(InMessaging(\E o \in Ids : RpcStep(o)))
  /\ WF_messagingVars(InMessaging(\E r \in DOMAIN rd : ReaderStep(r)))
  /\ WF_cvars(InCoverage(CoverageProgress))
  /\ SF_vars(InStanding(TickStep)) /\ SF_vars(InStanding(ForgetStep))
  /\ WF_vars(InStanding(Tick)) /\ \A t \in Callers : SF_vars(InStanding(Step(t)))

\* Channels get on: calls settle, a sync that succeeds covers what it set out for, covered
\* events arrive, the profile converges, a forgotten session leaves and a running
\* one is admitted.
ChannelsProgress == RpcsSettle /\ SyncedCovers /\ CoveredEventsArrive /\ ProfileConverges
                    /\ RevokedLeaves /\ RunningAdmitted
=============================================================================
