------------------------------ MODULE MCState ------------------------------
(***************************************************************************)
(* What the daemon keeps on disk and what it owes the relays for it: the   *)
(* store's schema, the readiness of channels and the published presence.   *)
(* The three share no state, so a behaviour of this module is one of one   *)
(* of them while the others rest in an initial state.                      *)
(***************************************************************************)
EXTENDS MCReadiness, MCSchema, PresenceStatus

VARIABLE component   \* the one that runs

stateVars == <<component, readinessVars, svars, pvars>>

Rests(c) ==
  CASE c = "readiness" -> plan = (CHOOSE t \in Traffic : TRUE).plan
    [] c = "schema"    -> origin = File(0, {}, NoRows, TRUE)
    [] c = "presence"  -> TRUE

StateInit ==
  /\ component \in {"readiness", "schema", "presence"}
  /\ ReadinessInit /\ SchemaInit /\ PresenceInit
  /\ \A c \in {"readiness", "schema", "presence"} \ {component} : Rests(c)

InReadiness(A) == component = "readiness" /\ A /\ UNCHANGED <<component, svars, pvars>>
InSchema(A) == component = "schema" /\ A /\ UNCHANGED <<component, readinessVars, pvars>>
InPresence(A) == component = "presence" /\ A /\ UNCHANGED <<component, readinessVars, svars>>

StateNext ==
  \/ \E p \in Callers :
       \/ InReadiness(ResolveHit(p)) \/ InReadiness(resolve_channel(p))
       \/ InReadiness(rpc_channel_create(p)) \/ InReadiness(verify_start_channel_ready(p))
       \/ InReadiness(archive_channel(p)) \/ InReadiness(CheckAndLock(p))
       \/ InReadiness(fetch_group_state(p)) \/ InReadiness(create_group(p))
       \/ InReadiness(poll_materialized(p)) \/ InReadiness(try_grant_mgmt_admin_via_user_nsec(p))
       \/ InReadiness(confirm_parent(p)) \/ InReadiness(grant_admins(p))
       \/ InReadiness(ensure_member(p)) \/ InReadiness(mark_ready(p))
       \/ InReadiness(FinishCall(p)) \/ InReadiness(ReadFails(p)) \/ InReadiness(TimesOut(p))
  \/ \E ch \in Channels :
       \/ InReadiness(MaterializeRoster(ch)) \/ InReadiness(MaterializeMetadata(ch))
       \/ InReadiness(RemoteRemoves(ch))
  \/ InReadiness(Expires) \/ InReadiness(Restart)
  \/ InSchema(check_initial) \/ InSchema(HandOff) \/ InSchema(apply) \/ InSchema(Upgraded)
  \/ InSchema(create_schema) \/ InSchema(stamp) \/ InSchema(Import) \/ InSchema(Die)
  \/ InPresence(ChangeRow) \/ InPresence(stop_generation) \/ InPresence(Relaunch)
  \/ InPresence(revoke_operator_session) \/ InPresence(Work) \/ InPresence(RestartDaemon)
  \/ InPresence(TickPeriod)
  \/ \E g \in PGens :
       \/ InPresence(EngineStarts(g)) \/ InPresence(Renew(g))
       \/ InPresence(close_generation(g)) \/ InPresence(EngineEnds(g))
  \/ \E r \in reads : InPresence(reconcile_generation(r)) \/ InPresence(drive(r))
  \/ \E o \in outs : InPresence(submit(o))
  \/ \E e \in wire : InPresence(DeliverLate(e))

StateSpec ==
  /\ StateInit /\ [][StateNext]_stateVars
  /\ \A p \in Callers : SF_readinessVars(InReadiness(ReadinessStep(p)))
  /\ WF_svars(InSchema(check_initial \/ HandOff \/ apply \/ Upgraded \/ create_schema \/ stamp))
  /\ WF_pvars(InPresence(PresenceProgress))

\* However notifications are reordered, dropped from a full queue or delayed,
\* the observers end up with what the session's row says (drive, submit).
PresenceConverges == <>[](component = "presence" => ObserversAgree)

\* A store of any supported version gets to its current schema, however often
\* the daemon dies on the way (check_initial, apply, create_schema).
StoreUpgrades == []<>(component = "schema" /\ origin.wellformed => proc.at = "open" \/ Torn)

\* The store, the channels and the observers get to where they should be: readiness
\* calls return, stores upgrade, and the observers agree with the row.
StateProgress == CallsReturn /\ StoreUpgrades /\ PresenceConverges
============================================================================
