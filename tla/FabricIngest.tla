---------------------------- MODULE FabricIngest ----------------------------
(* How the daemon turns relay events into work: chat admission against the   *)
(* mirrored rosters (fabric/admission.rs, state/members.rs), the demux loop   *)
(* (daemon/server/demux.rs), and the handlers it spawns: recovery of a        *)
(* mentioned session that is offline, add-agents orchestration, session       *)
(* dispatch and management commands.  The handlers share one durable table of *)
(* claims (state/event_claims.rs); the relay may deliver an event any number  *)
(* of times, and the daemon may crash between any two steps.                  *)
EXTENDS Naturals, FiniteSets, Sequences

CONSTANTS
  Events,       \* kind:9 events, each with its author, p-tags and wire form
  From,         \* [Events -> pubkey]
  To,           \* [Events -> SUBSET pubkey]: mentioned pubkeys
  Wire,         \* [Events -> the operation tags and the body of the event]
  NewTraffic,   \* <<events, running pubkeys>> of a channel with no roster yet
  SettledTraffic, \* <<events, running pubkeys>> of a channel whose rosters are mirrored
  Derived,      \* hosted pubkeys of per-session keys, with a session
  Stable,       \* hosted pubkeys of configured agents, with no session yet
  Resumable,    \* pubkeys with a native resume locator
  AdminRoster,  \* [version -> SUBSET pubkey]: kind:39001, by created_at
  MemberRoster, \* [version -> SUBSET pubkey]: kind:39002, by created_at
  ChildAdmins,  \* admins of the child channel an orchestration names
  SEEN_EVENTS_CAP, \* ids first_sight remembers
  MaxJobs,      \* bound: concurrent handlers of one claim or operation
  MaxFaults     \* bound: failures, slow handlers, crashes and stops together

\* The relay has both rosters in every version.
ASSUME RosterAssumption ==
  /\ Len(AdminRoster) \in Nat \ {0} /\ Len(MemberRoster) = Len(AdminRoster)
  /\ DOMAIN AdminRoster = 1..Len(AdminRoster) /\ DOMAIN MemberRoster = 1..Len(AdminRoster)

\* Pubkeys are not the keys of claims that name none; an event adds two targets at most.
ASSUME TrafficAssumption ==
  /\ \A t \in NewTraffic \cup SettledTraffic : t[1] \subseteq Events
  /\ (Derived \cup Stable) \cap {"t1", "t2", "dispatch", "management"} = {}
  /\ \A e \in Events : Len(Wire[e].adds) \in 0..2
  /\ MaxJobs \in Nat \ {0} /\ SEEN_EVENTS_CAP \in Nat

VARIABLES
  relayv,     \* the newest roster version the relay holds
  hw,         \* [role -> version materialized], 0 before the first
  mirror,     \* relay_channel_members: pubkey -> role
  published,  \* events on the relay
  replaying,  \* events an observation just opened will deliver
  seen,       \* event ids past first_sight in this process, oldest first
  quarantine, \* relay_event_quarantine
  messages,   \* chats accepted into the message store
  inbox,      \* rows <<event, pubkey>> of the inbox ledger
  claims,     \* event_claims: [event -> [key -> state and age]]
  jobs,       \* handler tasks in flight
  sess,       \* [hosted pubkey -> "none", "stopped" or "running"]
  route,      \* hosted pubkeys with a durable route to the channel
  standing,   \* hosted pubkeys the relay lists as members of the channel
  effects,    \* [event -> [key -> launches, admissions or commands executed]]
  caller,     \* the rpc_dispatch call: "idle", "waiting", "acked", "sent", "failed", "timedout"
  acks,       \* dispatch events acknowledged by a status event
  slow,       \* handlers that outlived their lease
  faults      \* failures, slow handlers, crashes and stops so far

durable == <<quarantine, messages, inbox, claims>>
budget == <<slow, faults>>
ingestVars == <<relayv, hw, mirror, published, replaying, seen, durable, jobs,
                sess, route, standing, effects, caller, acks, budget>>

Hosted == Derived \cup Stable
Keys == Hosted \cup {"t1", "t2", "dispatch", "management"}
TargetKey == <<"t1", "t2">>
Pubkeys == Hosted \cup {From[e] : e \in Events} \cup
           UNION {AdminRoster[v] \cup MemberRoster[v] : v \in DOMAIN AdminRoster}

IngestInit ==
  /\ \E t \in NewTraffic \cup SettledTraffic :
       /\ published = t[1]
       /\ relayv = IF t \in NewTraffic THEN 1 ELSE Len(AdminRoster)
       /\ hw = [r \in {"admin", "member"} |-> IF t \in NewTraffic THEN 0 ELSE relayv]
       /\ mirror = IF t \in NewTraffic THEN <<>>
                   ELSE [p \in AdminRoster[relayv] \cup MemberRoster[relayv] |->
                           IF p \in AdminRoster[relayv] THEN "admin" ELSE "member"]
       /\ sess = [p \in Hosted |-> IF p \in t[2] THEN "running"
                                  ELSE IF p \in Derived THEN "stopped" ELSE "none"]
  /\ replaying = published
  /\ seen = <<>> /\ quarantine = {} /\ messages = {} /\ inbox = {}
  /\ claims = [e \in Events |-> [k \in Keys |-> [state |-> "none", old |-> FALSE]]]
  /\ jobs = {}
  /\ route = Derived /\ standing = {}
  /\ effects = [e \in Events |-> [k \in Keys |-> 0]]
  /\ caller = "idle" /\ acks = {}
  /\ slow = 0 /\ faults = 0

----------------------------------------------------------------------------
(* Wire forms. *)

build_event(operation, parent_h, child_h, adds) ==
  [op |-> operation, h |-> <<parent_h>>, parent |-> <<parent_h>>,
   target |-> <<child_h>>, adds |-> adds, dispatches |-> <<>>, body |-> "prose"]

build_session_dispatch_event(route_channel, target) ==
  [op |-> "dispatch", h |-> <<route_channel>>, parent |-> <<>>, target |-> <<>>,
   adds |-> <<>>, dispatches |-> <<target>>, body |-> "prose"]

\* Only the structured tags count, and each must appear exactly once.
parse_orchestration(w) ==
  {[parent |-> w.parent[1], child |-> w.target[1], adds |-> w.adds,
    running_only |-> w.op = "admit"] :
     ok \in {t \in {TRUE} :
       /\ w.op \in {"add", "admit"}
       /\ Len(w.h) = 1 /\ w.parent = w.h /\ Len(w.target) = 1
       /\ w.adds # <<>>
       /\ w.op = "admit" => \A i \in DOMAIN w.adds : w.adds[i] # {}}}

parse_session_dispatch(w) ==
  {w.dispatches[1] :
     ok \in {t \in {TRUE} : w.op = "dispatch" /\ Len(w.h) = 1 /\ Len(w.dispatches) = 1}}

is_command_shaped(w) == w.body \in {"kill", "archive", "list", "garbled"}

parse_command(w) == w.body # "garbled"

----------------------------------------------------------------------------
(* The claim table. *)

Claim(state, old) == [state |-> state, old |-> old]

claimable(c) == c.state \in {"none", "pending"} \/ (c.state = "processing" /\ c.old)

claim_orchestration_target(cs, e, ks) ==
  [cs EXCEPT ![e] = [k \in Keys |-> IF k \in ks THEN Claim("processing", FALSE) ELSE @[k]]]

complete_target(e, k) == [claims EXCEPT ![e][k] = Claim("completed", FALSE)]

retry_orchestration_target(e, k) ==
  IF claims[e][k].state = "processing"
    THEN [claims EXCEPT ![e][k] = Claim("pending", TRUE)] ELSE claims

\* Mutant: without AND state='processing'.
RetryUnguarded(e, k) == [claims EXCEPT ![e][k] = Claim("pending", FALSE)]

retry_offline_mention(e, k) ==
  IF claims[e][k].state = "processing"
    THEN [claims EXCEPT ![e][k] = Claim("pending", FALSE)] ELSE claims

\* Mutant: claims left in processing are not listed.
ListPendingOnly ==
  {ek \in published \X Hosted : LET c == claims[ek[1]][ek[2]] IN c.state = "pending" /\ c.old}

\* pending for 30 s, or processing for longer than the 600 s lease.
list_retryable_offline_mentions ==
  {ek \in published \X Hosted : LET c == claims[ek[1]][ek[2]] IN
     c.state \in {"pending", "processing"} /\ c.old}

----------------------------------------------------------------------------
(* Rosters and chat admission. *)

\* Mutant: one of the two rosters is enough.
AnySnapshot == hw["admin"] > 0 \/ hw["member"] > 0

has_channel_membership_snapshot == hw["admin"] > 0 /\ hw["member"] > 0

chat_admission(e) ==
  IF ~has_channel_membership_snapshot THEN "unhydrated"
  ELSE IF From[e] \in DOMAIN mirror THEN "accepted" ELSE "rejected"

\* The role's rows are deleted and rewritten; a pubkey keeps one row, an
\* admin's row survives a member replacement.
replace_role(role, v) ==
  LET pubkeys == IF role = "admin" THEN AdminRoster[v] ELSE MemberRoster[v]
      kept == {p \in DOMAIN mirror : mirror[p] # role}
  IN [p \in kept \cup pubkeys |->
        IF p \in pubkeys /\ (role = "admin" \/ p \notin kept) THEN role ELSE mirror[p]]

\* p-tagged pubkeys other than the sender that own a session and a route.
route_chat(e) ==
  {<<e, p>> : p \in {q \in To[e] \cap route : q # From[e] /\ sess[q] # "none"}}

accept_chat(es) ==
  /\ messages' = messages \cup es
  /\ inbox' = inbox \cup UNION {route_chat(e) : e \in es}

\* Every quarantined row is decided again once both rosters are known.
replay_quarantined_chat(m) ==
  LET es == {e \in quarantine : From[e] \in DOMAIN m} IN
  /\ accept_chat(es)
  /\ quarantine' = {}

\* materialize_admins and materialize_members: an older snapshot is ignored.
materialize_roster(role, v) ==
  LET m == IF hw[role] > v THEN mirror ELSE replace_role(role, v)
      h == IF hw[role] > v THEN hw ELSE [hw EXCEPT ![role] = v]
  IN /\ v <= relayv /\ (hw[role] # v \/ mirror # m)
     /\ hw' = h /\ mirror' = m
     /\ IF h["admin"] > 0 /\ h["member"] > 0
          THEN replay_quarantined_chat(m)
          ELSE UNCHANGED <<quarantine, messages, inbox>>
     /\ UNCHANGED <<relayv, published, replaying, seen, claims, jobs, sess, route,
                    standing, effects, caller, acks, budget>>

RosterChanges ==
  /\ relayv < Len(AdminRoster)
  /\ relayv' = relayv + 1
  /\ UNCHANGED <<hw, mirror, published, replaying, seen, durable, jobs, sess, route,
                 standing, effects, caller, acks, budget>>

materialize_chat(e, admission) ==
  CASE admission = "accepted"   -> accept_chat({e}) /\ quarantine' = quarantine \ {e}
    [] admission = "unhydrated" -> quarantine' = quarantine \cup {e} /\ UNCHANGED <<messages, inbox>>
    [] admission = "rejected"   -> quarantine' = quarantine \ {e} /\ UNCHANGED <<messages, inbox>>

----------------------------------------------------------------------------
(* The demux loop. *)

Job(e, n, kind, k, pc) == [e |-> e, n |-> n, kind |-> kind, k |-> k, i |-> 1, pc |-> pc]

JobsOf(e) == {j \in jobs : j.e = e}

FreeSlot(e) == CHOOSE n \in 1..MaxJobs : \A j \in JobsOf(e) : j.kind = "mention" \/ j.n # n

\* chat_ops::dispatch: orchestration, then session dispatch, then a command.
chat_op(e) ==
  LET w == Wire[e] IN
  IF parse_orchestration(w) # {} THEN {Job(e, FreeSlot(e), "orchestrate", "t1", "authorize")}
  ELSE IF parse_session_dispatch(w) # {} THEN {Job(e, FreeSlot(e), "dispatch", "dispatch", "authorize")}
  ELSE IF is_command_shaped(w) THEN {Job(e, FreeSlot(e), "command", "management", "claim")}
  ELSE {}

\* offline_mention::dispatch_all: claim each hosted recipient, then spawn.
dispatch_all(e) == {p \in To[e] \cap Hosted : claimable(claims[e][p])}

HasRoom(e) ==
  /\ \A p \in To[e] \cap Hosted : Cardinality({j \in JobsOf(e) : j.k = p}) < MaxJobs
  /\ \E n \in 1..MaxJobs : \A j \in JobsOf(e) : j.kind = "mention" \/ j.n # n

first_sight(e) == \A i \in DOMAIN seen : seen[i] # e

\* The set of seen ids forgets its oldest entry at the cap.
NoteSeen(e) ==
  LET noted == IF first_sight(e) THEN Append(seen, e) ELSE seen
  IN IF Len(noted) > SEEN_EVENTS_CAP THEN Tail(noted) ELSE noted

handle_incoming(e) ==
  LET admission == chat_admission(e)
      fresh == admission = "accepted" /\ first_sight(e)
      begun == IF fresh THEN dispatch_all(e) ELSE {}
  IN /\ e \in published /\ HasRoom(e)
     /\ materialize_chat(e, admission)
     /\ seen' = NoteSeen(e) /\ replaying' = replaying \ {e}
     /\ claims' = claim_orchestration_target(claims, e, begun)
     /\ jobs' = jobs \cup {Job(e, 1, "mention", p, "start") : p \in begun} \cup chat_op(e)
     /\ UNCHANGED <<relayv, hw, mirror, published, sess, route, standing, effects,
                    caller, acks, budget>>

----------------------------------------------------------------------------
(* Handler tasks. *)

Step(j, pc) == jobs' = (jobs \ {j}) \cup {[j EXCEPT !.pc = pc]}
Ends(j) == jobs' = jobs \ {j}
Effect(j) == effects' = [effects EXCEPT ![j.e][j.k] = @ + 1]
Fault == faults < MaxFaults /\ faults' = faults + 1
ingress == <<relayv, hw, mirror, published, replaying, seen, quarantine, messages>>

has_alive_session_for(p) == sess[p] = "running" /\ (p \in Derived => p \in route)

\* A session's affinity is its route; a configured agent's, its membership.
addressed_affinity(p) == IF sess[p] # "none" THEN p \in route ELSE p \in DOMAIN mirror

\* The mention is persisted before anything is launched; a target without
\* affinity is refused for good.
resolve_and_persist(j) ==
  IF addressed_affinity(j.k)
    THEN Step(j, "launch") /\ inbox' = inbox \cup {<<j.e, j.k>>} /\ UNCHANGED claims
    ELSE Ends(j) /\ claims' = complete_target(j.e, j.k) /\ UNCHANGED inbox

\* offline_mention::handle, up to the launch.
MentionStart(j) ==
  /\ j \in jobs /\ j.kind = "mention" /\ j.pc = "start"
  /\ IF has_alive_session_for(j.k) THEN Step(j, "confirm") /\ UNCHANGED <<inbox, claims>>
                                   ELSE resolve_and_persist(j)
  /\ UNCHANGED <<ingress, sess, route, standing, effects, caller, acks, budget>>

\* The session's start reopens the channel's observation (replay_channel_chat).
Launches(j) ==
  /\ sess' = [sess EXCEPT ![j.k] = "running"] /\ route' = route \cup {j.k}
  /\ Effect(j) /\ Step(j, "confirm") /\ replaying' = published
  /\ UNCHANGED <<claims, faults>>

LaunchFails(j) ==
  /\ Fault /\ Ends(j) /\ claims' = retry_offline_mention(j.e, j.k)
  /\ UNCHANGED <<sess, route, effects, replaying>>

Launching(j) ==
  /\ j \in jobs /\ j.kind = "mention" /\ j.pc = "launch"
  /\ UNCHANGED <<relayv, hw, mirror, published, seen, quarantine, messages, inbox,
                 standing, caller, acks, slow>>

\* resume_agent_in_channel with the native locator.
MentionResume(j) ==
  /\ Launching(j) /\ sess[j.k] # "none" /\ j.k \in Resumable
  /\ Launches(j) \/ LaunchFails(j)

\* spawn_ephemeral_agent_for_pubkey: the exact derived pubkey, started fresh.
MentionRelaunch(j) ==
  /\ Launching(j) /\ sess[j.k] # "none" /\ j.k \notin Resumable /\ j.k \in Derived
  /\ Launches(j) \/ LaunchFails(j)

\* The configured agent whose stable pubkey was mentioned.
MentionSpawn(j) ==
  /\ Launching(j) /\ j.k \notin Derived
  /\ sess[j.k] # "none" => j.k \notin Resumable
  /\ Launches(j) \/ LaunchFails(j)

confirm_recovery_standing(j) ==
  /\ j \in jobs /\ j.kind = "mention" /\ j.pc = "confirm"
  /\ Ends(j)
  /\ \/ /\ sess[j.k] = "running"
        /\ standing' = standing \cup {j.k} /\ route' = route \cup {j.k}
        /\ claims' = complete_target(j.e, j.k)
        /\ UNCHANGED faults
     \/ /\ sess[j.k] # "running" \/ j.k \notin standing
        /\ IF sess[j.k] = "running" THEN Fault ELSE UNCHANGED faults
        /\ claims' = retry_offline_mention(j.e, j.k)
        /\ UNCHANGED <<standing, route>>
  /\ UNCHANGED <<ingress, inbox, sess, effects, caller, acks, slow>>

\* drive_retries: claim again and start another handler.
drive_retries ==
  /\ \E ek \in list_retryable_offline_mentions : LET e == ek[1] k == ek[2] IN
       /\ \E n \in 1..MaxJobs :
            /\ \A j \in JobsOf(e) : j.k = k => j.n # n
            /\ \A m \in 1..(n - 1) : \E j \in JobsOf(e) : j.k = k /\ j.n = m
            /\ jobs' = jobs \cup {Job(e, n, "mention", k, "start")}
       /\ claims' = claim_orchestration_target(claims, e, {k})
  /\ UNCHANGED <<ingress, inbox, sess, route, standing, effects, caller, acks, budget>>

\* Roles come from the relay; a failed fetch rejects, and nothing is claimed.
AuthorizedBy(j, pubkeys) ==
  /\ \/ From[j.e] \in pubkeys /\ Step(j, "claim") /\ UNCHANGED faults
     \/ From[j.e] \notin pubkeys /\ Ends(j) /\ UNCHANGED faults
     \/ Ends(j) /\ Fault
  /\ UNCHANGED <<ingress, inbox, claims, sess, route, standing, effects, caller, acks, slow>>

handle_orchestration(j) ==
  /\ j \in jobs /\ j.kind = "orchestrate" /\ j.pc = "authorize"
  /\ AuthorizedBy(j, AdminRoster[relayv] \cup ChildAdmins)

handle_session_dispatch(j) ==
  /\ j \in jobs /\ j.kind = "dispatch" /\ j.pc = "authorize"
  /\ AuthorizedBy(j, AdminRoster[relayv] \cup MemberRoster[relayv])

Adds(e) == LET op == CHOOSE o \in parse_orchestration(Wire[e]) : TRUE IN op.adds

\* The next target of the event, or the end of the task.
Advance(j) ==
  IF j.kind = "orchestrate" /\ j.i < Len(Adds(j.e))
    THEN jobs' = (jobs \ {j}) \cup
           {[j EXCEPT !.i = @ + 1, !.k = TargetKey[j.i + 1], !.pc = "claim"]}
    ELSE Ends(j)

ClaimTarget(j) ==
  /\ j \in jobs /\ j.pc = "claim"
  /\ IF claimable(claims[j.e][j.k])
       THEN /\ claims' = claim_orchestration_target(claims, j.e, {j.k})
            /\ Step(j, "work")
       ELSE Advance(j) /\ UNCHANGED claims
  /\ UNCHANGED <<ingress, inbox, sess, route, standing, effects, caller, acks, budget>>

Finish(j, completed) ==
  /\ Advance(j)
  /\ claims' = IF completed THEN complete_target(j.e, j.k)
                            ELSE retry_orchestration_target(j.e, j.k)

\* A stopped or relocated session is skipped for good, never resumed.
admit_running_target(j) ==
  /\ j \in jobs /\ j.kind = "orchestrate" /\ j.pc = "work" /\ Wire[j.e].op = "admit"
  /\ \E p \in Adds(j.e)[j.i] :
       IF p \in Hosted /\ sess[p] = "running" /\ p \in route
         THEN \/ standing' = standing \cup {p} /\ Finish(j, TRUE) /\ UNCHANGED faults
              \/ Fault /\ Finish(j, FALSE) /\ UNCHANGED standing
         ELSE Finish(j, TRUE) /\ UNCHANGED <<standing, faults>>
  /\ UNCHANGED <<ingress, inbox, sess, route, effects, caller, acks, slow>>

resume_target(j) ==
  /\ j \in jobs /\ j.kind = "orchestrate" /\ j.pc = "work" /\ Wire[j.e].op = "add"
  /\ \E p \in Adds(j.e)[j.i] :
       \/ /\ p \in Hosted /\ sess[p] # "none" /\ p \in Resumable
          /\ sess' = [sess EXCEPT ![p] = "running"] /\ route' = route \cup {p}
          /\ Effect(j) /\ Finish(j, TRUE) /\ UNCHANGED faults
       \/ /\ IF p \in Hosted /\ sess[p] # "none" /\ p \in Resumable
               THEN Fault ELSE UNCHANGED faults
          /\ Finish(j, FALSE) /\ UNCHANGED <<sess, route, effects>>
  /\ UNCHANGED <<ingress, inbox, standing, caller, acks, slow>>

\* A target without a session pubkey: a fresh agent.
spawn_target(j) ==
  /\ j \in jobs /\ j.kind = "orchestrate" /\ j.pc = "work"
  /\ Wire[j.e].op = "add" /\ Adds(j.e)[j.i] = {}
  /\ \/ Effect(j) /\ Finish(j, TRUE) /\ UNCHANGED faults
     \/ Fault /\ Finish(j, FALSE) /\ UNCHANGED effects
  /\ UNCHANGED <<ingress, inbox, sess, route, standing, caller, acks, slow>>

\* The spawned session acknowledges with a status event that names the dispatch.
spawn_dispatched(j) ==
  /\ j \in jobs /\ j.kind = "dispatch" /\ j.pc = "work"
  /\ \/ Effect(j) /\ Finish(j, TRUE) /\ acks' = acks \cup {j.e} /\ UNCHANGED faults
     \/ Fault /\ Finish(j, FALSE) /\ UNCHANGED <<effects, acks>>
  /\ UNCHANGED <<ingress, inbox, sess, route, standing, caller, slow>>

is_admin(p) == (p \in DOMAIN mirror /\ mirror[p] = "admin") \/ p \in AdminRoster[relayv]

\* accept_command: refused commands are answered and completed all the same.
accept_command(j) ==
  /\ j \in jobs /\ j.kind = "command" /\ j.pc = "work"
  /\ IF parse_command(Wire[j.e]) /\ is_admin(From[j.e]) THEN Step(j, "execute") ELSE Step(j, "complete")
  /\ UNCHANGED <<ingress, inbox, claims, sess, route, standing, effects, caller, acks, budget>>

execute_command(j, body) ==
  /\ j \in jobs /\ j.pc = "execute" /\ Wire[j.e].body = body
  /\ Effect(j) /\ Step(j, "complete")
  /\ UNCHANGED <<ingress, inbox, claims, route, caller, acks, budget>>

\* A selector that names no running session is an error reply.
kill_session(j) ==
  /\ execute_command(j, "kill")
  /\ \E killed \in {{}} \cup {{p} : p \in {q \in Hosted : sess[q] = "running"}} :
       /\ sess' = [p \in Hosted |-> IF p \in killed THEN "stopped" ELSE sess[p]]
       /\ standing' = standing \ killed

archive_named_channel(j) ==
  /\ execute_command(j, "archive")
  /\ standing' = standing \cap AdminRoster[relayv]
  /\ UNCHANGED sess

list_sessions(j) == execute_command(j, "list") /\ UNCHANGED <<sess, standing>>

CompleteCommand(j) ==
  /\ j \in jobs /\ j.pc = "complete"
  /\ Ends(j) /\ claims' = complete_target(j.e, j.k)
  /\ UNCHANGED <<ingress, inbox, sess, route, standing, effects, caller, acks, budget>>

----------------------------------------------------------------------------
(* The dispatching side, time and faults. *)

\* Publish, run the handler in this process too, then wait for the ack; the
\* relay's echo of the same event meets the same claim.
rpc_dispatch(e) ==
  /\ caller = "idle" /\ e \notin published /\ published = {}
  /\ parse_session_dispatch(Wire[e]) # {}
  /\ caller' = "waiting" /\ published' = published \cup {e} /\ replaying' = replaying \cup {e}
  /\ jobs' = jobs \cup {Job(e, FreeSlot(e), "dispatch", "dispatch", "authorize")}
  /\ UNCHANGED <<relayv, hw, mirror, seen, durable, sess, route, standing, effects,
                 acks, budget>>

wait_dispatch_ack ==
  /\ caller = "waiting"
  /\ caller' \in (IF acks # {} THEN {"acked"} ELSE {}) \cup {"timedout"}
  /\ UNCHANGED <<ingress, inbox, claims, jobs, sess, route, standing, effects, acks, budget>>

send_dispatch_message ==
  /\ caller = "acked" /\ caller' \in {"sent", "failed"}
  /\ UNCHANGED <<ingress, inbox, claims, jobs, sess, route, standing, effects, acks, budget>>

\* A claim's timestamp passes the retry delay or the lease; a handler that is
\* still working when its lease passes is slow.
Ages(e, k) ==
  /\ claims[e][k].state \in {"pending", "processing"} /\ ~claims[e][k].old
  /\ claims' = [claims EXCEPT ![e][k].old = TRUE]
  /\ IF claims[e][k].state = "processing" /\ \E j \in JobsOf(e) : j.k = k
       THEN Fault /\ slow' = slow + 1
       ELSE UNCHANGED budget
  /\ UNCHANGED <<ingress, inbox, jobs, sess, route, standing, effects, caller, acks>>

SessionStops(p) ==
  /\ sess[p] = "running" /\ Fault
  /\ sess' = [sess EXCEPT ![p] = "stopped"] /\ standing' = standing \ {p}
  /\ UNCHANGED <<ingress, inbox, claims, jobs, route, effects, caller, acks,
                 slow>>

\* Tasks, first_sight and the tail are memory; the store survives.
Crash ==
  /\ Fault
  /\ jobs' = {} /\ seen' = <<>>
  /\ caller' = IF caller \in {"waiting", "acked"} THEN "timedout" ELSE caller
  /\ replaying' = published
  /\ UNCHANGED <<relayv, hw, mirror, published, durable, sess, route, standing, effects,
                 acks, slow>>

JobStep(j) ==
  \/ MentionStart(j) \/ MentionResume(j) \/ MentionRelaunch(j) \/ MentionSpawn(j)
  \/ confirm_recovery_standing(j)
  \/ handle_orchestration(j) \/ handle_session_dispatch(j) \/ ClaimTarget(j)
  \/ admit_running_target(j) \/ resume_target(j) \/ spawn_target(j) \/ spawn_dispatched(j)
  \/ accept_command(j) \/ kill_session(j) \/ archive_named_channel(j) \/ list_sessions(j)
  \/ CompleteCommand(j)

IngestNext ==
  \/ RosterChanges \/ drive_retries \/ wait_dispatch_ack \/ send_dispatch_message \/ Crash
  \/ \E role \in {"admin", "member"}, v \in DOMAIN AdminRoster : materialize_roster(role, v)
  \/ \E e \in Events : handle_incoming(e) \/ rpc_dispatch(e)
  \/ \E e \in published, k \in Keys : Ages(e, k)
  \/ \E p \in Hosted : SessionStops(p)
  \/ \E j \in jobs : MentionStart(j)
  \/ \E j \in jobs : MentionResume(j)
  \/ \E j \in jobs : MentionRelaunch(j)
  \/ \E j \in jobs : MentionSpawn(j)
  \/ \E j \in jobs : confirm_recovery_standing(j)
  \/ \E j \in jobs : handle_orchestration(j)
  \/ \E j \in jobs : handle_session_dispatch(j)
  \/ \E j \in jobs : ClaimTarget(j)
  \/ \E j \in jobs : admit_running_target(j)
  \/ \E j \in jobs : resume_target(j)
  \/ \E j \in jobs : spawn_target(j)
  \/ \E j \in jobs : spawn_dispatched(j)
  \/ \E j \in jobs : accept_command(j)
  \/ \E j \in jobs : kill_session(j)
  \/ \E j \in jobs : archive_named_channel(j)
  \/ \E j \in jobs : list_sessions(j)
  \/ \E j \in jobs : CompleteCommand(j)

\* Tokio runs every spawned task, the retry driver and the clock; the relay
\* delivers what it stores.
IngestFairness ==
  /\ WF_ingestVars(\E j \in jobs : JobStep(j))
  /\ WF_ingestVars(drive_retries)
  /\ WF_ingestVars(\E e \in published, k \in Keys : Ages(e, k))
  /\ WF_ingestVars(\E e \in replaying : handle_incoming(e))

IngestSpec == IngestInit /\ [][IngestNext]_ingestVars /\ IngestFairness


----------------------------------------------------------------------------
(* Properties. *)

\* Every variable keeps its shape, and claim rows exist only for published events.
IngestTypeOK ==
  /\ relayv \in DOMAIN AdminRoster /\ DOMAIN mirror \subseteq Pubkeys
  /\ \A r \in DOMAIN hw : hw[r] \in 0..relayv
  /\ published \subseteq Events /\ replaying \subseteq published /\ {seen[i] : i \in DOMAIN seen} \subseteq published
  /\ quarantine \subseteq published /\ messages \subseteq published
  /\ inbox \subseteq published \X Hosted
  /\ \A e \in Events, k \in Keys :
       /\ claims[e][k].state \in {"none", "pending", "processing", "completed"}
       /\ e \notin published => claims[e][k].state = "none"
  /\ \A j \in jobs : j.e \in published /\ j.k \in Keys /\ j.n \in 1..MaxJobs
  /\ sess \in [Hosted -> {"none", "stopped", "running"}]
  /\ route \subseteq Hosted /\ standing \subseteq Hosted /\ acks \subseteq published

\* The author is an admin throughout, or a member throughout and never taken off the
\* admins: the row of a demoted admin is gone until the next list of members.
AlwaysMember(p) ==
  \/ \A v \in DOMAIN AdminRoster : p \in AdminRoster[v]
  \/ \A v \in DOMAIN MemberRoster :
       /\ p \in MemberRoster[v]
       /\ p \in AdminRoster[v] => \A w \in DOMAIN AdminRoster : w >= v => p \in AdminRoster[w]

\* A chat of an author who is a member throughout is never dropped: once
\* handle_incoming has seen it, it is stored or waits in the quarantine, whatever
\* the order in which chats and both kinds of roster arrive, stale ones included.
MemberChatKept ==
  \A e \in {seen[i] : i \in DOMAIN seen} : AlwaysMember(From[e]) => e \in messages \cup quarantine

\* A chat is stored only if its author is on a roster, and nothing stays in the
\* quarantine once both rosters are known (replay_quarantined_chat).
AdmissionDecided ==
  /\ \A e \in messages : \E v \in 1..relayv : From[e] \in AdminRoster[v] \cup MemberRoster[v]
  /\ has_channel_membership_snapshot => quarantine = {}

\* One handler works on a claim at a time, whichever way it was started (first
\* delivery, redelivery, local dispatch, retry driver, restart), unless a
\* handler outlives its 600 s lease.
ClaimExclusive ==
  \A e \in published, k \in Keys :
    Cardinality({j \in JobsOf(e) : j.k = k /\ j.pc \notin {"authorize", "claim"}}) <= 1 + slow

\* Every launch, spawn and command was asked for by a well-formed event whose
\* author had the authority at some roster version, and an admit-running event
\* never launches anything.
EffectsAuthorized ==
  \A e \in published, k \in Keys \ Hosted : effects[e][k] > 0 =>
    /\ \E v \in 1..relayv :
         IF k = "dispatch" THEN From[e] \in AdminRoster[v] \cup MemberRoster[v]
         ELSE From[e] \in AdminRoster[v] \/ (k # "management" /\ From[e] \in ChildAdmins)
    /\ k \in {"t1", "t2"} => parse_orchestration(Wire[e]) # {} /\ Wire[e].op # "admit"
    /\ k = "management" => Wire[e].body # "garbled"

\* A session is launched for a mention only after the mention is in its inbox.
LaunchedIsQueued == \A e \in published, p \in Hosted : effects[e][p] > 0 => <<e, p>> \in inbox

\* A completed claim is a tombstone: no redelivery, retry or late handler
\* reopens it (state-schema.md: process launch must remain idempotent).
TombstoneFinal ==
  [][\A e \in Events, k \in Keys :
       claims[e][k].state = "completed" => claims'[e][k].state = "completed"]_ingestVars

\* Every claimed mention is settled: failures, slow handlers, crashes of the daemon
\* and a session that stops again only delay it.
MentionsSettle ==
  []<>(\A e \in published, p \in Hosted : claims[e][p].state \in {"none", "completed"})

\* Every claimed mention reaches the inbox of the pubkey it names, also when the
\* session comes up for another mention meanwhile (route_reaction.rs: "the routed
\* mention itself is already queued in the inbox").
ClaimedIsQueued ==
  []<>(\A e \in published, p \in Hosted :
        claims[e][p].state # "none" /\ addressed_affinity(p) => <<e, p>> \in inbox)

\* What handle_incoming and the claimed effects promise at every instant, for every
\* order, repetition and delay of the relay's events.
IngestSafe == IngestTypeOK /\ MemberChatKept /\ AdmissionDecided /\ ClaimExclusive
              /\ EffectsAuthorized /\ LaunchedIsQueued
=============================================================================
