-------------------------- MODULE ChannelReadiness --------------------------
(***************************************************************************)
(* How the daemon turns a channel NAME into a relay group it may publish   *)
(* into.  fabric/provider/readiness.rs runs one check per (channel,        *)
(* member): look in the TTL cache, take the per-channel lock, make sure of *)
(* the parent first, read the group from the relay, create it when it is   *)
(* absent, wait for its kind:39000, repair its admins, admit the member,   *)
(* and remember the result.  The checks of several callers interleave with *)
(* each other, with the roster events the subscription delivers and with   *)
(* removals made by other backends.                                        *)
(*                                                                         *)
(* The workspace has one root channel and one child NAME under it; the     *)
(* callers resolve that name (channel_resolve.rs), create it               *)
(* (channels_rpc.rs), archive what it names, or open a known channel for a *)
(* session (session_start/channel_ready.rs, provider/chat.rs).             *)
(***************************************************************************)
EXTENDS Naturals, Sequences, FiniteSets

CONSTANTS
    Callers,      \* concurrent RPC handlers and engine tasks
    Ids,          \* sequence of the opaque ids util::opaque_group_id mints
    Traffic,      \* set of [start |-> relay and mirror a behaviour begins in,
                  \*         plan |-> caller -> the operations it may run]
    FaultKinds,   \* which faults the environment may inject
    MaxFaults     \* bound: faults and cache expiries of one behaviour

\* Minted ids are random (util.rs:166-170): taken not to meet one another or the workspace's.
ASSUME ReadinessConstants ==
    /\ MaxFaults \in Nat /\ Len(Ids) \in Nat
    /\ \A i, j \in 1..Len(Ids) : Ids[i] # "root" /\ (i # j => Ids[i] # Ids[j])
    /\ \A t \in Traffic : t.start \in {"fresh", "known", "foreign"}
    /\ FaultKinds \subseteq {"fetch", "create", "name", "read", "grant",
                             "remove", "timeout", "crash", "expire"}

Root == "root"
Mgmt == "mgmt"          \* the backend's management key
Op == "op"              \* the whitelisted operator, whose nsec may be configured
Agent == "agent"        \* the session that must be a member
Name == "name"          \* the child channel's name; "" is an unnamed group
Keys == {Mgmt, Op, Agent}
Channels == {Root} \cup {Ids[i] : i \in 1..Len(Ids)}

VARIABLES
    group,    \* relay: channel -> {} (absent) or {its state}
    row,      \* relay_channels: channel -> {} or {[parent, name]}
    mirror,   \* relay_channel_members: channel -> [admins, members, snap]
    ready,    \* ChannelReadiness.inner: verified (channel, member) pairs
    lock,     \* inflight_by_channel: channel -> callers holding it
    intent,   \* channel_resolution_intents for (Root, Name): {} or {id}
    minted,   \* how many opaque ids were handed out
    plan,     \* what each caller may be asked to do
    call,     \* caller -> its handler
    undelivered, \* channels whose roster changed since the last snapshot
    raced,    \* ghost: snapshots delivered while a check held the lock
    faults

readinessVars == <<group, row, mirror, ready, lock, intent, minted, plan, call,
          undelivered, raced, faults>>
relay == <<group, undelivered>>

Frame(ch, mem, hint) ==
    [ch |-> ch, mem |-> mem, hint |-> hint, pc |-> "check", roles |-> {},
     mems |-> {}, padm |-> {}]
Idle == [op |-> "none", st |-> "idle", id |-> {}, got |-> {}, frames |-> <<>>]

Running(p) == call[p].frames # <<>>
Top(p) == Head(call[p].frames)
At(p, pc) == Running(p) /\ Top(p).pc = pc
Fault(kind) == kind \in FaultKinds /\ faults < MaxFaults /\ faults' = faults + 1

(* ------------------------------ the relay ------------------------------ *)

Exists(ch) == group[ch] # {}
Of(ch) == CHOOSE g \in group[ch] : TRUE
Admins(ch) == IF Exists(ch) THEN Of(ch).admins ELSE {}
Members(ch) == IF Exists(ch) THEN Of(ch).members ELSE {}
OnRelay(ch, k) == k \in Admins(ch) \cup Members(ch)

(* A 9007 makes its signer the group's admin; the following 9002 carries   *)
(* the name.                                                               *)
Founded(hint, name) ==
    {[parent |-> hint, name |-> name, admins |-> {Mgmt}, members |-> {}]}

SetRoster(ch, admins, members) ==
    /\ group' = [group EXCEPT ![ch] =
                   {[Of(ch) EXCEPT !.admins = admins, !.members = members]}]
    /\ undelivered' = undelivered \cup {ch}

put_admin(ch, ks) == SetRoster(ch, Admins(ch) \cup ks, Members(ch) \ ks)
put_user(ch, k) == SetRoster(ch, Admins(ch), (Members(ch) \cup {k}) \ Admins(ch))
remove_user(ch, k) == SetRoster(ch, Admins(ch), Members(ch) \ {k})
declared_parent(ch) == Of(ch).parent

(* ------------------------------ the store ------------------------------ *)

(* relay_channels has UNIQUE(parent, name): an upsert that collides with   *)
(* another channel's row fails and is only logged.                         *)
upsert_channel(r, ch, meta) ==
    IF \E c \in Channels \ {ch} : r[c] = {meta} THEN r
    ELSE [r EXCEPT ![ch] = {meta}]

(* fetch_and_materialize_channel: the newest kind:39000, when the relay    *)
(* has one, goes through materialize_channel.                              *)
Materialized(ch) ==
    IF ~Exists(ch) THEN row
    ELSE upsert_channel(row, ch, [parent |-> Of(ch).parent, name |-> Of(ch).name])

channel_id_for_name == {c \in Channels : row[c] = {[parent |-> {Root}, name |-> Name]}}

pending_parent(ch, hint) == IF ch \in intent THEN {Root} ELSE hint

(* A stored relay parent wins; only a channel without a row falls back on  *)
(* the pending intent or on the caller's hint, and never on itself.        *)
HintMayBeSelf(ch, hint) ==
    IF row[ch] # {} THEN (CHOOSE m \in row[ch] : TRUE).parent
    ELSE pending_parent(ch, hint)

effective_parent_hint(ch, hint) ==
    IF row[ch] # {} THEN (CHOOSE m \in row[ch] : TRUE).parent
    ELSE pending_parent(ch, hint) \ {ch}

upsert_member(ch, k, admin) ==
    mirror' = [mirror EXCEPT
      ![ch].admins = IF admin THEN @ \cup {k} ELSE @ \ {k},
      ![ch].members = IF admin THEN @ \ {k} ELSE @ \cup {k}]
MirrorMember(ch, k) == k \in mirror[ch].admins \cup mirror[ch].members

(* --------------------------- the entry points -------------------------- *)

Enter(p, op, id, ch, mem, hint) ==
    call' = [call EXCEPT ![p] =
      [op |-> op, st |-> "open", id |-> {id}, got |-> {},
       frames |-> <<Frame(ch, mem, effective_parent_hint(ch, hint))>>]]

(* resolve_channel: a local row answers at once; otherwise the id reserved *)
(* for the name is opened with the management key as its member.           *)
reserve_channel_resolution_intent ==
    /\ minted < Len(Ids)
    /\ minted' = minted + 1
    /\ intent' = IF intent = {} THEN {Ids[minted + 1]} ELSE intent

ResolveHit(p) ==
    /\ call[p].st = "idle" /\ "resolve" \in plan[p]
    /\ channel_id_for_name # {}
    /\ call' = [call EXCEPT ![p] = [Idle EXCEPT !.op = "resolve", !.st = "done",
                                    !.got = channel_id_for_name]]
    /\ UNCHANGED <<group, row, mirror, ready, lock, intent, minted, plan,
                   undelivered, raced, faults>>

resolve_channel(p) ==
    /\ call[p].st = "idle" /\ "resolve" \in plan[p]
    /\ channel_id_for_name = {}
    /\ \/ reserve_channel_resolution_intent
       \/ intent # {} /\ UNCHANGED <<intent, minted>>
    /\ LET id == CHOOSE c \in intent' : TRUE
       IN  Enter(p, "resolve", id, id, Mgmt, {Root})
    /\ UNCHANGED <<group, row, mirror, ready, lock, plan, undelivered, raced, faults>>

(* rpc_channel_create: the name must be free in the local mirror, then a   *)
(* fresh id is opened for the creating session.                            *)
rpc_channel_create(p) ==
    /\ call[p].st = "idle" /\ "create" \in plan[p]
    /\ channel_id_for_name = {} /\ minted < Len(Ids)
    /\ minted' = minted + 1
    /\ Enter(p, "create", Ids[minted + 1], Ids[minted + 1], Agent, {Root})
    /\ UNCHANGED <<group, row, mirror, ready, lock, intent, plan, undelivered, raced, faults>>

(* A session start, a publish or a repair opens a channel it already knows *)
(* for the session; its hint is the work root, which may be the channel.   *)
verify_start_channel_ready(p) ==
    /\ call[p].st = "idle" /\ "start" \in plan[p]
    /\ \E ch \in {c \in Channels : c = Root \/ row[c] # {}} :
         Enter(p, "start", ch, ch, Agent, {Root})
    /\ UNCHANGED <<group, row, mirror, ready, lock, intent, minted, plan,
                   undelivered, raced, faults>>

(* archive_channel: after the metadata edit the mirrored non-admins are    *)
(* removed one by one, each confirmed by a read-back (a removal applied    *)
(* but not confirmed is RemoteRemoves).                                    *)
archive_channel(p) ==
    /\ call[p].st = "idle" /\ "archive" \in plan[p]
    /\ \E ch \in Channels :
         /\ row[ch] # {} /\ Agent \in mirror[ch].members
         /\ Exists(ch) /\ Mgmt \in Admins(ch)
         /\ remove_user(ch, Agent)
         /\ mirror' = [mirror EXCEPT ![ch].members = @ \ {Agent}]
    /\ UNCHANGED <<row, ready, lock, intent, minted, plan, call, raced, faults>>

(* ------------------------- ensure_channel_ready ------------------------ *)

Step(p, f) == call' = [call EXCEPT ![p].frames = <<f>> \o Tail(@)]
Release(p, chs) == lock' = [c \in Channels |-> IF c \in chs THEN lock[c] \ {p} ELSE lock[c]]

(* A degraded parent degrades the child: the whole call fails, its guards  *)
(* drop and the caller may try again.                                      *)
Degraded(p) ==
    /\ call' = [call EXCEPT ![p] = Idle]
    /\ Release(p, Channels)

(* The frame returned Ready or Repaired.  A child continues with its       *)
(* parent's mirrored admins; the outermost frame answers the caller.       *)
Return(p) ==
    LET rest == Tail(call[p].frames) IN
    /\ Release(p, {Top(p).ch})
    /\ call' = [call EXCEPT ![p] =
         IF rest # <<>>
         THEN [@ EXCEPT !.frames =
                 <<[Head(rest) EXCEPT !.padm = mirror[Top(p).ch].admins, !.pc = "fetch"]>>]
         ELSE IF @.op = "start" THEN Idle
         ELSE [@ EXCEPT !.frames = <<>>, !.st = "gated"]]

cached(f) == <<f.ch, f.mem>> \in ready

(* Only a root whose two rosters were delivered is believed without I/O.   *)
locally_materialized_ready(f) ==
    /\ row[f.ch] # {} /\ f.hint = {}
    /\ \A m \in row[f.ch] : m.parent = {}
    /\ mirror[f.ch].snap
    /\ MirrorMember(f.ch, f.mem)
    /\ {Mgmt, Op} \subseteq mirror[f.ch].admins

ensure_parent(p) ==
    LET parent == CHOOSE c \in Top(p).hint : TRUE
    IN  call' = [call EXCEPT ![p].frames =
          <<Frame(parent, Mgmt, effective_parent_hint(parent, {}))>> \o @]

(* The cache is asked before and again after the wait for the channel's    *)
(* lock; what happened meanwhile counts.  The lock is held from here until *)
(* the frame returns, also while the parent is made ready.                 *)
CheckAndLock(p) ==
    LET f == Top(p) IN
    /\ At(p, "check")
    /\ \/ cached(f) /\ Return(p) /\ UNCHANGED ready
       \/ /\ ~cached(f) /\ lock[f.ch] = {}
          /\ locally_materialized_ready(f)
          /\ ready' = ready \cup {<<f.ch, f.mem>>}
          /\ Return(p)
       \/ /\ ~cached(f) /\ lock[f.ch] = {}
          /\ ~locally_materialized_ready(f)
          /\ lock' = [lock EXCEPT ![f.ch] = {p}]
          /\ UNCHANGED ready
          /\ IF f.hint = {} THEN Step(p, [f EXCEPT !.pc = "fetch"]) ELSE ensure_parent(p)
    /\ UNCHANGED <<group, row, mirror, intent, minted, plan, undelivered, raced, faults>>

(* A failed read degrades: absence is never inferred from an error.        *)
fetch_group_state(p) ==
    LET f == Top(p) IN
    /\ At(p, "fetch")
    /\ Step(p, [f EXCEPT !.roles = Admins(f.ch), !.mems = Members(f.ch),
                         !.pc = IF ~Exists(f.ch) THEN "create"
                                ELSE IF Mgmt \in Admins(f.ch) THEN "parent" ELSE "selfgrant"])
    /\ UNCHANGED <<group, row, mirror, ready, lock, intent, minted, plan, undelivered, raced, faults>>

ReadFails(p) ==
    /\ \E pc \in {"fetch", "poll", "parent"} : At(p, pc)
    /\ Fault("fetch")
    /\ Degraded(p)
    /\ UNCHANGED <<group, row, mirror, ready, intent, minted, plan, undelivered, raced>>

(* 9007 then 9002.  Either publish may be refused; an unnamed group is     *)
(* what a refused 9002, or a 9007 whose acknowledgement is lost, leaves    *)
(* behind.  A root is named after itself.                                  *)
create_group(p) ==
    LET f == Top(p) IN
    /\ At(p, "create")
    /\ \/ /\ ~Exists(f.ch)
          /\ group' = [group EXCEPT ![f.ch] = Founded(f.hint, IF f.hint = {} THEN Root ELSE Name)]
          /\ undelivered' = undelivered \cup {f.ch}
          /\ Step(p, [f EXCEPT !.pc = "poll"]) /\ UNCHANGED <<lock, faults>>
       \/ /\ ~Exists(f.ch) /\ Fault("name")
          /\ group' = [group EXCEPT ![f.ch] = Founded(f.hint, "")]
          /\ undelivered' = undelivered \cup {f.ch}
          /\ Step(p, [f EXCEPT !.pc = "poll"]) /\ UNCHANGED lock
       \/ /\ Fault("create")
          /\ UNCHANGED <<group, undelivered>>
          /\ Degraded(p)
    /\ UNCHANGED <<row, mirror, ready, intent, minted, plan, raced>>

(* Up to twelve reads wait for the group's kind:39000; without its row the *)
(* call degrades, whether or not the create was acknowledged.              *)
poll_materialized(p) ==
    LET f == Top(p) IN
    /\ At(p, "poll")
    /\ row' = Materialized(f.ch)
    /\ IF row'[f.ch] # {}
       THEN Step(p, [f EXCEPT !.pc = "parent"]) /\ UNCHANGED lock
       ELSE Degraded(p)
    /\ UNCHANGED <<group, mirror, ready, intent, minted, plan, undelivered, raced, faults>>

try_grant_mgmt_admin_via_user_nsec(p) ==
    LET f == Top(p) IN
    /\ At(p, "selfgrant")
    /\ \/ /\ Op \in Admins(f.ch)
          /\ put_admin(f.ch, {Mgmt})
          /\ upsert_member(f.ch, Mgmt, TRUE)
          /\ Step(p, [f EXCEPT !.roles = @ \cup {Mgmt}, !.pc = "parent"])
          /\ UNCHANGED <<lock, faults>>
       \/ /\ Fault("grant") /\ Degraded(p)
          /\ UNCHANGED <<group, undelivered, mirror>>
    /\ UNCHANGED <<row, ready, intent, minted, plan, raced>>

(* The declared parent is read back and must not be the channel itself;    *)
(* a cold cache is filled from the relay on the way, best effort.          *)
confirm_parent(p) ==
    LET f == Top(p) IN
    /\ At(p, "parent") /\ Exists(f.ch)
    /\ IF declared_parent(f.ch) = {f.ch}
       THEN Degraded(p) /\ UNCHANGED <<row, faults>>
       ELSE /\ Step(p, [f EXCEPT !.pc = "admins"])
            /\ UNCHANGED lock
            /\ \/ row' = (IF row[f.ch] = {} THEN Materialized(f.ch) ELSE row) /\ UNCHANGED faults
               \/ row[f.ch] = {} /\ Fault("read") /\ UNCHANGED row
    /\ UNCHANGED <<group, mirror, ready, intent, minted, plan, undelivered, raced>>

required_admins(f) == {Mgmt, Op} \cup f.padm

(* ensure_invariants: every required admin the snapshot lacked is granted  *)
(* and read back; one grant the relay does not confirm fails the check.    *)
grant_admins(p) ==
    LET f == Top(p)
        missing == required_admins(f) \ f.roles IN
    /\ At(p, "admins")
    /\ \/ /\ missing = {} \/ Mgmt \in Admins(f.ch)
          /\ IF missing = {} THEN UNCHANGED <<group, undelivered>>
             ELSE put_admin(f.ch, missing)
          /\ mirror' = [mirror EXCEPT ![f.ch].admins = @ \cup missing,
                                      ![f.ch].members = @ \ missing]
          /\ Step(p, [f EXCEPT !.pc = "member"])
          /\ UNCHANGED <<lock, faults>>
       \/ /\ missing # {} /\ Fault("grant") /\ Degraded(p)
          /\ UNCHANGED <<group, undelivered, mirror>>
    /\ UNCHANGED <<row, ready, intent, minted, plan, raced>>

expect_already_admin(f) == f.mem \in {Mgmt, Op} \cup f.padm

ensure_member(p) ==
    LET f == Top(p) IN
    /\ At(p, "member")
    /\ IF expect_already_admin(f) \/ f.mem \in f.roles \cup f.mems
       THEN /\ IF MirrorMember(f.ch, f.mem) THEN UNCHANGED mirror
               ELSE upsert_member(f.ch, f.mem, f.mem \in f.roles)
            /\ Step(p, [f EXCEPT !.pc = "mark"])
            /\ UNCHANGED <<group, undelivered, lock, faults>>
       ELSE \/ /\ Mgmt \in Admins(f.ch)
               /\ put_user(f.ch, f.mem)
               /\ upsert_member(f.ch, f.mem, FALSE)
               /\ Step(p, [f EXCEPT !.pc = "mark"])
               /\ UNCHANGED <<lock, faults>>
            \/ Fault("grant") /\ Degraded(p) /\ UNCHANGED <<group, undelivered, mirror>>
    /\ UNCHANGED <<row, ready, intent, minted, plan, raced>>

mark_ready(p) ==
    /\ At(p, "mark")
    /\ ready' = ready \cup {<<Top(p).ch, Top(p).mem>>}
    /\ Return(p)
    /\ UNCHANGED <<group, row, mirror, intent, minted, plan, undelivered, raced, faults>>

(* The caller of an open gate: the resolver subscribes and answers, the    *)
(* creator commits its admission, edits the about text and moves in.       *)
FinishCall(p) ==
    /\ call[p].st = "gated"
    /\ call' = [call EXCEPT ![p].st = "done", ![p].got = call[p].id]
    /\ UNCHANGED <<group, row, mirror, ready, lock, intent, minted, plan, undelivered, raced, faults>>

(* The 45 s budget of a caller: the future is dropped where it stands.     *)
TimesOut(p) ==
    /\ Running(p) /\ call[p].op # "resolve"
    /\ Fault("timeout") /\ Degraded(p)
    /\ UNCHANGED <<group, row, mirror, ready, intent, minted, plan, undelivered, raced>>

(* --------------------------- the environment --------------------------- *)

(* Nip29Provider::materialize of the two rosters: the mirror is replaced   *)
(* and every readiness slot of the channel is dropped.                     *)
InvalidateNothing(ch) == UNCHANGED ready
invalidate_channel(ch) == ready' = {s \in ready : s[1] # ch}

MaterializeRoster(ch) ==
    /\ ch \in undelivered
    /\ mirror' = [mirror EXCEPT ![ch] =
         [admins |-> Admins(ch), members |-> Members(ch), snap |-> TRUE]]
    /\ invalidate_channel(ch)
    /\ undelivered' = undelivered \ {ch}
    /\ raced' = IF lock[ch] # {} THEN raced \cup {ch} ELSE raced
    /\ UNCHANGED <<group, row, lock, intent, minted, plan, call, faults>>

MaterializeMetadata(ch) ==
    /\ Exists(ch) /\ row' = Materialized(ch) /\ row' # row
    /\ UNCHANGED <<group, mirror, ready, lock, intent, minted, plan, call, undelivered, raced, faults>>

(* Another backend removes the session from the group.                     *)
RemoteRemoves(ch) ==
    /\ Agent \in Members(ch) /\ Fault("remove")
    /\ remove_user(ch, Agent)
    /\ UNCHANGED <<row, mirror, ready, lock, intent, minted, plan, call, raced>>

(* READY_TTL_SECS pass.                                                    *)
Expires ==
    /\ Fault("expire")
    /\ \E s \in ready : ready' = ready \ {s}
    /\ UNCHANGED <<group, row, mirror, lock, intent, minted, plan, call, undelivered, raced>>

(* The daemon restarts: the cache, the locks and the handlers are gone.    *)
Restart ==
    /\ Fault("crash")
    /\ ready' = {}
    /\ lock' = [c \in Channels |-> {}]
    /\ call' = [p \in Callers |-> IF call[p].st = "done" THEN call[p] ELSE Idle]
    /\ UNCHANGED <<group, row, mirror, intent, minted, plan, undelivered, raced>>

(* --------------------------- the specification ------------------------- *)

RootGroup(admins) == {[parent |-> {}, name |-> Root, admins |-> admins, members |-> {}]}

(* A workspace starts on a fresh relay, on a root the daemon knows, or on  *)
(* one it has not seen yet and the operator made without the backend.      *)
ReadinessInit ==
    /\ \E t \in Traffic : LET start == t.start IN
         /\ plan = t.plan
         /\ group = [c \in Channels |->
              IF c # Root \/ start = "fresh" THEN {}
              ELSE RootGroup(IF start = "foreign" THEN {Op} ELSE {Mgmt, Op})]
         /\ row = [c \in Channels |->
              IF c = Root /\ start = "known" THEN {[parent |-> {}, name |-> Root]} ELSE {}]
         /\ mirror = [c \in Channels |->
              IF c = Root /\ start = "known"
              THEN [admins |-> {Mgmt, Op}, members |-> {}, snap |-> TRUE]
              ELSE [admins |-> {}, members |-> {}, snap |-> FALSE]]
    /\ ready = {} /\ lock = [c \in Channels |-> {}]
    /\ intent = {} /\ minted = 0
    /\ call = [p \in Callers |-> Idle]
    /\ undelivered = {} /\ raced = {} /\ faults = 0

ReadinessStep(p) ==
    \/ CheckAndLock(p) \/ fetch_group_state(p) \/ create_group(p)
    \/ poll_materialized(p) \/ try_grant_mgmt_admin_via_user_nsec(p)
    \/ confirm_parent(p) \/ grant_admins(p) \/ ensure_member(p) \/ mark_ready(p)
    \/ FinishCall(p)

ReadinessNext ==
    \/ \E p \in Callers :
         \/ ResolveHit(p) \/ resolve_channel(p) \/ rpc_channel_create(p)
         \/ verify_start_channel_ready(p) \/ archive_channel(p)
         \/ ReadinessStep(p) \/ ReadFails(p) \/ TimesOut(p)
    \/ \E ch \in Channels :
         MaterializeRoster(ch) \/ MaterializeMetadata(ch) \/ RemoteRemoves(ch)
    \/ Expires
    \/ Restart

(* The runtime polls every task, and tokio's mutex serves its waiters in   *)
(* order, so a handler that can step again and again does step.            *)
ReadinessSpec == ReadinessInit /\ [][ReadinessNext]_readinessVars /\ \A p \in Callers : SF_readinessVars(ReadinessStep(p))

(* ------------------------------ properties ----------------------------- *)

ReadinessTypeOK ==
    /\ \A c \in Channels :
         /\ Cardinality(group[c]) <= 1 /\ Cardinality(row[c]) <= 1
         /\ mirror[c] \in [admins : SUBSET Keys, members : SUBSET Keys, snap : BOOLEAN]
         /\ mirror[c].admins \cap mirror[c].members = {}
         /\ Cardinality(lock[c]) <= 1
    /\ ready \subseteq Channels \X Keys
    /\ intent \subseteq Channels /\ minted \in 0..Len(Ids)
    /\ \A p \in Callers : Len(call[p].frames) <= 2
    /\ undelivered \subseteq Channels /\ raced \subseteq Channels
    /\ faults \in 0..MaxFaults

(* A create that succeeds answers a channel that the relay's own           *)
(* kind:39000 put into the mirror under the parent, whatever raced with it *)
(* or failed on the way (channel_resolve.rs:88-91, channels_rpc.rs:217).   *)
CreatedIsMaterialized ==
    \A p \in Callers : call[p].op = "create" =>
        \A c \in call[p].got : \E m \in row[c] : m.parent = {Root}

(* A remembered proof of membership is still true on the relay, or a       *)
(* roster snapshot that will drop it is on its way, or the snapshot came   *)
(* while a check of that channel was in flight: nothing else may leave a   *)
(* stale slot (nip29/readiness.rs:132-142, provider/materialization.rs).   *)
ReadyBacked ==
    \A s \in ready : OnRelay(s[1], s[2]) \/ s[1] \in undelivered \cup raced

(* No channel passes for ready without the backend and the operator as     *)
(* its admins on the relay, through whichever of the three paths it was    *)
(* believed (cache, mirror, relay check; readiness/verify.rs:18-51).       *)
Governed == \A s \in ready : {Mgmt, Op} \subseteq Admins(s[1])

(* Every readiness call returns: the locks of a channel and its parent,    *)
(* held together, never leave handlers waiting on one another or on        *)
(* themselves (provider/readiness.rs:45-70).                               *)
CallsReturn == \A p \in Callers : []<>(~Running(p))

(* What a channel that passes for ready can be relied on for, through      *)
(* every race of checks, creations, invalidations and roster edits.        *)
ReadinessSafe == ReadinessTypeOK /\ CreatedIsMaterialized /\ ReadyBacked /\ Governed
=============================================================================
