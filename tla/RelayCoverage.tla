---------------------------- MODULE RelayCoverage ----------------------------
(***************************************************************************)
(* What the daemon observes on the relays and what it advertises of itself: *)
(* the refcounted subscription policy (reconcile/subscriptions), the         *)
(* serialised sync and the unserialised chat replay (daemon/server/          *)
(* subscriptions.rs), the NMP observations with their drain threads and the  *)
(* bounded materialization queue (nmp_host.rs), the bounded reads            *)
(* (nmp_host/read.rs), and the backend profile that overlapping refresh      *)
(* tasks publish (backend_profile.rs, state/profiles.rs).                    *)
(***************************************************************************)
EXTENDS Integers, Sequences, FiniteSets

KeySeqs == INSTANCE SequencesExt

CONSTANTS
  CChannels,     \* channels
  SyncTasks,     \* tasks that may sync at a time
  MaxFacts,      \* bound of changes to the store and the inventory
  MaterialCap,   \* MATERIALIZATION_QUEUE_CAPACITY, scaled
  CMaxFaults     \* bound of refused observations

\* The channels a daemon knows are finitely many.
ASSUME CoverageAssumption == IsFiniteSet(CChannels) /\ MaterialCap \in Nat

VARIABLES
  part,      \* which part an instance exercises
  facts,     \* [roots, member, routes, archived : channels, admins : BOOLEAN]
  sync,      \* task -> [pc, todo, want]: sync_subscriptions
  serial,    \* the sync lock: tasks that hold it
  applied,   \* SubscriptionReconciler.applied
  wanted,    \* SubscriptionReconciler.desired_owners
  replay,    \* channel -> "no", "due", "opening": replay_channel_chat
  subs,      \* NmpHost.subscriptions: key -> {} or {drain}
  drains,    \* live drain threads: [key, id, todo]
  stored,    \* keys with an event on the relay
  matq,      \* the materialization queue
  projected,      \* keys whose event was projected into the store
  pull,        \* a bounded read: [pc, latest, quiet, out]
  adv,       \* the backend profile: [inv, tasks, mirror, now], the newest snapshot
             \* published and whether an older one followed it (history)
  nfacts, cfaults

covVars == <<facts, sync, serial, applied, wanted, replay, subs, drains, stored, matq, projected>>
cvars == <<part, facts, sync, serial, applied, wanted, replay, subs, drains, stored, matq, projected,
           pull, adv, nfacts, cfaults>>

ChannelKeys(c) == {<<"h", c>>, <<"d", c>>}
GlobalKey == <<"global", "put-user">>
SelfKeys == {<<"p", "self">>, <<"profile", "self">>}
AdminKey == <<"profile", "admin">>
Keys == {GlobalKey, AdminKey} \cup SelfKeys \cup UNION {ChannelKeys(c) : c \in CChannels}
SyncIdle == [pc |-> "idle", todo |-> <<>>, want |-> {}]
NoRead == [pc |-> "idle", latest |-> {}, quiet |-> FALSE, out |-> "none"]

CoverageInit ==
  /\ part \in {"coverage", "read", "profile"}
  /\ facts = [roots |-> {}, member |-> {}, routes |-> {}, archived |-> {}, admins |-> FALSE]
  /\ sync = [t \in SyncTasks |-> SyncIdle] /\ serial = {}
  /\ applied = {GlobalKey} \cup SelfKeys /\ wanted = {GlobalKey} \cup SelfKeys
  /\ replay = [c \in CChannels |-> "no"]
  /\ subs = [k \in Keys |-> IF k \in {GlobalKey} \cup SelfKeys THEN {1} ELSE {}]
  /\ drains = {[key |-> k, id |-> 1, todo |-> FALSE] : k \in {GlobalKey} \cup SelfKeys}
  /\ stored = {} /\ matq = <<>> /\ projected = {}
  /\ pull = NoRead
  /\ adv = [inv |-> 0, tasks |-> {}, mirror |-> [val |-> 0, at |-> 0], now |-> 0, top |-> 0, overtaken |-> FALSE]
  /\ nfacts = 0 /\ cfaults = 0

Fact == nfacts < MaxFacts /\ nfacts' = nfacts + 1
ObserveRefused == cfaults < CMaxFaults /\ cfaults' = cfaults + 1

----------------------------------------------------------------------------
(* SubscriptionReconciler. *)

\* build_coverage_snapshot and desired_owners: every channel somebody owns and
\* that is not archived, the addressed keys, and the profiles of root admins.
desired_owners ==
  LET chans == (facts.roots \cup facts.member \cup facts.routes) \ facts.archived IN
  {GlobalKey} \cup SelfKeys \cup (UNION {ChannelKeys(c) : c \in chans})
    \cup (IF facts.admins THEN {AdminKey} ELSE {})

Effect(op, k) == [op |-> op, key |-> k]
\* Opens first, then closes, each in the order of the keys.
plan(want) ==
  KeySeqs!SetToSeq({Effect("open", k) : k \in want \ applied})
    \o KeySeqs!SetToSeq({Effect("close", k) : k \in applied \ want})

confirm(e) ==
  applied' = IF e.op = "close" THEN applied \ {e.key}
             ELSE IF e.key \in wanted THEN applied \cup {e.key} ELSE applied

----------------------------------------------------------------------------
(* NmpHost. *)

FreshId(k) == CHOOSE n \in 1..4 : \A d \in drains : d.key = k => d.id # n
Drain(k, n) == [key |-> k, id |-> n, todo |-> k \in stored]

\* Mutant: the observation that was there before is not cancelled.
OpenBesides(k) ==
  LET n == FreshId(k) IN
  /\ subs' = [subs EXCEPT ![k] = {n}]
  /\ drains' = drains \cup {Drain(k, n)}

\* A new observation emits the cached rows again; the one it replaces is
\* cancelled and its thread ends.
open_subscription(k) ==
  LET n == FreshId(k) IN
  /\ subs' = [subs EXCEPT ![k] = {n}]
  /\ drains' = {d \in drains : d.key # k \/ d.id \notin subs[k]} \cup {Drain(k, n)}

close_subscription(k) ==
  /\ subs' = [subs EXCEPT ![k] = {}]
  /\ drains' = {d \in drains : d.key # k \/ d.id \notin subs[k]}

apply(e) == IF e.op = "close" THEN close_subscription(e.key) ELSE open_subscription(e.key)

\* An event reaches the relay and every observation of its key.
EventArrives ==
  /\ part = "coverage"
  /\ \E c \in CChannels :
       /\ <<"h", c>> \notin stored /\ stored' = stored \cup {<<"h", c>>}
       /\ drains' = {IF d.key = <<"h", c>> THEN [d EXCEPT !.todo = TRUE] ELSE d : d \in drains}
  /\ UNCHANGED <<part, facts, sync, serial, applied, wanted, replay, subs, matq, projected, pull, adv,
                 nfacts, cfaults>>

\* The drain thread's blocking_send waits for room in the queue.
DrainSends(d) ==
  /\ d \in drains /\ d.todo /\ Len(matq) < MaterialCap
  /\ drains' = (drains \ {d}) \cup {[d EXCEPT !.todo = FALSE]}
  /\ matq' = Append(matq, d.key)
  /\ UNCHANGED <<part, facts, sync, serial, applied, wanted, replay, subs, stored, projected, pull, adv,
                 nfacts, cfaults>>

Materialize ==
  /\ matq # <<>> /\ matq' = Tail(matq) /\ projected' = projected \cup {Head(matq)}
  /\ UNCHANGED <<part, facts, sync, serial, applied, wanted, replay, subs, drains, stored, pull, adv,
                 nfacts, cfaults>>

----------------------------------------------------------------------------
(* sync_subscriptions and its callers. *)

\* A join, a leave, an archival, an explicit root, an admin event: the store
\* changes and the caller syncs (reconcile_subs_logged, ensure_subscription,
\* reconcile_after_admin_event).
Toggled(S, c) == IF c \in S THEN S \ {c} ELSE S \cup {c}
FactChanges(t) ==
  /\ part = "coverage" /\ Fact /\ sync[t].pc = "idle"
  /\ \/ \E c \in CChannels, f \in {"routes", "archived"} :
          facts' = [facts EXCEPT ![f] = Toggled(@, c)]
     \/ \E c \in CChannels : facts' = [facts EXCEPT !.roots = @ \cup {c}]
     \/ \E c \in CChannels : facts' = [facts EXCEPT !.member = Toggled(@, c)]
     \/ facts' = [facts EXCEPT !.admins = ~@]
  /\ sync' = [sync EXCEPT ![t].pc = "wait"]
  /\ UNCHANGED <<part, serial, applied, wanted, replay, subs, drains, stored, matq, projected, pull, adv, cfaults>>

acquire_sync(t) == sync[t].pc = "wait" /\ serial = {} /\ serial' = {t}

PlanSync(t) ==
  /\ acquire_sync(t)
  /\ wanted' = desired_owners
  /\ sync' = [sync EXCEPT ![t] = [pc |-> "apply", todo |-> plan(desired_owners), want |-> desired_owners]]
  /\ UNCHANGED <<part, facts, applied, replay, subs, drains, stored, matq, projected, pull, adv, nfacts, cfaults>>

\* One effect at a time: applied, then confirmed; a refused one ends the sync
\* with what was confirmed, and the rest is planned again by the next.
ApplyEffect(t) ==
  /\ sync[t].pc = "apply" /\ sync[t].todo # <<>>
  /\ LET e == Head(sync[t].todo) IN
     \/ /\ apply(e) /\ confirm(e)
        /\ sync' = [sync EXCEPT ![t].todo = Tail(@)]
        /\ UNCHANGED <<serial, cfaults>>
     \/ /\ e.op = "open" /\ ObserveRefused
        /\ sync' = [sync EXCEPT ![t] = SyncIdle] /\ serial' = serial \ {t}
        /\ UNCHANGED <<subs, drains, applied>>
  /\ UNCHANGED <<part, facts, wanted, replay, stored, matq, projected, pull, adv, nfacts>>

SyncReturns(t) ==
  /\ sync[t].pc = "apply" /\ sync[t].todo = <<>>
  /\ sync' = [sync EXCEPT ![t] = SyncIdle] /\ serial' = serial \ {t}
  /\ UNCHANGED <<part, facts, applied, wanted, replay, subs, drains, stored, matq, projected, pull, adv,
                 nfacts, cfaults>>

\* schedule_replay_chat: a session that has just started in a channel.
ScheduleReplay(c) ==
  /\ part = "coverage" /\ Fact /\ replay[c] = "no" /\ c \in facts.routes
  /\ replay' = [replay EXCEPT ![c] = "due"]
  /\ UNCHANGED <<part, facts, sync, serial, applied, wanted, subs, drains, stored, matq, projected, pull, adv, cfaults>>

\* replay_channel_chat: a Replace that takes no lock and is never confirmed.
replay_channel_chat(c) ==
  /\ replay[c] = "due" /\ replay' = [replay EXCEPT ![c] = "no"]
  /\ \/ open_subscription(<<"h", c>>) /\ UNCHANGED cfaults
     \/ ObserveRefused /\ UNCHANGED <<subs, drains>>
  /\ UNCHANGED <<part, facts, sync, serial, applied, wanted, stored, matq, projected, pull, adv, nfacts>>

----------------------------------------------------------------------------
(* The bounded read: frames with rows and acquisition evidence arrive until   *)
(* the acquisition is ready, has been quiet, or the time is up.               *)

Evidence == {"ready", "active", "connecting", "shortfall"}
acquisition_ready(e) == e = "ready"
acquisition_active(e) == e = "active"
empty_result_usable(e) == acquisition_ready(e) \/ acquisition_active(e)

finish_latest(latest) ==
  IF latest = {} THEN "error"
  ELSE LET f == CHOOSE x \in latest : TRUE IN
       IF f.rows = 0 /\ ~empty_result_usable(f.ev) THEN "error"
       ELSE IF f.rows = 0 THEN "empty" ELSE "rows"

CUnread == <<part, facts, sync, serial, applied, wanted, replay, subs, drains, stored, matq, projected, adv,
             nfacts, cfaults>>

fetch_from ==
  /\ part = "read" /\ pull.pc = "idle"
  /\ pull' = [NoRead EXCEPT !.pc = "reading"]
  /\ UNCHANGED CUnread

Frame(rows, ev) ==
  /\ pull.pc = "reading"
  /\ LET latest == {[rows |-> rows, ev |-> ev]} IN
     pull' = IF acquisition_ready(ev)
           THEN [pull EXCEPT !.pc = "done", !.latest = latest, !.quiet = FALSE, !.out = finish_latest(latest)]
           ELSE [pull EXCEPT !.latest = latest, !.quiet = acquisition_active(ev)]
  /\ UNCHANGED CUnread

\* The quiet period of an active acquisition, the deadline, or a disconnection.
ReadEnds ==
  /\ pull.pc = "reading"
  /\ pull' = [pull EXCEPT !.pc = "done", !.out = finish_latest(pull.latest)]
  /\ UNCHANGED CUnread

ReadDelivered == pull.pc = "done" /\ pull' = NoRead /\ UNCHANGED CUnread

----------------------------------------------------------------------------
(* The backend profile. *)

CUnadv == <<part, facts, sync, serial, applied, wanted, replay, subs, drains, stored, matq, projected, pull,
            cfaults>>

\* An agent or a workspace is added: every such change schedules a refresh.
schedule_backend_profile_refresh ==
  /\ part = "profile" /\ Fact
  /\ adv' = [adv EXCEPT !.inv = @ + 1, !.tasks = @ \cup {[no |-> adv.inv + 1, snap |-> {}]}]
  /\ UNCHANGED CUnadv

backend_profile_snapshot(t) ==
  /\ t \in adv.tasks /\ t.snap = {}
  /\ adv' = [adv EXCEPT !.tasks = (@ \ {t}) \cup {[t EXCEPT !.snap = {adv.inv}]}]
  /\ UNCHANGED <<CUnadv, nfacts>>

upsert_profile_snapshot(m, val, at) == IF at >= m.at THEN [val |-> val, at |-> at] ELSE m

publish_backend_profile(t) ==
  /\ t \in adv.tasks
  /\ \E v \in t.snap :
       adv' = [adv EXCEPT !.tasks = @ \ {t}, !.mirror = upsert_profile_snapshot(@, v, adv.now),
                          !.top = IF v > @ THEN v ELSE @, !.overtaken = v < adv.top]
  /\ UNCHANGED <<CUnadv, nfacts>>

Second ==
  /\ part = "profile" /\ adv.now < MaxFacts /\ adv' = [adv EXCEPT !.now = @ + 1]
  /\ UNCHANGED <<CUnadv, nfacts>>

----------------------------------------------------------------------------
CoverageNext ==
  \/ EventArrives \/ Materialize
  \/ \E d \in drains : DrainSends(d)
  \/ \E t \in SyncTasks : FactChanges(t) \/ PlanSync(t) \/ ApplyEffect(t) \/ SyncReturns(t)
  \/ \E c \in CChannels : ScheduleReplay(c) \/ replay_channel_chat(c)
  \/ fetch_from \/ ReadEnds \/ ReadDelivered
  \/ \E rows \in 0..1, ev \in Evidence : Frame(rows, ev)
  \/ schedule_backend_profile_refresh \/ Second
  \/ \E t \in adv.tasks : backend_profile_snapshot(t) \/ publish_backend_profile(t)

CoverageProgress ==
  \/ Materialize
  \/ \E d \in drains : DrainSends(d)
  \/ \E t \in SyncTasks : PlanSync(t) \/ ApplyEffect(t) \/ SyncReturns(t)
  \/ \E c \in CChannels : replay_channel_chat(c)
  \/ \E t \in adv.tasks : backend_profile_snapshot(t) \/ publish_backend_profile(t)

CoverageSpec == CoverageInit /\ [][CoverageNext]_cvars /\ WF_cvars(CoverageProgress)

----------------------------------------------------------------------------
(* Properties. *)

Observed == {k \in Keys : subs[k] # {}}

\* Types; at most one task syncs and the materialization queue is bounded.
CoverageTypeOK ==
  /\ facts \in [roots : SUBSET CChannels, member : SUBSET CChannels, routes : SUBSET CChannels,
                archived : SUBSET CChannels, admins : BOOLEAN]
  /\ \A t \in SyncTasks : sync[t].pc \in {"idle", "wait", "apply"} /\ (sync[t].pc = "apply") = (t \in serial)
  /\ Cardinality(serial) <= 1
  /\ applied \subseteq Keys /\ wanted \subseteq Keys
  /\ Len(matq) <= MaterialCap

\* When a sync returns successfully, everything it set out to cover is observed,
\* whatever other syncs, refused observations and replays happened meanwhile.
SyncedCovers ==
  [][\A t \in SyncTasks : SyncReturns(t) => sync[t].want \subseteq Observed]_cvars

\* What the policy believes to be applied is observed, by exactly one thread:
\* a replay or a second open never leaves two drains of a channel, nor none.
OneDrainEach ==
  /\ applied \subseteq Observed
  /\ \A k \in Keys : Cardinality({d \in drains : d.key = k}) = Cardinality(subs[k])

\* A relay that could not be reached never reads as an empty group: a read
\* answers without rows only if every source was requesting or reconciled.
EmptyIsAnswered ==
  pull.out = "empty" => \E f \in pull.latest : f.ev \in {"ready", "active"}

\* An event of a channel that stays covered is projected, though the queue fills
\* and the observation is replaced while its thread is sending.
CoveredEventsArrive ==
  <>[](\A c \in CChannels : LET k == <<"h", c>> IN k \in stored /\ k \in applied => k \in projected)

\* When the inventory is left alone the advertised profile is the last one,
\* unless a refresh with an older snapshot was published after a newer one.
ProfileConverges == <>[](adv.overtaken \/ adv.mirror.val = adv.inv)

\* What the policy believes of the relay is so: one drain for what is applied, and
\* no silence taken for an answer.
CoverageSafe == CoverageTypeOK /\ OneDrainEach /\ EmptyIsAnswered
=============================================================================
