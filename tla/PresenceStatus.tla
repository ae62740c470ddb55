--------------------------- MODULE PresenceStatus ---------------------------
(***************************************************************************)
(* The presence lease of one session: the generation-fenced reconciler      *)
(* (reconcile/status), the bounded publish queue (presence_publisher.rs),    *)
(* the engine task that opens, renews and closes the lease (runtime.rs), and *)
(* what a daemon that receives the kind:30315 events shows (state/status.rs, *)
(* session_presence.rs).                                                     *)
(*                                                                           *)
(* Time is counted in renewal periods and every instant is kept relative to  *)
(* now: `left' is what remains of a lease, `age' how old an event is.  A     *)
(* caller reads the row, then takes the policy lock, then submits the        *)
(* outcome; the daemon's runtime has several threads, so these are steps.    *)
(***************************************************************************)
EXTENDS Integers, Sequences, FiniteSets

CONSTANTS
  PChannels,     \* channels the session may be in
  LeaseTicks,    \* PRESENCE_LEASE_TTL_SECS over PRESENCE_LEASE_RENEWAL_SECS
  QueueCap,      \* PUBLISH_QUEUE_CAPACITY, scaled
  PMaxGen,       \* bound of the runtime generations
  MaxChanges,    \* bound of turns, joins and stops
  PMaxFaults     \* bound of daemon restarts, lost and repeated events

ASSUME LeaseAssumption ==
  /\ LeaseTicks \in Nat \ {0} /\ QueueCap \in Nat \ {0} /\ PMaxGen \in Nat \ {0}
  /\ PChannels # {}

VARIABLES
  prow,      \* the sessions row: [gen, run, work, path, chans]
  engine,    \* runtime generation -> its task: [st, cancel]
  closing,   \* generations whose stop is about to call close_generation
  reads,     \* reconcile_generation and open calls, with the row they have read
  prec,      \* StatusReconciler: {} or {[gen, proj, live, armed]}
  outs,      \* outcomes computed under the policy lock and not yet submitted
  jobs,      \* the publish queue
  wire,      \* status events a relay delivers late
  pmirror,    \* the observer's relay_status: channel -> {} or {[state, age, left]}
  stopAge,   \* renewal periods since the row was last running
  praced,     \* history: the projection applied last was not the row's any more
  changes, pfaults

pvars == <<prow, engine, closing, reads, prec, outs, jobs, wire, pmirror, stopAge,
           praced, changes, pfaults>>

PGens == 1..PMaxGen
Home == CHOOSE c \in PChannels : TRUE   \* the session's active channel
AgeCap == 2
PStates == {"working", "idle", "suspended", "offline"}
Projections == [chans : SUBSET PChannels, state : PStates]
Statuses == [chans : SUBSET PChannels, state : PStates, left : -1..LeaseTicks]

PresenceInit ==
  /\ prow = [gen |-> 1, run |-> TRUE, work |-> FALSE, path |-> TRUE,
             chans |-> {Home}]
  /\ engine = [g \in PGens |-> [st |-> IF g = 1 THEN "starting" ELSE "none", cancel |-> FALSE]]
  /\ closing = {} /\ reads = {} /\ prec = {} /\ outs = {}
  /\ jobs = <<>> /\ wire = {} /\ pmirror = [c \in PChannels |-> {}]
  /\ stopAge = 0 /\ praced = FALSE /\ changes = 0 /\ pfaults = 0

PFault == pfaults < PMaxFaults /\ pfaults' = pfaults + 1
PChange == changes < MaxChanges /\ changes' = changes + 1

----------------------------------------------------------------------------
(* The projection of the row: session_state.rs and session_presence.rs.      *)

classify(live, working, automatic_delivery) ==
  CASE ~live -> "offline"
    [] live /\ working -> "working"
    [] live /\ ~working /\ automatic_delivery -> "idle"
    [] OTHER -> "suspended"

publication == [chans |-> prow.chans, state |-> classify(prow.run, prow.work, prow.path)]

\* Mutant: a lease that has run out still counts.
ObservedIgnoringExpiry(m) == m.state
observed(m) == IF m.left >= 0 THEN m.state ELSE "offline"

\* WhoAggregation::load keeps the statuses whose lease has not run out.
statuses_for(c) == {m \in pmirror[c] : m.left >= 0}

\* build_who_snapshot: a host lists its running sessions, and the ended ones whose
\* standing is retained, from their rows, and only other hosts' by their status;
\* `local_pubkeys' are the sessions it owns, ended ones too.
peer_rows(host, c) ==
  IF host = "owner" THEN {}
  ELSE {[source |-> "peer", state |-> observed(m)] : m \in statuses_for(c)}

local_rows(host, c) ==
  IF host = "owner" /\ c = Home
  THEN {[source |-> "local", state |-> publication.state]} ELSE {}

build_who_snapshot(host, c) == local_rows(host, c) \cup peer_rows(host, c)

\* What an observer makes of the row it has for a channel.
RemoteView(c) == IF pmirror[c] = {} THEN "offline" ELSE observed(CHOOSE m \in pmirror[c] : TRUE)

----------------------------------------------------------------------------
(* StatusReconciler.  Every operation yields the next record and the         *)
(* statuses to publish.                                                      *)

command_of(r) == [chans |-> r.proj.chans, state |-> IF r.live THEN r.proj.state ELSE "offline"]

to_status(cmd, expiring) ==
  LET state == IF expiring THEN "offline" ELSE cmd.state IN
  [chans |-> cmd.chans, state |-> state, left |-> IF state = "offline" THEN 0 ELSE LeaseTicks]

\* The revision of an outcome counts from the oldest one that is not published.
Revisions == {o.rev : o \in outs} \cup {jobs[i].rev : i \in DOMAIN jobs}
NextRevision == 1 + CHOOSE n \in Revisions \cup {0} : \A m \in Revisions : m <= n
\* A task submits an outcome before it drives again: g is the engine task of
\* generation g, and 0 any of the others.
Outcome(task, s) == outs' = outs \cup {[rev |-> NextRevision, task |-> task, status |-> s]}
Free(g) == \A o \in outs : o.task # g
NoOutcome == UNCHANGED outs

\* Mutant: the fence is forgotten.
OwnedAny(g) == prec
owned_mut(g) == {r \in prec : r.gen = g}

open(g, proj) ==
  IF \E r \in prec : r.gen >= g THEN NoOutcome /\ UNCHANGED prec
  ELSE LET r == [gen |-> g, proj |-> proj, live |-> TRUE, armed |-> TRUE] IN
       prec' = {r} /\ Outcome(g, to_status(command_of(r), FALSE))

\* A reconciliation that changes nothing advances the revision and publishes
\* nothing; the revision only names jobs, so it is left where it is.
reconcile(g, proj) ==
  IF owned_mut(g) = {} THEN NoOutcome /\ UNCHANGED prec
  ELSE LET r == CHOOSE x \in owned_mut(g) : TRUE
           n == [r EXCEPT !.proj = proj, !.live = TRUE]
       IN /\ prec' = {n}
          /\ IF command_of(n) # command_of(r) THEN Outcome(0, to_status(command_of(n), FALSE))
             ELSE NoOutcome

renew(g) ==
  IF \E r \in owned_mut(g) : ~r.armed
  THEN LET r == CHOOSE x \in owned_mut(g) : TRUE IN
       prec' = {[r EXCEPT !.armed = TRUE]} /\ Outcome(g, to_status(command_of(r), FALSE))
  ELSE NoOutcome /\ UNCHANGED prec

close(g, task) ==
  IF \E r \in owned_mut(g) : r.live
  THEN LET r == [CHOOSE x \in owned_mut(g) : TRUE EXCEPT !.live = FALSE] IN
       prec' = {r} /\ Outcome(task, to_status(command_of(r), FALSE))
  ELSE NoOutcome /\ UNCHANGED prec

revoke(g) ==
  IF owned_mut(g) # {}
  THEN prec' = {} /\ Outcome(0, to_status(command_of(CHOOSE r \in owned_mut(g) : TRUE), TRUE))
  ELSE NoOutcome /\ UNCHANGED prec

----------------------------------------------------------------------------
(* The callers. *)

\* The projection is read with the row; the policy lock is taken later.
Call(kind, g) == [kind |-> kind, gen |-> g, proj |-> {}]
ReadRow(r) == (reads \ {r}) \cup {[r EXCEPT !.proj = {publication}]}

\* A turn, a join, a leave, a suspension: the row changes, then the RPC calls
\* reconcile_generation (turn_lifecycle.rs, channel_membership_rpc.rs).
ChangeRow ==
  /\ PChange /\ prow.run
  /\ \/ prow' = [prow EXCEPT !.work = ~@]
     \/ prow.path /\ prow' = [prow EXCEPT !.path = FALSE]
     \/ \E c \in PChannels \ {Home} : prow' = [prow EXCEPT !.chans = IF c \in @ THEN @ \ {c} ELSE @ \cup {c}]
  /\ reads' = reads \cup {Call("reconcile", prow.gen)}
  /\ UNCHANGED <<engine, closing, prec, outs, jobs, wire, pmirror, stopAge, praced, pfaults>>

\* The read of reconcile_generation: only a running row of its own generation.
reconcile_generation(r) ==
  /\ r \in reads /\ r.kind = "reconcile" /\ r.proj = {}
  /\ reads' = IF prow.gen = r.gen /\ prow.run THEN ReadRow(r) ELSE reads \ {r}
  /\ UNCHANGED <<prow, engine, closing, prec, outs, jobs, wire, pmirror, stopAge, praced,
                 changes, pfaults>>

\* run_session_in_daemon reads the row for its first status, running or not.
EngineStarts(g) ==
  /\ engine[g].st = "starting"
  /\ engine' = [engine EXCEPT ![g].st = "opening"]
  /\ reads' = reads \cup {[Call("open", g) EXCEPT !.proj = {publication}]}
  /\ UNCHANGED <<prow, closing, prec, outs, jobs, wire, pmirror, stopAge, praced, changes, pfaults>>

drive(r) ==
  /\ r \in reads /\ reads' = reads \ {r}
  /\ \E p \in r.proj :
       /\ praced' = (p # publication)
       /\ \/ r.kind = "open" /\ open(r.gen, p) /\ engine' = [engine EXCEPT ![r.gen].st = "up"]
          \/ r.kind = "reconcile" /\ reconcile(r.gen, p) /\ UNCHANGED engine
  /\ UNCHANGED <<prow, closing, jobs, wire, pmirror, stopAge, changes, pfaults>>

Renew(g) ==
  /\ engine[g].st = "up" /\ \E r \in prec : ~r.armed
  /\ Free(g) /\ renew(g)
  /\ UNCHANGED <<prow, engine, closing, reads, jobs, wire, pmirror, stopAge, praced, changes, pfaults>>

\* stop_generation_locked: cancel the engine, mark the row, close the presence.
\* A cancelled engine that is still starting opens first and then ends.
stop_generation ==
  /\ PChange /\ prow.run
  /\ prow' = [prow EXCEPT !.run = FALSE, !.work = FALSE]
  /\ engine' = [engine EXCEPT ![prow.gen].cancel = TRUE]
  /\ closing' = closing \cup {prow.gen}
  /\ UNCHANGED <<reads, prec, outs, jobs, wire, pmirror, stopAge, praced, pfaults>>

close_generation(g) ==
  /\ g \in closing /\ closing' = closing \ {g}
  /\ close(g, 0)
  /\ UNCHANGED <<prow, engine, reads, jobs, wire, pmirror, stopAge, praced, changes, pfaults>>

\* The engine's own end: cancelled, or the watched process is gone while the
\* row still runs; the row is then stopped by the engine's teardown.
EngineEnds(g) ==
  /\ \/ engine[g] = [st |-> "up", cancel |-> TRUE] /\ UNCHANGED <<prow, closing, changes>>
     \/ engine[g].st = "up" /\ prow.gen = g /\ prow.run /\ PChange
        /\ prow' = [prow EXCEPT !.run = FALSE, !.work = FALSE]
        /\ closing' = closing \cup {g}
  /\ engine' = [engine EXCEPT ![g] = [st |-> "none", cancel |-> FALSE]]
  /\ Free(g) /\ close(g, g)
  /\ UNCHANGED <<reads, jobs, wire, pmirror, stopAge, praced, pfaults>>

\* An operator's kill revokes the presence after the runtime stopped.
revoke_operator_session ==
  /\ ~prow.run /\ closing = {} /\ owned_mut(prow.gen) # {}
  /\ revoke(prow.gen)
  /\ UNCHANGED <<prow, engine, closing, reads, jobs, wire, pmirror, stopAge, praced, changes, pfaults>>

\* The session is launched again under its pubkey, as the next generation.
Relaunch ==
  /\ PChange /\ ~prow.run /\ prow.gen < PMaxGen
  /\ prow' = [prow EXCEPT !.gen = @ + 1, !.run = TRUE]
  /\ engine' = [engine EXCEPT ![prow.gen + 1].st = "starting"]
  /\ stopAge' = 0
  /\ UNCHANGED <<closing, reads, prec, outs, jobs, wire, pmirror, praced, pfaults>>

----------------------------------------------------------------------------
(* PresencePublisher and the relay. *)

\* try_send: a full queue drops the job and logs a warning.
submit(o) ==
  /\ o \in outs /\ outs' = outs \ {o}
  /\ jobs' = IF Len(jobs) < QueueCap THEN Append(jobs, o) ELSE jobs
  /\ UNCHANGED <<prow, engine, closing, reads, prec, wire, pmirror, stopAge, praced, changes, pfaults>>

\* Newer updated_at wins; a renewal refreshes the lease and leaves updated_at.
upsert_status(c, e) ==
  LET s == e.status
      new == [state |-> s.state, age |-> e.age, left |-> s.left]
      old == CHOOSE m \in pmirror[c] : TRUE
  IN IF pmirror[c] = {} THEN {new}
     ELSE IF e.age > old.age THEN pmirror[c]
     ELSE {[new EXCEPT !.age = IF old.state = s.state THEN old.age ELSE e.age]}

\* materialize_status: one row per channel the event names.
materialize_status(e) ==
  [c \in PChannels |-> IF c \in e.status.chans THEN upsert_status(c, e) ELSE pmirror[c]]

\* The worker signs the event now and hands it to NMP.  The observer receives it,
\* or NMP refuses it, or a relay delivers it late, or a second time.
Work ==
  /\ jobs # <<>> /\ jobs' = Tail(jobs)
  /\ LET e == [status |-> Head(jobs).status, age |-> 0] IN
     \/ pmirror' = materialize_status(e) /\ UNCHANGED <<wire, pfaults>>
     \/ PFault /\ UNCHANGED <<wire, pmirror>>
     \/ PFault /\ wire' = wire \cup {e} /\ pmirror' \in {pmirror, materialize_status(e)}
  /\ UNCHANGED <<prow, engine, closing, reads, prec, outs, stopAge, praced, changes>>

DeliverLate(e) ==
  /\ e \in wire /\ wire' = wire \ {e}
  /\ pmirror' = materialize_status(e)
  /\ UNCHANGED <<prow, engine, closing, reads, prec, outs, jobs, stopAge, praced, changes, pfaults>>

\* The daemon ends and starts again: everything but the row is in memory.  Boot
\* reconciliation restarts the engine of a session that lives and stops the row
\* of one that does not, for which the new reconciler has nothing to close.
RestartDaemon ==
  /\ PFault
  /\ \E alive \in BOOLEAN :
       /\ prow' = [prow EXCEPT !.run = @ /\ alive, !.work = @ /\ alive]
       /\ engine' = [g \in PGens |-> [st |-> IF g = prow.gen /\ prow.run /\ alive THEN "starting"
                                            ELSE "none", cancel |-> FALSE]]
  /\ closing' = {} /\ reads' = {} /\ prec' = {} /\ outs' = {} /\ jobs' = <<>>
  /\ UNCHANGED <<wire, pmirror, stopAge, praced, changes>>

\* A renewal period passes.  Within one, callers finish, due renewals are made,
\* and only delayed events younger than AgeCap are still under way.
Older(e) == [e EXCEPT !.age = @ + 1, !.status.left = IF @ < 0 THEN @ ELSE @ - 1]
Prompt ==
  /\ reads = {} /\ closing = {} /\ outs = {} /\ jobs = <<>>
  /\ \A g \in PGens : engine[g].st \in {"none", "up"} /\ ~engine[g].cancel /\ (engine[g].st = "up" => \A r \in prec : r.armed)
  /\ \A e \in wire : e.age + 1 < AgeCap

TickPeriod ==
  /\ Prompt
  /\ prec' = {[r EXCEPT !.armed = FALSE] : r \in prec}
  /\ wire' = {Older(e) : e \in wire}
  /\ pmirror' = [c \in PChannels |->
                 {[m EXCEPT !.age = IF @ < AgeCap THEN @ + 1 ELSE @,
                            !.left = IF @ < 0 THEN @ ELSE @ - 1] : m \in pmirror[c]}]
  /\ stopAge' = IF prow.run THEN 0 ELSE IF stopAge > LeaseTicks THEN stopAge ELSE stopAge + 1
  /\ UNCHANGED <<prow, engine, closing, reads, outs, jobs, praced, changes, pfaults>>

PresenceNext ==
  \/ ChangeRow \/ stop_generation \/ Relaunch \/ revoke_operator_session
  \/ Work \/ RestartDaemon \/ TickPeriod
  \/ \E g \in PGens : EngineStarts(g) \/ Renew(g) \/ close_generation(g) \/ EngineEnds(g)
  \/ \E r \in reads : reconcile_generation(r) \/ drive(r)
  \/ \E o \in outs : submit(o)
  \/ \E e \in wire : DeliverLate(e)

\* What the daemon, its queue, the clock and the relays do by themselves.
PresenceProgress ==
  \/ Work \/ TickPeriod
  \/ \E g \in PGens : EngineStarts(g) \/ Renew(g) \/ close_generation(g)
  \/ \E g \in PGens : engine[g].cancel /\ EngineEnds(g)
  \/ \E r \in reads : reconcile_generation(r) \/ drive(r)
  \/ \E o \in outs : submit(o)
  \/ \E e \in wire : DeliverLate(e)

PresenceSpec == PresenceInit /\ [][PresenceNext]_pvars /\ WF_pvars(PresenceProgress)

----------------------------------------------------------------------------
(* Properties. *)

\* Types; the publish queue never holds more than its capacity.
PresenceTypeOK ==
  /\ prow \in [gen : PGens, run : BOOLEAN, work : BOOLEAN, path : BOOLEAN, chans : SUBSET PChannels]
  /\ engine \in [PGens -> [st : {"none", "starting", "opening", "up"}, cancel : BOOLEAN]]
  /\ closing \subseteq PGens
  /\ reads \subseteq [kind : {"open", "reconcile"}, gen : PGens, proj : SUBSET Projections]
  /\ prec \subseteq [gen : PGens, proj : Projections, live : BOOLEAN, armed : BOOLEAN]
  /\ Cardinality(prec) <= 1
  /\ \A o \in outs : o.status \in Statuses
  /\ Len(jobs) <= QueueCap
  /\ \A e \in wire : e.status \in Statuses /\ e.age < AgeCap
  /\ \A c \in PChannels : pmirror[c] \subseteq [state : PStates, age : 0..AgeCap, left : -1..LeaseTicks]

\* A session that has been stopped for longer than a lease is shown live by no
\* observer, though the daemon may have died without publishing its end, a stale
\* reconciliation may have followed the close, and events may be lost.
OfflineWithinLease == stopAge > LeaseTicks => \A c \in PChannels : RemoteView(c) = "offline"

\* On its own host a session is listed once, with the state of its row, whatever
\* lease of it is still out: one that has ended is not listed as live.
OwnHostTruth ==
  LET rows == UNION {build_who_snapshot("owner", c) : c \in PChannels} IN
  /\ Cardinality(rows) = 1
  /\ \A w \in rows : w.state = classify(prow.run, prow.work, prow.path)

\* The presence of a runtime generation goes offline only when that generation
\* is being stopped, and never passes back to an older generation: the late end
\* of an old engine does not silence the session's new runtime.
CloseIsOwn ==
  [][\A r \in prec, n \in prec' :
       /\ n.gen >= r.gen
       /\ (n.gen = r.gen /\ r.live /\ ~n.live) => (prow'.gen > r.gen \/ ~prow'.run)]_pvars

\* Once the session is left alone, every observer shows its state in its channels
\* and offline elsewhere, and goes on doing so: dropped jobs, lost events and
\* reordered ones are repaired by the renewals.  The one exception is a caller
\* that was overtaken between reading the row and taking the policy lock.
ObserversAgree ==
  ~praced \/ ~prow.run =>
    \A c \in PChannels :
      RemoteView(c) = IF c \in prow.chans THEN publication.state ELSE "offline"

\* What the who view shows of a session, on its own host and elsewhere.
PresenceSafe == PresenceTypeOK /\ OfflineWithinLease /\ OwnHostTruth
=============================================================================
