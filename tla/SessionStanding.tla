--------------------------- MODULE SessionStanding ---------------------------
(***************************************************************************)
(* The standing of one session pubkey in one channel: whether the relay    *)
(* has it as a member, what the store has recorded of that, and the tasks  *)
(* that keep the two together (managed_lifecycle/standing.rs and every     *)
(* caller of commit_confirmed_admission).                                  *)
(*                                                                         *)
(* Writes to the relay are serialized by the standing_sync mutex (lane),   *)
(* the session row is not: it stops, starts and is evicted at any time.    *)
(* The row's own rules are SessionLifecycle's; here it takes every step    *)
(* that the reducers of SessionRow allow.                                  *)
(***************************************************************************)
EXTENDS SessionRow

CONSTANTS
  Callers,        \* tasks that admit the session: start, join, switch, invite, boot
  Retention,      \* STOPPED_STANDING_RETENTION_SECS
  MaxGen,         \* bound: launches
  MaxTime,        \* bound: the clock
  MaxLe,          \* bound: lifecycle edges after which no eviction is reserved
  MaxSe,          \* bound: standing epochs after which a revoked session is not repaired
  MaxRequests,    \* bound: admissions requested
  MaxRejected,    \* bound: relay mutations that are refused
  MaxLostGrants,  \* bound: grants that are not confirmed, applied or not
  MaxLostRemovals, \* bound: removals that are not confirmed, applied or not
  MaxErrors,      \* bound: store errors
  MaxCrashes,     \* bound: daemon crashes
  MaxForgets,     \* bound: operator forget requests
  MaxLeaves       \* bound: channel leave / switch requests

ASSUME StandingAssumption ==
  /\ Retention \in Nat \ {0} /\ MaxGen \in Nat \ {0} /\ MaxTime \in Nat /\ MaxLe \in Nat
  /\ MaxSe \in Nat /\ MaxRequests \in Nat /\ MaxRejected \in Nat /\ MaxErrors \in Nat
  /\ MaxLostGrants \in Nat /\ MaxLostRemovals \in Nat
  /\ MaxCrashes \in Nat /\ MaxForgets \in Nat /\ MaxLeaves \in Nat
  /\ Callers \cap {"none", "tick", "forget", "leave"} = {}

VARIABLES
  now,       \* wall clock, seconds
  row,       \* the sessions row
  route,     \* the session_channels row exists
  standing,  \* the session_standing row
  relay,     \* the relay has the pubkey as a member of the channel
  lane,      \* holder of standing_sync
  task,      \* the tasks that use the lane
  spent      \* how much of each bound is used

vars == <<now, row, route, standing, relay, lane, task, spent>>

Tasks == Callers \cup {"tick", "forget", "leave"}

\* until is retain_until, se standing_epoch, le session_lifecycle_epoch.
Standing == [st: {"none", "member", "retained", "absent"}, until: Nat, se: Nat, le: Nat]
NoStanding == [st |-> "none", until |-> 0, se |-> 0, le |-> 0]

TaskPc == {"idle", "wait", "grant", "commit", "fallback", "remove", "mark",
           "terminate", "finalize"}
Idle == [pc |-> "idle", h |-> Hold(NoSession), due |-> NoStanding, listed |-> FALSE]

Budget == [requests |-> MaxRequests, rejected |-> MaxRejected, grants |-> MaxLostGrants,
           removals |-> MaxLostRemovals, errors |-> MaxErrors, crashes |-> MaxCrashes,
           forgets |-> MaxForgets, leaves |-> MaxLeaves]
Spend(k) == spent[k] < Budget[k] /\ spent' = [spent EXCEPT ![k] = @ + 1]

Init ==
  /\ now = 1 /\ row = NoSession /\ route = FALSE /\ standing = NoStanding
  /\ relay = FALSE /\ lane = "none" /\ task = [t \in Tasks |-> Idle]
  /\ spent = [k \in DOMAIN Budget |-> 0]

-----------------------------------------------------------------------------
(* The store's standing transactions.                                      *)

\* The insert that gives a route its standing row, when it has none.
Initialized(s, le) ==
  IF s.st = "none" THEN [st |-> "absent", until |-> 0, se |-> 1, le |-> le] ELSE s

WithRow(s, le) == IF route THEN Initialized(s, le) ELSE s

\* retain_in_transaction
Retain(s, le, until) ==
  LET t == WithRow(s, le)
  IN IF t.st = "member" THEN [st |-> "retained", until |-> until, se |-> t.se + 1, le |-> le]
                        ELSE t

\* Mutant: writes a state that StandingState::parse does not know.
RevokeUnparsed(s, le) == [s EXCEPT !.st = "revoked", !.se = @ + 1, !.le = le]

\* The standing half of finalize_session_recovery_revocation.
RevokeStanding(s, le) ==
  LET t == WithRow(s, le)
  IN IF t.st = "none" THEN t
     ELSE [st |-> IF t.st = "absent" THEN "absent" ELSE "retained",
           until |-> IF t.st = "absent" THEN 0 ELSE now, se |-> t.se + 1, le |-> le]

\* mark_session_standing_absent_if_epoch, for the row d that was listed.
MarkAbsent(s, d) ==
  IF d.st # "none" /\ s.st = d.st /\ s.se = d.se /\ s.le = d.le
  THEN [s EXCEPT !.st = "absent", !.until = 0, !.se = @ + 1] ELSE s

\* Mutant: the member row of another lifecycle does not stop a cleanup.
NeverNewerMember(s, le) == FALSE

\* schedule_cleanup_in_transaction: a member row of another lifecycle wins.
NewerMember(s, le) == s.st = "member" /\ s.le # le

CleanupDue(s, le) == [st |-> "retained", until |-> now, se |-> s.se + 1, le |-> le]

\* The current lifecycle of the row is the one that asked (h).
Requested(h) ==
  /\ row.gen = h.gen /\ row.le = h.le /\ row.rt = "running" /\ row.rec # "revoked"

\* retain_until of a stop for this reason (mark_runtime_stopped_if_generation).
RetainUntil(reason) == IF reason = "attached_clean_exit" THEN now ELSE now + Retention

-----------------------------------------------------------------------------
(* The session row, which does not wait for the lane.                      *)

Tick ==
  /\ now < MaxTime
  /\ now' = now + 1
  /\ UNCHANGED <<row, route, standing, relay, lane, task, spent>>

\* reserve_session_with_facts; when this is the session's own channel,
\* grant_route_and_initialize_standing is part of the transaction.
Launch ==
  /\ CanReserve(row) /\ row.gen < MaxGen
  /\ row' = ReserveGeneration(row)
  /\ \/ route' = TRUE /\ standing' = Initialized(standing, row'.le)
     \/ UNCHANGED <<route, standing>>
  /\ UNCHANGED <<now, relay, lane, task, spent>>

RuntimeStops ==
  /\ row.rt = "running"
  /\ \E reason \in {"crash", "attached_clean_exit"} :
       /\ row' = MarkRuntimeStopped(row, row.gen, reason)
       /\ standing' = Retain(standing, row'.le, RetainUntil(reason))
  /\ UNCHANGED <<now, route, relay, lane, task, spent>>

\* evict_due_idle_sessions, in the tick loop: not while that repairs or expires.
EvictionReserved ==
  /\ row.rt = "running" /\ row.le < MaxLe /\ task["tick"].pc = "idle"
  /\ row' = ReserveEviction(row)
  /\ UNCHANGED <<now, route, standing, relay, lane, task, spent>>

EvictionCancelled ==
  /\ row.rt = "stopping"
  /\ row' = CancelEviction(row, row.gen, row.le, row.ae, "unavailable", now)
  /\ UNCHANGED <<now, route, standing, relay, lane, task, spent>>

EvictionFinalized ==
  /\ row.rt = "stopping"
  /\ row' = FinalizeRuntimeStopped(row, row.gen, row.le)
  /\ standing' = Retain(standing, row'.le, RetainUntil("idle_evicted"))
  /\ UNCHANGED <<now, route, relay, lane, task, spent>>

-----------------------------------------------------------------------------
(* The lane, and the two confirmed relay mutations.                        *)

\* Mutant: relay writes are not serialized.
LaneIgnored == TRUE

LaneFree == lane = "none"

Go(t, pc) == task' = [task EXCEPT ![t].pc = pc]
Release(t) == task' = [task EXCEPT ![t] = Idle] /\ lane' = "none"

\* Mutant: an unconfirmed removal is taken for a confirmed one.
RemoveUnconfirmed(t) ==
  /\ task[t].pc = "remove"
  /\ \/ relay' = FALSE /\ UNCHANGED spent
     \/ Spend("rejected") /\ UNCHANGED relay
     \/ Spend("removals") /\ relay' \in {relay, FALSE}
  /\ Go(t, "mark")
  /\ UNCHANGED <<now, row, route, standing, lane>>

\* remove_member_confirmed: confirmed by read-back, refused, or given up.
Remove(t) ==
  /\ task[t].pc = "remove"
  /\ \/ relay' = FALSE /\ Go(t, "mark") /\ UNCHANGED <<lane, spent>>
     \/ Spend("rejected") /\ Release(t) /\ UNCHANGED relay
     \/ Spend("removals") /\ Release(t) /\ relay' \in {relay, FALSE}
  /\ UNCHANGED <<now, row, route, standing>>

\* The removal is confirmed: record it, if the row is still the one listed.
Mark(t) ==
  /\ task[t].pc = "mark"
  /\ \/ /\ t # "leave"
        /\ standing' = MarkAbsent(standing, task[t].due)
        /\ UNCHANGED <<route, spent>>
     \/ /\ t = "leave"    \* revoke_route_and_mark_absent
        /\ standing' = [st |-> "absent", until |-> 0, se |-> standing.se + 1, le |-> row.le]
        /\ route' = FALSE /\ UNCHANGED spent
     \/ Spend("errors") /\ UNCHANGED <<standing, route>>
  /\ Release(t)
  /\ UNCHANGED <<now, row, relay>>

-----------------------------------------------------------------------------
(* Admission: a caller names the lifecycle it read before it had the lane. *)

\* session_start, channel join / switch / create, invite, boot.
Request(t) ==
  /\ t \in Callers /\ task[t].pc = "idle" /\ row.rt = "running"
  /\ Spend("requests")
  /\ task' = [task EXCEPT ![t] = [Idle EXCEPT !.pc = "wait", !.h = Hold(row)]]
  /\ UNCHANGED <<now, row, route, standing, relay, lane>>

\* confirm_recovery_standing, for a mention that brought the session back,
\* reads the row and the standing when it has the lane.
RecoveryRequest(t) ==
  /\ t \in Callers /\ task[t].pc = "idle" /\ LaneFree
  /\ row.rt = "running" /\ standing.st # "member"
  /\ Spend("requests")
  /\ task' = [task EXCEPT ![t] = [Idle EXCEPT !.pc = "grant", !.h = Hold(row)]]
  /\ lane' = t
  /\ UNCHANGED <<now, row, route, standing, relay>>

RepairWanted == standing.st # "member"

\* reconcile_running: a running session with a route that is not a member.
Repair ==
  /\ task["tick"].pc = "idle" /\ row.rt = "running" /\ route /\ RepairWanted
  /\ row.rec = "revoked" => standing.se < MaxSe
  /\ task' = [task EXCEPT !["tick"] = [Idle EXCEPT !.pc = "wait", !.h = Hold(row)]]
  /\ UNCHANGED <<now, row, route, standing, relay, lane, spent>>

AdmitLock(t) ==
  /\ t \in Callers \cup {"tick"} /\ task[t].pc = "wait" /\ LaneFree
  /\ lane' = t /\ Go(t, "grant")
  /\ UNCHANGED <<now, row, route, standing, relay, spent>>

\* grant_member_confirmed or ensure_channel_ready.
Grant(t) ==
  /\ task[t].pc = "grant"
  /\ \/ relay' = TRUE /\ Go(t, "commit") /\ UNCHANGED <<lane, spent>>
     \/ Spend("rejected") /\ Release(t) /\ UNCHANGED relay
     \/ Spend("grants") /\ Release(t) /\ relay' \in {relay, TRUE}
  /\ UNCHANGED <<now, row, route, standing>>

\* Mutant: a stale admission is ignored.
StaleIgnored(t) ==
  Release(t) /\ UNCHANGED standing

\* CleanupDue, then compensate_due_admission; Superseded ends the admission.
Stale(t) ==
  IF NewerMember(standing, task[t].h.le)
  THEN Release(t) /\ UNCHANGED standing
  ELSE /\ standing' = CleanupDue(standing, task[t].h.le)
       /\ task' = [task EXCEPT ![t].pc = "remove", ![t].due = standing']
       /\ UNCHANGED lane

\* commit_confirmed_session_admission when it owns the lifecycle.
Admit(t) ==
  /\ route' = TRUE
  /\ standing' = [st |-> "member", until |-> 0, se |-> standing.se + 1, le |-> task[t].h.le]

\* A store error leaves the transaction applied or not.
Commit(t) ==
  /\ task[t].pc = "commit"
  /\ \/ Requested(task[t].h) /\ Admit(t) /\ Release(t) /\ UNCHANGED spent
     \/ ~Requested(task[t].h) /\ Stale(t) /\ UNCHANGED <<route, spent>>
     \/ Requested(task[t].h) /\ Spend("errors") /\ Admit(t) /\ Go(t, "fallback")
        /\ UNCHANGED lane
     \/ Spend("errors") /\ Go(t, "fallback") /\ UNCHANGED <<route, standing, lane>>
  /\ UNCHANGED <<now, row, relay>>

\* schedule_confirmed_admission_cleanup; it may fail like the commit did.
Fallback(t) ==
  LET committed == /\ Requested(task[t].h) /\ route
                   /\ standing.st = "member" /\ standing.le = task[t].h.le
  IN
  /\ task[t].pc = "fallback"
  /\ \/ committed /\ Release(t) /\ UNCHANGED <<standing, spent>>
     \/ ~committed /\ Stale(t) /\ UNCHANGED spent
     \/ Spend("errors") /\ Release(t) /\ UNCHANGED standing
  /\ UNCHANGED <<now, row, route, relay>>

-----------------------------------------------------------------------------
(* Expiry, leave and forget.                                               *)

\* reconcile_expired: list and re-read under the lane.
Expire ==
  /\ task["tick"].pc = "idle" /\ LaneFree
  /\ standing.st = "retained" /\ standing.until > 0 /\ standing.until <= now
  /\ lane' = "tick"
  /\ task' = [task EXCEPT !["tick"] = [Idle EXCEPT !.pc = "remove", !.due = standing]]
  /\ UNCHANGED <<now, row, route, standing, relay, spent>>

\* rpc_channel_leave, or the second half of rpc_channel_switch.
Leave ==
  /\ task["leave"].pc = "idle" /\ row.rt = "running" /\ route
  /\ Spend("leaves")
  /\ Go("leave", "wait")
  /\ UNCHANGED <<now, row, route, standing, relay, lane>>

LeaveLock ==
  /\ task["leave"].pc = "wait" /\ LaneFree
  /\ lane' = "leave" /\ Go("leave", "remove")
  /\ UNCHANGED <<now, row, route, standing, relay, spent>>

\* forget_session: revocation is the first durable write, recorded_channels
\* is read with it.
ForgetRevoke ==
  /\ task["forget"].pc = "idle" /\ row.gen > 0 /\ LaneFree
  /\ Spend("forgets")
  /\ row' = RevokeRecovery(row, row.gen)
  /\ task' = [task EXCEPT !["forget"] = 
       [Idle EXCEPT !.pc = "terminate", !.h = Hold(row),
                    !.listed = route \/ standing.st \in {"member", "retained"}]]
  /\ UNCHANGED <<now, route, standing, relay, lane>>

\* terminate_explicit, confirmed or not.
ForgetTerminate ==
  /\ task["forget"].pc = "terminate"
  /\ Go("forget", "finalize") \/ task' = [task EXCEPT !["forget"] = Idle]
  /\ UNCHANGED <<now, row, route, standing, relay, lane, spent>>

ForgetFinalize ==
  /\ task["forget"].pc = "finalize" /\ LaneFree
  /\ row' = FinalizeRevocation(row, task["forget"].h.gen)
  /\ standing' = RevokeStanding(standing, row'.le)
  /\ route' = FALSE
  /\ task' = [task EXCEPT !["forget"] =
                IF @.listed THEN [@ EXCEPT !.pc = "wait"] ELSE Idle]
  /\ UNCHANGED <<now, relay, lane, spent>>

\* remove_revoked_session_memberships
ForgetLock ==
  /\ task["forget"].pc = "wait" /\ LaneFree
  /\ lane' = "forget"
  /\ task' = [task EXCEPT !["forget"].pc = "remove", !["forget"].due = standing]
  /\ UNCHANGED <<now, row, route, standing, relay, spent>>

\* Every task is lost; what the store and the relay have stays.
Crash ==
  /\ Spend("crashes")
  /\ task' = [t \in Tasks |-> Idle] /\ lane' = "none"
  /\ UNCHANGED <<now, row, route, standing, relay>>

-----------------------------------------------------------------------------
Runtime == Launch \/ RuntimeStops \/ EvictionReserved \/ EvictionCancelled \/ EvictionFinalized

Step(t) == AdmitLock(t) \/ Grant(t) \/ Commit(t) \/ Fallback(t) \/ Remove(t) \/ Mark(t)

TickStep == Repair \/ Expire \/ Step("tick")
LeaveStep == LeaveLock \/ Step("leave")
ForgetStep == ForgetTerminate \/ ForgetFinalize \/ ForgetLock \/ Step("forget")

Next ==
  \/ Tick \/ Runtime \/ Crash
  \/ \E t \in Callers : Request(t) \/ RecoveryRequest(t) \/ Step(t)
  \/ TickStep \/ Leave \/ LeaveStep \/ ForgetRevoke \/ ForgetStep

\* standing_sync is a fair tokio mutex, so whoever waits for the lane gets it.
Fairness ==
  /\ SF_vars(TickStep) /\ SF_vars(LeaveStep) /\ SF_vars(ForgetStep) /\ WF_vars(Tick)
  /\ \A t \in Callers : SF_vars(Step(t))

Spec == Init /\ [][Next]_vars /\ Fairness

-----------------------------------------------------------------------------
(* Properties.                                                             *)

TypeOK ==
  /\ now \in Nat /\ row \in Session /\ route \in BOOLEAN /\ standing \in Standing
  /\ relay \in BOOLEAN /\ lane \in Tasks \cup {"none"}
  /\ task \in [Tasks -> [pc: TaskPc, h: Held, due: Standing,
                     listed: BOOLEAN]]
  /\ spent \in [DOMAIN Budget -> Nat]

\* The daemon has not crashed, every grant was answered, and the store has not
\* failed both a commit and its fallback.
Reliable == spent["crashes"] = 0 /\ spent["grants"] = 0 /\ spent["errors"] <= 1

\* Somebody answers for every membership: when no task is in the lane, a pubkey
\* the relay has as a member is recorded as a member or as due for removal, so
\* that a stop, an expiry or a forget will find it (commit_confirmed_admission and
\* its fallback), whatever is refused or given up and whichever single write fails.
Accounted ==
  Reliable /\ lane = "none" /\ relay => standing.st \in {"member", "retained"}

NobodyLeft == spent["leaves"] = 0

\* Until somebody leaves the channel, a standing recorded as member is a membership
\* the relay has (commit_confirmed_session_admission, remove_member_confirmed).
MemberOnRelay == NobodyLeft /\ standing.st = "member" => relay

\* A running session that was admitted in its current lifecycle is not put up for
\* removal by an admission, a compensation or an expiry of an earlier one: only its
\* own stop, a leave or a forget takes the standing away.
NoStaleRemoval ==
  [][/\ standing.st = "member" /\ standing.le = row'.le /\ route'
     /\ row'.rt = "running" /\ row'.rec # "revoked"
     => standing'.st = "member"]_vars

\* A forgotten session leaves the channel for good, however often the removal has to be
\* tried and whatever admission was on its way.
RevokedLeaves == <>[](row.reason = "revoked" => ~relay)

\* A running session is admitted to the channels it has a route for.
RunningAdmitted ==
  []<>(row.rt = "running" /\ route => standing.st = "member" \/ row.rec = "revoked")
=============================================================================
