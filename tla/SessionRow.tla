----------------------------- MODULE SessionRow -----------------------------
(***************************************************************************)
(* The `sessions` row of one pubkey and the transactional reducers of      *)
(* src/state that are the only code allowed to change it.  Every reducer   *)
(* is one SQL statement (or one IMMEDIATE transaction) run under the store *)
(* mutex, so it is one function from row to row: a WHERE clause that does  *)
(* not match returns the row unchanged.                                    *)
(*                                                                         *)
(* A row that was never inserted is the row of generation 0, stopped.      *)
(***************************************************************************)
EXTENDS Integers

CONSTANT IdleTimeout    \* HEADLESS_IDLE_TIMEOUT_SECS

ASSUME IdleTimeoutAssumption == IdleTimeout \in Nat \ {0}

RuntimeState == {"running", "stopping", "stopped"}
PresentationState == {"unavailable", "headed", "headless"}
WorkState == {"idle", "working"}
RecoveryState == {"pending", "ready", "revoked"}
StopReason == {"none", "unknown", "attached_clean_exit", "idle_evicted",
               "headless_exit", "crash", "operator_kill", "revoked",
               "superseded"}

\* le is lifecycle_epoch, ae is attachment_epoch, deadline is idle_deadline
\* (0 when no eviction is scheduled), turns is turn_count.
Session == [gen: Nat, rt: RuntimeState, pres: PresentationState,
            work: WorkState, rec: RecoveryState, le: Nat, ae: Nat,
            deadline: Nat, reason: StopReason, turns: Nat]

NoSession == [gen |-> 0, rt |-> "stopped", pres |-> "unavailable",
              work |-> "idle", rec |-> "pending", le |-> 0, ae |-> 0,
              deadline |-> 0, reason |-> "none", turns |-> 0]

\* The fields of the Session value a task carries across an await.
Held == [gen: Nat, rt: RuntimeState, le: Nat, ae: Nat]
Hold(r) == [gen |-> r.gen, rt |-> r.rt, le |-> r.le, ae |-> r.ae]

Owns(r, g) == r.gen = g /\ r.rt = "running"

-----------------------------------------------------------------------------
(* Admission and release of a generation.                                  *)

\* Mutant: reserves over a runtime that is still active.
ReserveOverActive(r) == r.rec # "revoked"

\* Mutant: reserves a pubkey whose recovery authority is revoked.
ReserveRevoked(r) == r.rt = "stopped"

CanReserve(r) == r.rt = "stopped" /\ r.rec # "revoked"

\* reserve_session_with_facts: the sole way a generation advances.
ReserveGeneration(r) ==
  [r EXCEPT !.gen = @ + 1, !.rt = "running", !.pres = "unavailable",
            !.work = "idle", !.le = @ + 1, !.ae = 0, !.deadline = 0,
            !.reason = "none"]

\* The columns every stop resets.
Stopped(r, reason) ==
  [r EXCEPT !.rt = "stopped", !.pres = "unavailable", !.work = "idle",
            !.le = @ + 1, !.deadline = 0, !.reason = reason]

\* Mutant: a session nobody can observe is not stopped.
StopOnlyObserved(r, g, reason) ==
  IF Owns(r, g) /\ r.pres # "unavailable" THEN Stopped(r, reason) ELSE r

\* mark_runtime_stopped_if_generation
MarkRuntimeStopped(r, g, reason) ==
  IF Owns(r, g) THEN Stopped(r, reason) ELSE r

-----------------------------------------------------------------------------
(* Presentation edges.                                                     *)

\* Mutant: applies edges in arrival order.
EdgeIgnoringEpoch(r, g, epoch, pres, at) ==
  IF Owns(r, g)
  THEN [r EXCEPT !.pres = pres, !.ae = epoch,
                 !.deadline = IF pres = "headless" /\ r.work = "idle"
                              THEN at + IdleTimeout ELSE 0]
  ELSE r

\* Mutant: an attach leaves the old deadline armed.
EdgeKeepingDeadline(r, g, epoch, pres, at) ==
  IF /\ Owns(r, g)
     /\ r.ae < epoch \/ (r.ae = epoch /\ r.pres = "unavailable")
  THEN [r EXCEPT !.pres = pres, !.ae = epoch,
                 !.deadline = IF pres = "headless" /\ r.work = "idle"
                              THEN at + IdleTimeout ELSE @]
  ELSE r

\* apply_session_presentation_edge
ApplyPresentationEdge(r, g, epoch, pres, at) ==
  IF /\ Owns(r, g)
     /\ r.ae < epoch \/ (r.ae = epoch /\ r.pres = "unavailable")
  THEN [r EXCEPT !.pres = pres, !.ae = epoch,
                 !.deadline = IF pres = "headless" /\ r.work = "idle"
                              THEN at + IdleTimeout ELSE 0]
  ELSE r

\* mark_session_presentation_unavailable
MarkPresentationUnavailable(r, g, epoch) ==
  IF Owns(r, g) /\ r.ae = epoch
  THEN [r EXCEPT !.pres = "unavailable", !.deadline = 0]
  ELSE r

-----------------------------------------------------------------------------
(* Turns and accepted work.                                                *)

\* apply_session_turn_started
ApplyTurnStarted(r, g) ==
  IF Owns(r, g)
  THEN [r EXCEPT !.work = "working", !.deadline = 0,
                 !.turns = IF r.work = "idle" THEN @ + 1 ELSE @]
  ELSE r

\* apply_session_turn_ended applies only to a working row.
TurnEndApplies(r, g) == Owns(r, g) /\ r.work = "working"

ApplyTurnEnded(r, g, at) ==
  IF TurnEndApplies(r, g)
  THEN [r EXCEPT !.work = "idle",
                 !.deadline = IF r.pres = "headless"
                              THEN at + IdleTimeout ELSE 0]
  ELSE r

\* The sessions half of enqueue_inbox.
CancelDeadlineForWork(r) ==
  IF r.rt = "running" THEN [r EXCEPT !.deadline = 0] ELSE r

-----------------------------------------------------------------------------
(* Idle eviction: running -> stopping -> stopped, or back to running.      *)

\* The predicate shared by list_due_idle_evictions and
\* reserve_due_idle_eviction; busy says that some inbox row of the pubkey
\* is pending or injected.
EvictionDue(r, now, busy) ==
  /\ r.rt = "running" /\ r.pres = "headless" /\ r.work = "idle"
  /\ r.deadline > 0 /\ r.deadline <= now
  /\ ~busy

\* The update of reserve_due_idle_eviction on a row that is due.
ReserveEviction(r) ==
  [r EXCEPT !.rt = "stopping", !.le = @ + 1, !.deadline = 0,
            !.reason = "idle_evicted"]

\* Mutant: only a newer attachment epoch gives the row back.
CancelOnNewerEpoch(r, g, le, epoch, pres, at) ==
  IF r.gen = g /\ r.rt = "stopping" /\ r.le = le /\ r.ae < epoch
  THEN [r EXCEPT !.rt = "running", !.pres = pres, !.reason = "none",
                 !.ae = epoch, !.le = @ + 1,
                 !.deadline = IF pres = "headless" THEN at + IdleTimeout ELSE 0]
  ELSE r

\* cancel_idle_eviction_on_presentation_change
CancelEviction(r, g, le, epoch, pres, at) ==
  IF /\ r.gen = g /\ r.rt = "stopping" /\ r.le = le
     /\ r.ae < epoch \/ (pres = "unavailable" /\ r.ae = epoch)
  THEN [r EXCEPT !.rt = "running", !.pres = pres, !.reason = "none",
                 !.ae = epoch, !.le = @ + 1,
                 !.deadline = IF pres = "headless" THEN at + IdleTimeout ELSE 0]
  ELSE r

\* finalize_runtime_stopped_if_epoch applies only to the edge it reserved.
FinalizeApplies(r, g, le) == r.gen = g /\ r.rt = "stopping" /\ r.le = le

FinalizeRuntimeStopped(r, g, le) ==
  IF FinalizeApplies(r, g, le) THEN Stopped(r, "idle_evicted") ELSE r

-----------------------------------------------------------------------------
(* Recovery authority.                                                     *)

\* revoke_session_recovery_if_generation
RevokeRecovery(r, g) == IF r.gen = g THEN [r EXCEPT !.rec = "revoked"] ELSE r

\* finalize_session_recovery_revocation, from any runtime state.
FinalizeRevocation(r, g) ==
  IF r.gen = g /\ r.rec = "revoked" THEN Stopped(r, "revoked") ELSE r

-----------------------------------------------------------------------------
(* The two dispatchers that pick a reducer by the runtime state of the     *)
(* SNAPSHOT s the caller holds, not of the row as it now is.               *)

\* presentation::apply
ApplyObservation(r, s, epoch, headed, at) ==
  LET pres == IF headed THEN "headed" ELSE "headless"
  IN CASE s.rt = "running" -> ApplyPresentationEdge(r, s.gen, epoch, pres, at)
       [] s.rt = "stopping" -> CancelEviction(r, s.gen, s.le, epoch, pres, at)
       [] OTHER -> r

\* Mutant: a lost control channel is taken for a dead process.
ControlLossStops(r, s, at) ==
  IF r.gen = s.gen /\ r.rt # "stopped" THEN Stopped(r, "crash") ELSE r

\* session_termination::record_control_unavailable
RecordControlUnavailable(r, s, at) ==
  CASE s.rt = "running" -> MarkPresentationUnavailable(r, s.gen, s.ae)
    [] s.rt = "stopping" -> CancelEviction(r, s.gen, s.le, s.ae, "unavailable", at)
    [] OTHER -> r
=============================================================================
