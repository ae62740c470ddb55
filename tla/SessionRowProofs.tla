-------------------------- MODULE SessionRowProofs --------------------------
(***************************************************************************)
(* What every reducer of the sessions row preserves, for every value of    *)
(* its arguments.  RowStep is the store's whole write interface to a row;  *)
(* a module that shows its steps to be RowSteps inherits the lemmas.       *)
(***************************************************************************)
EXTENDS SessionRow, TLAPS

Observation == [ep: Nat, headed: BOOLEAN, at: Nat]

RowStep(r, q) ==
  \/ q = r
  \/ CanReserve(r) /\ q = ReserveGeneration(r)
  \/ \E g \in Nat, why \in StopReason : q = MarkRuntimeStopped(r, g, why)
  \/ \E s \in Held, o \in Observation :
       q = ApplyObservation(r, s, o.ep, o.headed, o.at)
  \/ \E s \in Held, t \in Nat : q = RecordControlUnavailable(r, s, t)
  \/ \E g \in Nat : q = ApplyTurnStarted(r, g)
  \/ \E g \in Nat, t \in Nat : q = ApplyTurnEnded(r, g, t)
  \/ q = CancelDeadlineForWork(r)
  \/ \E t \in Nat, busy \in BOOLEAN : EvictionDue(r, t, busy) /\ q = ReserveEviction(r)
  \/ \E g \in Nat, le \in Nat : q = FinalizeRuntimeStopped(r, g, le)
  \/ \E g \in Nat : q = RevokeRecovery(r, g)
  \/ \E g \in Nat : q = FinalizeRevocation(r, g)

\* The two facts about a row that every reducer needs of it: an eviction is
\* scheduled only for a running, headless, idle session, and a session being
\* evicted is idle (so that a cancelled eviction may arm a new deadline).
RowInv(r) ==
  /\ r.deadline > 0 => r.rt = "running" /\ r.pres = "headless" /\ r.work = "idle"
  /\ r.rt = "stopping" => r.work = "idle"

\* What no reducer may do to the epochs and to the recovery authority.
RowMonotone(r, q) ==
  /\ q.gen >= r.gen /\ q.le >= r.le
  /\ q.gen = r.gen => q.ae >= r.ae
  /\ q.rt # r.rt => q.le > r.le
  /\ r.rec = "revoked" => q.rec = "revoked" /\ q.gen = r.gen

USE IdleTimeoutAssumption

\* The column values the reducers write are of the columns' types.
LEMMA Vocabulary ==
  /\ "running" \in RuntimeState /\ "stopping" \in RuntimeState /\ "stopped" \in RuntimeState
  /\ "unavailable" \in PresentationState /\ "headed" \in PresentationState
  /\ "headless" \in PresentationState
  /\ "idle" \in WorkState /\ "working" \in WorkState /\ "revoked" \in RecoveryState
  /\ "none" \in StopReason /\ "idle_evicted" \in StopReason /\ "revoked" \in StopReason
  BY DEF RuntimeState, PresentationState, WorkState, RecoveryState, StopReason

-----------------------------------------------------------------------------
(* The two ways a deadline is armed or an eviction given back.             *)

\* An applied presentation edge (apply_session_presentation_edge) keeps the
\* row's type and its invariant, and only moves the attachment epoch forward.
LEMMA EdgeLemma ==
  ASSUME NEW r \in Session, RowInv(r), NEW g \in Nat, NEW e \in Nat,
         NEW p \in {"headed", "headless"}, NEW t \in Nat
  PROVE  LET q == ApplyPresentationEdge(r, g, e, p, t)
         IN q \in Session /\ RowInv(q) /\ RowMonotone(r, q)
<1> DEFINE q == ApplyPresentationEdge(r, g, e, p, t)
           d == IF p = "headless" /\ r.work = "idle" THEN t + IdleTimeout ELSE 0
<1>1. d \in Nat /\ (d > 0 => p = "headless" /\ r.work = "idle")
  BY IdleTimeoutAssumption
<1>2. CASE q = r
  BY <1>2 DEF RowMonotone, Session
<1>3. CASE /\ Owns(r, g) /\ r.ae <= e
           /\ q = [r EXCEPT !.pres = p, !.ae = e, !.deadline = d]
  <2> HIDE DEF q, d
  <2>1. q \in Session
    BY <1>1, <1>3 DEF Session, PresentationState
  <2>2. RowInv(q)
    BY <1>1, <1>3 DEF Session, RowInv, Owns
  <2>3. RowMonotone(r, q)
    BY <1>3 DEF Session, RowMonotone
  <2> QED BY <2>1, <2>2, <2>3 DEF q
<1> QED
  BY <1>2, <1>3 DEF ApplyPresentationEdge, Session

\* A cancelled eviction (cancel_idle_eviction_on_presentation_change) gives the
\* row back to "running" one lifecycle epoch later.
LEMMA CancelLemma ==
  ASSUME NEW r \in Session, RowInv(r), NEW g \in Nat, NEW le \in Nat, NEW e \in Nat,
         NEW p \in PresentationState, NEW t \in Nat
  PROVE  LET q == CancelEviction(r, g, le, e, p, t)
         IN q \in Session /\ RowInv(q) /\ RowMonotone(r, q)
<1> DEFINE q == CancelEviction(r, g, le, e, p, t)
           d == IF p = "headless" THEN t + IdleTimeout ELSE 0
           n == r.le + 1
<1>1. d \in Nat /\ (d > 0 => p = "headless") /\ n \in Nat /\ n > r.le
  BY IdleTimeoutAssumption DEF Session
<1>2. CASE q = r
  BY <1>2 DEF RowMonotone, Session
<1>3. CASE /\ r.rt = "stopping" /\ r.ae <= e
           /\ q = [r EXCEPT !.rt = "running", !.pres = p, !.reason = "none",
                            !.ae = e, !.le = n, !.deadline = d]
  <2> HIDE DEF q, d, n
  <2>1. q \in Session
    BY <1>1, <1>3, Vocabulary DEF Session
  <2>2. RowInv(q)
    BY <1>1, <1>3 DEF Session, RowInv
  <2>3. RowMonotone(r, q)
    BY <1>1, <1>3 DEF Session, RowMonotone
  <2> QED BY <2>1, <2>2, <2>3 DEF q
<1> QED
  BY <1>2, <1>3 DEF CancelEviction, Session, PresentationState

\* The columns every stop resets leave a sound row with a later epoch.
LEMMA StoppedLemma ==
  ASSUME NEW r \in Session, NEW why \in StopReason
  PROVE  LET q == Stopped(r, why)
         IN q \in Session /\ RowInv(q) /\ RowMonotone(r, q)
<1> DEFINE q == Stopped(r, why)
           n == r.le + 1
<1>1. n \in Nat /\ n > r.le
  BY DEF Session
<1>2. q = [r EXCEPT !.rt = "stopped", !.pres = "unavailable", !.work = "idle",
                   !.le = n, !.deadline = 0, !.reason = why]
  BY DEF Stopped
<1> HIDE DEF q, n
<1>3. q \in Session
  BY <1>1, <1>2, Vocabulary DEF Session
<1>4. RowInv(q)
  BY <1>2 DEF Session, RowInv
<1>5. RowMonotone(r, q)
  BY <1>1, <1>2 DEF Session, RowMonotone
<1> QED BY <1>3, <1>4, <1>5 DEF q

-----------------------------------------------------------------------------
\* Every write of the store to a sessions row keeps its type and RowInv, moves
\* no epoch back, marks every change of runtime_state with a new lifecycle
\* epoch, and never undoes a revocation.
THEOREM RowStepSound ==
  ASSUME NEW r \in Session, RowInv(r), NEW q, RowStep(r, q)
  PROVE  q \in Session /\ RowInv(q) /\ RowMonotone(r, q)
<1> DEFINE Sound == q \in Session /\ RowInv(q) /\ RowMonotone(r, q)
<1>0. q = r => Sound
  BY DEF RowMonotone, Session
<1>1. ASSUME CanReserve(r), q = ReserveGeneration(r) PROVE Sound
  <2> DEFINE g == r.gen + 1
             n == r.le + 1
  <2>1. g \in Nat /\ g > r.gen /\ n \in Nat /\ n > r.le
    BY DEF Session
  <2>2. q = [r EXCEPT !.gen = g, !.rt = "running", !.pres = "unavailable",
                     !.work = "idle", !.le = n, !.ae = 0, !.deadline = 0,
                     !.reason = "none"]
    BY <1>1 DEF ReserveGeneration
  <2> HIDE DEF g, n
  <2>3. q \in Session
    BY <2>1, <2>2, Vocabulary DEF Session
  <2>4. RowInv(q)
    BY <2>2 DEF Session, RowInv
  <2>5. RowMonotone(r, q)
    BY <1>1, <2>1, <2>2 DEF Session, RowMonotone, CanReserve
  <2> QED BY <2>3, <2>4, <2>5
<1>2. ASSUME NEW g \in Nat, NEW why \in StopReason, q = MarkRuntimeStopped(r, g, why)
      PROVE  Sound
  <2>1. q = r \/ q = Stopped(r, why)
    BY <1>2 DEF MarkRuntimeStopped
  <2> QED BY <1>0, <2>1, StoppedLemma
<1>3. ASSUME NEW s \in Held, NEW o \in Observation,
             q = ApplyObservation(r, s, o.ep, o.headed, o.at)
      PROVE  Sound
  <2> DEFINE p == IF o.headed THEN "headed" ELSE "headless"
  <2>0. /\ s.gen \in Nat /\ s.le \in Nat /\ o.ep \in Nat /\ o.at \in Nat
        /\ p \in {"headed", "headless"} /\ p \in PresentationState
    BY DEF Held, Observation, PresentationState
  <2>1. \/ q = r
        \/ q = ApplyPresentationEdge(r, s.gen, o.ep, p, o.at)
        \/ q = CancelEviction(r, s.gen, s.le, o.ep, p, o.at)
    <3>1. s.rt \in {"running", "stopping", "stopped"}
      BY DEF Held, RuntimeState
    <3> QED BY <1>3, <3>1 DEF ApplyObservation
  <2> HIDE DEF p
  <2>2. CASE q = ApplyPresentationEdge(r, s.gen, o.ep, p, o.at)
    BY <2>0, <2>2, EdgeLemma
  <2>3. CASE q = CancelEviction(r, s.gen, s.le, o.ep, p, o.at)
    BY <2>0, <2>3, CancelLemma
  <2> QED BY <1>0, <2>1, <2>2, <2>3
<1>4. ASSUME NEW s \in Held, NEW t \in Nat, q = RecordControlUnavailable(r, s, t)
      PROVE  Sound
  <2>0. s.gen \in Nat /\ s.le \in Nat /\ s.ae \in Nat /\ "unavailable" \in PresentationState
    BY DEF Held, PresentationState
  <2>1. \/ q = r
        \/ q = MarkPresentationUnavailable(r, s.gen, s.ae)
        \/ q = CancelEviction(r, s.gen, s.le, s.ae, "unavailable", t)
    <3>1. s.rt \in {"running", "stopping", "stopped"}
      BY DEF Held, RuntimeState
    <3> QED BY <1>4, <3>1 DEF RecordControlUnavailable
  <2>2. CASE q = [r EXCEPT !.pres = "unavailable", !.deadline = 0]
    <3>1. q \in Session
      BY <2>0, <2>2 DEF Session
    <3>2. RowInv(q)
      BY <2>2 DEF Session, RowInv
    <3>3. RowMonotone(r, q)
      BY <2>2 DEF Session, RowMonotone
    <3> QED BY <3>1, <3>2, <3>3
  <2>3. CASE q = CancelEviction(r, s.gen, s.le, s.ae, "unavailable", t)
    BY <2>0, <2>3, CancelLemma
  <2> QED BY <1>0, <2>1, <2>2, <2>3 DEF MarkPresentationUnavailable
<1>5. ASSUME NEW g \in Nat, q = ApplyTurnStarted(r, g) PROVE Sound
  <2>1. CASE \E n \in Nat : /\ Owns(r, g)
                            /\ q = [r EXCEPT !.work = "working", !.deadline = 0, !.turns = n]
    <3> PICK n \in Nat : /\ Owns(r, g)
                         /\ q = [r EXCEPT !.work = "working", !.deadline = 0, !.turns = n]
      BY <2>1
    <3>1. q \in Session
      BY DEF Session, WorkState
    <3>2. RowInv(q)
      BY DEF Session, RowInv, Owns
    <3>3. RowMonotone(r, q)
      BY DEF Session, RowMonotone
    <3> QED BY <3>1, <3>2, <3>3
  <2>2. q = r \/ \E n \in Nat : /\ Owns(r, g)
                                /\ q = [r EXCEPT !.work = "working", !.deadline = 0, !.turns = n]
    <3>1. r.turns \in Nat /\ r.turns + 1 \in Nat
      BY DEF Session
    <3> QED BY <1>5, <3>1 DEF ApplyTurnStarted
  <2> QED BY <1>0, <2>1, <2>2
<1>6. ASSUME NEW g \in Nat, NEW t \in Nat, q = ApplyTurnEnded(r, g, t) PROVE Sound
  <2> DEFINE d == IF r.pres = "headless" THEN t + IdleTimeout ELSE 0
  <2>1. d \in Nat /\ (d > 0 => r.pres = "headless")
    BY IdleTimeoutAssumption
  <2>2. CASE Owns(r, g) /\ q = [r EXCEPT !.work = "idle", !.deadline = d]
    <3> HIDE DEF d
    <3>1. q \in Session
      BY <2>1, <2>2 DEF Session, WorkState
    <3>2. RowInv(q)
      BY <2>1, <2>2 DEF Session, RowInv, Owns
    <3>3. RowMonotone(r, q)
      BY <2>2 DEF Session, RowMonotone
    <3> QED BY <3>1, <3>2, <3>3
  <2> QED BY <1>0, <1>6, <2>2 DEF ApplyTurnEnded, TurnEndApplies
<1>7. ASSUME q = CancelDeadlineForWork(r) PROVE Sound
  <2>1. CASE q = [r EXCEPT !.deadline = 0]
    <3>1. q \in Session
      BY <2>1 DEF Session
    <3>2. RowInv(q)
      BY <2>1 DEF Session, RowInv
    <3>3. RowMonotone(r, q)
      BY <2>1 DEF Session, RowMonotone
    <3> QED BY <3>1, <3>2, <3>3
  <2> QED BY <1>0, <1>7, <2>1 DEF CancelDeadlineForWork
<1>8. ASSUME NEW t \in Nat, NEW busy \in BOOLEAN, EvictionDue(r, t, busy),
             q = ReserveEviction(r)
      PROVE  Sound
  <2> DEFINE n == r.le + 1
  <2>1. n \in Nat /\ n > r.le
    BY DEF Session
  <2>2. q = [r EXCEPT !.rt = "stopping", !.le = n, !.deadline = 0,
                     !.reason = "idle_evicted"]
    BY <1>8 DEF ReserveEviction
  <2> HIDE DEF n
  <2>3. q \in Session
    BY <2>1, <2>2, Vocabulary DEF Session
  <2>4. RowInv(q)
    BY <1>8, <2>2 DEF Session, RowInv, EvictionDue
  <2>5. RowMonotone(r, q)
    BY <2>1, <2>2 DEF Session, RowMonotone
  <2> QED BY <2>3, <2>4, <2>5
<1>9. ASSUME NEW g \in Nat, NEW le \in Nat, q = FinalizeRuntimeStopped(r, g, le)
      PROVE  Sound
  <2>1. q = r \/ q = Stopped(r, "idle_evicted")
    BY <1>9 DEF FinalizeRuntimeStopped
  <2> QED BY <1>0, <2>1, Vocabulary, StoppedLemma
<1>10. ASSUME NEW g \in Nat, q = RevokeRecovery(r, g) PROVE Sound
  <2>1. CASE q = [r EXCEPT !.rec = "revoked"]
    <3>1. q \in Session
      BY <2>1 DEF Session, RecoveryState
    <3>2. RowInv(q)
      BY <2>1 DEF Session, RowInv
    <3>3. RowMonotone(r, q)
      BY <2>1 DEF Session, RowMonotone
    <3> QED BY <3>1, <3>2, <3>3
  <2> QED BY <1>0, <1>10, <2>1 DEF RevokeRecovery
<1>11. ASSUME NEW g \in Nat, q = FinalizeRevocation(r, g) PROVE Sound
  <2>1. q = r \/ q = Stopped(r, "revoked")
    BY <1>11 DEF FinalizeRevocation
  <2> QED BY <1>0, <2>1, Vocabulary, StoppedLemma
<1> HIDE DEF Sound
<1>12. Sound
  BY <1>0, <1>1, <1>2, <1>3, <1>4, <1>5, <1>6, <1>7, <1>8, <1>9, <1>10, <1>11
     DEF RowStep
<1> QED BY <1>12 DEF Sound
=============================================================================
