------------------------ MODULE InboxDeliveryProofs ------------------------
(***************************************************************************)
(* InboxDelivery for every number of messages, tasks, generations, faults, *)
(* crashes and prunes: no message is handed over twice in one life of its  *)
(* row, reactions are honest, and delivery implements InboxLedger.         *)
(*                                                                         *)
(* The argument: a task that holds messages holds rows in state            *)
(* "delivered", which no other statement of the store selects, so it holds *)
(* them alone; what it hands over it has claimed since the row's last      *)
(* life began.                                                             *)
(***************************************************************************)
EXTENDS InboxDelivery, TLAPS

-----------------------------------------------------------------------------
(* The invariant.                                                          *)

TaskPc == {"free", "planned", "claimed", "sent", "track", "react", "steer", "hook", "render"}
TaskRecord == [pc : TaskPc, ids : SUBSET Msgs, gen : 0..MaxGen]

\* Stages with rows claimed and not yet marked; with rows marked; of a handover.
Holding == {"claimed", "sent", "render"}
Marked == {"track", "react", "steer"}
Waiting == {"claimed", "render"}

\* Each generation was paid for.
Types == InboxTypeOK /\ spent \in [DOMAIN Bounds -> Nat] /\ sess.gen <= spent["gens"]

\* The rows of a task are in the state its stage left them in.
Ownership ==
    \A t \in Tasks :
        /\ task[t].pc \in {"free", "hook"} => task[t].ids = {}
        /\ task[t].pc \in Holding => \A m \in task[t].ids : inbox[m] = "delivered"
        /\ task[t].pc \in Marked =>
             \A m \in task[t].ids : inbox[m] \in {"injected", "echo_consumed"}
        /\ task[t].pc \in Marked \cup {"sent"} => \A m \in task[t].ids : handed[m] > 0

\* No two tasks hold the same row.
Exclusive ==
    \A t, u \in Tasks :
        t # u /\ task[t].pc \in Holding /\ task[u].pc \in Holding =>
            \A m \in task[t].ids : m \notin task[u].ids

\* m is claimed and not handed over.
IsHeld(m) == \E t \in Tasks : task[t].pc \in Waiting /\ m \in task[t].ids

\* A message that may still be handed over was not, in this life of its row.
Once ==
    \A m \in Msgs :
        /\ handed[m] <= 1 + pruned[m]
        /\ inbox[m] \in {"absent", "pending"} \/ IsHeld(m) => handed[m] <= pruned[m]

\* A handoff is answered once, and never for a message that can return to the queue.
Honest ==
    \A m \in Msgs :
        /\ reacted[m] <= 1 + pruned[m]
        /\ claims[m] # "completed" => reacted[m] <= pruned[m]
        /\ handed[m] = 0 /\ pruned[m] = 0 /\ (claims[m] # "none" \/ reacted[m] > 0) =>
             /\ inbox[m] \notin {"absent", "pending"}
             /\ \A t \in Tasks : task[t].pc = "claimed" => m \notin task[t].ids

InboxInv == Types /\ Ownership /\ Exclusive /\ Once /\ Honest

\* Held, as IsHeld says it.
LEMMA HeldMeans == \A m : m \in Held <=> IsHeld(m)
  BY DEF Held, IsHeld, Waiting

-----------------------------------------------------------------------------
(* What a step does to the tasks and the ledger.                           *)

\* Task t goes to stage pc with the messages ids; the others are not touched.
Goes(t, pc, ids) ==
    /\ task'[t].pc = pc /\ task'[t].ids = ids
    /\ \A u \in Tasks : u # t => task'[u] = task[u]

\* The kinds of steps, by their effect on tasks, rows and history.
Rest == UNCHANGED <<inbox, claims, handed, reacted, task, pruned>>

Takes(t) ==
    /\ task[t] = Free /\ UNCHANGED <<inbox, claims, handed, reacted, pruned>>
    /\ \E S \in SUBSET Msgs : Goes(t, "planned", S) \/ (S = {} /\ Goes(t, "hook", S))

Drops(t) == Goes(t, "free", {}) /\ UNCHANGED <<inbox, claims, handed, reacted, pruned>>

Claims(t) ==
    \E S \in SUBSET Msgs :
        /\ task[t].pc \in {"planned", "hook"} /\ \A m \in S : inbox[m] = "pending"
        /\ inbox' = Set(inbox, S, "delivered")
        /\ \/ Goes(t, "claimed", S) /\ UNCHANGED claims
           \/ Goes(t, "render", S) /\ claims' = stage_from_inbox_tx(S)
        /\ UNCHANGED <<handed, reacted, pruned>>

\* The handoffs taken by a boundary are those that were pending.
Publishes ==
    \/ UNCHANGED <<claims, reacted>>
    \/ \E S \in SUBSET Msgs : /\ \A m \in S : claims[m] = "pending"
                              /\ claims' = Set(claims, S, "completed")
                              /\ reacted' = Bump(reacted, S)

Hands(t) ==
    /\ handed' = Bump(handed, task[t].ids)
    /\ \/ task[t].pc = "claimed" /\ Goes(t, "sent", task[t].ids) /\ UNCHANGED <<claims, reacted>>
       \/ task[t].pc = "render" /\ Goes(t, "free", {}) /\ Publishes
    /\ UNCHANGED <<inbox, pruned>>

Requeues(t) ==
    /\ task[t].pc = "claimed" /\ Goes(t, "free", {})
    /\ inbox' = Set(inbox, task[t].ids, "pending")
    /\ UNCHANGED <<claims, handed, reacted, pruned>>

Marks(t) ==
    /\ task[t].pc = "sent"
    /\ inbox' = mark_injected_for_echo(task[t].ids)
    /\ claims' = stage_from_inbox_tx(task[t].ids)
    /\ Goes(t, "free", {}) \/ Goes(t, "steer", task[t].ids) \/ Goes(t, "track", task[t].ids)
    /\ UNCHANGED <<handed, reacted, pruned>>

Tracks(t) ==
    /\ task[t].pc \in Marked
    /\ Goes(t, "free", {}) \/ Goes(t, "react", task[t].ids)
    /\ Publishes /\ UNCHANGED <<inbox, handed, pruned>>

EndsTurn ==
    /\ UNCHANGED <<claims, handed, reacted, task, pruned>>
    /\ \A m \in Msgs : \/ inbox'[m] = inbox[m]
                       \/ inbox[m] = "injected" /\ inbox'[m] = "echo_consumed"

LoseAll ==
    /\ \A t \in Tasks : task'[t].pc = "free" /\ task'[t].ids = {}
    /\ UNCHANGED <<inbox, claims, handed, reacted, pruned>>

Prunes(m) ==
    /\ inbox[m] \in {"delivered", "injected", "echo_consumed"}
    /\ \A t \in Tasks : m \notin task[t].ids
    /\ inbox' = [inbox EXCEPT ![m] = "absent"]
    /\ claims' = [claims EXCEPT ![m] = IF @ = "completed" THEN "none" ELSE @]
    /\ pruned' = [pruned EXCEPT ![m] = @ + 1]
    /\ UNCHANGED <<handed, reacted, task>>

Accepts(m) ==
    /\ inbox[m] = "absent" /\ inbox' = [inbox EXCEPT ![m] = "pending"]
    /\ UNCHANGED <<claims, handed, reacted, task, pruned>>

\* A fault or a crash is counted, and the count never goes back.
Faulty == spent["faults"] > 0 \/ spent["crashes"] > 0
Fails == Faulty'
Calm == Faulty' = Faulty

\* The tasks after a change of one of them.
LEMMA TaskSet ==
    ASSUME Types, NEW t \in Tasks
    PROVE  /\ \A pc, ids, g :
                task' = [task EXCEPT ![t] = [pc |-> pc, ids |-> ids, gen |-> g]] =>
                    Goes(t, pc, ids)
           /\ \A pc, ids : task' = [task EXCEPT ![t].pc = pc, ![t].ids = ids] => Goes(t, pc, ids)
           /\ \A pc : task' = [task EXCEPT ![t].pc = pc] => Goes(t, pc, task[t].ids)
           /\ task' = [task EXCEPT ![t] = Free] => Goes(t, "free", {})
<1>0. task \in [Tasks -> TaskRecord] /\ task[t] \in TaskRecord
  BY DEF Types, InboxTypeOK, TaskRecord, TaskPc
<1>1. ASSUME NEW pc, NEW ids, NEW g,
             task' = [task EXCEPT ![t] = [pc |-> pc, ids |-> ids, gen |-> g]]
      PROVE  Goes(t, pc, ids)
  BY <1>0, <1>1 DEF Goes
<1>2. ASSUME NEW pc, NEW ids, task' = [task EXCEPT ![t].pc = pc, ![t].ids = ids]
      PROVE  Goes(t, pc, ids)
  BY <1>0, <1>2 DEF Goes, TaskRecord
<1>3. ASSUME NEW pc, task' = [task EXCEPT ![t].pc = pc] PROVE Goes(t, pc, task[t].ids)
  BY <1>0, <1>3 DEF Goes, TaskRecord
<1>4. task' = [task EXCEPT ![t] = Free] => Goes(t, "free", {})
  BY <1>1 DEF Free
<1> QED BY <1>1, <1>2, <1>3, <1>4

\* A bound that is spent is one more; only faults and crashes are faulty.
LEMMA Spending ==
    ASSUME Types, NEW b \in DOMAIN Bounds, Spend(b)
    PROVE  /\ spent' \in [DOMAIN Bounds -> Nat]
           /\ \A c \in DOMAIN Bounds : spent'[c] \in 0..Bounds[c] /\ spent'[c] >= spent[c]
           /\ spent'[b] = spent[b] + 1
           /\ b \in {"faults", "crashes"} => Fails
           /\ b \notin {"faults", "crashes"} => Calm
<1>0. "faults" \in DOMAIN Bounds /\ "crashes" \in DOMAIN Bounds
  BY DEF Bounds
<1>a. \A c \in DOMAIN Bounds : Bounds[c] \in Nat
  BY InboxAssumption DEF Bounds
<1>1. /\ spent \in [DOMAIN Bounds -> Nat] /\ spent[b] \in Nat /\ Bounds[b] \in Nat
      /\ \A c \in DOMAIN Bounds : spent[c] \in 0..Bounds[c] /\ Bounds[c] \in Nat
      /\ spent' = [spent EXCEPT ![b] = @ + 1] /\ spent[b] < Bounds[b]
  BY <1>a DEF Types, InboxTypeOK, Spend
<1>2. spent' \in [DOMAIN Bounds -> Nat]
  BY <1>1
<1>3. /\ \A c \in DOMAIN Bounds : spent'[c] \in 0..Bounds[c] /\ spent'[c] >= spent[c]
      /\ spent'[b] = spent[b] + 1
  BY <1>1
<1>4. b \in {"faults", "crashes"} => Fails
  BY <1>0, <1>1 DEF Fails, Faulty
<1>5. b \notin {"faults", "crashes"} => Calm
  BY <1>0, <1>1 DEF Calm, Faulty
<1> QED BY <1>2, <1>3, <1>4, <1>5

LEMMA BoundNames ==
    /\ DOMAIN Bounds = {"gens", "hooks", "attempts", "faults", "crashes", "prunes"}
    /\ UNCHANGED spent => Calm
  BY DEF Bounds, Calm, Faulty

\* Every step is one of the kinds; the ones that drop messages are faults.
Kinds ==
    \/ Rest /\ (Calm \/ Fails)
    \/ EndsTurn /\ Calm
    \/ LoseAll /\ Fails
    \/ \E m \in Msgs : (Prunes(m) \/ Accepts(m)) /\ Calm
    \/ \E t \in Tasks :
         \/ (Takes(t) \/ Claims(t) \/ Hands(t) \/ Marks(t)) /\ Calm
         \/ (Requeues(t) \/ Tracks(t)) /\ (Calm \/ Fails)
         \/ Drops(t) /\ (Fails \/ (task[t].pc \notin Waiting /\ Calm))

LEMMA StepKinds ==
    ASSUME Types, Ownership, [InboxNext]_inboxVars PROVE Kinds
<1>0. /\ inbox \in [Msgs -> RowStates] /\ claims \in [Msgs -> {"none", "pending", "completed"}]
      /\ task \in [Tasks -> TaskRecord]
  BY DEF Types, InboxTypeOK, TaskRecord, TaskPc
<1> USE DEF ledger, runtime, doorbell
<1>1. ASSUME NEW m \in Msgs, Enqueue(m) PROVE Kinds
  BY <1>1, BoundNames DEF Enqueue, Kinds, Accepts
<1>2. ASSUME NEW m \in Msgs, prune_retained_state(m) PROVE Kinds
  <2>1. Calm
    BY <1>2, BoundNames, Spending DEF prune_retained_state
  <2>2. Prunes(m)
    BY <1>2 DEF prune_retained_state, Prunes
  <2> QED BY <2>1, <2>2 DEF Kinds
<1>3. ASSUME NEW t \in Tasks, Scan(t) PROVE Kinds
  <2>0. Calm /\ task[t] = Free /\ UNCHANGED <<inbox, claims, handed, reacted, pruned>>
    BY <1>3, BoundNames DEF Scan, Slot
  <2>1. task' = task \/ task' = [task EXCEPT ![t] = [pc |-> "planned", ids |-> Pending, gen |-> sess.gen]]
    BY <1>3 DEF Scan
  <2>2. CASE task' = task
    BY <2>0, <2>2 DEF Kinds, Rest
  <2>3. CASE task' = [task EXCEPT ![t] = [pc |-> "planned", ids |-> Pending, gen |-> sess.gen]]
    <3>1. Goes(t, "planned", Pending) /\ Pending \in SUBSET Msgs
      BY <2>3, TaskSet DEF Pending
    <3> QED BY <2>0, <3>1 DEF Kinds, Takes
  <2> QED BY <2>1, <2>2, <2>3
<1>4. ASSUME NEW t \in Tasks, inject_pending_messages_pty(t) PROVE Kinds
  <2>1. Goes(t, "planned", Pending) /\ Pending \in SUBSET Msgs
    BY <1>4, TaskSet DEF inject_pending_messages_pty, Pending
  <2>2. Takes(t) /\ Calm
    BY <1>4, <2>1, BoundNames DEF inject_pending_messages_pty, Slot, Takes
  <2> QED BY <2>2 DEF Kinds
<1>5. ASSUME NEW t \in Tasks, Claim(t) PROVE Kinds
  <2> DEFINE got == claim_pending_event_ids_for_pubkey(task[t].ids)
  <2>0. /\ got \in SUBSET Msgs /\ \A m \in got : inbox[m] = "pending"
        /\ Calm /\ task[t].pc = "planned" /\ UNCHANGED <<claims, handed, reacted, pruned>>
    BY <1>5, BoundNames DEF Claim, claim_pending_event_ids_for_pubkey, Pending
  <2>1. CASE Live(task[t].gen) /\ got # {}
    <3>1. /\ inbox' = Set(inbox, got, "delivered")
          /\ task' = [task EXCEPT ![t].pc = "claimed", ![t].ids = got]
      BY <1>5, <2>1 DEF Claim
    <3> HIDE DEF got
    <3>2. Goes(t, "claimed", got)
      BY <3>1, TaskSet
    <3> QED BY <2>0, <3>1, <3>2 DEF Kinds, Claims
  <2>2. CASE ~(Live(task[t].gen) /\ got # {})
    <3>1. task' = [task EXCEPT ![t] = Free] /\ UNCHANGED inbox
      BY <1>5, <2>2 DEF Claim
    <3>2. Drops(t)
      BY <2>0, <3>1, TaskSet DEF Drops
    <3> QED BY <2>0, <3>2 DEF Kinds, Waiting
  <2> QED BY <2>1, <2>2
<1>6. ASSUME NEW t \in Tasks, Deliver(t) PROVE Kinds
  <2>1. Goes(t, "sent", task[t].ids)
    BY <1>6, TaskSet DEF Deliver
  <2>2. Hands(t) /\ Calm
    BY <1>6, <2>1, BoundNames DEF Deliver, Hands
  <2> QED BY <2>2 DEF Kinds
<1>7. ASSUME NEW t \in Tasks, reenqueue_after_failure(t) PROVE Kinds
  <2>1. Calm \/ Fails
    BY <1>7, BoundNames, Spending DEF reenqueue_after_failure
  <2>2. Goes(t, "free", {})
    BY <1>7, TaskSet DEF reenqueue_after_failure
  <2>3. Requeues(t)
    BY <1>7, <2>2 DEF reenqueue_after_failure, Requeues, reenqueue_pending
  <2> QED BY <2>1, <2>3 DEF Kinds
<1>8. ASSUME NEW t \in Tasks, RollbackFails(t) \/ MarkFails(t) \/ HookFails(t) PROVE Kinds
  <2>1. Fails
    BY <1>8, BoundNames, Spending DEF RollbackFails, MarkFails, HookFails
  <2>2. Goes(t, "free", {})
    BY <1>8, TaskSet DEF RollbackFails, MarkFails, HookFails
  <2>3. Drops(t)
    BY <1>8, <2>2 DEF RollbackFails, MarkFails, HookFails, Drops
  <2> QED BY <2>1, <2>3 DEF Kinds
<1>9. ASSUME NEW t \in Tasks, finalize_injection(t) PROVE Kinds
  <2>1. {m \in task[t].ids : inbox[m] \in {"delivered", "injected"}} = task[t].ids
    BY <1>9 DEF finalize_injection, Ownership, Holding
  <2>2. Goes(t, "free", {}) \/ Goes(t, "steer", task[t].ids) \/ Goes(t, "track", task[t].ids)
    BY <1>9, TaskSet DEF finalize_injection
  <2>3. Marks(t) /\ Calm
    BY <1>9, <2>1, <2>2, BoundNames DEF finalize_injection, Marks
  <2> QED BY <2>3 DEF Kinds
<1>10. ASSUME NEW t \in Tasks, track(t) PROVE Kinds
  <2>1. Calm
    BY <1>10, BoundNames, Spending DEF track
  <2>2. Goes(t, "free", {}) \/ Goes(t, "react", task[t].ids)
    BY <1>10, TaskSet DEF track
  <2>3. Tracks(t)
    BY <1>10, <2>2 DEF track, Tracks, Marked, Publishes
  <2> QED BY <2>1, <2>3 DEF Kinds
<1>p. ASSUME NEW S \in SUBSET Msgs, publish_claims(take_work_start_claims(S)) PROVE Publishes
  <2>1. take_work_start_claims(S) \in SUBSET Msgs
        /\ \A m \in take_work_start_claims(S) : claims[m] = "pending"
    BY DEF take_work_start_claims
  <2> QED BY <1>p, <2>1 DEF publish_claims, Publishes
<1>11. ASSUME NEW t \in Tasks, publish_for_started_events(t) PROVE Kinds
  <2>1. Publishes /\ Goes(t, "free", {}) /\ Calm
    BY <1>0, <1>p, <1>11, TaskSet, BoundNames DEF publish_for_started_events, TaskRecord
  <2>2. Tracks(t)
    BY <1>11, <2>1 DEF publish_for_started_events, Tracks, Marked
  <2> QED BY <2>1, <2>2 DEF Kinds
<1>12. ASSUME NEW t \in Tasks, NEW ok \in BOOLEAN, track_steer(t, ok) PROVE Kinds
  <2>1. Publishes /\ (Calm \/ Fails)
    <3>1. CASE ok
      BY <1>0, <1>p, <1>12, <3>1, BoundNames DEF track_steer, TaskRecord
    <3>2. CASE ~ok
      BY <1>12, <3>2, BoundNames, Spending DEF track_steer, Publishes
    <3> QED BY <3>1, <3>2
  <2>2. Goes(t, "free", {})
    BY <1>12, TaskSet DEF track_steer
  <2>3. Tracks(t)
    BY <1>12, <2>1, <2>2 DEF track_steer, Tracks, Marked
  <2> QED BY <2>1, <2>3 DEF Kinds
<1>13. ASSUME NEW t \in Tasks, NEW opens, HookEnters(t, opens) PROVE Kinds
  <2>1. Calm
    BY <1>13, BoundNames, Spending DEF HookEnters
  <2>2. Goes(t, "hook", {})
    BY <1>13, TaskSet DEF HookEnters
  <2>3. Takes(t)
    BY <1>13, <2>2 DEF HookEnters, Slot, Takes
  <2> QED BY <2>1, <2>3 DEF Kinds
<1>14. ASSUME NEW t \in Tasks, take_inbox(t) PROVE Kinds
  <2>1. Goes(t, "render", Pending)
    BY <1>14, TaskSet DEF take_inbox
  <2>2. Pending \in SUBSET Msgs /\ \A m \in Pending : inbox[m] = "pending"
    BY DEF Pending
  <2>3. Claims(t) /\ Calm
    BY <1>14, <2>1, <2>2, BoundNames DEF take_inbox, Claims
  <2> QED BY <2>3 DEF Kinds
<1>15. ASSUME NEW t \in Tasks, HookReturns(t) PROVE Kinds
  <2>1. Publishes /\ Goes(t, "free", {}) /\ Calm
    BY <1>p, <1>15, TaskSet, BoundNames DEF HookReturns
  <2>2. Hands(t)
    BY <1>15, <2>1 DEF HookReturns, Hands
  <2> QED BY <2>1, <2>2 DEF Kinds
<1>16. CASE \/ rpc_turn_end \/ \E a \in 1..MaxAttempts : finish_lifecycle(a)
  <2>1. Calm
    BY <1>16, BoundNames DEF rpc_turn_end, finish_lifecycle
  <2>2. EndsTurn
    BY <1>0, <1>16 DEF rpc_turn_end, finish_lifecycle, apply_session_turn_ended, EndsTurn
  <2> QED BY <2>1, <2>2 DEF Kinds
<1>17. CASE schedule_delivery_retry \/ DebounceExpires \/ EndpointDies \/ SessionStops \/ Restart
  BY <1>17, BoundNames DEF schedule_delivery_retry, DebounceExpires, EndpointDies,
     SessionStops, Restart, Kinds, Rest
<1>18. CASE SessionStarts
  <2>1. Calm
    BY <1>18, BoundNames, Spending DEF SessionStarts
  <2> QED BY <1>18, <2>1 DEF SessionStarts, Kinds, Rest
<1>19. CASE Crash
  <2>1. Fails
    BY <1>19, BoundNames, Spending DEF Crash
  <2>2. LoseAll
    BY <1>19 DEF Crash, LoseAll, Free
  <2> QED BY <2>1, <2>2 DEF Kinds
<1>20. CASE UNCHANGED inboxVars
  BY <1>20, BoundNames DEF inboxVars, Kinds, Rest
<1> QED BY <1>1, <1>2, <1>3, <1>4, <1>5, <1>6, <1>7, <1>8, <1>9, <1>10, <1>11, <1>12, <1>13,
           <1>14, <1>15, <1>16, <1>17, <1>18, <1>19, <1>20 DEF InboxNext

-----------------------------------------------------------------------------
(* Each kind of step keeps the invariant.                                  *)

LedgerInv == Ownership /\ Exclusive /\ Once /\ Honest

\* Handoffs are staged for rows that were claimed, and answered once.
LEMMA HandoffSteps ==
    ASSUME Types
    PROVE  /\ Publishes =>
                \A m \in Msgs : \/ claims'[m] = claims[m] /\ reacted'[m] = reacted[m]
                                \/ /\ claims[m] = "pending" /\ claims'[m] = "completed"
                                   /\ reacted'[m] = reacted[m] + 1
           /\ \A S : \A m \in Msgs :
                stage_from_inbox_tx(S)[m] =
                    IF m \in S /\ claims[m] = "none" THEN "pending" ELSE claims[m]
           /\ \A f, S, v : \A m \in Msgs : Set(f, S, v)[m] = IF m \in S THEN v ELSE f[m]
           /\ \A f, S : \A m \in Msgs : Bump(f, S)[m] = IF m \in S THEN f[m] + 1 ELSE f[m]
  BY DEF Publishes, Set, Bump, stage_from_inbox_tx

\* Tasks that come and go without touching a row leave the ledger as it is.
LEMMA QuietTasks ==
    ASSUME Types, Types', LedgerInv, UNCHANGED <<inbox, claims, handed, reacted, pruned>>,
           \A t \in Tasks : \/ task'[t] = task[t]
                            \/ task'[t].pc \in {"free", "hook"} /\ task'[t].ids = {}
                            \/ task'[t].pc = "planned"
    PROVE  LedgerInv'
<1>1. Ownership'
  BY DEF LedgerInv, Ownership, Holding, Marked
<1>2. Exclusive'
  BY DEF LedgerInv, Exclusive, Holding
<1>3. \A m : IsHeld(m)' => IsHeld(m)
  BY DEF IsHeld, Waiting
<1>4. Once'
  BY <1>3 DEF LedgerInv, Once
<1>5. Honest'
  BY DEF LedgerInv, Honest
<1> QED BY <1>1, <1>2, <1>4, <1>5 DEF LedgerInv

LEMMA LedgerStep ==
    ASSUME Types, Types', LedgerInv, Kinds PROVE LedgerInv'
<1>0. /\ inbox \in [Msgs -> RowStates] /\ inbox' \in [Msgs -> RowStates]
      /\ claims \in [Msgs -> {"none", "pending", "completed"}]
      /\ claims' \in [Msgs -> {"none", "pending", "completed"}]
      /\ handed \in [Msgs -> Nat] /\ reacted \in [Msgs -> Nat] /\ pruned \in [Msgs -> Nat]
      /\ handed' \in [Msgs -> Nat] /\ reacted' \in [Msgs -> Nat] /\ pruned' \in [Msgs -> Nat]
      /\ \A t \in Tasks : task[t].ids \in SUBSET Msgs
      /\ \A t \in Tasks : task'[t].ids \in SUBSET Msgs
  BY DEF Types, InboxTypeOK
<1>1. CASE Rest \/ LoseAll \/ \E t \in Tasks : Takes(t) \/ Drops(t)
  BY <1>1, QuietTasks DEF Rest, LoseAll, Takes, Drops, Goes
<1>2. CASE EndsTurn
  <2>1. UNCHANGED <<claims, handed, reacted, task, pruned>>
    BY <1>2 DEF EndsTurn
  <2>2. \A m \in Msgs : \/ inbox'[m] = inbox[m]
                        \/ inbox[m] = "injected" /\ inbox'[m] = "echo_consumed"
    BY <1>2 DEF EndsTurn
  <2>3. Ownership'
    BY <1>0, <2>1, <2>2 DEF LedgerInv, Ownership, Holding, Marked
  <2>4. Exclusive'
    BY <2>1 DEF LedgerInv, Exclusive
  <2>5. Once'
    BY <2>1, <2>2 DEF LedgerInv, Once, IsHeld
  <2>6. Honest'
    BY <2>1, <2>2 DEF LedgerInv, Honest
  <2> QED BY <2>3, <2>4, <2>5, <2>6 DEF LedgerInv
<1>3. ASSUME NEW m \in Msgs, Prunes(m) PROVE LedgerInv'
  <2>1. /\ UNCHANGED <<handed, reacted, task>> /\ \A t \in Tasks : m \notin task[t].ids
        /\ inbox[m] \notin {"absent", "pending"}
        /\ inbox'[m] = "absent" /\ pruned'[m] = pruned[m] + 1
        /\ claims'[m] = IF claims[m] = "completed" THEN "none" ELSE claims[m]
        /\ \A n \in Msgs : n # m => /\ inbox'[n] = inbox[n] /\ pruned'[n] = pruned[n]
                                    /\ claims'[n] = claims[n]
    BY <1>0, <1>3 DEF Prunes
  <2>2. Ownership'
    BY <1>0, <2>1 DEF LedgerInv, Ownership
  <2>3. Exclusive'
    BY <2>1 DEF LedgerInv, Exclusive
  <2>4. Once'
    BY <1>0, <2>1 DEF LedgerInv, Once, IsHeld
  <2>5. Honest'
    BY <1>0, <2>1 DEF LedgerInv, Honest
  <2> QED BY <2>2, <2>3, <2>4, <2>5 DEF LedgerInv
<1>4. ASSUME NEW m \in Msgs, Accepts(m) PROVE LedgerInv'
  <2>1. /\ UNCHANGED <<claims, handed, reacted, task, pruned>>
        /\ inbox[m] = "absent" /\ inbox'[m] = "pending"
        /\ \A n \in Msgs : n # m => inbox'[n] = inbox[n]
    BY <1>0, <1>4 DEF Accepts
  <2>2. Ownership'
    BY <1>0, <2>1 DEF LedgerInv, Ownership
  <2>3. Exclusive'
    BY <2>1 DEF LedgerInv, Exclusive
  <2>4. Once'
    BY <1>0, <2>1 DEF LedgerInv, Once, IsHeld
  <2>5. Honest'
    BY <1>0, <2>1 DEF LedgerInv, Honest
  <2> QED BY <2>2, <2>3, <2>4, <2>5 DEF LedgerInv
<1>5. ASSUME NEW t \in Tasks, Claims(t) PROVE LedgerInv'
  <2>1. PICK S \in SUBSET Msgs :
          /\ \A m \in S : inbox[m] = "pending"
          /\ inbox' = Set(inbox, S, "delivered")
          /\ \/ Goes(t, "claimed", S) /\ UNCHANGED claims
             \/ Goes(t, "render", S) /\ claims' = stage_from_inbox_tx(S)
          /\ UNCHANGED <<handed, reacted, pruned>>
    BY <1>5 DEF Claims
  <2>2. \A m \in Msgs : inbox'[m] = IF m \in S THEN "delivered" ELSE inbox[m]
    BY <2>1, HandoffSteps
  <2>3. /\ task'[t].ids = S /\ \A u \in Tasks : u # t => task'[u] = task[u]
        /\ \/ task'[t].pc = "claimed" /\ claims' = claims
           \/ /\ task'[t].pc = "render"
              /\ \A m \in Msgs : claims'[m] = IF m \in S /\ claims[m] = "none" THEN "pending"
                                                                                ELSE claims[m]
    BY <2>1, HandoffSteps DEF Goes
  <2>4. Ownership'
    BY <1>0, <2>1, <2>2, <2>3 DEF LedgerInv, Ownership, Holding, Marked
  <2>5. Exclusive'
    BY <1>0, <2>1, <2>3 DEF LedgerInv, Ownership, Exclusive, Holding
  <2>6. ASSUME NEW m, IsHeld(m)' PROVE IsHeld(m) \/ m \in S
    BY <2>3, <2>6 DEF IsHeld
  <2>7. Once'
    BY <1>0, <2>1, <2>2, <2>6 DEF LedgerInv, Once
  <2>8. Honest'
    <3>1. \A m \in S : m \in Msgs /\ \A u \in Tasks : task[u].pc = "claimed" => m \notin task[u].ids
      BY <2>1 DEF LedgerInv, Ownership, Holding
    <3> SUFFICES ASSUME NEW m \in Msgs
                 PROVE  /\ (reacted[m] <= 1 + pruned[m])'
                        /\ (claims[m] # "completed" => reacted[m] <= pruned[m])'
                        /\ (handed[m] = 0 /\ pruned[m] = 0 /\ (claims[m] # "none" \/ reacted[m] > 0) =>
                              /\ inbox[m] \notin {"absent", "pending"}
                              /\ \A u \in Tasks : task[u].pc = "claimed" => m \notin task[u].ids)'
      BY DEF Honest
    <3>2. CASE m \in S
      BY <1>0, <2>1, <2>2, <2>3, <3>1, <3>2 DEF LedgerInv, Honest
    <3>3. CASE m \notin S
      BY <1>0, <2>1, <2>2, <2>3, <3>3 DEF LedgerInv, Honest
    <3> QED BY <3>2, <3>3
  <2> QED BY <2>4, <2>5, <2>7, <2>8 DEF LedgerInv
<1>6. ASSUME NEW t \in Tasks, Hands(t) PROVE LedgerInv'
  <2>1. /\ UNCHANGED <<inbox, pruned>> /\ task[t].pc \in Waiting
        /\ \A m \in Msgs : handed'[m] = IF m \in task[t].ids THEN handed[m] + 1 ELSE handed[m]
        /\ \A u \in Tasks : u # t => task'[u] = task[u]
        /\ \/ task'[t].pc = "sent" /\ task'[t].ids = task[t].ids
           \/ task'[t].pc = "free" /\ task'[t].ids = {}
    BY <1>6, HandoffSteps DEF Hands, Goes, Waiting
  <2>2. \A m \in Msgs : \/ claims'[m] = claims[m] /\ reacted'[m] = reacted[m]
                        \/ /\ claims[m] = "pending" /\ claims'[m] = "completed"
                           /\ reacted'[m] = reacted[m] + 1
    BY <1>6, HandoffSteps DEF Hands
  <2>3. Ownership'
    BY <1>0, <2>1 DEF LedgerInv, Ownership, Holding, Marked, Waiting
  <2>4. Exclusive'
    BY <2>1 DEF LedgerInv, Exclusive, Holding, Waiting
  <2>5. ASSUME NEW m \in Msgs
        PROVE  /\ IsHeld(m)' => IsHeld(m) /\ m \notin task[t].ids
               /\ m \in task[t].ids => IsHeld(m) /\ inbox[m] = "delivered"
    <3>1. IsHeld(m)' => IsHeld(m) /\ m \notin task[t].ids
      BY <2>1 DEF IsHeld, Waiting, LedgerInv, Exclusive, Holding
    <3>2. m \in task[t].ids => IsHeld(m) /\ inbox[m] = "delivered"
      BY <2>1 DEF IsHeld, Waiting, LedgerInv, Ownership, Holding
    <3> QED BY <3>1, <3>2
  <2>6. Once'
    BY <1>0, <2>1, <2>5 DEF LedgerInv, Once
  <2>7. Honest'
    BY <1>0, <2>1, <2>2 DEF LedgerInv, Honest
  <2> QED BY <2>3, <2>4, <2>6, <2>7 DEF LedgerInv
<1>7. ASSUME NEW t \in Tasks, Requeues(t) PROVE LedgerInv'
  <2>1. /\ UNCHANGED <<claims, handed, reacted, pruned>> /\ task[t].pc = "claimed"
        /\ \A m \in Msgs : inbox'[m] = IF m \in task[t].ids THEN "pending" ELSE inbox[m]
        /\ task'[t].pc = "free" /\ task'[t].ids = {}
        /\ \A u \in Tasks : u # t => task'[u] = task[u]
    BY <1>7, HandoffSteps DEF Requeues, Goes
  <2>2. \A m \in task[t].ids : IsHeld(m) /\ inbox[m] = "delivered"
    BY <2>1 DEF IsHeld, Waiting, LedgerInv, Ownership, Holding
  <2>3. Ownership'
    BY <1>0, <2>1, <2>2 DEF LedgerInv, Ownership, Exclusive, Holding, Marked
  <2>4. Exclusive'
    BY <2>1 DEF LedgerInv, Exclusive, Holding
  <2>5. \A m : IsHeld(m)' => IsHeld(m)
    BY <2>1 DEF IsHeld, Waiting
  <2>6. Once'
    BY <1>0, <2>1, <2>2, <2>5 DEF LedgerInv, Once
  <2>7. Honest'
    BY <1>0, <2>1 DEF LedgerInv, Honest
  <2> QED BY <2>3, <2>4, <2>6, <2>7 DEF LedgerInv
<1>8. ASSUME NEW t \in Tasks, Marks(t) PROVE LedgerInv'
  <2>1. /\ UNCHANGED <<handed, reacted, pruned>> /\ task[t].pc = "sent"
        /\ \A u \in Tasks : u # t => task'[u] = task[u]
        /\ \/ task'[t].pc = "free" /\ task'[t].ids = {}
           \/ task'[t].pc \in {"steer", "track"} /\ task'[t].ids = task[t].ids
        /\ \A m \in Msgs : claims'[m] = IF m \in task[t].ids /\ claims[m] = "none" THEN "pending"
                                                                            ELSE claims[m]
    BY <1>8, HandoffSteps DEF Marks, Goes
  <2>2. \A m \in Msgs : m \in task[t].ids => inbox[m] = "delivered" /\ handed[m] > 0
    BY <2>1 DEF LedgerInv, Ownership, Holding
  <2>3. \A m \in Msgs : inbox'[m] = IF m \in task[t].ids THEN "injected" ELSE inbox[m]
    BY <1>8, <2>2 DEF Marks, mark_injected_for_echo
  <2>4. Ownership'
    BY <1>0, <2>1, <2>2, <2>3 DEF LedgerInv, Ownership, Exclusive, Holding, Marked
  <2>5. Exclusive'
    BY <2>1 DEF LedgerInv, Exclusive, Holding
  <2>6. \A m : IsHeld(m)' => IsHeld(m)
    BY <2>1 DEF IsHeld, Waiting
  <2>7. Once'
    BY <1>0, <2>1, <2>2, <2>3, <2>6 DEF LedgerInv, Once
  <2>8. Honest'
    BY <1>0, <2>1, <2>2, <2>3 DEF LedgerInv, Honest
  <2> QED BY <2>4, <2>5, <2>7, <2>8 DEF LedgerInv
<1>9. ASSUME NEW t \in Tasks, Tracks(t) PROVE LedgerInv'
  <2>1. /\ UNCHANGED <<inbox, handed, pruned>> /\ task[t].pc \in Marked
        /\ \A u \in Tasks : u # t => task'[u] = task[u]
        /\ \/ task'[t].pc = "free" /\ task'[t].ids = {}
           \/ task'[t].pc = "react" /\ task'[t].ids = task[t].ids
    BY <1>9 DEF Tracks, Goes
  <2>2. \A m \in Msgs : \/ claims'[m] = claims[m] /\ reacted'[m] = reacted[m]
                        \/ /\ claims[m] = "pending" /\ claims'[m] = "completed"
                           /\ reacted'[m] = reacted[m] + 1
    BY <1>9, HandoffSteps DEF Tracks
  <2>3. Ownership'
    BY <1>0, <2>1 DEF LedgerInv, Ownership, Holding, Marked
  <2>4. Exclusive'
    BY <2>1 DEF LedgerInv, Exclusive, Holding
  <2>5. \A m : IsHeld(m)' => IsHeld(m)
    BY <2>1 DEF IsHeld, Waiting
  <2>6. Once'
    BY <1>0, <2>1, <2>5 DEF LedgerInv, Once
  <2>7. Honest'
    BY <1>0, <2>1, <2>2 DEF LedgerInv, Honest
  <2> QED BY <2>3, <2>4, <2>6, <2>7 DEF LedgerInv
<1> QED BY <1>1, <1>2, <1>3, <1>4, <1>5, <1>6, <1>7, <1>8, <1>9 DEF Kinds

-----------------------------------------------------------------------------
(* Types.                                                                  *)

SessRecord == [transport : {"pty", "acp", "app-server"}, gen : 0..MaxGen, running : BOOLEAN,
               work : {"idle", "working"}]
Endpoint == [bound : BOOLEAN, live : BOOLEAN]

RowTypes ==
    /\ inbox \in [Msgs -> RowStates] /\ claims \in [Msgs -> {"none", "pending", "completed"}]
    /\ handed \in [Msgs -> Nat] /\ reacted \in [Msgs -> Nat] /\ pruned \in [Msgs -> Nat]
TaskTypes == task \in [Tasks -> TaskRecord]
TurnTypes ==
    /\ attempts \in [1..MaxAttempts -> NativeTurnOutcome] /\ native \in [1..MaxAttempts -> 0..MaxGen]
SessTypes == sess \in SessRecord /\ endpoint \in Endpoint
BellTypes ==
    bells \in 0..MaxBells /\ retry \in BOOLEAN /\ debounce \in BOOLEAN /\ up \in BOOLEAN
SpentTypes ==
    /\ spent \in [DOMAIN Bounds -> Nat]
    /\ \A b \in DOMAIN Bounds : spent[b] \in 0..Bounds[b]
    /\ sess.gen <= spent["gens"]

LEMMA TypeParts ==
    Types <=> RowTypes /\ TaskTypes /\ TurnTypes /\ SessTypes /\ BellTypes /\ SpentTypes
  BY DEF Types, InboxTypeOK, RowTypes, TaskTypes, TurnTypes, SessTypes, BellTypes, SpentTypes,
         TaskRecord, TaskPc, SessRecord, Endpoint

LEMMA TypePartsNext ==
    Types' <=> /\ RowTypes' /\ TaskTypes' /\ TurnTypes' /\ SessTypes' /\ BellTypes' /\ SpentTypes'
  BY DEF Types, InboxTypeOK, RowTypes, TaskTypes, TurnTypes, SessTypes, BellTypes, SpentTypes,
         TaskRecord, TaskPc, SessRecord, Endpoint

\* What the statements of the store return is a table of rows.
LEMMA StatementTypes ==
    ASSUME RowTypes, NEW S
    PROVE  /\ \A v \in RowStates : Set(inbox, S, v) \in [Msgs -> RowStates]
           /\ mark_injected_for_echo(S) \in [Msgs -> RowStates]
           /\ Set(claims, S, "completed") \in [Msgs -> {"none", "pending", "completed"}]
           /\ stage_from_inbox_tx(S) \in [Msgs -> {"none", "pending", "completed"}]
           /\ Bump(handed, S) \in [Msgs -> Nat] /\ Bump(reacted, S) \in [Msgs -> Nat]
  BY DEF RowTypes, Set, Bump, mark_injected_for_echo, stage_from_inbox_tx, RowStates

LEMMA TaskStages ==
    ASSUME TaskTypes, NEW t \in Tasks
    PROVE  /\ \A pc \in TaskPc, ids \in SUBSET Msgs, g \in 0..MaxGen :
                [task EXCEPT ![t] = [pc |-> pc, ids |-> ids, gen |-> g]] \in [Tasks -> TaskRecord]
           /\ \A pc \in TaskPc, ids \in SUBSET Msgs :
                [task EXCEPT ![t].pc = pc, ![t].ids = ids] \in [Tasks -> TaskRecord]
           /\ \A pc \in TaskPc : [task EXCEPT ![t].pc = pc] \in [Tasks -> TaskRecord]
           /\ [task EXCEPT ![t] = Free] \in [Tasks -> TaskRecord]
           /\ task[t].gen \in 0..MaxGen /\ task[t].ids \in SUBSET Msgs
<1>0. task[t] \in TaskRecord /\ MaxGen \in Nat
  BY InboxAssumption DEF TaskTypes
<1>1. ASSUME NEW pc \in TaskPc, NEW ids \in SUBSET Msgs, NEW g \in 0..MaxGen
      PROVE  [task EXCEPT ![t] = [pc |-> pc, ids |-> ids, gen |-> g]] \in [Tasks -> TaskRecord]
  BY DEF TaskTypes, TaskRecord
<1>2. ASSUME NEW pc \in TaskPc, NEW ids \in SUBSET Msgs
      PROVE  [task EXCEPT ![t].pc = pc, ![t].ids = ids] \in [Tasks -> TaskRecord]
  BY <1>0 DEF TaskTypes, TaskRecord
<1>3. ASSUME NEW pc \in TaskPc PROVE [task EXCEPT ![t].pc = pc] \in [Tasks -> TaskRecord]
  BY <1>0 DEF TaskTypes, TaskRecord
<1>4. [task EXCEPT ![t] = Free] \in [Tasks -> TaskRecord]
  BY <1>0, <1>1 DEF Free, TaskPc
<1> QED BY <1>0, <1>1, <1>2, <1>3, <1>4 DEF TaskRecord

\* The session row after a turn starts or ends, a stop, and a bell.
LEMMA SessionTypes ==
    ASSUME SessTypes, BellTypes
    PROVE  /\ \A g : apply_session_turn_started(g) => sess' \in SessRecord /\ sess'.gen = sess.gen
           /\ apply_session_turn_ended => sess' \in SessRecord /\ sess'.gen = sess.gen
           /\ sess' = [sess EXCEPT !.running = FALSE, !.work = "idle"] =>
                sess' \in SessRecord /\ sess'.gen = sess.gen
           /\ Rung(bells) \in 0..MaxBells
           /\ sess.gen \in 0..MaxGen
<1>1. \A g : apply_session_turn_started(g) => sess' \in SessRecord /\ sess'.gen = sess.gen
  BY DEF SessTypes, SessRecord, apply_session_turn_started
<1>2. apply_session_turn_ended => sess' \in SessRecord /\ sess'.gen = sess.gen
  BY DEF SessTypes, SessRecord, apply_session_turn_ended
<1>3. sess' = [sess EXCEPT !.running = FALSE, !.work = "idle"] =>
        sess' \in SessRecord /\ sess'.gen = sess.gen
  BY DEF SessTypes, SessRecord
<1>4. Rung(bells) \in 0..MaxBells
  BY InboxAssumption DEF BellTypes, Rung
<1> QED BY <1>1, <1>2, <1>3, <1>4 DEF SessTypes, SessRecord

\* Every action keeps the types; one step for each action that disturbs them.
LEMMA TypeStep ==
    ASSUME Types, [InboxNext]_inboxVars PROVE Types'
<1>0. RowTypes /\ TaskTypes /\ TurnTypes /\ SessTypes /\ BellTypes /\ SpentTypes
  BY TypeParts
<1> USE <1>0
<1> USE DEF ledger, runtime, doorbell
<1>r. UNCHANGED <<inbox, claims, handed, reacted, pruned>> => RowTypes'
  BY DEF RowTypes
<1>t. UNCHANGED task => TaskTypes'
  BY DEF TaskTypes
<1>n. UNCHANGED <<attempts, native>> => TurnTypes'
  BY DEF TurnTypes
<1>e. UNCHANGED <<sess, endpoint>> => SessTypes'
  BY DEF SessTypes
<1>b. UNCHANGED <<bells, retry, debounce, up>> => BellTypes'
  BY DEF BellTypes
<1>s. sess'.gen = sess.gen /\ UNCHANGED spent => SpentTypes'
  BY DEF SpentTypes
<1>p. ASSUME NEW b \in DOMAIN Bounds, Spend(b), sess'.gen = sess.gen PROVE SpentTypes'
  <2>1. "gens" \in DOMAIN Bounds
    BY BoundNames
  <2>2. sess'.gen \in Nat /\ spent["gens"] \in Nat /\ spent'["gens"] \in Nat
    BY <1>p, <2>1, Spending, SessionTypes, InboxAssumption DEF SpentTypes
  <2> QED BY <1>p, <2>1, <2>2, Spending DEF SpentTypes
<1>g. /\ "gens" \in DOMAIN Bounds /\ "hooks" \in DOMAIN Bounds /\ "attempts" \in DOMAIN Bounds
      /\ "faults" \in DOMAIN Bounds /\ "crashes" \in DOMAIN Bounds /\ "prunes" \in DOMAIN Bounds
  BY BoundNames
<1>c. ASSUME NEW S, publish_claims(S), UNCHANGED <<inbox, pruned>>,
             handed' \in [Msgs -> Nat]
      PROVE  RowTypes'
  BY <1>c, StatementTypes DEF publish_claims, RowTypes
<1>1. ASSUME NEW m \in Msgs, Enqueue(m) PROVE Types'
  <2>1. RowTypes'
    BY <1>1 DEF Enqueue, RowTypes, RowStates
  <2>2. BellTypes'
    BY <1>1, SessionTypes DEF Enqueue, BellTypes
  <2> QED BY <1>1, <1>t, <1>n, <1>e, <1>s, <2>1, <2>2, TypePartsNext DEF Enqueue
<1>2. ASSUME NEW m \in Msgs, prune_retained_state(m) PROVE Types'
  <2>1. RowTypes'
    BY <1>2 DEF prune_retained_state, RowTypes, RowStates
  <2> QED BY <1>2, <1>g, <1>t, <1>n, <1>e, <1>b, <1>p, <2>1, TypePartsNext DEF prune_retained_state
<1>3. ASSUME NEW t \in Tasks, Scan(t) PROVE Types'
  <2>1. TaskTypes'
    <3>1. Pending \in SUBSET Msgs /\ "planned" \in TaskPc
      BY DEF Pending, TaskPc
    <3> QED BY <1>3, <3>1, TaskStages, SessionTypes DEF Scan, TaskTypes
  <2>2. SessTypes' /\ sess'.gen = sess.gen
    BY <1>3 DEF Scan, SessTypes, Endpoint
  <2>3. BellTypes'
    <3>1. bells' \in 0..MaxBells
      BY <1>3, InboxAssumption DEF Scan, BellTypes
    <3>2. retry' \in BOOLEAN
      BY <1>3, Zenon DEF Scan, BellTypes
    <3> QED BY <1>3, <3>1, <3>2 DEF Scan, BellTypes
  <2> QED BY <1>3, <1>r, <1>n, <1>s, <2>1, <2>2, <2>3, TypePartsNext DEF Scan
<1>4. ASSUME NEW t \in Tasks, inject_pending_messages_pty(t) PROVE Types'
  <2>1. TaskTypes'
    <3>1. Pending \in SUBSET Msgs /\ "planned" \in TaskPc
      BY DEF Pending, TaskPc
    <3> QED BY <1>4, <3>1, TaskStages, SessionTypes DEF inject_pending_messages_pty, TaskTypes
  <2> QED BY <1>4, <1>r, <1>n, <1>e, <1>b, <1>s, <2>1, TypePartsNext DEF inject_pending_messages_pty
<1>5. ASSUME NEW t \in Tasks, Claim(t) PROVE Types'
  <2> DEFINE got == claim_pending_event_ids_for_pubkey(task[t].ids)
  <2>1. got \in SUBSET Msgs /\ "claimed" \in TaskPc /\ "delivered" \in RowStates
    BY DEF claim_pending_event_ids_for_pubkey, Pending, TaskPc, RowStates
  <2>2. \/ /\ inbox' = Set(inbox, got, "delivered")
           /\ task' = [task EXCEPT ![t].pc = "claimed", ![t].ids = got]
        \/ task' = [task EXCEPT ![t] = Free] /\ UNCHANGED inbox
    BY <1>5 DEF Claim
  <2> HIDE DEF got
  <2>3. TaskTypes'
    <3>1. /\ [task EXCEPT ![t].pc = "claimed", ![t].ids = got] \in [Tasks -> TaskRecord]
          /\ [task EXCEPT ![t] = Free] \in [Tasks -> TaskRecord]
      BY <2>1, TaskStages
    <3> QED BY <2>2, <3>1 DEF TaskTypes
  <2>4. RowTypes'
    <3>1. Set(inbox, got, "delivered") \in [Msgs -> RowStates]
      BY <2>1, StatementTypes
    <3>2. UNCHANGED <<claims, handed, reacted, pruned>>
      BY <1>5 DEF Claim
    <3> QED BY <2>2, <3>1, <3>2 DEF RowTypes
  <2> QED BY <1>5, <1>n, <1>e, <1>b, <1>s, <2>3, <2>4, TypePartsNext DEF Claim
<1>6. ASSUME NEW t \in Tasks, Deliver(t) PROVE Types'
  <2>1. TaskTypes'
    BY <1>6, TaskStages DEF Deliver, TaskTypes, TaskPc
  <2>2. RowTypes'
    BY <1>6, StatementTypes DEF Deliver, RowTypes
  <2> QED BY <1>6, <1>n, <1>e, <1>b, <1>s, <2>1, <2>2, TypePartsNext DEF Deliver
<1>7. ASSUME NEW t \in Tasks, reenqueue_after_failure(t) PROVE Types'
  <2>1. TaskTypes'
    BY <1>7, TaskStages DEF reenqueue_after_failure, TaskTypes
  <2>2. RowTypes'
    BY <1>7, StatementTypes DEF reenqueue_after_failure, reenqueue_pending, RowTypes, RowStates
  <2>3. SpentTypes'
    BY <1>7, <1>g, <1>p, <1>s DEF reenqueue_after_failure
  <2> QED BY <1>7, <1>n, <1>e, <1>b, <2>1, <2>2, <2>3, TypePartsNext DEF reenqueue_after_failure
<1>8. ASSUME NEW t \in Tasks, RollbackFails(t) \/ MarkFails(t) \/ HookFails(t) PROVE Types'
  <2>1. TaskTypes'
    BY <1>8, TaskStages DEF RollbackFails, MarkFails, HookFails, TaskTypes
  <2>2. SpentTypes'
    BY <1>8, <1>g, <1>p DEF RollbackFails, MarkFails, HookFails
  <2> QED BY <1>8, <1>r, <1>n, <1>e, <1>b, <2>1, <2>2, TypePartsNext
             DEF RollbackFails, MarkFails, HookFails
<1>9. ASSUME NEW t \in Tasks, finalize_injection(t) PROVE Types'
  <2>1. TaskTypes'
    BY <1>9, TaskStages DEF finalize_injection, TaskTypes, TaskPc
  <2>2. RowTypes'
    BY <1>9, StatementTypes DEF finalize_injection, RowTypes
  <2>3. debounce' \in BOOLEAN
    BY <1>9, Zenon DEF finalize_injection, BellTypes
  <2>4. BellTypes'
    BY <1>9, <2>3 DEF finalize_injection, BellTypes
  <2> QED BY <1>9, <1>n, <1>e, <1>s, <2>1, <2>2, <2>4, TypePartsNext DEF finalize_injection
<1>10. ASSUME NEW t \in Tasks, track(t) PROVE Types'
  <2>1. PICK a \in 1..MaxAttempts :
          LET g == task[t].gen IN
          /\ Spend("attempts") /\ apply_session_turn_started(g)
          /\ attempts' = IF Running(g) THEN start_native_turn_attempt(a)
                         ELSE finish_native_turn_attempt(start_native_turn_attempt(a), a)
          /\ native' = [native EXCEPT ![a] = IF Running(g) THEN g ELSE 0]
          /\ task' = IF Running(g) THEN [task EXCEPT ![t].pc = "react"]
                                   ELSE [task EXCEPT ![t] = Free]
          /\ UNCHANGED <<ledger, doorbell, endpoint, up, pruned>>
    BY <1>10 DEF track
  <2>2. TaskTypes'
    BY <2>1, TaskStages DEF TaskTypes, TaskPc
  <2>3. TurnTypes'
    <3>1. native' \in [1..MaxAttempts -> 0..MaxGen]
      BY <2>1, TaskStages, InboxAssumption DEF TurnTypes
    <3>2. start_native_turn_attempt(a) \in [1..MaxAttempts -> NativeTurnOutcome]
      BY DEF start_native_turn_attempt, TurnTypes, NativeTurnOutcome
    <3>3. \A rows \in [1..MaxAttempts -> NativeTurnOutcome] :
            finish_native_turn_attempt(rows, a) \in [1..MaxAttempts -> NativeTurnOutcome]
      BY DEF finish_native_turn_attempt, NativeTurnOutcome
    <3> QED BY <2>1, <3>1, <3>2, <3>3 DEF TurnTypes
  <2>4. SessTypes' /\ sess'.gen = sess.gen
    BY <2>1, SessionTypes DEF SessTypes
  <2> QED BY <1>g, <1>r, <1>b, <1>p, <2>1, <2>2, <2>3, <2>4, TypePartsNext
<1>11. ASSUME NEW t \in Tasks, publish_for_started_events(t) PROVE Types'
  <2>1. TaskTypes'
    BY <1>11, TaskStages DEF publish_for_started_events, TaskTypes
  <2>2. RowTypes'
    BY <1>11, <1>c DEF publish_for_started_events, RowTypes
  <2>3. BellTypes'
    BY <1>11 DEF publish_for_started_events, BellTypes
  <2> QED BY <1>11, <1>n, <1>e, <1>s, <2>1, <2>2, <2>3, TypePartsNext DEF publish_for_started_events
<1>12. ASSUME NEW t \in Tasks, NEW ok \in BOOLEAN, track_steer(t, ok) PROVE Types'
  <2>1. TaskTypes'
    BY <1>12, TaskStages DEF track_steer, TaskTypes
  <2>2. RowTypes' /\ SpentTypes'
    <3>1. CASE ok
      BY <1>12, <3>1, <1>c, <1>s DEF track_steer, RowTypes
    <3>2. CASE ~ok
      BY <1>12, <3>2, <1>g, <1>r, <1>p DEF track_steer
    <3> QED BY <3>1, <3>2
  <2> QED BY <1>12, <1>n, <1>e, <1>b, <2>1, <2>2, TypePartsNext DEF track_steer
<1>13. ASSUME NEW t \in Tasks, NEW opens \in BOOLEAN, HookEnters(t, opens) PROVE Types'
  <2>1. TaskTypes'
    BY <1>13, TaskStages, SessionTypes DEF HookEnters, TaskTypes, TaskPc
  <2>2. SessTypes' /\ sess'.gen = sess.gen
    BY <1>13, SessionTypes DEF HookEnters, SessTypes
  <2>3. SpentTypes'
    BY <1>13, <1>g, <1>p, <2>2 DEF HookEnters
  <2> QED BY <1>13, <1>r, <1>n, <1>b, <2>1, <2>2, <2>3, TypePartsNext DEF HookEnters
<1>14. ASSUME NEW t \in Tasks, take_inbox(t) PROVE Types'
  <2>1. TaskTypes'
    <3>1. Pending \in SUBSET Msgs /\ "render" \in TaskPc
      BY DEF Pending, TaskPc
    <3> QED BY <1>14, <3>1, TaskStages DEF take_inbox, TaskTypes
  <2>2. RowTypes'
    BY <1>14, StatementTypes DEF take_inbox, RowTypes, RowStates
  <2> QED BY <1>14, <1>n, <1>e, <1>b, <1>s, <2>1, <2>2, TypePartsNext DEF take_inbox
<1>15. ASSUME NEW t \in Tasks, HookReturns(t) PROVE Types'
  <2>1. TaskTypes'
    BY <1>15, TaskStages DEF HookReturns, TaskTypes
  <2>2. RowTypes'
    BY <1>15, <1>c, StatementTypes DEF HookReturns
  <2> QED BY <1>15, <1>n, <1>e, <1>b, <1>s, <2>1, <2>2, TypePartsNext DEF HookReturns
<1>16. CASE \E a \in 1..MaxAttempts : finish_lifecycle(a)
  <2>1. PICK a \in 1..MaxAttempts : finish_lifecycle(a)
    BY <1>16
  <2>2. TurnTypes'
    BY <2>1, InboxAssumption DEF finish_lifecycle, TurnTypes, finish_native_turn_attempt, NativeTurnOutcome
  <2>3. SessTypes' /\ sess'.gen = sess.gen
    BY <2>1, SessionTypes DEF finish_lifecycle, SessTypes
  <2>4. RowTypes'
    BY <2>1 DEF finish_lifecycle, RowTypes, apply_session_turn_ended, RowStates
  <2>5. BellTypes'
    BY <2>1, SessionTypes DEF finish_lifecycle, BellTypes
  <2> QED BY <1>t, <1>s, <2>1, <2>2, <2>3, <2>4, <2>5, TypePartsNext DEF finish_lifecycle
<1>17. CASE rpc_turn_end
  <2>1. SessTypes' /\ sess'.gen = sess.gen
    BY <1>17, SessionTypes DEF rpc_turn_end, SessTypes
  <2>2. RowTypes'
    BY <1>17 DEF rpc_turn_end, RowTypes, apply_session_turn_ended, RowStates
  <2>3. BellTypes'
    BY <1>17, SessionTypes DEF rpc_turn_end, BellTypes
  <2> QED BY <1>17, <1>t, <1>n, <1>s, <2>1, <2>2, <2>3, TypePartsNext DEF rpc_turn_end
<1>18. CASE schedule_delivery_retry \/ DebounceExpires
  <2>1. BellTypes'
    BY <1>18, SessionTypes DEF schedule_delivery_retry, DebounceExpires, BellTypes
  <2> QED BY <1>18, <1>r, <1>t, <1>n, <1>e, <1>s, <2>1, TypePartsNext
             DEF schedule_delivery_retry, DebounceExpires
<1>19. CASE SessionStarts
  <2>1. /\ sess.gen \in 0..MaxGen /\ MaxGen \in Nat /\ sess.gen <= spent["gens"]
        /\ spent["gens"] \in Nat /\ spent["gens"] < MaxGen
    BY <1>19, <1>g, SessionTypes, InboxAssumption DEF SessionStarts, SpentTypes, Spend, Bounds
  <2>2. sess'.gen = sess.gen + 1 /\ sess' \in SessRecord
    <3>1. sess' = [sess EXCEPT !.gen = sess.gen + 1, !.running = TRUE, !.work = "idle"]
      BY <1>19 DEF SessionStarts
    <3>2. sess \in SessRecord /\ sess.gen + 1 \in 0..MaxGen
      BY <2>1 DEF SessTypes
    <3> QED BY <3>1, <3>2 DEF SessRecord
  <2>3. SessTypes'
    BY <1>19, <2>2 DEF SessionStarts, SessTypes, Endpoint
  <2>4. SpentTypes'
    BY <1>19, <1>g, <2>1, <2>2, Spending DEF SessionStarts, SpentTypes
  <2>5. BellTypes'
    BY <1>19, SessionTypes DEF SessionStarts, BellTypes
  <2> QED BY <1>19, <1>r, <1>t, <1>n, <2>3, <2>4, <2>5, TypePartsNext DEF SessionStarts
<1>20. CASE EndpointDies
  <2>1. SessTypes'
    BY <1>20 DEF EndpointDies, SessTypes, Endpoint
  <2> QED BY <1>20, <1>r, <1>t, <1>n, <1>b, <1>s, <2>1, TypePartsNext DEF EndpointDies
<1>21. CASE SessionStops
  <2>1. SessTypes' /\ sess'.gen = sess.gen
    BY <1>21, SessionTypes DEF SessionStops, SessTypes, Endpoint
  <2> QED BY <1>21, <1>r, <1>t, <1>n, <1>b, <1>s, <2>1, TypePartsNext DEF SessionStops
<1>22. CASE Crash
  <2>1. TaskTypes'
    BY <1>22, InboxAssumption DEF Crash, TaskTypes, TaskRecord, TaskPc, Free
  <2>2. TurnTypes'
    BY <1>22, InboxAssumption DEF Crash, TurnTypes
  <2>3. BellTypes'
    <3>1. 0 \in 0..MaxBells
      BY InboxAssumption
    <3>2. bells' = 0 /\ retry' = FALSE /\ debounce' = FALSE /\ up' = FALSE
      BY <1>22 DEF Crash
    <3> QED BY <3>1, <3>2 DEF BellTypes
  <2> QED BY <1>22, <1>g, <1>r, <1>e, <1>p, <2>1, <2>2, <2>3, TypePartsNext DEF Crash
<1>23. CASE Restart
  <2>1. TurnTypes'
    BY <1>23 DEF Restart, TurnTypes, reconcile_open_native_turn_attempts, NativeTurnOutcome
  <2>2. SessTypes' /\ sess'.gen = sess.gen
    <3>1. CASE Managed
      <4>1. sess' \in SessRecord /\ sess'.gen = sess.gen
        <5>1. sess' = [sess EXCEPT !.running = FALSE, !.work = "idle"]
          BY <1>23, <3>1 DEF Restart
        <5> QED BY <5>1, SessionTypes
      <4>2. endpoint' \in Endpoint
        <5>1. endpoint' = [bound |-> FALSE, live |-> FALSE]
          BY <1>23, <3>1 DEF Restart
        <5> QED BY <5>1 DEF Endpoint
      <4> QED BY <4>1, <4>2 DEF SessTypes
    <3>2. CASE ~Managed
      BY <1>23, <3>2 DEF Restart, SessTypes
    <3> QED BY <3>1, <3>2
  <2>3. BellTypes'
    BY <1>23, SessionTypes DEF Restart, BellTypes
  <2> QED BY <1>23, <1>r, <1>t, <1>s, <2>1, <2>2, <2>3, TypePartsNext DEF Restart
<1>24. CASE UNCHANGED inboxVars
  BY <1>24, <1>r, <1>t, <1>n, <1>e, <1>b, <1>s, TypePartsNext DEF inboxVars
<1> QED BY <1>1, <1>2, <1>3, <1>4, <1>5, <1>6, <1>7, <1>8, <1>9, <1>10, <1>11, <1>12, <1>13,
           <1>14, <1>15, <1>16, <1>17, <1>18, <1>19, <1>20, <1>21, <1>22, <1>23, <1>24
        DEF InboxNext

-----------------------------------------------------------------------------
(* The invariant holds, and what follows from it.                          *)

LEMMA InitInv == InboxInit => InboxInv
<1> SUFFICES ASSUME InboxInit PROVE InboxInv
  OBVIOUS
<1>1. RowTypes
  BY DEF InboxInit, RowTypes, RowStates
<1>2. TaskTypes
  BY InboxAssumption DEF InboxInit, TaskTypes, TaskRecord, TaskPc, Free
<1>3. TurnTypes
  BY InboxAssumption DEF InboxInit, TurnTypes, NativeTurnOutcome
<1>4. SessTypes /\ sess.gen = 0
  <2>1. PICK x \in Transports : sess = [transport |-> x, gen |-> 0, running |-> FALSE, work |-> "idle"]
    BY DEF InboxInit
  <2>2. endpoint = [bound |-> FALSE, live |-> FALSE]
    BY DEF InboxInit
  <2>3. x \in {"pty", "acp", "app-server"} /\ 0 \in 0..MaxGen
    BY InboxAssumption
  <2>4. sess \in SessRecord /\ sess.gen = 0
    BY <2>1, <2>3 DEF SessRecord
  <2>5. endpoint \in Endpoint
    BY <2>2 DEF Endpoint
  <2> QED BY <2>4, <2>5 DEF SessTypes
<1>5. BellTypes
  <2>1. 0 \in 0..MaxBells
    BY InboxAssumption
  <2>2. bells = 0 /\ retry = FALSE /\ debounce = FALSE /\ up = TRUE
    BY DEF InboxInit
  <2> QED BY <2>1, <2>2 DEF BellTypes
<1>6. SpentTypes
  <2>1. \A b \in DOMAIN Bounds : Bounds[b] \in Nat
    BY InboxAssumption DEF Bounds
  <2>2. "gens" \in DOMAIN Bounds
    BY BoundNames
  <2> QED BY <1>4, <2>1, <2>2 DEF InboxInit, SpentTypes
<1>7. Types
  BY <1>1, <1>2, <1>3, <1>4, <1>5, <1>6, TypeParts
<1>8. \A t \in Tasks : task[t].pc = "free" /\ task[t].ids = {}
  BY DEF InboxInit, Free
<1>9. Ownership /\ Exclusive
  BY <1>8 DEF Ownership, Exclusive, Holding, Marked
<1>10. Once /\ Honest
  BY <1>8 DEF InboxInit, Once, Honest, IsHeld, Waiting
<1> QED BY <1>7, <1>9, <1>10 DEF InboxInv

LEMMA StepInv == InboxInv /\ [InboxNext]_inboxVars => InboxInv'
<1> SUFFICES ASSUME InboxInv, [InboxNext]_inboxVars PROVE InboxInv'
  OBVIOUS
<1>1. Types'
  BY TypeStep DEF InboxInv
<1>2. Kinds
  BY StepKinds DEF InboxInv
<1>3. LedgerInv'
  BY <1>1, <1>2, LedgerStep DEF InboxInv, LedgerInv
<1> QED BY <1>1, <1>3 DEF InboxInv, LedgerInv

\* The rows, the tasks that drain them and the history stay in agreement
\* (claim_pending_event_ids_for_pubkey, take_inbox, reenqueue_pending,
\* mark_injected_for_echo, stage_from_inbox_tx), for every number of each.
THEOREM InboxInvariance == InboxSpec => []InboxInv
  BY InitInv, StepInv, PTL DEF InboxSpec

\* Every variable of the inbox keeps its type, for every number of messages and tasks.
THEOREM InboxTypeCorrect == InboxSpec => []InboxTypeOK
<1>1. InboxInv => InboxTypeOK
  BY DEF InboxInv, Types
<1> QED BY <1>1, InboxInvariance, PTL

\* However many scans, forced sends and hooks race, a message is handed to the
\* agent at most once for each life of its row.
THEOREM AtMostOnceCorrect == InboxSpec => []AtMostOnce
<1>1. InboxInv => AtMostOnce
  BY DEF InboxInv, Once, AtMostOnce
<1> QED BY <1>1, InboxInvariance, PTL

\* What became of a message, without reference to the set of held ones.
LEMMA FateMeans ==
    ASSUME Types, Ownership, NEW m \in Msgs
    PROVE  Fate(m) = IF handed[m] > 0 THEN "handed"
                     ELSE IF inbox[m] = "absent" THEN "new"
                     ELSE IF inbox[m] = "pending" \/ IsHeld(m) THEN "queued" ELSE "lost"
<1>1. handed[m] \in Nat
  BY DEF Types, InboxTypeOK
<1>2. m \in Held <=> IsHeld(m)
  BY HeldMeans
<1>3. CASE handed[m] > 0
  BY <1>1, <1>3 DEF Fate
<1>4. CASE handed[m] = 0 /\ inbox[m] = "absent"
  <2>1. ~(m \in Held)
    BY <1>2, <1>4 DEF Ownership, IsHeld, Holding, Waiting
  <2> QED BY <1>4, <2>1 DEF Fate
<1>5. CASE handed[m] = 0 /\ inbox[m] # "absent" /\ (inbox[m] = "pending" \/ m \in Held)
  BY <1>2, <1>5 DEF Fate
<1>6. CASE handed[m] = 0 /\ inbox[m] # "absent" /\ ~(inbox[m] = "pending" \/ m \in Held)
  BY <1>2, <1>6 DEF Fate
<1> QED BY <1>1, <1>3, <1>4, <1>5, <1>6

\* A work-start reaction is published once for each life of the row, and only for a
\* message the agent has, or a hook still holds or lost (publish_claims).
THEOREM ReactionCorrect == InboxSpec => []ReactionHonest
<1>1. ASSUME InboxInv PROVE ReactionHonest
  <2> SUFFICES ASSUME NEW m \in Msgs
               PROVE  /\ reacted[m] <= 1 + pruned[m]
                      /\ reacted[m] > 0 => \/ handed[m] > 0 \/ m \in Held
                                            \/ Fate(m) = "lost" \/ pruned[m] > 0
    BY DEF ReactionHonest
  <2>0. handed[m] \in Nat /\ pruned[m] \in Nat /\ reacted[m] \in Nat
    BY <1>1 DEF InboxInv, Types, InboxTypeOK
  <2>1. reacted[m] <= 1 + pruned[m]
    BY <1>1 DEF InboxInv, Honest
  <2>2. ASSUME reacted[m] > 0, handed[m] = 0, pruned[m] = 0, m \notin Held
        PROVE  Fate(m) = "lost"
    <3>1. inbox[m] # "absent" /\ inbox[m] # "pending"
      BY <1>1, <2>2 DEF InboxInv, Honest
    <3>2. ~IsHeld(m)
      BY <2>2, HeldMeans
    <3> QED BY <1>1, <2>2, <3>1, <3>2, FateMeans DEF InboxInv
  <2> QED BY <2>0, <2>1, <2>2
<1> QED BY <1>1, InboxInvariance, PTL

\* The roll back of a failed delivery (reenqueue_pending, which has no guard on the
\* state of the row) never returns a message to the queue that was handed over.
THEOREM LedgerForwardCorrect == InboxSpec => LedgerForward
<1>1. ASSUME InboxInv, [InboxNext]_inboxVars
      PROVE  \A m \in Msgs : inbox[m] \in {"injected", "echo_consumed"} => inbox'[m] # "pending"
  <2> SUFFICES ASSUME NEW m \in Msgs, inbox[m] \in {"injected", "echo_consumed"}
               PROVE  inbox'[m] # "pending"
    OBVIOUS
  <2>0. Kinds /\ Types /\ inbox \in [Msgs -> RowStates]
    BY <1>1, StepKinds DEF InboxInv, Types, InboxTypeOK
  <2>1. CASE \/ Rest \/ EndsTurn \/ LoseAll
             \/ \E t \in Tasks : Takes(t) \/ Hands(t) \/ Tracks(t) \/ Drops(t)
    BY <2>1 DEF Rest, EndsTurn, LoseAll, Takes, Hands, Tracks, Drops
  <2>2. CASE \E n \in Msgs : Prunes(n) \/ Accepts(n)
    BY <2>0, <2>2 DEF Prunes, Accepts
  <2>3. CASE \E t \in Tasks : Claims(t) \/ Marks(t)
    BY <2>0, <2>3, HandoffSteps DEF Claims, Marks, mark_injected_for_echo
  <2>4. ASSUME NEW t \in Tasks, Requeues(t) PROVE inbox'[m] # "pending"
    <3>1. m \notin task[t].ids
      BY <1>1, <2>4 DEF InboxInv, Ownership, Requeues, Holding
    <3> QED BY <2>0, <2>4, <3>1, HandoffSteps DEF Requeues
  <2> QED BY <2>0, <2>1, <2>2, <2>3, <2>4 DEF Kinds
<1> QED BY <1>1, InboxInvariance, PTL DEF InboxSpec, LedgerForward

-----------------------------------------------------------------------------
(* Delivery implements InboxLedger.                                        *)

LEMMA FateMeansNext ==
    ASSUME Types', Ownership', NEW m \in Msgs
    PROVE  Fate(m)' = IF handed'[m] > 0 THEN "handed"
                      ELSE IF inbox'[m] = "absent" THEN "new"
                      ELSE IF inbox'[m] = "pending" \/ IsHeld(m)' THEN "queued" ELSE "lost"
<1>1. handed'[m] \in Nat
  BY DEF Types, InboxTypeOK
<1>2. (m \in Held)' <=> IsHeld(m)'
  BY DEF Held, IsHeld, Waiting
<1>3. CASE handed'[m] > 0
  BY <1>1, <1>3 DEF Fate
<1>4. CASE handed'[m] = 0 /\ inbox'[m] = "absent"
  <2>1. ~(m \in Held)'
    BY <1>2, <1>4 DEF Ownership, IsHeld, Holding, Waiting
  <2> QED BY <1>4, <2>1 DEF Fate
<1>5. CASE handed'[m] = 0 /\ inbox'[m] # "absent" /\ (inbox'[m] = "pending" \/ (m \in Held)')
  BY <1>2, <1>5 DEF Fate
<1>6. CASE handed'[m] = 0 /\ inbox'[m] # "absent" /\ ~(inbox'[m] = "pending" \/ (m \in Held)')
  BY <1>2, <1>6 DEF Fate
<1> QED BY <1>1, <1>3, <1>4, <1>5, <1>6

\* The step leaves every message where it was.
Settled == \A m \in Msgs : Fate(m)' = Fate(m)

\* The step takes the messages of S from one status to another.
Moves(S, from, to) ==
    \A m \in Msgs : IF m \in S THEN Fate(m) = from /\ Fate(m)' = to ELSE Fate(m)' = Fate(m)

LEMMA SettledStep ==
    ASSUME Settled, Calm \/ Fails PROVE [Ledger!LedgerNext]_(Ledger!ledgerVars)
<1>1. [m \in Msgs |-> Fate(m)]' = [m \in Msgs |-> Fate(m)]
  BY DEF Settled
<1>2. CASE Calm
  <2>1. (spent["faults"] > 0 \/ spent["crashes"] > 0)' = (spent["faults"] > 0 \/ spent["crashes"] > 0)
    BY <1>2 DEF Calm, Faulty
  <2> QED BY <1>1, <2>1 DEF Ledger!ledgerVars
<1>3. CASE Fails
  <2>1. (spent["faults"] > 0 \/ spent["crashes"] > 0)' = TRUE
    BY <1>3, Zenon DEF Fails, Faulty
  <2> QED BY <1>1, <2>1 DEF Ledger!LedgerNext, Ledger!Fault
<1> QED BY <1>2, <1>3

LEMMA MovesStep ==
    ASSUME NEW S \in SUBSET Msgs, NEW from, NEW to, Moves(S, from, to)
    PROVE  \/ S = {} /\ Settled
           \/ Ledger!Move(S, from, to)
<1>1. CASE S = {}
  BY <1>1 DEF Moves, Settled
<1>2. CASE S # {}
  <2>1. \A m \in S : [n \in Msgs |-> Fate(n)][m] = from
    BY DEF Moves
  <2>2. [n \in Msgs |-> Fate(n)]' =
          [m \in Msgs |-> IF m \in S THEN to ELSE [n \in Msgs |-> Fate(n)][m]]
    BY DEF Moves
  <2> QED BY <1>2, <2>1, <2>2 DEF Ledger!Move
<1> QED BY <1>1, <1>2

\* Without a fault a message is accepted, handed over or forgotten; with one, lost.
LEMMA CalmMove ==
    ASSUME Calm, NEW S \in SUBSET Msgs,
           Moves(S, "new", "queued") \/ Moves(S, "queued", "handed") \/ Moves(S, "lost", "new")
    PROVE  [Ledger!LedgerNext]_(Ledger!ledgerVars)
<1>0. (spent["faults"] > 0 \/ spent["crashes"] > 0)' = (spent["faults"] > 0 \/ spent["crashes"] > 0)
  BY DEF Calm, Faulty
<1>1. CASE Settled
  BY <1>1, SettledStep
<1>2. CASE Ledger!Move(S, "new", "queued")
  BY <1>0, <1>2 DEF Ledger!LedgerNext, Ledger!Accept
<1>3. CASE Ledger!Move(S, "queued", "handed")
  BY <1>0, <1>3 DEF Ledger!LedgerNext, Ledger!Hand
<1>4. CASE Ledger!Move(S, "lost", "new")
  BY <1>0, <1>4 DEF Ledger!LedgerNext, Ledger!Forget
<1> QED BY <1>1, <1>2, <1>3, <1>4, MovesStep

LEMMA FaultMove ==
    ASSUME Fails, NEW S \in SUBSET Msgs, Moves(S, "queued", "lost")
    PROVE  [Ledger!LedgerNext]_(Ledger!ledgerVars)
<1>0. (spent["faults"] > 0 \/ spent["crashes"] > 0)' = TRUE
  BY Zenon DEF Fails, Faulty
<1>1. CASE Settled
  BY <1>1, SettledStep
<1>2. CASE Ledger!Move(S, "queued", "lost")
  BY <1>0, <1>2 DEF Ledger!LedgerNext, Ledger!Lose
<1> QED BY <1>1, <1>2, MovesStep

\* Every kind of step is a step of the ledger, or none.
LEMMA LedgerRefines ==
    ASSUME InboxInv, InboxInv', Kinds
    PROVE  [Ledger!LedgerNext]_(Ledger!ledgerVars)
<1>0. /\ Types /\ Types' /\ Ownership /\ Ownership' /\ Exclusive /\ Once /\ Honest
      /\ \A m \in Msgs : handed[m] \in Nat /\ handed'[m] \in Nat
      /\ inbox \in [Msgs -> RowStates] /\ pruned \in [Msgs -> Nat]
      /\ \A t \in Tasks : task[t].ids \in SUBSET Msgs
  BY DEF InboxInv, Types, InboxTypeOK
<1>h. \A m \in Msgs : IsHeld(m) => inbox[m] = "delivered"
  BY <1>0 DEF Ownership, IsHeld, Holding, Waiting
<1>f. \A m \in Msgs :
        Fate(m) = IF handed[m] > 0 THEN "handed"
                  ELSE IF inbox[m] = "absent" THEN "new"
                  ELSE IF inbox[m] = "pending" \/ IsHeld(m) THEN "queued" ELSE "lost"
  BY <1>0, FateMeans
<1>g. \A m \in Msgs :
        Fate(m)' = IF handed'[m] > 0 THEN "handed"
                   ELSE IF inbox'[m] = "absent" THEN "new"
                   ELSE IF inbox'[m] = "pending" \/ IsHeld(m)' THEN "queued" ELSE "lost"
  BY <1>0, FateMeansNext
<1>s. ASSUME UNCHANGED <<inbox, handed>>, \A m : IsHeld(m)' <=> IsHeld(m) PROVE Settled
  BY <1>f, <1>g, <1>s DEF Settled
<1>1. CASE Rest /\ (Calm \/ Fails)
  <2>1. \A m : IsHeld(m)' <=> IsHeld(m)
    BY <1>1 DEF Rest, IsHeld
  <2> QED BY <1>1, <1>s, <2>1, SettledStep DEF Rest
<1>2. CASE EndsTurn /\ Calm
  <2>1. \A m : IsHeld(m)' <=> IsHeld(m)
    BY <1>2 DEF EndsTurn, IsHeld
  <2>2. Settled
    BY <1>2, <1>f, <1>g, <2>1 DEF EndsTurn, Settled
  <2> QED BY <1>2, <2>2, SettledStep
<1>3. CASE LoseAll /\ Fails
  <2> DEFINE S == {m \in Msgs : IsHeld(m) /\ handed[m] = 0}
  <2>1. \A m : ~IsHeld(m)'
    BY <1>3 DEF LoseAll, IsHeld, Waiting
  <2>2. Moves(S, "queued", "lost")
    BY <1>3, <1>0, <1>h, <1>f, <1>g, <2>1 DEF LoseAll, Moves
  <2> QED BY <1>3, <2>2, FaultMove
<1>4. ASSUME NEW m \in Msgs, Prunes(m), Calm PROVE [Ledger!LedgerNext]_(Ledger!ledgerVars)
  <2> DEFINE S == IF handed[m] = 0 THEN {m} ELSE {}
  <2>1. \A n : IsHeld(n)' <=> IsHeld(n)
    BY <1>4 DEF Prunes, IsHeld
  <2>2. ~IsHeld(m) /\ inbox[m] \notin {"absent", "pending"} /\ inbox'[m] = "absent"
        /\ handed' = handed /\ \A n \in Msgs : n # m => inbox'[n] = inbox[n]
    BY <1>0, <1>4 DEF Prunes, IsHeld
  <2>3. Moves(S, "lost", "new")
    BY <1>0, <1>f, <1>g, <2>1, <2>2 DEF Moves
  <2> QED BY <1>4, <2>3, CalmMove
<1>5. ASSUME NEW m \in Msgs, Accepts(m), Calm PROVE [Ledger!LedgerNext]_(Ledger!ledgerVars)
  <2> DEFINE S == IF handed[m] = 0 THEN {m} ELSE {}
  <2>1. \A n : IsHeld(n)' <=> IsHeld(n)
    BY <1>5 DEF Accepts, IsHeld
  <2>2. inbox[m] = "absent" /\ inbox'[m] = "pending"
        /\ handed' = handed /\ \A n \in Msgs : n # m => inbox'[n] = inbox[n]
    BY <1>0, <1>5 DEF Accepts
  <2>3. Moves(S, "new", "queued")
    BY <1>0, <1>f, <1>g, <2>1, <2>2 DEF Moves
  <2> QED BY <1>5, <2>3, CalmMove
<1>6. ASSUME NEW t \in Tasks, Takes(t), Calm PROVE [Ledger!LedgerNext]_(Ledger!ledgerVars)
  <2>1. task[t].pc \notin Waiting /\ task'[t].pc \notin Waiting /\ \A u \in Tasks : u # t => task'[u] = task[u]
    BY <1>6 DEF Takes, Goes, Free, Waiting
  <2>2. \A m : IsHeld(m)' <=> IsHeld(m)
    BY <2>1 DEF IsHeld
  <2> QED BY <1>6, <1>s, <2>2, SettledStep DEF Takes
<1>7. ASSUME NEW t \in Tasks, Claims(t), Calm PROVE [Ledger!LedgerNext]_(Ledger!ledgerVars)
  <2>1. PICK S \in SUBSET Msgs :
          /\ task[t].pc \in {"planned", "hook"} /\ \A m \in S : inbox[m] = "pending"
          /\ inbox' = Set(inbox, S, "delivered")
          /\ Goes(t, "claimed", S) \/ Goes(t, "render", S)
          /\ UNCHANGED handed
    BY <1>7 DEF Claims
  <2>2. /\ task[t].pc \notin Waiting /\ task'[t].pc \in Waiting /\ task'[t].ids = S
        /\ \A u \in Tasks : u # t => task'[u] = task[u]
    BY <2>1 DEF Goes, Waiting
  <2>3. \A m : IsHeld(m)' <=> IsHeld(m) \/ m \in S
    BY <2>2 DEF IsHeld
  <2>4. \A m \in Msgs : inbox'[m] = IF m \in S THEN "delivered" ELSE inbox[m]
    BY <1>0, <2>1, HandoffSteps
  <2>5. Settled
    BY <1>f, <1>g, <2>1, <2>3, <2>4 DEF Settled
  <2> QED BY <1>7, <2>5, SettledStep
<1>8. ASSUME NEW t \in Tasks, Hands(t), Calm PROVE [Ledger!LedgerNext]_(Ledger!ledgerVars)
  <2> DEFINE S == {m \in task[t].ids : handed[m] = 0}
  <2>1. /\ task[t].pc \in Waiting /\ task'[t].pc \notin Waiting /\ UNCHANGED inbox
        /\ \A u \in Tasks : u # t => task'[u] = task[u]
        /\ \A m \in Msgs : handed'[m] = IF m \in task[t].ids THEN handed[m] + 1 ELSE handed[m]
    BY <1>0, <1>8, HandoffSteps DEF Hands, Goes, Waiting
  <2>2. /\ \A m \in task[t].ids : m \in Msgs /\ IsHeld(m)
        /\ \A m : m \notin task[t].ids => (IsHeld(m)' <=> IsHeld(m))
    BY <1>0, <2>1 DEF IsHeld
  <2>3. Moves(S, "queued", "handed")
    BY <1>0, <1>h, <1>f, <1>g, <2>1, <2>2 DEF Moves
  <2>4. S \in SUBSET Msgs
    BY <2>2
  <2> QED BY <1>8, <2>3, <2>4, CalmMove
<1>9. ASSUME NEW t \in Tasks, Marks(t), Calm PROVE [Ledger!LedgerNext]_(Ledger!ledgerVars)
  <2>1. /\ task[t].pc = "sent" /\ task'[t].pc \notin Waiting /\ UNCHANGED handed
        /\ \A u \in Tasks : u # t => task'[u] = task[u]
    BY <1>9 DEF Marks, Goes, Waiting
  <2>2. \A m : IsHeld(m)' <=> IsHeld(m)
    BY <2>1 DEF IsHeld, Waiting
  <2>3. \A m \in Msgs : m \in task[t].ids => handed[m] > 0
    BY <1>0, <2>1 DEF Ownership
  <2>4. \A m \in Msgs : m \notin task[t].ids => inbox'[m] = inbox[m]
    BY <1>9 DEF Marks, mark_injected_for_echo
  <2>5. Settled
    BY <1>f, <1>g, <2>1, <2>2, <2>3, <2>4 DEF Settled
  <2> QED BY <1>9, <2>5, SettledStep
<1>10. ASSUME NEW t \in Tasks, Requeues(t), Calm \/ Fails PROVE [Ledger!LedgerNext]_(Ledger!ledgerVars)
  <2>1. /\ task[t].pc \in Waiting /\ task'[t].pc \notin Waiting /\ UNCHANGED handed
        /\ \A u \in Tasks : u # t => task'[u] = task[u]
        /\ \A m \in Msgs : inbox'[m] = IF m \in task[t].ids THEN "pending" ELSE inbox[m]
    BY <1>0, <1>10, HandoffSteps DEF Requeues, Goes, Waiting
  <2>2. /\ \A m \in task[t].ids : IsHeld(m)
        /\ \A m : m \notin task[t].ids => (IsHeld(m)' <=> IsHeld(m))
    BY <2>1 DEF IsHeld
  <2>3. Settled
    BY <1>h, <1>f, <1>g, <2>1, <2>2 DEF Settled
  <2> QED BY <1>10, <2>3, SettledStep
<1>11. ASSUME NEW t \in Tasks, Tracks(t), Calm \/ Fails PROVE [Ledger!LedgerNext]_(Ledger!ledgerVars)
  <2>1. /\ task[t].pc \notin Waiting /\ task'[t].pc \notin Waiting
        /\ \A u \in Tasks : u # t => task'[u] = task[u]
    BY <1>11 DEF Tracks, Goes, Waiting, Marked
  <2>2. \A m : IsHeld(m)' <=> IsHeld(m)
    BY <2>1 DEF IsHeld
  <2> QED BY <1>11, <1>s, <2>2, SettledStep DEF Tracks
<1>12. ASSUME NEW t \in Tasks, Drops(t), task[t].pc \notin Waiting, Calm \/ Fails
       PROVE  [Ledger!LedgerNext]_(Ledger!ledgerVars)
  <2>1. \A m : IsHeld(m)' <=> IsHeld(m)
    BY <1>12 DEF Drops, Goes, IsHeld, Waiting
  <2> QED BY <1>12, <1>s, <2>1, SettledStep DEF Drops
<1>13. ASSUME NEW t \in Tasks, Drops(t), task[t].pc \in Waiting, Fails
       PROVE  [Ledger!LedgerNext]_(Ledger!ledgerVars)
  <2> DEFINE S == {m \in task[t].ids : handed[m] = 0}
  <2>1. /\ task'[t].pc \notin Waiting /\ UNCHANGED <<inbox, handed>>
        /\ \A u \in Tasks : u # t => task'[u] = task[u]
    BY <1>13 DEF Drops, Goes, Waiting
  <2>2. \A m \in task[t].ids : m \in Msgs /\ IsHeld(m)
    BY <1>0, <1>13 DEF IsHeld
  <2>3. \A m : m \notin task[t].ids => (IsHeld(m)' <=> IsHeld(m))
    BY <1>13, <2>1 DEF IsHeld
  <2>4. \A m \in task[t].ids : ~IsHeld(m)'
    BY <1>0, <1>13, <2>1 DEF IsHeld, Exclusive, Holding, Waiting
  <2>5. Moves(S, "queued", "lost")
    BY <1>0, <1>h, <1>f, <1>g, <2>1, <2>2, <2>3, <2>4 DEF Moves
  <2>6. S \in SUBSET Msgs
    BY <2>2
  <2> QED BY <1>13, <2>5, <2>6, FaultMove
<1> QED BY <1>1, <1>2, <1>3, <1>4, <1>5, <1>6, <1>7, <1>8, <1>9, <1>10, <1>11, <1>12, <1>13
        DEF Kinds

\* The store and its tasks implement the promise of InboxLedger: a message that was
\* accepted is handed over once, or lost in the very step of a fault.
THEOREM DeliveryRefines == InboxSpec => DeliveryImplementsLedger
<1>1. InboxInit => Ledger!LedgerInit
  <2> SUFFICES ASSUME InboxInit PROVE Ledger!LedgerInit
    OBVIOUS
  <2>0. InboxInv
    BY InitInv
  <2>1. \A m \in Msgs : Fate(m) = "new"
    <3>1. \A m \in Msgs : handed[m] = 0 /\ inbox[m] = "absent"
      BY DEF InboxInit
    <3> QED BY <2>0, <3>1, FateMeans DEF InboxInv
  <2>2. (spent["faults"] > 0 \/ spent["crashes"] > 0) = FALSE
    BY BoundNames DEF InboxInit
  <2> QED BY <2>1, <2>2 DEF Ledger!LedgerInit
<1>2. InboxInv /\ InboxInv' /\ [InboxNext]_inboxVars => [Ledger!LedgerNext]_(Ledger!ledgerVars)
  BY StepKinds, LedgerRefines DEF InboxInv
<1> QED BY <1>1, <1>2, InboxInvariance, PTL
        DEF InboxSpec, DeliveryImplementsLedger, Ledger!LedgerSpec

=============================================================================
