----------------------------- MODULE InboxDelivery -----------------------------
(***************************************************************************)
(* The inbox of one session and everything that drains it: doorbell scans *)
(* with their debounce and retry, the forced injection of pty_send, the   *)
(* turn_start and turn_check hooks, the managed turns of RPC transports   *)
(* with their attempt ledger, and the work-start reactions.  A task is an *)
(* async task of the daemon; it is between two awaits in one step.         *)
(*                                                                         *)
(* The session row is reduced to what delivery reads of it (SessionRow has *)
(* the rest); its start, stop and endpoint loss are steps of the           *)
(* environment.                                                            *)
(***************************************************************************)
EXTENDS Integers, FiniteSets

CONSTANTS
    Msgs,          \* inbound events addressed to this session
    MaxTasks,      \* doorbell and hook tasks running at one time
    Transports,    \* transport kinds the session may be admitted with
    MaxBells,      \* doorbell scans spawned and not yet started
    MaxGen,        \* runtime generations
    MaxHooks,      \* turn_start and turn_check hooks
    MaxAttempts,   \* managed native turns
    MaxFaults,     \* failed deliveries, renders and store statements
    MaxCrashes,    \* crashes of the daemon
    MaxPrunes,     \* rows dropped by the retention of the ledger
    MaxTroubles    \* all of the last three together

ASSUME InboxAssumption ==
    /\ Transports \subseteq {"pty", "acp", "app-server"}
    /\ {MaxTasks, MaxBells, MaxGen, MaxHooks, MaxAttempts, MaxFaults, MaxCrashes, MaxPrunes,
        MaxTroubles} \subseteq Nat

VARIABLES
    inbox,      \* state column of the inbox rows; "absent" when there is none
    claims,     \* state column of the work-start rows of event_claims
    attempts,   \* native_turn_attempts: outcome reduced to open or finished
    sess,       \* the session row: transport, generation, running, work state
    endpoint,   \* the hosted endpoint of the current generation
    bells,      \* ring_doorbells calls whose task has not started
    retry,      \* a RetryAfter timer is set
    debounce,   \* the last injection is younger than the debounce window
    task,       \* the running tasks
    native,     \* completions the daemon waits for, by attempt
    up,         \* the daemon runs
    spent,      \* how much of each bound is used
    handed,     \* history: how often a message was given to the agent
    reacted,    \* history: how often its work-start reaction was published
    pruned      \* history: how often its row was pruned

inboxVars == <<inbox, claims, attempts, sess, endpoint, bells, retry, debounce,
               task, native, up, spent, handed, reacted, pruned>>

ledger == <<inbox, claims, handed, reacted>>
doorbell == <<bells, retry, debounce>>
runtime == <<sess, endpoint, attempts, native>>

Tasks == 1..MaxTasks
RowStates == {"absent", "pending", "delivered", "injected", "echo_consumed"}
Free == [pc |-> "free", ids |-> {}, gen |-> 0]

\* The terminal outcomes differ only in the diagnostics they carry.
NativeTurnOutcome == {"none", "started", "finished"}

Bounds == [gens |-> MaxGen, hooks |-> MaxHooks, attempts |-> MaxAttempts, faults |-> MaxFaults,
           crashes |-> MaxCrashes, prunes |-> MaxPrunes]

InboxTypeOK ==
    /\ inbox \in [Msgs -> RowStates]
    /\ claims \in [Msgs -> {"none", "pending", "completed"}]
    /\ attempts \in [1..MaxAttempts -> NativeTurnOutcome]
    /\ sess \in [transport : {"pty", "acp", "app-server"}, gen : 0..MaxGen, running : BOOLEAN,
                 work : {"idle", "working"}]
    /\ endpoint \in [bound : BOOLEAN, live : BOOLEAN]
    /\ bells \in 0..MaxBells /\ retry \in BOOLEAN /\ debounce \in BOOLEAN /\ up \in BOOLEAN
    /\ task \in [Tasks -> [pc : {"free", "planned", "claimed", "sent", "track", "react", "steer",
                                 "hook", "render"},
                           ids : SUBSET Msgs, gen : 0..MaxGen]]
    /\ native \in [1..MaxAttempts -> 0..MaxGen]
    /\ \A b \in DOMAIN Bounds : spent[b] \in 0..Bounds[b]
    /\ DOMAIN spent = DOMAIN Bounds
    /\ handed \in [Msgs -> Nat] /\ reacted \in [Msgs -> Nat] /\ pruned \in [Msgs -> Nat]

InboxInit ==
    /\ inbox = [m \in Msgs |-> "absent"]
    /\ claims = [m \in Msgs |-> "none"]
    /\ attempts = [a \in 1..MaxAttempts |-> "none"]
    /\ sess \in [transport : Transports, gen : {0}, running : {FALSE}, work : {"idle"}]
    /\ endpoint = [bound |-> FALSE, live |-> FALSE]
    /\ bells = 0 /\ retry = FALSE /\ debounce = FALSE
    /\ task = [t \in Tasks |-> Free]
    /\ native = [a \in 1..MaxAttempts |-> 0]
    /\ up = TRUE
    /\ spent = [b \in DOMAIN Bounds |-> 0]
    /\ handed = [m \in Msgs |-> 0] /\ reacted = [m \in Msgs |-> 0] /\ pruned = [m \in Msgs |-> 0]

Troubles == spent["faults"] + spent["crashes"] + spent["prunes"]
Spend(b) ==
    /\ spent[b] < Bounds[b]
    /\ b \in {"faults", "crashes", "prunes"} => Troubles < MaxTroubles
    /\ spent' = [spent EXCEPT ![b] = @ + 1]

\* A new task takes the first free slot; the slots are interchangeable.
Slot(t) == task[t] = Free /\ \A u \in 1..(t - 1) : task[u] # Free

\* A spawned scan that has not started reads the same rows as another one.
Rung(n) == IF n < MaxBells THEN n + 1 ELSE n

Pending == {m \in Msgs : inbox[m] = "pending"}
Set(f, S, v) == [m \in Msgs |-> IF m \in S THEN v ELSE f[m]]
Bump(f, S) == [m \in Msgs |-> IF m \in S THEN f[m] + 1 ELSE f[m]]

Managed == sess.transport # "pty"
Running(g) == sess.running /\ sess.gen = g
Live(g) == Running(g) /\ endpoint.bound /\ endpoint.live

---------------------------------------------------------------------------
(* Statements of the store.                                                *)

\* Mutant: the claim does not look at the state of the planned rows.
ClaimUnguarded(ids) == ids

\* UPDATE ... SET state='delivered' WHERE ... state='pending', for planned ids.
claim_pending_event_ids_for_pubkey(ids) == ids \cap Pending

\* Stage a handoff row for each claimed message; an existing row is left alone.
stage_from_inbox_tx(ids) == [m \in Msgs |-> IF m \in ids /\ claims[m] = "none" THEN "pending"
                                            ELSE claims[m]]

\* Mutants: a state the ledger does not know; every settled row; no row at all.
RequeueUnparsed(ids) == Set(inbox, ids, "queued")
RequeueAll(ids) == Set(inbox, {m \in Msgs : inbox[m] # "absent"}, "pending")

reenqueue_pending(ids) == Set(inbox, ids, "pending")

mark_injected_for_echo(ids) ==
    [m \in Msgs |-> IF m \in ids /\ inbox[m] = "delivered" THEN "injected" ELSE inbox[m]]

\* Mutant: a completed handoff is taken again.
TakeCompleted(ids) == {m \in ids : claims[m] # "none"}

\* The handoffs a work-start boundary takes: those of the prompt, or all of them.
take_work_start_claims(ids) == {m \in ids : claims[m] = "pending"}

\* Publish the reactions of the taken handoffs; the write itself is best effort.
publish_claims(taken) == claims' = Set(claims, taken, "completed") /\ reacted' = Bump(reacted, taken)

apply_session_turn_started(g) ==
    sess' = IF Running(g) THEN [sess EXCEPT !.work = "working"] ELSE sess

\* A working turn ends: the session is idle and every injected row is an echo.
apply_session_turn_ended ==
    /\ sess' = [sess EXCEPT !.work = "idle"]
    /\ inbox' = [m \in Msgs |-> IF inbox[m] = "injected" THEN "echo_consumed" ELSE inbox[m]]

---------------------------------------------------------------------------
(* Arrival.                                                                *)

\* enqueue_inbox ignores an event it has a row for; its callers ring the bell.
Enqueue(m) ==
    /\ up /\ inbox[m] = "absent"
    /\ inbox' = [inbox EXCEPT ![m] = "pending"]
    /\ bells' = Rung(bells)
    /\ UNCHANGED <<claims, handed, reacted, retry, debounce, runtime, task, up, spent, pruned>>

---------------------------------------------------------------------------
(* Doorbell scans.                                                         *)

\* Mutant: a debounced scan leaves the rows for a later bell.
DecideWithoutRetry ==
    IF sess.running /\ Pending # {} /\ endpoint.bound
    THEN IF ~endpoint.live THEN "clear" ELSE IF debounce THEN "none" ELSE "inject"
    ELSE "none"

\* decide: no pending row, no endpoint, a dead endpoint, debounced, or inject.
decide ==
    CASE ~sess.running \/ Pending = {} \/ ~endpoint.bound -> "none"
      [] sess.running /\ Pending # {} /\ endpoint.bound /\ ~endpoint.live -> "clear"
      [] sess.running /\ Pending # {} /\ endpoint.bound /\ endpoint.live /\ debounce -> "retry"
      [] OTHER -> "inject"

\* ring_doorbells_inner up to the first await of an injection.
Scan(t) ==
    /\ up /\ bells > 0 /\ Slot(t)
    /\ bells' = bells - 1
    /\ retry' = (retry \/ decide = "retry")
    /\ endpoint' = IF decide = "clear" THEN [endpoint EXCEPT !.bound = FALSE] ELSE endpoint
    /\ task' = IF decide = "inject"
               THEN [task EXCEPT ![t] = [pc |-> "planned", ids |-> Pending, gen |-> sess.gen]]
               ELSE task
    /\ UNCHANGED <<ledger, sess, attempts, native, debounce, up, spent, pruned>>

\* pty_send ignores the debounce.
inject_pending_messages_pty(t) ==
    /\ up /\ Slot(t) /\ sess.transport = "pty" /\ Pending # {}
    /\ Live(sess.gen)
    /\ task' = [task EXCEPT ![t] = [pc |-> "planned", ids |-> Pending, gen |-> sess.gen]]
    /\ UNCHANGED <<ledger, doorbell, runtime, up, spent, pruned>>

schedule_delivery_retry ==
    /\ up /\ retry
    /\ retry' = FALSE /\ bells' = Rung(bells)
    /\ UNCHANGED <<ledger, debounce, runtime, task, up, spent, pruned>>

DebounceExpires ==
    /\ debounce /\ debounce' = FALSE
    /\ UNCHANGED <<ledger, bells, retry, runtime, task, up, spent, pruned>>

\* inject_planned_messages up to the await of the sender labels.
Claim(t) ==
    LET got == claim_pending_event_ids_for_pubkey(task[t].ids)
    IN /\ up /\ task[t].pc = "planned"
       /\ IF Live(task[t].gen) /\ got # {}
          THEN /\ inbox' = Set(inbox, got, "delivered")
               /\ task' = [task EXCEPT ![t].pc = "claimed", ![t].ids = got]
          ELSE /\ task' = [task EXCEPT ![t] = Free] /\ UNCHANGED inbox
       /\ UNCHANGED <<claims, handed, reacted, doorbell, runtime, up, spent, pruned>>

Deliver(t) ==
    /\ up /\ task[t].pc = "claimed" /\ Live(task[t].gen)
    /\ handed' = Bump(handed, task[t].ids)
    /\ task' = [task EXCEPT ![t].pc = "sent"]
    /\ UNCHANGED <<inbox, claims, reacted, doorbell, runtime, up, spent, pruned>>

\* The transport refuses: the rows go back to pending, and no bell is rung.
reenqueue_after_failure(t) ==
    /\ up /\ task[t].pc = "claimed"
    /\ IF Live(task[t].gen) THEN Spend("faults") ELSE UNCHANGED spent
    /\ inbox' = reenqueue_pending(task[t].ids)
    /\ task' = [task EXCEPT ![t] = Free]
    /\ UNCHANGED <<claims, handed, reacted, doorbell, runtime, up, pruned>>

\* The roll back fails as well: the rows stay delivered and nobody owns them.
RollbackFails(t) ==
    /\ up /\ task[t].pc = "claimed" /\ Spend("faults")
    /\ task' = [task EXCEPT ![t] = Free]
    /\ UNCHANGED <<ledger, doorbell, runtime, up, pruned>>

\* An app-server child that works on a turn is steered, not prompted again.
Steers == sess.transport = "app-server" /\ \E a \in 1..MaxAttempts : native[a] = sess.gen /\ sess.gen > 0

finalize_injection(t) ==
    /\ up /\ task[t].pc = "sent"
    /\ inbox' = mark_injected_for_echo(task[t].ids)
    /\ claims' = stage_from_inbox_tx({m \in task[t].ids : inbox[m] \in {"delivered", "injected"}})
    /\ task' = IF Managed
               THEN [task EXCEPT ![t].pc = IF Steers THEN "steer" ELSE "track"]
               ELSE [task EXCEPT ![t] = Free]
    /\ debounce' = (debounce \/ ~Managed \/ Steers)
    /\ UNCHANGED <<handed, reacted, bells, retry, runtime, up, spent, pruned>>

\* The mark fails: the injection bails out and a managed turn runs untracked.
MarkFails(t) ==
    /\ up /\ task[t].pc = "sent" /\ Spend("faults")
    /\ task' = [task EXCEPT ![t] = Free]
    /\ UNCHANGED <<ledger, doorbell, runtime, up, pruned>>

---------------------------------------------------------------------------
(* Managed turns of the RPC transports.                                    *)

\* A row of the ledger opens once, and its outcome is written once: the update asks
\* for outcome = 'started'.
start_native_turn_attempt(a) == [attempts EXCEPT ![a] = "started"]

finish_native_turn_attempt(rows, a) ==
    [rows EXCEPT ![a] = IF @ = "started" THEN "finished" ELSE @]

\* What the restart does to the rows its daemon left open.
reconcile_open_native_turn_attempts ==
    [a \in 1..MaxAttempts |-> IF attempts[a] = "started" THEN "finished" ELSE attempts[a]]

\* managed_turn::track: open the attempt, then start the turn of the generation.
track(t) ==
    \E a \in 1..MaxAttempts :
        LET g == task[t].gen IN
        /\ up /\ task[t].pc = "track"
        /\ attempts[a] = "none" /\ \A b \in 1..(a - 1) : attempts[b] # "none"
        /\ Spend("attempts")
        /\ apply_session_turn_started(g)
        /\ attempts' = IF Running(g) THEN start_native_turn_attempt(a)
                                     ELSE finish_native_turn_attempt(start_native_turn_attempt(a), a)
        /\ native' = [native EXCEPT ![a] = IF Running(g) THEN g ELSE 0]
        /\ task' = IF Running(g) THEN [task EXCEPT ![t].pc = "react"]
                                 ELSE [task EXCEPT ![t] = Free]
        /\ UNCHANGED <<ledger, doorbell, endpoint, up, pruned>>

\* After the presence await: react for this prompt, and count the injection.
publish_for_started_events(t) ==
    /\ up /\ task[t].pc = "react"
    /\ publish_claims(take_work_start_claims(task[t].ids))
    /\ debounce' = TRUE
    /\ task' = [task EXCEPT ![t] = Free]
    /\ UNCHANGED <<inbox, handed, bells, retry, runtime, up, spent, pruned>>

\* The waiter of a steer reacts when the child accepted it.
track_steer(t, accepted) ==
    /\ up /\ task[t].pc = "steer"
    /\ IF accepted THEN publish_claims(take_work_start_claims(task[t].ids)) /\ UNCHANGED spent
                   ELSE Spend("faults") /\ UNCHANGED <<claims, reacted>>
    /\ task' = [task EXCEPT ![t] = Free]
    /\ UNCHANGED <<inbox, handed, doorbell, runtime, up, pruned>>

\* The completion, or the drop of its sender: persist_outcome, finish_lifecycle.
finish_lifecycle(a) ==
    /\ up /\ native[a] > 0
    /\ native' = [native EXCEPT ![a] = 0]
    /\ attempts' = finish_native_turn_attempt(attempts, a)
    /\ IF Running(native[a]) /\ sess.work = "working"
       THEN apply_session_turn_ended /\ bells' = Rung(bells)
       ELSE UNCHANGED <<sess, inbox, bells>>
    /\ UNCHANGED <<claims, handed, reacted, retry, debounce, endpoint, task, up, spent, pruned>>

---------------------------------------------------------------------------
(* Hooks of the agent.                                                     *)

\* turn_start opens the turn; turn_check joins a running session as it is.
HookEnters(t, opens) ==
    /\ up /\ Slot(t) /\ sess.running /\ Spend("hooks")
    /\ IF opens THEN apply_session_turn_started(sess.gen) ELSE UNCHANGED sess
    /\ task' = [task EXCEPT ![t] = [pc |-> "hook", ids |-> {}, gen |-> sess.gen]]
    /\ UNCHANGED <<ledger, doorbell, endpoint, attempts, native, up, pruned>>

\* take_inbox claims every pending row and stages its work-start handoff.
take_inbox(t) ==
    /\ up /\ task[t].pc = "hook"
    /\ inbox' = Set(inbox, Pending, "delivered")
    /\ claims' = stage_from_inbox_tx(Pending)
    /\ task' = [task EXCEPT ![t].pc = "render", ![t].ids = Pending]
    /\ UNCHANGED <<handed, reacted, doorbell, runtime, up, spent, pruned>>

\* The context reaches the agent, and every staged handoff is answered.
HookReturns(t) ==
    /\ up /\ task[t].pc = "render"
    /\ handed' = Bump(handed, task[t].ids)
    /\ publish_claims(take_work_start_claims(Msgs))
    /\ task' = [task EXCEPT ![t] = Free]
    /\ UNCHANGED <<inbox, doorbell, runtime, up, spent, pruned>>

\* capture_inputs fails after the claim: the hook gets an error and no context.
HookFails(t) ==
    /\ up /\ task[t].pc = "render" /\ Spend("faults")
    /\ task' = [task EXCEPT ![t] = Free]
    /\ UNCHANGED <<ledger, doorbell, runtime, up, pruned>>

rpc_turn_end ==
    /\ up /\ sess.running /\ sess.work = "working"
    /\ apply_session_turn_ended
    /\ bells' = Rung(bells)
    /\ UNCHANGED <<claims, handed, reacted, retry, debounce, endpoint, attempts, native, task, up,
                   spent, pruned>>

---------------------------------------------------------------------------
(* The session, the daemon and the clock around the inbox.                 *)

\* A session is admitted; session_start rings only for a PTY endpoint.
SessionStarts ==
    /\ up /\ ~sess.running /\ Spend("gens")
    /\ sess' = [sess EXCEPT !.gen = @ + 1, !.running = TRUE, !.work = "idle"]
    /\ endpoint' = [bound |-> TRUE, live |-> TRUE]
    /\ bells' = IF Managed THEN bells ELSE Rung(bells)
    /\ UNCHANGED <<ledger, retry, debounce, attempts, native, task, up, pruned>>

EndpointDies ==
    /\ endpoint.live /\ endpoint' = [endpoint EXCEPT !.live = FALSE]
    /\ UNCHANGED <<ledger, doorbell, sess, attempts, native, task, up, spent, pruned>>

SessionStops ==
    /\ up /\ sess.running /\ ~endpoint.live
    /\ sess' = [sess EXCEPT !.running = FALSE, !.work = "idle"]
    /\ endpoint' = [bound |-> FALSE, live |-> FALSE]
    /\ UNCHANGED <<ledger, doorbell, attempts, native, task, up, spent, pruned>>

\* Messages a task has claimed and not yet handed over.
Held == UNION {task[t].ids : t \in {u \in Tasks : task[u].pc \in {"claimed", "render"}}}

\* A crash drops the tasks, the timers and the waiters; the store stays.
Crash ==
    /\ up /\ up' = FALSE /\ Spend("crashes")
    /\ task' = [t \in Tasks |-> Free]
    /\ bells' = 0 /\ retry' = FALSE /\ debounce' = FALSE
    /\ native' = [a \in 1..MaxAttempts |-> 0]
    /\ UNCHANGED <<ledger, sess, endpoint, attempts, pruned>>

\* Boot closes the open attempts, stops RPC sessions, adopts PTY ones and rings.
Restart ==
    /\ ~up /\ up' = TRUE
    /\ attempts' = reconcile_open_native_turn_attempts
    /\ IF Managed
       THEN /\ sess' = [sess EXCEPT !.running = FALSE, !.work = "idle"]
            /\ endpoint' = [bound |-> FALSE, live |-> FALSE]
       ELSE UNCHANGED <<sess, endpoint>>
    /\ bells' = Rung(bells)
    /\ UNCHANGED <<ledger, retry, debounce, native, task, spent, pruned>>

\* Retention drops a settled row a week after its delivery; the event may replay.
prune_retained_state(m) ==
    /\ up /\ inbox[m] \in {"delivered", "injected", "echo_consumed"}
    /\ \A t \in Tasks : m \notin task[t].ids
    /\ Spend("prunes")
    /\ inbox' = [inbox EXCEPT ![m] = "absent"]
    /\ claims' = [claims EXCEPT ![m] = IF @ = "completed" THEN "none" ELSE @]
    /\ pruned' = [pruned EXCEPT ![m] = @ + 1]
    /\ UNCHANGED <<handed, reacted, doorbell, runtime, task, up>>

TaskStep(t) ==
    \/ Claim(t) \/ Deliver(t) \/ reenqueue_after_failure(t) \/ finalize_injection(t)
    \/ track(t) \/ publish_for_started_events(t) \/ track_steer(t, TRUE)
    \/ take_inbox(t) \/ HookReturns(t)

InboxNext ==
    \/ \E m \in Msgs : Enqueue(m) \/ prune_retained_state(m)
    \/ \E t \in Tasks : \/ Scan(t) \/ inject_pending_messages_pty(t) \/ Claim(t) \/ Deliver(t)
                        \/ reenqueue_after_failure(t) \/ RollbackFails(t)
                        \/ finalize_injection(t) \/ MarkFails(t)
                        \/ track(t) \/ publish_for_started_events(t)
                        \/ \E ok \in BOOLEAN : track_steer(t, ok)
                        \/ \E opens \in BOOLEAN : HookEnters(t, opens)
                        \/ take_inbox(t) \/ HookReturns(t) \/ HookFails(t)
    \/ \E a \in 1..MaxAttempts : finish_lifecycle(a)
    \/ schedule_delivery_retry \/ DebounceExpires \/ rpc_turn_end
    \/ SessionStarts \/ EndpointDies \/ SessionStops \/ Crash \/ Restart

\* Spawned tasks run, timers fire, a native turn ends, and a daemon is restarted.
InboxFairness ==
    /\ \A t \in Tasks : WF_inboxVars(TaskStep(t))
    /\ \A a \in 1..MaxAttempts : WF_inboxVars(finish_lifecycle(a))
    /\ WF_inboxVars(\E t \in Tasks : Scan(t)) /\ WF_inboxVars(schedule_delivery_retry)
    /\ WF_inboxVars(DebounceExpires) /\ WF_inboxVars(Restart)

InboxSpec == InboxInit /\ [][InboxNext]_inboxVars /\ InboxFairness

---------------------------------------------------------------------------
(* Properties.                                                             *)

\* What became of a message, for the promise of InboxLedger: a claimed row nobody
\* holds and nobody handed over is lost.
Fate(m) ==
    CASE handed[m] > 0 -> "handed"
      [] handed[m] = 0 /\ inbox[m] = "absent" -> "new"
      [] handed[m] = 0 /\ (inbox[m] = "pending" \/ m \in Held) -> "queued"
      [] OTHER -> "lost"

\* "This atomicity IS the dedup": however scans, forced sends and hooks race,
\* a message is handed to the agent at most once for each life of its row.
AtMostOnce == \A m \in Msgs : handed[m] <= 1 + pruned[m]

\* A work-start reaction is published at most once for each life of the row, and
\* only for a message the agent has, or a hook still holds or lost.
ReactionHonest ==
    \A m \in Msgs : /\ reacted[m] <= 1 + pruned[m]
                    /\ reacted[m] > 0 => \/ handed[m] > 0 \/ m \in Held
                                          \/ Fate(m) = "lost" \/ pruned[m] > 0

\* The roll back of a failed delivery has no guard on the row's state, and still
\* never returns a message to the queue that was handed over.
LedgerForward ==
    [][\A m \in Msgs : inbox[m] \in {"injected", "echo_consumed"} => inbox'[m] # "pending"]_inboxVars

\* While nothing fails, a mention for a session with a live PTY endpoint does not
\* wait for an unrelated event: debounce, retries and parallel claims included.
PendingServed ==
    []<>(sess.transport = "pty" /\ Live(sess.gen) => Pending = {} \/ spent["faults"] > 0)

\* Every managed turn gets an outcome, by its completion or by the next boot.
AttemptsClose == []<>(\A a \in 1..MaxAttempts : attempts[a] # "started")

Ledger == INSTANCE InboxLedger WITH
    status <- [m \in Msgs |-> Fate(m)],
    mayLose <- (spent["faults"] > 0 \/ spent["crashes"] > 0)

\* Delivery implements the promise of the inbox: accepted messages are handed
\* over or, in the very step of a fault, lost; no other step moves them.
DeliveryImplementsLedger == Ledger!LedgerSpec

\* What is due in the inbox gets done: mentions are served and attempts closed.
DeliveryProgress == PendingServed /\ AttemptsClose
================================================================================
