------------------------------- MODULE RpcHarness -------------------------------
(***************************************************************************)
(* One stdio JSON-RPC child of the daemon (an ACP agent or a codex         *)
(* app-server thread): its handshake, the reader that correlates responses *)
(* and routes turn notifications, the deliveries that start or steer turns,*)
(* the update drain behind the steering decision, kill, and the reaper.    *)
(* Every delivery is an async task, in one step between two awaits.  What  *)
(* the child does is external: it answers in order, may lose a response or *)
(* a notification, and may exit at any time.                               *)
(***************************************************************************)
EXTENDS Integers, Sequences, FiniteSets

CONSTANTS
    MaxDeliveries, \* prompts handed to the transport
    Dialects,      \* dialects the child may speak
    History,       \* turns a thread may have when it is opened: 0 or 1
    Terminals,     \* terminal states a turn may end in
    MaxTurns,      \* native turns, those of a resumed thread included
    MaxIds,        \* request ids in use at one time
    MaxLosses,     \* responses and notifications the child does not send
    MaxTimeouts,   \* requests, gates and kills that run out of time
    MaxKills,      \* kill calls
    MaxTroubles    \* all of the last three together

ASSUME RpcAssumption ==
    /\ Dialects \subseteq {"acp", "app-server"} /\ History \subseteq {0, 1}
    /\ Terminals \subseteq {"completed", "failed"}
    /\ {MaxDeliveries, MaxTurns, MaxIds, MaxLosses, MaxTimeouts, MaxKills, MaxTroubles} \subseteq Nat

Deliveries == 1..MaxDeliveries   \* in the order in which they are handed over
Turns == 1..MaxTurns
Ids == 1..MaxIds
TurnStates == {"none", "running", "completed", "failed"}
Results == {"none", "completed", "failed", "rejected", "exited", "unknown", "steered", "dropped"}

VARIABLES
    dialect,   \* of the child, fixed when it is spawned
    proc,      \* the process: running, or gone
    phase,     \* of the handshake; opened is not yet registered, open is
    registered,\* the registry entry exists
    turns,     \* external: the status of the turns the child knows
    owner,     \* history: the delivery whose request started a turn
    inq,       \* lines on the child's stdin
    outq,      \* lines on the child's stdout
    reader,    \* reader_task: reading, marked (alive is false), ended
    pending,   \* correlation map: ids of requests that wait for a response
    reply,     \* responses sent to the delivery that waits for them
    waiter,    \* delivery that holds the turn observer, or 0
    signals,   \* the channel of that observer
    updates,   \* the unbounded channel of session updates
    rt,        \* AcpRuntime: turn_active and turn_id (0: none)
    launch,    \* launch-time baseline, until the first delivery takes it (then empty)
    del,       \* the deliveries
    killing,   \* a kill waits for the exit
    reaped,    \* the reaper of the child is through
    cost       \* losses, timeouts and kills so far

rpcVars == <<dialect, proc, phase, registered, turns, owner, inq, outq, reader, pending, reply,
             waiter, signals, updates, rt, launch, del, killing, reaped, cost>>

external == <<proc, turns, owner>>
routing == <<waiter, signals>>
endpoint == <<phase, registered, killing, reaped>>

NoDel == [pc |-> "new", base |-> {}, turn |-> 0, id |-> 0, read |-> 0, result |-> "none"]

RpcTypeOK ==
    /\ dialect \in {"acp", "app-server"} /\ proc \in {"running", "gone"}
    /\ phase \in {"spawned", "initialized", "listed", "threaded", "opened", "open", "failed"}
    /\ registered \in BOOLEAN
    /\ turns \in [Turns -> TurnStates] /\ owner \in [Turns -> Deliveries \cup {0}]
    /\ reader \in {"reading", "marked", "ended"} /\ pending \subseteq Ids
    /\ waiter \in Deliveries \cup {0}
    /\ rt \in [active : BOOLEAN, id : 0..MaxTurns]
    /\ launch \subseteq {{}, {1}} /\ Cardinality(launch) <= 1
    /\ del \in [Deliveries -> [pc : {"new", "start", "base", "register", "starting", "terminal",
                                     "gate", "steer", "send", "prompt", "done"},
                               base : SUBSET Turns, turn : 0..MaxTurns, id : 0..MaxIds,
                               read : 0..MaxIds, result : Results]]
    /\ \A d \in Deliveries : del[d].result # "none" <=> del[d].pc = "done"
    /\ killing \in BOOLEAN /\ reaped \in BOOLEAN
    /\ cost \in [losses : 0..MaxLosses, timeouts : 0..MaxTimeouts, kills : 0..MaxKills]

\* A fresh thread has no turns, a resumed one has its history.
RpcInit ==
    /\ dialect \in Dialects /\ proc = "running"
    /\ phase = "spawned" /\ registered = FALSE
    /\ \E h \in History : turns = [t \in Turns |-> IF t <= h THEN "completed" ELSE "none"]
    /\ owner = [t \in Turns |-> 0]
    /\ inq = <<>> /\ outq = <<>> /\ reader = "reading" /\ pending = {}
    /\ reply = {} /\ waiter = 0 /\ signals = <<>> /\ updates = <<>>
    /\ rt = [active |-> FALSE, id |-> 0] /\ launch = {}
    /\ del = [d \in Deliveries |-> NoDel]
    /\ killing = FALSE /\ reaped = FALSE
    /\ cost = [losses |-> 0, timeouts |-> 0, kills |-> 0]

Limit == [losses |-> MaxLosses, timeouts |-> MaxTimeouts, kills |-> MaxKills]
Pay(c) == /\ cost[c] < Limit[c] /\ cost.losses + cost.timeouts + cost.kills < MaxTroubles
          /\ cost' = [cost EXCEPT ![c] = @ + 1]

Alive == reader = "reading"
Known(ts) == {t \in Turns : ts[t] # "none"}

---------------------------------------------------------------------------
(* Requests.  An id is fresh when nothing on the wire or in a map has it.   *)

OnWire == {inq[k].id : k \in DOMAIN inq} \cup {outq[k].id : k \in DOMAIN outq}
UsedIds == pending \cup OnWire \cup {r.id : r \in reply}
Fresh == CHOOSE i \in Ids : i \notin UsedIds
HasId == Ids \ UsedIds # {}

\* RpcHandle::request: a dead child is refused under the lock of the map.
request(d, kind, turn, id) ==
    /\ pending' = pending \cup {id}
    /\ inq' = IF proc = "running" THEN Append(inq, [id |-> id, of |-> d, kind |-> kind, turn |-> turn])
                                  ELSE inq

\* PendingGuard: a cancelled or answered request leaves the map.
Forget(ids) == pending' = pending \ ids
Replies(d) == {r \in reply : r.of = d}

\* request_timeout: an answer that is on its way may be late, one that is lost is.
Expired(id) == IF id \in OnWire THEN Pay("timeouts") ELSE UNCHANGED cost

---------------------------------------------------------------------------
(* The child (external).                                                   *)

NoTurns == [t \in Turns |-> "none"]

\* A response: a status, the turn it names, and the snapshot of a read.
Response(r, status, t) ==
    [id |-> r.id, of |-> r.of, kind |-> r.kind, status |-> status, turn |-> t,
     snap |-> IF r.kind = "read" THEN turns ELSE NoTurns]
Note(kind, t) ==
    [id |-> 0, of |-> 0, kind |-> kind, status |-> "ok", turn |-> t, snap |-> NoTurns]
FreeTurn == {t \in Turns : turns[t] = "none" /\ \A u \in 1..(t - 1) : turns[u] # "none"}

\* The child takes the next line: a snapshot, a steer, a new turn, or a refusal.
ChildTakes(lost) ==
    LET r == Head(inq) IN
    /\ proc = "running" /\ inq # <<>>
    /\ inq' = Tail(inq)
    /\ IF lost THEN r.kind # "prompt" /\ Pay("losses") ELSE UNCHANGED cost
    /\ \/ /\ r.kind = "read"
          /\ outq' = IF lost THEN outq ELSE Append(outq, Response(r, "ok", 0))
          /\ UNCHANGED <<turns, owner>>
       \/ /\ r.kind = "steer"
          /\ outq' = IF lost THEN outq
                     ELSE Append(outq, Response(r, IF turns[r.turn] = "running" THEN "ok" ELSE "error", 0))
          /\ UNCHANGED <<turns, owner>>
       \/ \E t \in FreeTurn :
          /\ r.kind \in {"start", "prompt"}
          /\ turns' = [turns EXCEPT ![t] = "running"] /\ owner' = [owner EXCEPT ![t] = r.of]
          /\ outq' = IF r.kind = "prompt" THEN outq
                     ELSE (IF lost THEN outq ELSE Append(outq, Response(r, "ok", t)))
                          \o <<Note("turn/started", t)>>
       \/ /\ r.kind \in {"start", "prompt"} /\ ~lost
          /\ outq' = Append(outq, Response(r, "error", 0))
          /\ UNCHANGED <<turns, owner>>
    /\ UNCHANGED <<dialect, proc, reader, pending, reply, routing, updates, rt, launch, del, endpoint>>

\* A turn ends; an app-server notifies, an ACP agent answers the prompt.
ChildFinishes(t, lost) ==
    \E s \in Terminals :
    /\ proc = "running" /\ turns[t] = "running"
    /\ turns' = [turns EXCEPT ![t] = s]
    /\ IF lost THEN Pay("losses") ELSE UNCHANGED cost
    /\ outq' = CASE lost -> outq
                 [] ~lost /\ dialect = "app-server" -> Append(outq, Note("turn/completed", t))
                 [] OTHER -> Append(outq, Response([id |-> del[owner[t]].id, of |-> owner[t],
                                                    kind |-> "prompt"], s, t))
    /\ dialect = "acp" => ~lost
    /\ UNCHANGED <<dialect, proc, owner, inq, reader, pending, reply, routing, updates, rt, launch,
                   del, endpoint>>

ChildExits ==
    /\ proc = "running" /\ proc' = "gone" /\ inq' = <<>>
    /\ turns' = [t \in Turns |-> IF turns[t] = "running" THEN "failed" ELSE turns[t]]
    /\ UNCHANGED <<dialect, owner, outq, reader, pending, reply, routing, updates, rt, launch, del,
                   endpoint, cost>>

---------------------------------------------------------------------------
(* The reader, the update drain and the reaper.                             *)

\* signal: the observer of the thread gets it, or nobody does.
signal_turn(kind, t) ==
    IF waiter # 0 /\ kind = "turn/completed" THEN signals' = Append(signals, t)
                                                  ELSE UNCHANGED signals

dispatch_inbound ==
    LET m == Head(outq) IN
    /\ reader = "reading" /\ outq # <<>>
    /\ outq' = Tail(outq)
    /\ IF m.id # 0
       THEN /\ reply' = IF m.id \in pending THEN reply \cup {m} ELSE reply
            /\ Forget({m.id}) /\ UNCHANGED <<signals, updates>>
       ELSE /\ signal_turn(m.kind, m.turn)
            /\ updates' = Append(updates, m) /\ UNCHANGED <<reply, pending>>
    /\ UNCHANGED <<dialect, external, inq, reader, waiter, rt, launch, del, endpoint, cost>>

\* stdout closed: alive turns false before the map is drained.
ReaderEof ==
    /\ reader = "reading" /\ proc = "gone" /\ outq = <<>>
    /\ reader' = "marked"
    /\ UNCHANGED <<dialect, external, inq, outq, pending, reply, routing, updates, rt, launch, del,
                   endpoint, cost>>

\* Every correlated request fails with ChildExited and the waiters are cleared.
ReaderDrains ==
    /\ reader = "marked" /\ reader' = "ended"
    /\ reply' = reply \cup UNION {{Response([id |-> i, of |-> d, kind |-> "exit"], "exited", 0) :
                                   i \in pending \cap {del[d].id, del[d].read}} : d \in Deliveries}
    /\ pending' = {} /\ waiter' = 0
    /\ UNCHANGED <<dialect, external, inq, outq, signals, updates, rt, launch, del, endpoint, cost>>

\* note_update: turn/completed ends the turn, any other turn id is the running one.
note_update(m) ==
    CASE m.kind = "turn/completed" -> [active |-> FALSE, id |-> 0]
      [] m.kind = "turn/started" -> [active |-> TRUE, id |-> m.turn]
      [] OTHER -> rt

DrainUpdates ==
    /\ updates # <<>> /\ phase = "open"
    /\ rt' = note_update(Head(updates)) /\ updates' = Tail(updates)
    /\ UNCHANGED <<dialect, external, inq, outq, reader, pending, reply, routing, launch, del,
                   endpoint, cost>>

\* wait_exit, then the registry entry goes.  The reaper is spawned before the
\* entry is inserted, and may be through with its work by then.
Reap ==
    /\ phase \in {"opened", "open"} /\ ~reaped /\ reader # "reading" /\ proc = "gone"
    /\ registered' = FALSE /\ reaped' = TRUE
    /\ UNCHANGED <<dialect, external, inq, outq, reader, pending, reply, routing, updates, rt,
                   launch, del, phase, killing, cost>>

---------------------------------------------------------------------------
(* Handshake, kill.                                                        *)

\* One request of the handshake: it is answered, or refused or out of time.
Handshake(from, to, ok) ==
    /\ phase = from /\ proc = "running" /\ Alive
    /\ phase' = IF ok THEN to ELSE "failed"
    /\ UNCHANGED <<dialect, external, inq, outq, reader, pending, reply, routing, updates, rt, del,
                   registered, killing, reaped, cost>>

initialize(ok) == Handshake("spawned", "initialized", ok) /\ UNCHANGED launch

\* session/new or session/load of an ACP agent.
session_new(ok) == dialect = "acp" /\ Handshake("initialized", "opened", ok) /\ UNCHANGED launch

\* Every page of model/list; an empty or repeated cursor is a failure.
model_catalog(ok) ==
    dialect = "app-server" /\ Handshake("initialized", "listed", ok) /\ UNCHANGED launch

\* thread/start or thread/resume leaves the baseline for the first delivery.
thread_start(ok) ==
    /\ Handshake("listed", "threaded", ok)
    /\ launch' = IF ok THEN {Known(turns)} ELSE launch

\* The catalog has the model and the effort the server resolved, exactly once.
admit(ok) == Handshake("threaded", "opened", ok) /\ UNCHANGED launch

Opening == {"spawned", "initialized", "listed", "threaded"}

\* A child that is gone before the handshake ends fails it.
OpenExits ==
    /\ phase \in Opening /\ reader # "reading" /\ phase' = "failed"
    /\ UNCHANGED <<dialect, external, inq, outq, reader, pending, reply, routing, updates, rt,
                   launch, del, registered, killing, reaped, cost>>

\* failed_spawn kills the child of a failed handshake.
failed_spawn ==
    /\ phase = "failed" /\ proc = "running"
    /\ proc' = "gone" /\ inq' = <<>>
    /\ UNCHANGED <<dialect, turns, owner, outq, reader, pending, reply, routing, updates, rt,
                   launch, del, endpoint, cost>>

register_child ==
    /\ phase = "opened" /\ phase' = "open" /\ registered' = TRUE
    /\ UNCHANGED <<dialect, external, inq, outq, reader, pending, reply, routing, updates, rt,
                   launch, del, killing, reaped, cost>>

kill ==
    /\ phase = "open" /\ registered /\ ~killing /\ Pay("kills")
    /\ killing' = TRUE
    /\ UNCHANGED <<dialect, external, inq, outq, reader, pending, reply, routing, updates, rt,
                   launch, del, phase, registered, reaped>>

\* Mutant: the entry goes whatever became of the process.
RemoveUnconfirmed(confirmed) == registered' = FALSE

\* The registry entry goes only after the exit was seen.
remove_after_exit_confirmation(confirmed) ==
    registered' = IF confirmed THEN FALSE ELSE registered

\* kill returns when the process is gone, or after its five seconds.
KillReturns ==
    /\ killing /\ killing' = FALSE
    /\ remove_after_exit_confirmation(proc = "gone")
    /\ UNCHANGED <<dialect, external, inq, outq, reader, pending, reply, routing, updates, rt,
                   launch, del, phase, reaped, cost>>

---------------------------------------------------------------------------
(* Deliveries.                                                             *)

\* steer_state: a running turn with a known id, one without, or none.
steer_state == CASE rt.active /\ rt.id # 0 -> "Ready"
                 [] rt.active /\ rt.id = 0 -> "AwaitingId"
                 [] OTHER -> "Idle"

mark_turn_started == rt' = [rt EXCEPT !.active = TRUE]
mark_turn_finished == rt' = [active |-> FALSE, id |-> 0]

\* deliver, up to the decision; marking the turn is a lock section of its own.
deliver(d) ==
    /\ phase = "open" /\ registered /\ del[d].pc = "new" /\ \A e \in 1..(d - 1) : del[e].pc # "new"
    /\ del' = [del EXCEPT ![d].pc = CASE dialect = "acp" -> "send"
                                      [] dialect # "acp" /\ steer_state = "Ready" -> "steer"
                                      [] dialect # "acp" /\ steer_state = "AwaitingId" -> "gate"
                                      [] OTHER -> "start",
                          ![d].turn = IF dialect = "acp" THEN 0 ELSE rt.id]
    /\ UNCHANGED <<dialect, external, inq, outq, reader, pending, reply, routing, updates, rt, launch,
                   endpoint, cost>>

Done(d, r, t) ==
    del' = [del EXCEPT ![d] = [NoDel EXCEPT !.pc = "done", !.result = r, !.turn = t]]

\* turn_start returned: its task marks the turn finished, whichever one runs now.
FinishDelivery(d, r, t) ==
    /\ Done(d, r, t) /\ mark_turn_finished
    /\ Forget({del[d].id, del[d].read})
    /\ reply' = {m \in reply : m.of # d}
    /\ waiter' = IF waiter = d THEN 0 ELSE waiter
    /\ signals' = IF waiter = d THEN <<>> ELSE signals
    /\ UNCHANGED <<dialect, external, inq, outq, reader, updates, launch, endpoint, cost>>

\* The baseline of the launch, or else a read of the thread.
thread_turn_baseline(d) ==
    /\ del[d].pc = "start"
    /\ \/ /\ launch # {} /\ launch' = {} /\ mark_turn_started
          /\ del' = [del EXCEPT ![d].pc = "register", ![d].base = UNION launch]
          /\ UNCHANGED <<dialect, external, inq, outq, reader, pending, reply, routing, updates,
                         endpoint, cost>>
       \/ /\ launch = {} /\ Alive /\ HasId /\ mark_turn_started
          /\ request(d, "read", 0, Fresh)
          /\ del' = [del EXCEPT ![d].pc = "base", ![d].read = Fresh]
          /\ UNCHANGED <<dialect, external, outq, reader, reply, routing, updates, launch, endpoint,
                         cost>>
       \/ launch = {} /\ ~Alive /\ FinishDelivery(d, "rejected", 0)

\* The read's answer, its time-out, or the exit: before delivery, so rejected.
BaselineRead(d) ==
    \/ \E m \in Replies(d) :
       /\ del[d].pc = "base" /\ m.id = del[d].read /\ m.kind = "read"
       /\ del' = [del EXCEPT ![d].pc = "register", ![d].base = Known(m.snap), ![d].read = 0]
       /\ reply' = reply \ {m}
       /\ UNCHANGED <<dialect, external, inq, outq, reader, pending, routing, updates, rt, launch,
                      endpoint, cost>>
    \/ /\ del[d].pc = "base" /\ \E m \in Replies(d) : m.kind = "exit"
       /\ FinishDelivery(d, "rejected", 0)

BaselineTimesOut(d) ==
    /\ del[d].pc = "base" /\ del[d].read \in pending /\ Expired(del[d].read)
    /\ Done(d, "rejected", 0) /\ mark_turn_finished /\ Forget({del[d].read})
    /\ UNCHANGED <<dialect, external, inq, outq, reader, reply, routing, updates, launch, endpoint>>

\* Mutant: a second observer of the thread takes the place of the first.
RegisterOver(d) == TRUE

\* One observer for each thread.
register_turn_waiter(d) == waiter = 0

\* Register, then send turn/start, or fail before delivery.
RegisterAndStart(d) ==
    /\ del[d].pc = "register"
    /\ \/ /\ ~register_turn_waiter(d) /\ FinishDelivery(d, "rejected", 0)
       \/ /\ register_turn_waiter(d) /\ ~Alive /\ FinishDelivery(d, "exited", 0)
       \/ /\ register_turn_waiter(d) /\ Alive /\ HasId
          /\ waiter' = d /\ signals' = <<>>
          /\ request(d, "start", 0, Fresh)
          /\ del' = [del EXCEPT ![d].pc = "starting", ![d].id = Fresh]
          /\ UNCHANGED <<dialect, external, outq, reader, reply, updates, rt, launch, endpoint, cost>>

\* parse_started: the response names the turn, or the child refused it.
StartReply(d) ==
    \E m \in Replies(d) :
    /\ del[d].pc = "starting" /\ m.id = del[d].id
    /\ CASE m.kind = "exit" -> FinishDelivery(d, "exited", 0)
         [] m.kind = "start" /\ m.status = "error" -> FinishDelivery(d, "rejected", 0)
         [] OTHER -> /\ del' = [del EXCEPT ![d].pc = "terminal", ![d].turn = m.turn, ![d].id = 0,
                                          ![d].read = 0]
                     /\ reply' = {x \in reply : x.of # d} /\ Forget({del[d].read})
                     /\ UNCHANGED <<dialect, external, inq, outq, reader, routing, updates, rt,
                                    launch, endpoint, cost>>

\* The turns of a snapshot that the baseline does not have.
new_turns(d, ts) == Known(ts) \ del[d].base

\* observe_new_turn: a terminal turn ends the delivery, a running one is awaited.
Observe(d, t, s) ==
    IF s = "running"
    THEN /\ del' = [del EXCEPT ![d].pc = "terminal", ![d].turn = t, ![d].id = 0, ![d].read = 0]
         /\ Forget({del[d].id, del[d].read}) /\ reply' = {x \in reply : x.of # d}
         /\ UNCHANGED <<dialect, external, inq, outq, reader, routing, updates, rt, launch, endpoint,
                        cost>>
    ELSE FinishDelivery(d, s, t)

\* turn/completed reaches the observer while the response is awaited, or later.
ObserveSignal(d) ==
    LET t == Head(signals) IN
    /\ waiter = d /\ signals # <<>> /\ del[d].pc \in {"starting", "terminal"}
    /\ IF IF del[d].pc = "starting" THEN t \notin del[d].base ELSE t = del[d].turn
       THEN FinishDelivery(d, turns[t], t)
       ELSE /\ signals' = Tail(signals)
            /\ UNCHANGED <<dialect, external, inq, outq, reader, pending, reply, waiter, updates, rt,
                           launch, del, endpoint, cost>>

\* The reconciliation clock, or a signal that settles nothing, reads the thread;
\* a tick while other lines are on the wire counts as a time-out.
Reconcile(d) ==
    /\ del[d].pc \in {"starting", "terminal"} /\ del[d].read = 0 /\ Replies(d) = {}
    /\ IF Alive
       THEN /\ HasId /\ request(d, "read", 0, Fresh)
            /\ IF inq = <<>> /\ outq = <<>> THEN UNCHANGED cost ELSE Pay("timeouts")
            /\ del' = [del EXCEPT ![d].read = Fresh]
            /\ UNCHANGED <<dialect, external, outq, reader, reply, routing, updates, rt, launch,
                           endpoint>>
       ELSE FinishDelivery(d, "exited", del[d].turn)

\* The read answers: exactly one new turn, the awaited turn, or nothing yet.
reconcile_while_observing(d) ==
    \E m \in Replies(d) :
    LET new == new_turns(d, m.snap)
        t == IF del[d].pc = "terminal" THEN del[d].turn ELSE CHOOSE u \in new : TRUE
    IN /\ del[d].pc \in {"starting", "terminal"} /\ m.id = del[d].read
       /\ CASE m.kind = "exit" -> FinishDelivery(d, "exited", del[d].turn)
            [] m.kind = "read" /\ del[d].pc = "starting" /\ Cardinality(new) = 1 -> Observe(d, t, m.snap[t])
            [] m.kind = "read" /\ del[d].pc = "terminal" /\ m.snap[t] \in {"completed", "failed"} ->
                 FinishDelivery(d, m.snap[t], t)
            [] OTHER -> /\ del' = [del EXCEPT ![d].read = 0] /\ reply' = reply \ {m}
                        /\ UNCHANGED <<dialect, external, inq, outq, reader, pending, routing,
                                       updates, rt, launch, endpoint, cost>>

\* The read runs out of time; its late answer finds no request.
ReadTimesOut(d) ==
    /\ del[d].pc \in {"starting", "terminal"} /\ del[d].read \in pending
    /\ Expired(del[d].read)
    /\ Forget({del[d].read}) /\ del' = [del EXCEPT ![d].read = 0]
    /\ UNCHANGED <<dialect, external, inq, outq, reader, reply, routing, updates, rt, launch, endpoint>>

\* spawn_app_server_steer_pending: poll until the id is known or the turn is over.
spawn_app_server_steer_pending(d) ==
    /\ del[d].pc = "gate"
    /\ \/ steer_state = "Ready" /\ del' = [del EXCEPT ![d].pc = "steer", ![d].turn = rt.id]
                                /\ UNCHANGED cost
       \/ steer_state = "Idle" /\ Done(d, "dropped", 0) /\ UNCHANGED cost
       \/ steer_state = "AwaitingId" /\ Done(d, "dropped", 0) /\ Pay("timeouts")
    /\ UNCHANGED <<dialect, external, inq, outq, reader, pending, reply, routing, updates, rt,
                   launch, endpoint>>

spawn_app_server_steer(d) ==
    /\ del[d].pc = "steer" /\ del[d].id = 0
    /\ IF Alive THEN /\ HasId /\ request(d, "steer", del[d].turn, Fresh)
                     /\ del' = [del EXCEPT ![d].id = Fresh]
                ELSE Done(d, "dropped", 0) /\ UNCHANGED <<pending, inq>>
    /\ UNCHANGED <<dialect, external, outq, reader, reply, routing, updates, rt, launch, endpoint, cost>>

\* turn/steer is answered, refused, or times out.
turn_steer(d) ==
    /\ del[d].pc = "steer" /\ del[d].id # 0
    /\ \/ \E m \in Replies(d) : /\ Done(d, IF m.status = "ok" THEN "steered" ELSE "dropped", del[d].turn)
                                /\ reply' = {x \in reply : x.of # d} /\ UNCHANGED <<cost, pending>>
       \/ /\ del[d].id \in pending /\ Done(d, "dropped", del[d].turn) /\ Expired(del[d].id)
          /\ Forget({del[d].id}) /\ UNCHANGED reply
    /\ UNCHANGED <<dialect, external, inq, outq, reader, routing, updates, rt, launch, endpoint>>

\* spawn_acp_prompt: the response of session/prompt is the end of the turn.
spawn_acp_prompt(d) ==
    \/ /\ del[d].pc = "send" /\ Alive /\ HasId /\ mark_turn_started
       /\ request(d, "prompt", 0, Fresh)
       /\ del' = [del EXCEPT ![d].pc = "prompt", ![d].id = Fresh]
       /\ UNCHANGED <<dialect, external, outq, reader, reply, routing, updates, launch, endpoint, cost>>
    \/ del[d].pc = "send" /\ ~Alive /\ FinishDelivery(d, "exited", 0)
    \/ \E m \in Replies(d) :
       /\ del[d].pc = "prompt"
       /\ FinishDelivery(d, CASE m.kind = "exit" -> "exited" [] m.status = "error" -> "rejected"
                      [] OTHER -> m.status, 0)

DeliveryStep(d) ==
    \/ thread_turn_baseline(d) \/ BaselineRead(d) \/ RegisterAndStart(d) \/ StartReply(d)
    \/ ObserveSignal(d) \/ Reconcile(d) \/ reconcile_while_observing(d)
    \/ spawn_app_server_steer_pending(d) \/ spawn_app_server_steer(d) \/ turn_steer(d)
    \/ spawn_acp_prompt(d) \/ BaselineTimesOut(d) \/ ReadTimesOut(d)

RpcNext ==
    \/ \E lost \in BOOLEAN : ChildTakes(lost) \/ \E t \in Turns : ChildFinishes(t, lost)
    \/ ChildExits
    \/ dispatch_inbound \/ ReaderEof \/ ReaderDrains \/ DrainUpdates \/ Reap
    \/ \E ok \in BOOLEAN : initialize(ok) \/ session_new(ok) \/ model_catalog(ok) \/ thread_start(ok)
                           \/ admit(ok)
    \/ OpenExits \/ failed_spawn \/ register_child \/ kill \/ KillReturns
    \/ \E d \in Deliveries : deliver(d) \/ DeliveryStep(d)

\* Spawned tasks run, the child answers what it took and ends its turns.
RpcFairness ==
    /\ WF_rpcVars(ChildTakes(FALSE)) /\ \A t \in Turns : WF_rpcVars(ChildFinishes(t, FALSE))
    /\ WF_rpcVars(dispatch_inbound) /\ WF_rpcVars(ReaderEof) /\ WF_rpcVars(ReaderDrains)
    /\ WF_rpcVars(DrainUpdates) /\ WF_rpcVars(Reap) /\ WF_rpcVars(register_child)
    /\ \A d \in Deliveries : /\ WF_rpcVars(DeliveryStep(d))
                              /\ WF_rpcVars(StartReply(d)) /\ WF_rpcVars(ObserveSignal(d))

RpcSpec == RpcInit /\ [][RpcNext]_rpcVars /\ RpcFairness

---------------------------------------------------------------------------
(* Properties.                                                             *)

\* "Never fabricate a concurrent turn": whatever two deliveries read of the
\* steering state, the one observer of the thread keeps it at one running turn.
NoConcurrentTurns ==
    dialect = "app-server" => Cardinality({t \in Turns : turns[t] = "running"}) <= 1

\* A delivery whose request started a turn reports the outcome of that turn,
\* whether the response, a notification or a read told it, and none is reported as
\* rejected before its start.
OutcomeHonest ==
    \A d \in Deliveries, t \in Turns :
        owner[t] = d /\ dialect = "app-server" =>
            /\ del[d].result # "rejected"
            /\ del[d].result \in {"completed", "failed"} =>
                   del[d].turn = t /\ turns[t] = del[d].result

\* The registry owns the process until its exit was seen: a failed kill, a late
\* reaper or a lost notification never leaves a running child unregistered.
RunningIsRegistered == phase = "open" /\ proc = "running" => registered

\* Lost answers, late answers and the exit of the child leave no delivery waiting.
DeliveryResolves == []<>(\A d \in Deliveries : del[d].pc \in {"new", "done"})

\* The entry of a registered child that exits by itself is removed.
ExitIsReaped == []<>~(registered /\ ~reaped /\ proc = "gone")

\* What the transport promises its callers at every instant: one turn at a time, its
\* true outcome, and no child out of reach.
HarnessSafe == RpcTypeOK /\ NoConcurrentTurns /\ OutcomeHonest /\ RunningIsRegistered
================================================================================
