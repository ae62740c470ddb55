-------------------------- MODULE ChannelMessaging --------------------------
(* Chat in a channel: the send, reply, react and add-message RPCs            *)
(* (daemon/server/channel_send.rs), the signing and durable write path they    *)
(* share (fabric/provider/chat.rs, nmp_host/write.rs), the echo and remote   *)
(* chats that come back through the demux, and the three readers that follow *)
(* a channel: channel_wait, channel_read --live and tail.                    *)
EXTENDS Integers, FiniteSets, Sequences
LOCAL INSTANCE SequencesExt

CONSTANTS
  Sessions,   \* local sessions (pubkeys)
  Backends,   \* pubkeys whose traffic channel readers never show
  Handles,    \* [label -> local session]: handle leases
  Profiles,   \* [label -> pubkey]: handles known from profiles only
  Home,       \* [session -> channel_h]
  Root,       \* [channel -> its work root]
  Traffic,    \* scenarios: [ops, readers, routes, relays, journal, hydrated, churn, time]
  TailCap,    \* capacity of the tail broadcast
  BATCH,      \* MESSAGE_BATCH of a drain
  MaxFaults   \* bound: degraded gates, refused writes, crashes and stops

ASSUME CapAssumption == TailCap \in Nat \ {0} /\ BATCH \in Nat \ {0}

VARIABLES
  scen,     \* the scenario of this behaviour
  clock,    \* unix seconds
  running,  \* sessions whose row is running
  started,  \* [session -> created_at of its row]
  op,       \* [op id -> state of the RPC or of the remote event]
  lock,     \* ops holding the NMP signing mutex (at most one)
  active,   \* the NMP engine's active account, {} for none
  nmp,      \* [relay -> [op id -> state of its durable write]]
  rows,     \* messages table: ids in rowid order
  dir,      \* [op id -> direction column]
  events,   \* ids in relay_events
  recips,   \* message_recipients: <<id, pubkey>>
  inbox,    \* inbox rows <<id, session>>
  seen,     \* ids past first_sight
  pending,  \* ids materialized whose tail event is not emitted yet
  hydrated, \* the channel's rosters are mirrored
  quar,     \* quarantined ids
  replayed, \* ids accepted by a quarantine replay
  rd,       \* [reader -> its state]
  journal,  \* schema-migration pending-write journal
  imported, \* journal writes handed to NMP
  drainer,  \* the journal task
  faults

sendVars == <<op, lock, active>>
storeVars == <<rows, dir, events, recips, inbox>>
demuxVars == <<seen, pending, hydrated, quar, replayed>>
journalVars == <<journal, imported, drainer>>
hostVars == <<clock, running, started>>
messagingVars == <<scen, hostVars, sendVars, nmp, storeVars, demuxVars, rd, journalVars, faults>>

Ids == DOMAIN op
Relays == scen.relays   \* configured group hosts
Op(o) == scen.ops[o]
Local(o) == Op(o).kind # "remote"
Chat(o) == Op(o).kind \notin {"react", "orch"}
Rowid(m) == SelectInSeq(rows, LAMBDA x : x = m)

NewOp == [pc |-> "idle", scope |-> {}, ment |-> {}, at |-> 0, by |-> {}, prev |-> {},
          reply |-> 0]
NewReader == [pc |-> "idle", sub |-> FALSE, q |-> <<>>, lag |-> FALSE, start |-> 0,
              cursor |-> 0, cur |-> <<0, 0>>, shown |-> <<>>, got |-> {}]

MessagingInit ==
  /\ scen \in Traffic
  /\ clock = 1
  /\ running = Sessions
  /\ started = [s \in Sessions |-> 0]
  /\ op = [o \in DOMAIN scen.ops |-> NewOp]
  /\ lock = {} /\ active = {}
  /\ nmp = [r \in scen.relays |-> [o \in DOMAIN scen.ops |-> "none"]]
  /\ rows = <<>> /\ dir = [o \in DOMAIN scen.ops |-> "none"]
  /\ events = {} /\ recips = {} /\ inbox = {}
  /\ seen = {} /\ pending = {} /\ hydrated = scen.hydrated /\ quar = {} /\ replayed = {}
  /\ rd = [r \in DOMAIN scen.readers |-> NewReader]
  /\ journal = scen.journal /\ imported = {} /\ drainer = "idle"
  /\ faults = 0

Fault == faults < MaxFaults /\ faults' = faults + 1

----------------------------------------------------------------------------
(* The message store. *)

\* INSERT ... ON CONFLICT(message_id) DO UPDATE: the row keeps its rowid, and
\* 'outbound' is sticky.
record_message(m, d) ==
  /\ rows' = IF m \in Range(rows) THEN rows ELSE Append(rows, m)
  /\ dir' = [dir EXCEPT ![m] = IF @ = "outbound" THEN @ ELSE d]

add_message_recipient(m, ps) == recips' = recips \cup ({m} \X ps)

latest_message_rowid == Len(rows)

messages_after_rowid(n) == SubSeq(rows, n + 1, IF n + BATCH < Len(rows) THEN n + BATCH ELSE Len(rows))

message_reply_target(m) == IF m \in events THEN op[m].reply ELSE 0

\* The chat order: (created_at, message_id).
Key(m) == <<op[m].at, m>>
Before(a, b) == a[1] < b[1] \/ (a[1] = b[1] /\ a[2] < b[2])

Sorted(ms) == SetToSortSeq(ms, LAMBDA a, b : Before(Key(a), Key(b)))

chat_messages_for_channel(c) == Sorted({m \in Range(rows) : op[m].scope = {c}})

chat_messages_for_channel_after(c, k) ==
  Sorted({m \in Range(rows) : op[m].scope = {c} /\ Before(k, Key(m))})

is_backend_row(m) ==
  Op(m).from \in Backends \/ \E p \in Backends : <<m, p>> \in recips

----------------------------------------------------------------------------
(* The tail broadcast: every subscriber has a bounded queue. *)

emit_tail(m, rs) ==
  [r \in DOMAIN rs |->
     IF ~rs[r].sub THEN rs[r]
     ELSE IF Len(rs[r].q) < TailCap THEN [rs[r] EXCEPT !.q = Append(@, m)]
     ELSE [rs[r] EXCEPT !.q = Append(Tail(@), m), !.lag = TRUE]]

tail_subscribe(r) == [rd EXCEPT ![r].sub = TRUE]

----------------------------------------------------------------------------
(* Targets and recipients. *)

\* A literal @name with no --tag is refused unless forced.
mention_guard_check(o) == Op(o).force \/ Op(o).tags # <<>> \/ Op(o).body # "mention"

resolve_recipient(label, dest) ==
  IF label \in DOMAIN Handles
    THEN {[pubkey |-> Handles[label], channel |-> Home[Handles[label]]]}
    ELSE IF label \in DOMAIN Profiles THEN {[pubkey |-> Profiles[label], channel |-> dest]}
    ELSE {}

\* An explicit channel pins; with no route the home channel, with one that
\* channel, with several the call is ambiguous.
resolve_chat_target(o) ==
  LET joined == scen.routes[Op(o).from] IN
  CASE Op(o).chan # {} -> Op(o).chan
    [] joined = {} -> {Home[Op(o).from]}
    [] Cardinality(joined) = 1 -> joined
    [] OTHER -> {}

reject_self_target(o, p) == p # Op(o).from

\* Every tag resolves, to somebody else, under the same work root.
TagsOk(o, dest) ==
  \A i \in DOMAIN Op(o).tags :
    \E t \in resolve_recipient(Op(o).tags[i], dest) :
      reject_self_target(o, t.pubkey) /\ (t.channel = dest \/ Root[t.channel] = Root[dest])

Tagged(o, dest) ==
  {t.pubkey : t \in UNION {resolve_recipient(l, dest) : l \in Range(Op(o).tags)}}

FirstChannel(o, dest) == (CHOOSE t \in resolve_recipient(Op(o).tags[1], dest) : TRUE).channel

chat_publish_scope(o, dest) ==
  IF Op(o).chan # {} THEN dest
  ELSE IF Op(o).tags # <<>> THEN FirstChannel(o, dest) ELSE dest

get_message_by_prefix(m) == IF m \in Range(rows) THEN {m} ELSE {}

Fail(o) == op' = [op EXCEPT ![o].pc = "failed"]

SendOk(o) == mention_guard_check(o) /\ \E d \in resolve_chat_target(o) : TagsOk(o, d)

\* rpc_channel_send up to its first await on NMP; post_add_message is a send of
\* the invite's own parameters with "@handle message" for body.
rpc_channel_send(o) ==
  /\ op[o].pc = "idle" /\ Op(o).kind \in {"send", "add"} /\ Op(o).from \in running
  /\ IF SendOk(o)
       THEN \E d \in resolve_chat_target(o) :
              op' = [op EXCEPT ![o].pc = "signing", ![o].ment = Tagged(o, d),
                               ![o].scope = {chat_publish_scope(o, d)}]
       ELSE Fail(o)
  /\ UNCHANGED <<scen, hostVars, lock, active, nmp, storeVars, demuxVars, rd, journalVars, faults>>

\* Replies and reactions find the original in the read model.
rpc_channel_reply(o) ==
  /\ op[o].pc = "idle" /\ Op(o).kind \in {"reply", "react"} /\ Op(o).from \in running
  /\ IF \E m \in get_message_by_prefix(Op(o).orig) :
          Op(o).kind = "reply" => reject_self_target(o, Op(m).from)
       THEN LET m == Op(o).orig IN
            op' = [op EXCEPT ![o].pc = "signing", ![o].scope = op[m].scope,
                             ![o].ment = IF Op(o).kind = "reply" THEN {Op(m).from} ELSE {},
                             ![o].reply = m]
       ELSE Fail(o)
  /\ UNCHANGED <<scen, hostVars, lock, active, nmp, storeVars, demuxVars, rd, journalVars, faults>>

\* An orchestration event published and waited for (invite, move).
publish_invite_orchestration(o) ==
  /\ op[o].pc = "idle" /\ Op(o).kind = "orch"
  /\ op' = [op EXCEPT ![o].pc = "signing", ![o].scope = Op(o).chan]
  /\ UNCHANGED <<scen, hostVars, lock, active, nmp, storeVars, demuxVars, rd, journalVars, faults>>

----------------------------------------------------------------------------
(* NmpHost::sign_event: under the signing mutex the active account is        *)
(* switched to the author, the event is signed by it, and the previous       *)
(* account is restored.                                                      *)

SelectAccount(o) ==
  /\ op[o].pc = "signing" /\ lock = {}
  /\ lock' = {o}
  /\ op' = [op EXCEPT ![o].pc = "selected", ![o].at = clock, ![o].prev = active]
  /\ active' = {Op(o).from}
  /\ UNCHANGED <<scen, hostVars, nmp, storeVars, demuxVars, rd, journalVars, faults>>

sign_event(o) ==
  /\ op[o].pc = "selected"
  /\ op' = [op EXCEPT ![o].pc = "signed", ![o].by = active]
  /\ UNCHANGED <<scen, hostVars, lock, active, nmp, storeVars, demuxVars, rd, journalVars, faults>>

\* A failed restore fails the sign and leaves the author selected.
RestoreAccount(o) ==
  /\ op[o].pc = "signed"
  /\ lock' = lock \ {o}
  /\ \/ /\ active' = op[o].prev /\ faults' = faults
        /\ op' = [op EXCEPT ![o].pc = "gating"]
     \/ Fault /\ Fail(o) /\ UNCHANGED active
  /\ UNCHANGED <<scen, hostVars, nmp, storeVars, demuxVars, rd, journalVars>>

----------------------------------------------------------------------------
(* The checked publish: gate, durable enqueue, local read models.           *)

publish_signed_chat_event_checked(o) ==
  /\ op[o].pc = "gating"
  /\ \/ op' = [op EXCEPT ![o].pc = "gated"] /\ faults' = faults
     \/ Op(o).kind # "orch" /\ Fault /\ Fail(o)
  /\ UNCHANGED <<scen, hostVars, lock, active, nmp, storeVars, demuxVars, rd, journalVars>>

\* One durable intent per configured relay; an engine error part-way leaves the
\* earlier intents in place and fails the call.
submit_intents(o) ==
  /\ op[o].pc = "gated"
  /\ \/ /\ nmp' = [r \in Relays |-> [nmp[r] EXCEPT ![o] = "queued"]]
        /\ faults' = faults
        /\ op' = [op EXCEPT ![o].pc = IF Op(o).kind = "orch" THEN "receipt" ELSE "enqueued"]
     \/ /\ Fault /\ Fail(o)
        /\ \E R \in SUBSET Relays :
             /\ R # Relays
             /\ nmp' = [r \in Relays |-> IF r \in R THEN [nmp[r] EXCEPT ![o] = "queued"] ELSE nmp[r]]
  /\ UNCHANGED <<scen, hostVars, lock, active, storeVars, demuxVars, rd, journalVars>>

Acknowledged(o) == \E r \in Relays : nmp[r][o] = "acked"

\* wait_for_write_blocking, checked: Ok on the first acknowledgement, an error
\* when every relay refused or WRITE_RECEIPT_TIMEOUT passes, whatever the
\* durable write does later.
wait_for_write_blocking(o) ==
  /\ op[o].pc = "receipt"
  /\ \/ Acknowledged(o) /\ op' = [op EXCEPT ![o].pc = "done"]
     \/ Fail(o)
  /\ UNCHANGED <<scen, hostVars, lock, active, nmp, storeVars, demuxVars, rd, journalVars, faults>>

\* seed_chat_read_models; a reaction materializes into its own table.
seed_chat_read_models(o) ==
  /\ op[o].pc = "enqueued"
  /\ IF Chat(o)
       THEN /\ record_message(o, "outbound") /\ add_message_recipient(o, op[o].ment)
            /\ events' = events \cup {o}
            /\ op' = [op EXCEPT ![o].pc = "seeded"]
       ELSE op' = [op EXCEPT ![o].pc = "done"] /\ UNCHANGED <<rows, dir, recips, events>>
  /\ UNCHANGED <<scen, hostVars, lock, active, nmp, inbox, demuxVars, rd, journalVars, faults>>

Joined(s, o) == op[o].scope \subseteq scen.routes[s]

\* A send reaches tagged running sessions that existed when it was signed; a
\* reply its original author, if running and joined.
RoutedTo(o) ==
  {s \in running :
     /\ s \in op[o].ment /\ s # Op(o).from
     /\ IF Op(o).kind = "reply" THEN Joined(s, o) ELSE started[s] <= op[o].at}

RouteLocally(o) ==
  /\ op[o].pc = "seeded"
  /\ inbox' = inbox \cup ({o} \X RoutedTo(o))
  /\ recips' = IF Op(o).kind = "reply" THEN recips ELSE recips \cup ({o} \X RoutedTo(o))
  /\ op' = [op EXCEPT ![o].pc = "routed"]
  /\ UNCHANGED <<scen, hostVars, lock, active, nmp, rows, dir, events, demuxVars, rd, journalVars, faults>>

FinishSend(o) ==
  /\ op[o].pc = "routed"
  /\ rd' = emit_tail(o, rd)
  /\ op' = [op EXCEPT ![o].pc = "done"]
  /\ UNCHANGED <<scen, hostVars, lock, active, nmp, storeVars, demuxVars, journalVars, faults>>

----------------------------------------------------------------------------
(* The relays, and what comes back through the demux.                        *)

\* A relay takes a durable write, or refuses it for good.
RelayAnswers(r, o) ==
  /\ nmp[r][o] = "queued"
  /\ \/ nmp' = [nmp EXCEPT ![r][o] = "acked"] /\ faults' = faults
     \/ nmp' = [nmp EXCEPT ![r][o] = "refused"] /\ Fault
  /\ UNCHANGED <<scen, hostVars, sendVars, storeVars, demuxVars, rd, journalVars>>

\* Somebody else's chat, with its own clock.
RemotePublishes(o) ==
  /\ op[o].pc = "idle" /\ ~Local(o)
  /\ Op(o).orig # 0 => \E r \in Relays : nmp[r][Op(o).orig] = "acked"
  /\ \E t \in 0..clock :
       op' = [op EXCEPT ![o].pc = "done", ![o].at = t, ![o].scope = Op(o).chan,
                        ![o].by = {Op(o).from}, ![o].ment = Range(Op(o).tags),
                        ![o].reply = Op(o).orig]
  /\ nmp' = [r \in Relays |-> [nmp[r] EXCEPT ![o] = "acked"]]
  /\ UNCHANGED <<scen, hostVars, lock, active, storeVars, demuxVars, rd, journalVars, faults>>

route_chat(o) == {o} \X {s \in op[o].ment \cap Sessions : s # Op(o).from /\ Joined(s, o)}

accept_chat(o) ==
  /\ events' = events \cup {o}
  /\ record_message(o, "inbound")
  /\ recips' = recips \cup ({o} \X op[o].ment)
  /\ inbox' = inbox \cup route_chat(o)

\* on_event: materialize, and emit a tail event only on first sight and not for a
\* hosted author.  A redelivery writes nothing new.
on_event(o) ==
  /\ Chat(o) /\ \E r \in Relays : nmp[r][o] = "acked"
  /\ o \notin seen \cup pending
  /\ seen' = seen \cup {o}
  /\ IF hydrated
       THEN /\ accept_chat(o) /\ quar' = quar \ {o}
            /\ pending' = IF Local(o) THEN pending ELSE pending \cup {o}
       ELSE /\ quar' = quar \cup {o}
            /\ UNCHANGED <<storeVars, pending>>
  /\ UNCHANGED <<scen, hostVars, sendVars, nmp, hydrated, replayed, rd, journalVars, faults>>

derive_and_emit_tail_events(o) ==
  /\ o \in pending
  /\ pending' = pending \ {o}
  /\ rd' = emit_tail(o, rd)
  /\ UNCHANGED <<scen, hostVars, sendVars, nmp, storeVars, seen, hydrated, quar, replayed, journalVars, faults>>

\* The rosters arrive: quarantined chats are accepted, oldest first; the tail
\* hears nothing.
replay_quarantined_chat ==
  /\ ~hydrated /\ hydrated' = TRUE
  /\ LET ms == Sorted(quar) IN
     /\ rows' = rows \o SelectSeq(ms, LAMBDA m : m \notin Range(rows))
     /\ dir' = [m \in Ids |-> IF m \in quar /\ dir[m] # "outbound" THEN "inbound" ELSE dir[m]]
     /\ events' = events \cup quar
     /\ recips' = recips \cup UNION {{m} \X op[m].ment : m \in quar}
     /\ inbox' = inbox \cup UNION {route_chat(m) : m \in quar}
  /\ replayed' = quar /\ quar' = {}
  /\ UNCHANGED <<scen, hostVars, sendVars, nmp, seen, pending, rd, journalVars, faults>>

----------------------------------------------------------------------------
(* channel_wait *)

Rd(r) == scen.readers[r]

\* A reply wait starts at the original's row, any other at the newest row.
wait_scope_and_cursor(r) ==
  /\ Rd(r).kind = "wait" /\ rd[r].pc = "idle"
  /\ IF Rd(r).reply = 0
       THEN rd' = [rd EXCEPT ![r].pc = "subscribing", ![r].start = latest_message_rowid,
                             ![r].cursor = latest_message_rowid]
       ELSE IF Rd(r).reply \in Range(rows) /\ Op(Rd(r).reply).from = Rd(r).sess
       THEN rd' = [rd EXCEPT ![r].pc = "subscribing", ![r].start = Rowid(Rd(r).reply),
                             ![r].cursor = Rowid(Rd(r).reply)]
       ELSE rd' = [rd EXCEPT ![r].pc = "failed"]
  /\ UNCHANGED <<scen, hostVars, sendVars, nmp, storeVars, demuxVars, journalVars, faults>>

WaitSubscribes(r) ==
  /\ Rd(r).kind = "wait" /\ rd[r].pc = "subscribing"
  /\ rd' = [tail_subscribe(r) EXCEPT ![r].pc = "draining"]
  /\ UNCHANGED <<scen, hostVars, sendVars, nmp, storeVars, demuxVars, journalVars, faults>>

Matches(r, m) ==
  /\ op[m].scope \subseteq Rd(r).scopes /\ Op(m).from # Rd(r).sess
  /\ ~is_backend_row(m)
  /\ Rd(r).authors = {} \/ Op(m).from \in Rd(r).authors
  /\ Rd(r).reply # 0 => message_reply_target(m) = Rd(r).reply

FirstMatch(r, batch) == SelectInSeq(batch, LAMBDA m : Matches(r, m))

\* One batch of drain_matching: the first match ends the wait; an empty or
\* short batch goes to sleep.
drain_matching(r) ==
  /\ Rd(r).kind = "wait" /\ rd[r].pc = "draining"
  /\ LET batch == messages_after_rowid(rd[r].cursor)
         i == FirstMatch(r, batch)
     IN rd' = IF i # 0
                THEN [rd EXCEPT ![r].pc = "message", ![r].sub = FALSE, ![r].q = <<>>, ![r].got = {batch[i]}]
                ELSE [rd EXCEPT ![r].cursor = @ + Len(batch),
                                ![r].pc = IF Len(batch) = BATCH THEN "draining" ELSE "sleeping"]
  /\ UNCHANGED <<scen, hostVars, sendVars, nmp, storeVars, demuxVars, journalVars, faults>>

\* Mutant: a lagged receiver goes back to sleep.
WaitIgnoringLag(r) ==
  /\ Rd(r).kind = "wait" /\ rd[r].pc = "sleeping"
  /\ \/ rd[r].lag /\ rd' = [rd EXCEPT ![r].lag = FALSE, ![r].q = <<>>]
     \/ ~rd[r].lag /\ rd[r].q # <<>> /\ rd' = [rd EXCEPT ![r].q = Tail(@), ![r].pc = "draining"]
  /\ UNCHANGED <<scen, hostVars, sendVars, nmp, storeVars, demuxVars, journalVars, faults>>

\* Any tail event, or a lag, re-drains.
WaitWakes(r) ==
  /\ Rd(r).kind = "wait" /\ rd[r].pc = "sleeping"
  /\ \/ rd[r].lag /\ rd' = [rd EXCEPT ![r].lag = FALSE, ![r].pc = "draining"]
     \/ ~rd[r].lag /\ rd[r].q # <<>> /\ rd' = [rd EXCEPT ![r].q = Tail(@), ![r].pc = "draining"]
  /\ UNCHANGED <<scen, hostVars, sendVars, nmp, storeVars, demuxVars, journalVars, faults>>

\* The deadline passes while subscribing or asleep.
WaitTimesOut(r) ==
  /\ Rd(r).kind = "wait" /\ rd[r].pc \in {"subscribing", "sleeping"}
  /\ rd' = [rd EXCEPT ![r].pc = "timeout", ![r].sub = FALSE, ![r].q = <<>>]
  /\ UNCHANGED <<scen, hostVars, sendVars, nmp, storeVars, demuxVars, journalVars, faults>>

----------------------------------------------------------------------------
(* channel_read --live and tail *)

\* The history window: the last `limit` rows with tail, the first ones without.
Window(r, ms) ==
  LET n == Len(ms) IN
  IF Rd(r).limit = 0 \/ Rd(r).limit >= n THEN ms ELSE SubSeq(ms, n - Rd(r).limit + 1, n)

Visible(ms) == SelectSeq(ms, LAMBDA m : ~is_backend_row(m))

Latest(a, b) == IF Before(a, b) THEN b ELSE a

\* ChatCursor::observe over a sequence of rows.
observe(k, ms) == IF ms = <<>> THEN k ELSE Latest(k, Key(ms[Len(ms)]))

\* handle_channel_read subscribes before it reads the history.
LiveSubscribes(r) ==
  /\ Rd(r).kind \in {"live", "tail"} /\ rd[r].pc = "idle"
  /\ rd' = [tail_subscribe(r) EXCEPT ![r].pc = "history"]
  /\ UNCHANGED <<scen, hostVars, sendVars, nmp, storeVars, demuxVars, journalVars, faults>>

\* History is written; the cursor is the later of now and the newest row shown.
handle_channel_read(r) ==
  /\ Rd(r).kind = "live" /\ rd[r].pc = "history"
  /\ LET ms == Window(r, Visible(chat_messages_for_channel(Rd(r).chan))) IN
     rd' = [rd EXCEPT ![r].pc = "live", ![r].shown = ms, ![r].start = Len(rows),
                      ![r].cursor = clock, ![r].cur = observe(<<clock, 0>>, ms)]
  /\ UNCHANGED <<scen, hostVars, sendVars, nmp, storeVars, demuxVars, journalVars, faults>>

\* A Msg of the channel fetches what lies beyond the cursor; a lag ends the
\* stream with an error.
LiveNext(r) ==
  /\ Rd(r).kind = "live" /\ rd[r].pc = "live"
  /\ \/ rd[r].lag /\ rd' = [rd EXCEPT ![r].pc = "lagged", ![r].sub = FALSE, ![r].q = <<>>]
     \/ /\ ~rd[r].lag /\ rd[r].q # <<>>
        /\ LET ms == IF op[Head(rd[r].q)].scope = {Rd(r).chan}
                       THEN chat_messages_for_channel_after(Rd(r).chan, rd[r].cur) ELSE <<>>
           IN rd' = [rd EXCEPT ![r].q = Tail(@), ![r].cur = observe(@, ms),
                               ![r].shown = @ \o SelectSeq(Visible(ms),
                                                  LAMBDA m : m \notin Range(rd[r].shown))]
  /\ UNCHANGED <<scen, hostVars, sendVars, nmp, storeVars, demuxVars, journalVars, faults>>

build_backfill(r) ==
  /\ Rd(r).kind = "tail" /\ rd[r].pc = "history"
  /\ rd' = [rd EXCEPT ![r].pc = "live", ![r].shown = chat_messages_for_channel(Rd(r).chan)]
  /\ UNCHANGED <<scen, hostVars, sendVars, nmp, storeVars, demuxVars, journalVars, faults>>

handle_tail(r) ==
  /\ Rd(r).kind = "tail" /\ rd[r].pc = "live"
  /\ \/ rd[r].lag /\ rd' = [rd EXCEPT ![r].pc = "lagged", ![r].sub = FALSE, ![r].q = <<>>]
     \/ /\ ~rd[r].lag /\ rd[r].q # <<>>
        /\ rd' = [rd EXCEPT ![r].q = Tail(@),
                            ![r].shown = IF op[Head(rd[r].q)].scope = {Rd(r).chan}
                                           THEN Append(@, Head(rd[r].q)) ELSE @]
  /\ UNCHANGED <<scen, hostVars, sendVars, nmp, storeVars, demuxVars, journalVars, faults>>

----------------------------------------------------------------------------
(* The journal of writes a schema migration carried over.                    *)

Importable(w) == w.form \in {"group", "profile"}

Imports(n) == {journal[i].id : i \in {j \in 1..n : Importable(journal[j])}}

\* Rows 1..n were read; corrupt ones stay, and an engine error (or a form NMP
\* refuses) keeps its row and all later ones.
Remaining(n) ==
  SelectSeq(SubSeq(journal, 1, n), LAMBDA w : w.form = "corrupt")
    \o SubSeq(journal, n + 1, Len(journal))

FirstRefused ==
  LET i == SelectInSeq(journal, LAMBDA w : w.form = "other") IN IF i = 0 THEN Len(journal) ELSE i - 1

\* drain_once up to its rewrite of the journal: every importable row up to the
\* first error is enqueued.
drain_once ==
  /\ drainer = "idle" /\ journal # <<>>
  /\ \/ drainer' = "enqueued" /\ imported' = imported \cup Imports(FirstRefused) /\ journal' = journal
        /\ faults' = faults
     \/ /\ Fault
        /\ \E n \in 0..(FirstRefused - 1) :
             /\ imported' = imported \cup Imports(n) /\ journal' = Remaining(n) /\ drainer' = "retry"
  /\ UNCHANGED <<scen, hostVars, sendVars, nmp, storeVars, demuxVars, rd>>

\* replace_pending_writes, or a crash before it.
replace_pending_writes ==
  /\ drainer = "enqueued"
  /\ \/ /\ journal' = Remaining(FirstRefused) /\ faults' = faults
        /\ drainer' = IF journal' = <<>> THEN "complete" ELSE "retry"
     \/ Fault /\ drainer' = "idle" /\ UNCHANGED journal
  /\ UNCHANGED <<scen, hostVars, sendVars, nmp, storeVars, demuxVars, rd, imported>>

----------------------------------------------------------------------------
(* Time and sessions. *)

MessagingTick ==
  /\ clock < scen.time /\ clock' = clock + 1
  /\ UNCHANGED <<scen, running, started, sendVars, nmp, storeVars, demuxVars, rd, journalVars, faults>>

SessionStops(s) ==
  /\ s \in running \cap scen.churn /\ Fault
  /\ \A o \in Ids : Op(o).from = s => op[o].pc \in {"idle", "done", "failed"}
  /\ running' = running \ {s}
  /\ UNCHANGED <<scen, clock, started, sendVars, nmp, storeVars, demuxVars, rd, journalVars>>

\* A restart rewrites created_at.
SessionRestarts(s) ==
  /\ s \notin running
  /\ running' = running \cup {s} /\ started' = [started EXCEPT ![s] = clock]
  /\ UNCHANGED <<scen, clock, sendVars, nmp, storeVars, demuxVars, rd, journalVars, faults>>

RpcStep(o) ==
  \/ rpc_channel_send(o) \/ rpc_channel_reply(o) \/ publish_invite_orchestration(o)
  \/ SelectAccount(o) \/ sign_event(o) \/ RestoreAccount(o)
  \/ publish_signed_chat_event_checked(o) \/ submit_intents(o) \/ wait_for_write_blocking(o)
  \/ seed_chat_read_models(o) \/ RouteLocally(o) \/ FinishSend(o)

ReaderStep(r) ==
  \/ wait_scope_and_cursor(r) \/ WaitSubscribes(r) \/ drain_matching(r) \/ WaitWakes(r)
  \/ LiveSubscribes(r) \/ handle_channel_read(r) \/ LiveNext(r) \/ build_backfill(r) \/ handle_tail(r)

MessagingNext ==
  \/ \E o \in Ids : RpcStep(o)
  \/ \E o \in Ids : \E r \in Relays : RelayAnswers(r, o)
  \/ \E o \in Ids : RemotePublishes(o) \/ on_event(o) \/ derive_and_emit_tail_events(o)
  \/ \E r \in DOMAIN rd : ReaderStep(r)
  \/ \E r \in DOMAIN rd : WaitTimesOut(r)
  \/ replay_quarantined_chat
  \/ drain_once \/ replace_pending_writes
  \/ MessagingTick
  \/ \E s \in Sessions : SessionStops(s) \/ SessionRestarts(s)

MessagingFairness ==
  /\ WF_messagingVars(\E o \in Ids : RpcStep(o))
  /\ WF_messagingVars(\E r \in DOMAIN rd : ReaderStep(r))

MessagingSpec == MessagingInit /\ [][MessagingNext]_messagingVars /\ MessagingFairness
----------------------------------------------------------------------------

\* State of the right shape; ids recorded once each.
MessagingTypeOK ==
  /\ clock \in 1..scen.time /\ running \subseteq Sessions /\ faults \in 0..MaxFaults
  /\ Cardinality(lock) <= 1 /\ Cardinality(active) <= 1
  /\ \A o \in Ids :
       /\ op[o].pc \in {"idle", "signing", "selected", "signed", "gating", "gated", "receipt",
                        "enqueued", "seeded", "routed", "done", "failed"}
       /\ dir[o] \in {"none", "inbound", "outbound"}
       /\ dir[o] = "none" <=> o \notin Range(rows)
  /\ Len(rows) = Cardinality(Range(rows))
  /\ \A r \in DOMAIN rd : Len(rd[r].q) <= TailCap /\ rd[r].cursor <= Len(rows) + scen.time
  /\ quar \cap events = {}

\* A row whose tail event has been broadcast: everything but a chat replayed
\* out of quarantine, and a chat whose sending call failed part-way.
Announced(m) ==
  /\ m \notin replayed \cup pending
  /\ Local(m) => op[m].pc = "done"

\* sign_event under the signing mutex: no interleaving of two senders signs a
\* message with the other sender's account.
SignedByCaller == \A o \in Ids : op[o].by \subseteq {Op(o).from}

\* record_message: whether the relay's echo or the local seed comes first, the
\* author's own row ends up outbound (pubkey_has_outbound_message_since
\* depends on it).
OutboundSticky ==
  \A o \in Ids : Local(o) /\ Chat(o) /\ op[o].pc \in {"seeded", "routed", "done"} => dir[o] = "outbound"

\* rpc_channel_send: a tagged session that ran all along has the mention in its
\* inbox when the call returns, joined to the channel or not.
MentionQueued ==
  \A o \in Ids : Op(o).kind = "send" /\ op[o].pc = "done" =>
    \A s \in op[o].ment \cap running : started[s] = 0 => <<o, s>> \in inbox

\* drain_matching: the wait returns the first match that arrived after its
\* cursor, whatever the events' own timestamps say.
WaitFirstMatch ==
  \A r \in DOMAIN rd : \A m \in rd[r].got :
    /\ Matches(r, m) /\ Rowid(m) > rd[r].start
    /\ \A i \in (rd[r].start + 1)..(Rowid(m) - 1) : ~Matches(r, rows[i])

\* rpc_channel_wait subscribes before its first drain and re-drains on every
\* event and on a lag: a waiter that sleeps with nothing queued has no
\* announced match to return.
NoLostWakeup ==
  \A r \in DOMAIN rd :
    rd[r].pc = "sleeping" /\ Rd(r).kind = "wait" /\ rd[r].q = <<>> /\ ~rd[r].lag =>
      \A i \in (rd[r].start + 1)..Len(rows) : Announced(rows[i]) => ~Matches(r, rows[i])

\* channel_read --live: an idle stream has shown every announced row that came
\* after its history, in chat order and not older than the stream.
LiveInOrder ==
  \A r \in DOMAIN rd :
    rd[r].pc = "live" /\ Rd(r).kind = "live" /\ rd[r].q = <<>> /\ ~rd[r].lag =>
      \A i \in (rd[r].start + 1)..Len(rows) :
        LET m == rows[i] IN
        /\ op[m].scope = {Rd(r).chan} /\ ~is_backend_row(m) /\ Announced(m)
        /\ op[m].at >= rd[r].cursor
        /\ \A j \in 1..(i - 1) : op[rows[j]].scope = op[m].scope => Before(Key(rows[j]), Key(m))
        => m \in Range(rd[r].shown)

\* handle_tail subscribes before its backfill: between the backfill, the queue
\* and the stream no announced row is missing unless the stream ended lagged.
TailComplete ==
  \A r \in DOMAIN rd : rd[r].pc = "live" /\ Rd(r).kind = "tail" /\ ~rd[r].lag =>
    \A m \in Range(rows) : op[m].scope = {Rd(r).chan} /\ Announced(m) =>
      m \in Range(rd[r].shown) \cup Range(rd[r].q)

\* wait_for_write_blocking, checked: success means some relay has the event,
\* even when the submission was refused elsewhere.
ReceiptHonest ==
  \A o \in Ids : Op(o).kind = "orch" /\ op[o].pc = "done" => \E r \in Relays : nmp[r][o] = "acked"

\* drain_once: across errors and crashes every write the journal can import is
\* with NMP or still in the journal.
NoWriteLost ==
  \A i \in DOMAIN scen.journal :
    scen.journal[i].id \in imported \/ scen.journal[i] \in Range(journal)

\* Every call that started returns: the signing mutex is released on every
\* path, and receipts time out.
RpcsSettle == []<>(\A o \in Ids : op[o].pc \in {"idle", "done", "failed"})

\* What senders and readers of a channel can rely on at every instant, whatever
\* relays, accounts, lags and crashes come between.
MessagingSafe == MessagingTypeOK /\ SignedByCaller /\ OutboundSticky /\ MentionQueued
                 /\ WaitFirstMatch /\ NoLostWakeup /\ LiveInOrder /\ TailComplete
                 /\ ReceiptHonest /\ NoWriteLost
=============================================================================
