----------------------------- MODULE StoreSchema -----------------------------
(***************************************************************************)
(* The startup of the daemon's store: reading the stamped version of       *)
(* state.db, running the chain of migrations to the version of this        *)
(* binary, creating the missing tables, validating the canonical shape and *)
(* stamping it (src/state/core.rs, src/state/schema).                      *)
(*                                                                         *)
(* A column is a pair <<table, column>>, and only the columns that some    *)
(* require_shape, some migration or the validation tells apart are kept; a *)
(* table without such a column is <<table, "">>.  Of the rows the model    *)
(* keeps the ones no relay can rebuild: sessions, locators, routes,        *)
(* standing, inbox, recipients and the schema-7 outbox.                    *)
(***************************************************************************)
EXTENDS Integers, Sequences, FiniteSets, SequencesExt, TLC

CONSTANTS
  Deployed,     \* the files a daemon may find: [ver, cols, data, wellformed]
  SMaxFaults    \* how many times the process may die or be stopped

SCHEMA_VERSION == 17
OLDEST_SUPPORTED_VERSION == 4

ASSUME SFaultsAssumption == SMaxFaults \in Nat

VARIABLES
  db,        \* the file: [ver, cols, data]
  journal,   \* the sidecar of schema-7 writes, in order
  accepted,  \* writes the NMP queue has taken over from the journal
  proc,      \* the starting process: [at, initial, part]
  origin,    \* the file as it was found first, a history variable
  sfaults

svars == <<db, journal, accepted, proc, origin, sfaults>>

(***************************************************************************)
(* The columns of each version.                                            *)
(***************************************************************************)
Cols(table, names) == {table} \X names

V4Columns ==
  Cols("sessions", {"session_id", "agent_pubkey", "alive", "working", "harness",
                    "last_distill_at", "activity", "explicit_chat_published_at",
                    "transcript_path"})
    \cup Cols("session_aliases", {"external_id"})
    \cup Cols("session_channels", {"session_id", "joined_at"})
    \cup Cols("session_claims", {"session_id"})
    \cup Cols("messages", {"author_session"})
    \cup Cols("message_recipients", {"target_session"})
    \cup Cols("llm_calls", {"session_id"})
    \cup {"identities", "outbox", "trellis", "inbox", "session_signers", "relay_events",
          "relay_profiles", "relay_agent_roster"} \X {""}
    \cup Cols("relay_status", {"busy"})

\* What a migration from version v drops and adds, the two that look at the
\* relay tables first (schema 12 and 16) in DropsFrom and AddsFrom below.
Drops ==
  (4 :> {<<"messages", "author_session">>, <<"message_recipients", "target_session">>})
  @@ (5 :> Cols("sessions", {"session_id", "agent_pubkey"})
             \cup Cols("session_channels", {"session_id"})
             \cup Cols("session_claims", {"session_id"})
             \cup Cols("llm_calls", {"session_id"})
             \cup {<<"session_aliases", "external_id">>, <<"identities", "">>})
  @@ (6 :> Cols("sessions", {"last_distill_at", "activity"}) \cup Cols("llm_calls", {"pubkey"}))
  @@ (7 :> {<<"outbox", "">>, <<"trellis", "">>})
  @@ (8 :> Cols("sessions", {"harness"}))
  @@ (9 :> Cols("sessions", {"alive", "working"}) \cup Cols("session_claims", {"pubkey"})
             \cup Cols("session_channels", {"joined_at"}))
  @@ (15 :> Cols("sessions", {"explicit_chat_published_at", "transcript_path"}))

Adds ==
  (4 :> {<<"messages", "">>, <<"message_recipients", "">>})
  @@ (5 :> Cols("sessions", {"pubkey", "runtime_generation"})
             \cup Cols("session_channels", {"pubkey"})
             \cup Cols("session_claims", {"pubkey"}) \cup Cols("llm_calls", {"pubkey"})
             \cup Cols("session_locators", {"pubkey"}))
  @@ (7 :> Cols("sessions", {"work_root", "readiness_parent"}))
  @@ (8 :> Cols("sessions", {"observed_harness", "claimed_harness", "admitted_transport",
                             "endpoint_provenance"}))
  @@ (9 :> Cols("sessions", {"runtime_state", "work_state", "recovery_state",
                             "lifecycle_epoch", "turn_count"})
             \cup Cols("session_channels", {"granted_at"})
             \cup Cols("session_locators", {"runtime_generation"})
             \cup Cols("session_standing", {"state"}))
  @@ (11 :> Cols("mcp_actor_aliases", {"pubkey"}))
  @@ (12 :> Cols("sessions", {"state_changed_at"}))
  @@ (13 :> Cols("native_turn_attempts", {"outcome"}))
  @@ (14 :> Cols("sessions", {"busy_seconds"}))

TablesOf(cols) == {c[1] : c \in cols}

RelayTables == {"relay_events", "relay_profiles", "relay_status", "relay_agent_roster"}

DropsFrom(v, cols) ==
  (IF v \in DOMAIN Drops THEN Drops[v] ELSE {})
    \cup CASE v = 5 -> {c \in cols : c[1] \in RelayTables}
           [] v = 16 -> {c \in cols : c[1] = "relay_agent_roster"}
           [] OTHER -> {}

AddsFrom(v, cols) ==
  (IF v \in DOMAIN Adds THEN Adds[v] ELSE {})
    \cup CASE v = 12 /\ "relay_status" \in TablesOf(cols) -> {<<"relay_status", "state_since">>}
           [] v = 16 /\ "relay_profiles" \in TablesOf(cols) -> {<<"relay_profiles", "agents_json">>}
           [] OTHER -> {}

Migrated(v, cols) == (cols \ DropsFrom(v, cols)) \cup AddsFrom(v, cols)

\* require_shape of the migration from v: the columns it wants and forbids.
Required ==
  (4 :> Cols("sessions", {"session_id", "agent_pubkey"})
          \cup {<<"session_aliases", "external_id">>, <<"messages", "author_session">>,
                <<"message_recipients", "target_session">>})
  @@ (5 :> Cols("sessions", {"session_id", "agent_pubkey"})
             \cup {<<"session_aliases", "external_id">>, <<"llm_calls", "session_id">>})
  @@ (6 :> Cols("sessions", {"pubkey", "runtime_generation", "last_distill_at", "activity"})
             \cup {<<"session_locators", "pubkey">>, <<"llm_calls", "pubkey">>})
  @@ (7 :> Cols("sessions", {"pubkey", "runtime_generation", "explicit_chat_published_at"})
             \cup {<<"outbox", "">>, <<"trellis", "">>})
  @@ (8 :> Cols("sessions", {"pubkey", "runtime_generation", "harness", "work_root"}))
  @@ (9 :> Cols("sessions", {"pubkey", "observed_harness", "claimed_harness",
                             "admitted_transport", "endpoint_provenance", "alive", "working"})
             \cup {<<"session_channels", "joined_at">>, <<"session_claims", "pubkey">>,
                   <<"session_locators", "pubkey">>})
  @@ (10 :> Cols("sessions", {"pubkey", "runtime_state", "work_state"}) \cup {<<"inbox", "">>})
  @@ (13 :> Cols("sessions", {"pubkey", "runtime_generation", "state_changed_at"}))
  @@ (14 :> Cols("sessions", {"pubkey", "work_state", "turn_count"}))
  @@ (15 :> Cols("sessions", {"pubkey", "explicit_chat_published_at", "transcript_path"}))

Forbidden ==
  (4 :> {<<"sessions", "pubkey">>})
  @@ (5 :> {<<"sessions", "pubkey">>, <<"llm_calls", "pubkey">>, <<"messages", "author_session">>})
  @@ (6 :> {<<"sessions", "session_id">>, <<"llm_calls", "session_id">>})
  @@ (7 :> Cols("sessions", {"work_root", "readiness_parent", "last_distill_at"}))
  @@ (8 :> Cols("sessions", {"observed_harness", "admitted_transport"}))
  @@ (9 :> Cols("sessions", {"runtime_state", "lifecycle_epoch", "turn_count", "harness"})
             \cup {<<"session_channels", "granted_at">>, <<"session_locators", "runtime_generation">>})
  @@ (10 :> Cols("sessions", {"alive", "working"}))
  \* an ALTER TABLE that adds a column fails where the column exists
  @@ (12 :> {<<"sessions", "state_changed_at">>})
  @@ (14 :> {<<"sessions", "busy_seconds">>})

\* The UPDATE of schema 12 reads columns no require_shape asked for.
Read == (12 :> Cols("sessions", {"work_state", "runtime_state"}))

ColumnsAt(table, v) == IF v \in DOMAIN table THEN table[v] ELSE {}

require_shape(v, cols) ==
  /\ ColumnsAt(Required, v) \cup ColumnsAt(Read, v) \subseteq cols
  /\ ColumnsAt(Forbidden, v) \cap cols = {}

\* The shape a deployed database of version v has: the relay tables that the
\* migration from schema 5 drops are created again when that start ends.
ShapeOf[v \in OLDEST_SUPPORTED_VERSION .. SCHEMA_VERSION] ==
  IF v = OLDEST_SUPPORTED_VERSION THEN V4Columns
  ELSE LET m == Migrated(v - 1, ShapeOf[v - 1])
       IN IF v = 6 THEN m \cup {<<"relay_events", "">>, <<"relay_profiles", "">>,
                                <<"relay_status", "state">>, <<"relay_agent_roster", "">>}
          ELSE m

(***************************************************************************)
(* create_schema: three batches, CREATE TABLE IF NOT EXISTS each, in no    *)
(* transaction.                                                            *)
(***************************************************************************)
CurrentColumns == ShapeOf[SCHEMA_VERSION]

NATIVE_TURN_SCHEMA == {"native_turn_attempts"}

CORE_SCHEMA == TablesOf(CurrentColumns) \ NATIVE_TURN_SCHEMA

\* Operational ledgers hold nothing a property tells apart.
SCHEMA_PARTS == <<CORE_SCHEMA, {}, NATIVE_TURN_SCHEMA>>

create_part(part, cols) ==
  cols \cup {c \in CurrentColumns : c[1] \in SCHEMA_PARTS[part] \ TablesOf(cols)}

ensure_only_tables(cols) == TablesOf(cols) = TablesOf(CurrentColumns)

\* Columns some version had and the current one has not.
RemovedColumns ==
  UNION {ShapeOf[v] : v \in OLDEST_SUPPORTED_VERSION .. SCHEMA_VERSION} \ CurrentColumns

ensure_columns(cols) == CurrentColumns \subseteq cols /\ RemovedColumns \cap cols = {}

canonical(cols) == ensure_only_tables(cols) /\ ensure_columns(cols)

(***************************************************************************)
(* What the migrations do to the rows.  sid is the legacy session a row    *)
(* stems from; own is the session a locator or route belongs to, and its   *)
(* public key from schema 6 on.                                            *)
(***************************************************************************)
v4_to_v5(d) ==
  [d EXCEPT !.recip =
    {[msg |-> r.msg, pk |-> r.pk, target |-> 0,
      delivered |-> \E q \in d.recip : q.msg = r.msg /\ q.pk = r.pk /\ q.delivered] : r \in d.recip}]

\* INSERT OR REPLACE in the order of last_seen: the latest session stays.
LatestPerPubkey(sess) ==
  {s \in sess : \A q \in sess : q.pk = s.pk => q.seen <= s.seen}

\* INSERT OR IGNORE of one alias: the primary key and the unique index on
\* native_resume both keep the row that is there.
InsertLocator(locs, l) ==
  IF \E i \in DOMAIN locs :
        \/ locs[i].har = l.har /\ locs[i].kind = l.kind /\ locs[i].val = l.val
        \/ l.kind = "native_resume" /\ locs[i].kind = "native_resume" /\ locs[i].own = l.own
  THEN locs ELSE Append(locs, l)

migrate_session_identity(d) ==
  LET pkOf(sid) == (CHOOSE s \in d.sess : s.sid = sid).pk
      joined == SelectSeq(d.locs, LAMBDA l : \E s \in d.sess : s.sid = l.own)
  IN [d EXCEPT
       !.sess = LatestPerPubkey(d.sess),
       !.routes = {[own |-> pkOf(r.own), ch |-> r.ch] : r \in d.routes},
       !.locs = FoldLeft(LAMBDA acc, l : InsertLocator(acc, [l EXCEPT !.own = pkOf(l.own)]),
                         <<>>, joined),
       !.members = {}]

v7_to_v8(d) == [d EXCEPT !.outbox = <<>>]

HasLocator(d, pk, har, kind) ==
  \E i \in DOMAIN d.locs : d.locs[i].own = pk /\ d.locs[i].har = har /\ d.locs[i].kind = kind

v8_to_v9(d) ==
  LET recoded == [i \in DOMAIN d.locs |->
        IF d.locs[i].har = "codex" /\ d.locs[i].kind = "acp"
        THEN [d.locs[i] EXCEPT !.kind = "app_server"] ELSE d.locs[i]]
      e == [d EXCEPT !.locs = recoded]
      transport(s) == CASE HasLocator(e, s.pk, s.har, "app_server") -> "app-server"
                        [] HasLocator(e, s.pk, s.har, "acp") -> "acp"
                        [] HasLocator(e, s.pk, s.har, "pty") -> "pty"
                        [] OTHER -> ""
  IN [e EXCEPT !.sess = {[s EXCEPT !.transport = transport(s)] : s \in e.sess}]

EndpointKinds == {"pty", "acp", "app_server", "pid"}

\* DELETE of all but the newest row of a (pubkey, harness, kind).
NewestEndpoints(locs) ==
  LET newest == {i \in DOMAIN locs :
        locs[i].kind \in EndpointKinds =>
          \A j \in DOMAIN locs :
            (locs[j].own = locs[i].own /\ locs[j].har = locs[i].har
               /\ locs[j].kind = locs[i].kind) => j <= i}
  IN SelectSeq(locs, LAMBDA l : \E i \in newest : locs[i] = l)

HasNative(d, pk) == \E i \in DOMAIN d.locs : d.locs[i].own = pk /\ d.locs[i].kind = "native_resume"

\* Standing is initialised from the local routes and the mirrored members.
StandingOf(d, sess, routes) ==
  {[pk |-> r.own, ch |-> r.ch,
    st |-> IF <<r.ch, r.own>> \notin d.members THEN "absent"
           ELSE IF \E s \in sess : s.pk = r.own /\ s.run = "stopped" THEN "retained"
           ELSE "member"] : r \in {q \in routes : \E s \in sess : s.pk = q.own}}

v9_to_v10(d) ==
  LET sess == {[s EXCEPT !.run = IF s.run = "alive" THEN "running" ELSE "stopped",
                         !.recovery = IF HasNative(d, s.pk) THEN "ready" ELSE "pending"]
                : s \in d.sess}
      routes == d.routes \cup {[own |-> s.pk, ch |-> s.ch] : s \in {q \in sess : q.ch # ""}}
  IN [d EXCEPT !.sess = sess, !.locs = NewestEndpoints(d.locs), !.routes = routes,
               !.standing = StandingOf(d, sess, routes)]

v10_to_v11(d) ==
  [d EXCEPT !.inbox =
    {[r EXCEPT !.st = IF /\ r.st = "injected"
                         /\ \E s \in d.sess : s.pk = r.pk /\ ~s.working
                      THEN "echo_consumed" ELSE r.st] : r \in d.inbox}]

\* The rows after the migration from version v.
MIGRATIONS(v, d) ==
  CASE v = 4 -> v4_to_v5(d)
    [] v = 5 -> migrate_session_identity(d)
    [] v = 7 -> v7_to_v8(d)
    [] v = 8 -> v8_to_v9(d)
    [] v = 9 -> v9_to_v10(d)
    [] v = 10 -> v10_to_v11(d)
    [] OTHER -> d

(***************************************************************************)
(* The process.                                                            *)
(***************************************************************************)
Off == [at |-> "off", initial |-> 0, part |-> 0]

SchemaInit ==
  \E f \in Deployed :
    /\ db = [ver |-> f.ver, cols |-> f.cols, data |-> f.data]
    /\ origin = f
    /\ journal = <<>>
    /\ accepted = {}
    /\ proc = Off
    /\ sfaults = 0

has_user_tables == db.cols # {}

\* initialize_file reads the version, and check_initial refuses the files
\* that no migration starts from.
check_initial ==
  /\ proc.at = "off"
  /\ proc' = IF \/ db.ver = 0 /\ has_user_tables
                \/ db.ver > SCHEMA_VERSION
                \/ db.ver # 0 /\ db.ver < OLDEST_SUPPORTED_VERSION
             THEN [Off EXCEPT !.at = "refused"]
             ELSE [at |-> "upgrade", initial |-> db.ver, part |-> 1]
  /\ UNCHANGED <<db, journal, accepted, origin, sfaults>>

pending_outbox ==
  LET pending == SelectSeq(db.data.outbox, LAMBDA r : r.st = "pending")
  IN [i \in DOMAIN pending |-> pending[i].ev]

\* The first of every row, in order.
merge_pending_writes(rows) ==
  FoldLeft(LAMBDA acc, r : IF \E i \in DOMAIN acc : acc[i] = r THEN acc ELSE Append(acc, r),
           <<>>, journal \o rows)

\* Mutant of HandOff: the outbox is dropped before it has been handed over.
HandOffForgotten ==
  /\ proc.at = "upgrade" /\ db.ver = 7
  /\ proc' = [proc EXCEPT !.at = IF require_shape(7, db.cols) THEN "handed" ELSE "refused"]
  /\ UNCHANGED <<db, journal, accepted, origin, sfaults>>

\* v7_to_v8 up to its transaction: the pending rows go to the sidecar, which
\* is synced and renamed into place before anything is dropped.
HandOff ==
  /\ proc.at = "upgrade" /\ db.ver = 7
  /\ IF require_shape(7, db.cols)
     THEN /\ journal' = merge_pending_writes(pending_outbox)
          /\ proc' = [proc EXCEPT !.at = "handed"]
     ELSE /\ proc' = [proc EXCEPT !.at = "refused"]
          /\ UNCHANGED journal
  /\ UNCHANGED <<db, accepted, origin, sfaults>>

\* One transaction: the rows, the tables and the version of the next schema.
apply ==
  /\ \/ proc.at = "upgrade" /\ db.ver \in OLDEST_SUPPORTED_VERSION .. SCHEMA_VERSION - 1
        /\ db.ver # 7
     \/ proc.at = "handed"
  /\ IF require_shape(db.ver, db.cols)
     THEN /\ db' = [ver |-> db.ver + 1, cols |-> Migrated(db.ver, db.cols),
                    data |-> MIGRATIONS(db.ver, db.data)]
          /\ proc' = [proc EXCEPT !.at = "upgrade"]
     ELSE /\ proc' = [proc EXCEPT !.at = "refused"]
          /\ UNCHANGED db
  /\ UNCHANGED <<journal, accepted, origin, sfaults>>

\* The chain is done.  A file that was current when it was found is validated
\* before a table is created in it.
Upgraded ==
  /\ proc.at = "upgrade" /\ db.ver \in {0, SCHEMA_VERSION}
  /\ proc' = [proc EXCEPT !.at =
       IF proc.initial = SCHEMA_VERSION /\ has_user_tables /\ ~canonical(db.cols)
       THEN "refused" ELSE "create"]
  /\ UNCHANGED <<db, journal, accepted, origin, sfaults>>

create_schema ==
  /\ proc.at = "create"
  /\ db' = [db EXCEPT !.cols = create_part(proc.part, @)]
  /\ proc' = IF proc.part = Len(SCHEMA_PARTS) THEN [proc EXCEPT !.at = "validate"]
             ELSE [proc EXCEPT !.part = @ + 1]
  /\ UNCHANGED <<journal, accepted, origin, sfaults>>

\* The validation, the stamp and the open store.
stamp ==
  /\ proc.at = "validate"
  /\ IF canonical(db.cols)
     THEN /\ db' = [db EXCEPT !.ver = SCHEMA_VERSION]
          /\ proc' = [proc EXCEPT !.at = "open"]
     ELSE /\ proc' = [proc EXCEPT !.at = "refused"]
          /\ UNCHANGED db
  /\ UNCHANGED <<journal, accepted, origin, sfaults>>

\* The open daemon's queue takes the first write over and the journal is
\* replaced by the rest (fabric/pending_writes.rs; its faults are those of
\* ChannelMessaging).
Import ==
  /\ proc.at = "open" /\ journal # <<>>
  /\ accepted' = accepted \cup {Head(journal)}
  /\ journal' = Tail(journal)
  /\ UNCHANGED <<db, proc, origin, sfaults>>

\* The process dies, wherever it is, or an open daemon is stopped.
Die ==
  /\ proc.at \notin {"off", "refused"} /\ sfaults < SMaxFaults
  /\ proc' = Off
  /\ sfaults' = sfaults + 1
  /\ UNCHANGED <<db, journal, accepted, origin>>

SchemaNext ==
  \/ check_initial \/ HandOff \/ apply \/ Upgraded \/ create_schema \/ stamp \/ Import \/ Die

\* The next client starts the daemon again, and a start runs to its end.
SchemaFairness == WF_svars(check_initial \/ HandOff \/ apply \/ Upgraded \/ create_schema \/ stamp)

SchemaSpec == SchemaInit /\ [][SchemaNext]_svars /\ SchemaFairness

(***************************************************************************)
(* Properties.                                                             *)
(***************************************************************************)
SessionRows ==
  [sid : STRING, pk : STRING, seen : Nat, har : STRING, ch : STRING,
   run : {"alive", "dead", "running", "stopped"}, working : BOOLEAN,
   recovery : {"", "pending", "ready"}, transport : {"", "pty", "acp", "app-server"}]

\* The states of the store's startup; a version is never beyond the binary's
\* unless the file was found so, and the sidecar never holds a write twice
\* (journal.rs:68-74, however often the handoff is repeated).
SchemaTypeOK ==
  /\ db.ver \in 0 .. SCHEMA_VERSION \/ db.ver = origin.ver
  /\ db.data.sess \subseteq SessionRows
  /\ IsInjective(journal)
  /\ proc.at \in {"off", "refused", "upgrade", "handed", "create", "validate", "open"}
  /\ proc.part \in 0 .. Len(SCHEMA_PARTS)
  /\ sfaults \in 0 .. SMaxFaults

\* A daemon serves requests only on the canonical schema, whatever file it
\* found and wherever earlier starts of it died (schema.rs:16-26).
OpenIsCanonical == proc.at = "open" => db.cols = CurrentColumns /\ db.ver = SCHEMA_VERSION

\* Every migration and its version are one commit: a deployed file that was
\* well formed has the tables of the version it is stamped with at every
\* instant, so that a start that dies can be repeated (migration.rs:1, "One-way,
\* transactional upgrades for every deployed stamped schema").
StampMatchesTables ==
  (origin.wellformed /\ db.ver \in OLDEST_SUPPORTED_VERSION .. SCHEMA_VERSION - 1) =>
    {c \in ShapeOf[db.ver] : c[1] \notin RelayTables} = {c \in db.cols : c[1] \notin RelayTables}

\* No pending write of the schema-7 outbox is lost: at every instant it is in
\* the outbox, in the sidecar or with the NMP queue (docs/state-schema.md, "A
\* crash or unavailable relay therefore causes an idempotent retry, not a lost
\* write or a blocked schema upgrade").
PendingKept ==
  \A r \in ToSet(origin.data.outbox) :
    r.st = "pending" =>
      r \in ToSet(db.data.outbox) \/ r.ev \in ToSet(journal) \/ r.ev \in accepted

\* The migrations keep every identity that had a session, as one row, that of
\* its latest session; from schema 10 on an identity can be recovered exactly
\* when a native locator says how, and no identity has two of them.
SessionsKept ==
  LET d == db.data
  IN /\ \A s \in origin.data.sess : \E q \in d.sess : q.pk = s.pk /\ q.seen >= s.seen
     /\ db.ver >= 6 =>
          /\ \A s, q \in d.sess : s.pk = q.pk => s = q
          /\ \A i, j \in DOMAIN d.locs :
               (d.locs[i].kind = "native_resume" /\ d.locs[j].kind = "native_resume"
                  /\ d.locs[i].own = d.locs[j].own) => i = j
          /\ \A l \in ToSet(origin.data.locs) : l.kind = "native_resume" =>
               \E i \in DOMAIN d.locs :
                 /\ d.locs[i].kind = "native_resume"
                 /\ \/ d.locs[i].own = l.own
                    \/ \E s \in origin.data.sess : s.sid = l.own /\ s.pk = d.locs[i].own
     /\ db.ver >= 10 => \A s \in d.sess : (s.recovery = "ready") <=> HasNative(d, s.pk)

\* From schema 10 on a session has standing in every channel it has a route
\* to, and stands as a member only where the mirrored member list had it when
\* the routes were migrated (docs/state-schema.md, "initializes standing only
\* from locally recorded routes plus confirmed relay membership").
StandingFromEvidence ==
  (db.ver >= 10 /\ origin.ver \in OLDEST_SUPPORTED_VERSION .. 9) =>
    LET d == db.data
    IN /\ \A r \in d.routes : (\E s \in d.sess : s.pk = r.own) =>
            Cardinality({t \in d.standing : t.pk = r.own /\ t.ch = r.ch}) = 1
       /\ \A t \in d.standing : t.st # "absent" => <<t.ch, t.pk>> \in origin.data.members
       /\ \A t \in d.standing, s \in d.sess :
            (t.pk = s.pk /\ t.st # "absent") => (t.st = "member" <=> s.run = "running")

\* No delivery is lost or forgotten: a pending mention stays pending, an
\* injected one is closed only for an idle target, and a recipient that had a
\* message by any of its sessions keeps it (docs/state-schema.md, "Pending
\* delivery and injected work owned by a Working session remain fenced").
DeliveryKept ==
  /\ \A r \in origin.data.inbox :
       \E q \in db.data.inbox :
         /\ q.ev = r.ev /\ q.pk = r.pk
         /\ q.st = r.st \/ (r.st = "injected" /\ q.st = "echo_consumed"
                            /\ \E s \in db.data.sess : s.pk = r.pk /\ ~s.working)
  /\ \A r \in origin.data.recip :
       r.delivered => \E q \in db.data.recip : q.msg = r.msg /\ q.pk = r.pk /\ q.delivered

\* A start has died where the next one cannot go on: in create_schema on an
\* empty file, which leaves tables without a version, or between the commit of
\* the last migration and create_schema on a file whose relay tables schema 6
\* dropped, which leaves the current version without its tables.
Torn ==
  /\ sfaults > 0 /\ db.ver \in {0, SCHEMA_VERSION}
  /\ db.cols # {}
  /\ db.ver = 0 \/ db.cols # CurrentColumns

\* A supported file is upgraded and served however many starts die on the way,
\* which is what docs/state-schema.md says: "A crash or unavailable relay therefore
\* causes an idempotent retry, not a lost write or a blocked schema upgrade."
CrashNeverBlocks == []<>(origin.wellformed /\ origin.ver # 0 => proc.at = "open")

\* What an upgrade promises at every instant of it, also at those a crash may
\* freeze: a file that matches its stamp, and no session, standing, delivery or
\* pending write lost.
UpgradeSafe == SchemaTypeOK /\ OpenIsCanonical /\ StampMatchesTables /\ PendingKept
               /\ SessionsKept /\ StandingFromEvidence /\ DeliveryKept
=============================================================================
