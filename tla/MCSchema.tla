------------------------------ MODULE MCSchema ------------------------------
(***************************************************************************)
(* StoreSchema over the deployed files of every version: two sessions of   *)
(* one or two identities, in every state of life, with native and endpoint *)
(* aliases in two orders, and mirrored members or none.                    *)
(***************************************************************************)
EXTENDS StoreSchema

HarnessOf(sid) == IF sid = "s1" THEN "claude" ELSE "codex"

Session(sid, pk, run, working) ==
  [sid |-> sid, pk |-> pk, seen |-> IF sid = "s1" THEN 1 ELSE 2, har |-> HarnessOf(sid),
   ch |-> "c", run |-> run, working |-> working, recovery |-> "", transport |-> ""]

Locator(sid, kind, val) ==
  [own |-> sid, kind |-> kind, har |-> HarnessOf(sid), val |-> val]

Aliases ==
  {<<Locator("s1", "native_resume", "x"), Locator("s2", "native_resume", "y"),
     Locator("s2", "acp", "e1"), Locator("s2", "acp", "e2"), Locator("s1", "pty", "t1")>>,
   <<Locator("s2", "acp", "e1"), Locator("s1", "pty", "t1"), Locator("s2", "native_resume", "y")>>}

Lives == {<<"alive", TRUE>>, <<"alive", FALSE>>, <<"dead", FALSE>>}

LegacyData ==
  {[sess |-> {Session("s1", "p", a[1], a[2]), Session("s2", pk, b[1], b[2])},
    locs |-> l, routes |-> {[own |-> "s1", ch |-> "c"], [own |-> "s2", ch |-> "d"]},
    members |-> m, standing |-> {},
    inbox |-> {[ev |-> "e", pk |-> "p", st |-> "injected"],
               [ev |-> "f", pk |-> "p", st |-> "pending"]},
    recip |-> {[msg |-> "m", pk |-> "p", target |-> 1, delivered |-> FALSE],
               [msg |-> "m", pk |-> "p", target |-> 2, delivered |-> TRUE]},
    outbox |-> <<[ev |-> 1, st |-> "pending"], [ev |-> 2, st |-> "sent"],
                 [ev |-> 3, st |-> "pending"]>>]
     : a \in {<<"alive", TRUE>>, <<"dead", FALSE>>}, b \in Lives, pk \in {"p", "q"},
       l \in Aliases, m \in {{}, {<<"c", "p">>}}}

\* The rows of legacy data d in a file of version v; the mirror of the relay's
\* members, which schema 6 empties, has been read again by then.
RowsAt(d, v) ==
  LET f[w \in OLDEST_SUPPORTED_VERSION .. v] ==
        IF w = OLDEST_SUPPORTED_VERSION THEN d
        ELSE [MIGRATIONS(w - 1, f[w - 1]) EXCEPT !.members = d.members]
  IN f[v]

NoRows == [sess |-> {}, locs |-> <<>>, routes |-> {}, members |-> {}, standing |-> {},
           inbox |-> {}, recip |-> {}, outbox |-> <<>>]

File(v, c, d, w) == [ver |-> v, cols |-> c, data |-> d, wellformed |-> w]

\* Well formed files of every version; the empty file; files from outside the
\* supported range; and stamps that the tables belie.
Files ==
  {File(v, ShapeOf[v], RowsAt(d, v), TRUE) : v \in {4, 6, 8, 10, 17}, d \in LegacyData}
    \cup {File(0, {}, NoRows, TRUE), File(18, CurrentColumns, NoRows, FALSE),
          File(3, V4Columns, NoRows, FALSE), File(0, CurrentColumns, NoRows, FALSE)}
    \cup {File(v, ShapeOf[w], NoRows, v = w) : v, w \in OLDEST_SUPPORTED_VERSION .. SCHEMA_VERSION}
=============================================================================
