---------------------------- MODULE TurnContext ----------------------------
(***************************************************************************)
(* What a turn hook tells the agent (daemon/server/turns.rs, turn_context,   *)
(* fabric_context, reconcile/hook_context): turn_start and turn_check calls  *)
(* of one session interleave with each other, with messages that arrive, and *)
(* with channels that appear or are archived.  A call claims the pending     *)
(* mentions, captures the fabric under the store lock, renders what changed  *)
(* since its cursor, and moves the cursor by compare-and-swap: turn_start    *)
(* after it has rendered, turn_check before it captures.                     *)
(*                                                                           *)
(* The assembled view is a function of the capture, the cursor and `now', so *)
(* it is computed where the capture is made.  Ages in a view are not kept:   *)
(* two views with the same rows may or may not differ in them.               *)
(***************************************************************************)
EXTENDS Integers, FiniteSets, FiniteSetsExt

CONSTANTS
  TChannels,        \* channels the store may know
  TParent,          \* channel -> {} (a workspace root) or {its parent}
  Scenarios,        \* sets of [items, scope, members, missing, env]: what a run
                    \* starts from and which changes around the hooks happen in it
  Kind, In,         \* item -> its kind, and the channel it is in
  THooks,           \* slots of concurrent hook calls
  MaxCalls,         \* bound of the hook calls
  TMaxNow,          \* bound of the clock
  Window,           \* WINDOW_SECS of the first turn
  ClusterRows, ClusterGap, \* MAX_CLUSTER_ROWS, MAX_CLUSTER_GAP_SECS
  CaptureCap,       \* CHAT_CAPTURE_CAP
  ReactionRows,     \* MAX_REACTION_ROWS
  TMaxFaults        \* bound of failed reads and daemon restarts

ASSUME TurnAssumption ==
  /\ {Window, ClusterRows, CaptureCap, ReactionRows} \subseteq Nat \ {0}
  /\ \A c \in TChannels : TParent[c] \subseteq TChannels /\ Cardinality(TParent[c]) <= 1

VARIABLES
  clock,      \* now_secs
  scen,       \* the scenario: items that may happen, scope and memberships
  chan,       \* channel -> "ready", "archived" or "missing" (relay_channels)
  stored,     \* item -> the created_at it was stored with, 0 = not stored
  inbox,      \* mention -> "none", "pending", "delivered" or "injected"
  cursor,     \* sessions.seen_cursor
  working,    \* the session is in a turn
  headless,   \* session_is_headless: nobody sees the terminal
  admin,      \* the remote host's backend is an admin of the workspace
  hooks,      \* slot -> the call in it
  ctx,        \* hook_contexts: [view, headless], each {} or {last value}
  shown,      \* history: items some hook has rendered
  deltas, again,  \* history: items turn_checks have rendered, and those of them twice
  passed,     \* history: items that were there when a first turn was captured
  lost,       \* history: late items, and those a failed call or a restart took
  horizon,    \* history: the latest `now' of a hook
  told, silent,   \* history: the notice was rendered; a hook recorded and did not say it
  ncalls, tfaults

histVars == <<shown, deltas, again, passed, lost, horizon, told, silent>>
fabricVars == <<clock, scen, chan, stored, inbox, working, headless, admin>>
tvars == <<clock, scen, chan, stored, inbox, cursor, working, headless, admin,
           hooks, ctx, shown, deltas, again, passed, lost, horizon, told,
           silent, ncalls, tfaults>>

Items == DOMAIN Kind
Messages == {i \in Items : Kind[i] \in {"chat", "mention"}}
Bounded == {i \in Items : Kind[i] \in {"reaction", "presence", "profile"}}
Warnings == {"headless", "missing", "incomplete"}
CREATED == 1     \* created_at of the session: it starts with the clock

Views == [items : SUBSET Items, omitted : SUBSET Items, warn : SUBSET Warnings,
          full : BOOLEAN, headless : BOOLEAN]
NoView == [items |-> {}, omitted |-> {}, warn |-> {}, full |-> FALSE, headless |-> FALSE]
NoHook == [st |-> "none", kind |-> "start", rec |-> 0, work |-> FALSE, since |-> 0,
           now |-> 0, warn |-> {}, claimed |-> {}, view |-> NoView, unready |-> {},
           hidden |-> {}]

TurnInit ==
  /\ clock = CREATED
  /\ scen \in Scenarios
  /\ chan = [c \in TChannels |-> IF c \in scen.missing THEN "missing" ELSE "ready"]
  /\ stored = [i \in Items |-> 0]
  /\ inbox = [i \in Items |-> "none"]
  /\ cursor \in {0, CREATED}    \* before the first turn, or in a later one
  /\ working = (cursor = CREATED)
  /\ headless \in (IF "mode" \in scen.env THEN BOOLEAN ELSE {FALSE}) /\ admin = FALSE
  /\ hooks = [h \in THooks |-> NoHook]
  /\ ctx = [view |-> {}, headless |-> {}]
  /\ shown = {} /\ deltas = {} /\ again = {} /\ passed = {} /\ lost = {}
  /\ horizon = 0 /\ told = FALSE /\ silent = FALSE
  /\ ncalls = 0 /\ tfaults = 0

TFault == "fault" \in scen.env /\ tfaults < TMaxFaults /\ tfaults' = tfaults + 1

----------------------------------------------------------------------------
(* capture/read.rs: which channels a call reads.                             *)

channel_readiness(c) == chan[c]

Ready == {c \in TChannels : channel_readiness(c) = "ready"}

\* The session has the route of its scope; joined_channels and
\* session_channels add the scope when no route names it.
session_channels == {scen.scope}

active_channels == session_channels \cap Ready

\* Messages claimed from the inbox, by their channel.
group_forced(claimed) == {In[i] : i \in claimed}

selected_channels(claimed) ==
  (active_channels \cup {scen.scope} \cup group_forced(claimed)) \cap Ready

missing_channels(claimed) ==
  {c \in session_channels \cup {scen.scope} \cup group_forced(claimed) :
     channel_readiness(c) = "missing"}

Before(i, j) == stored[i] < stored[j] \/ (stored[i] = stored[j] /\ i < j)

\* Rows of S with fewer than n rows of S before them.
OldestOf(S, n) == {i \in S : Cardinality({j \in S : Before(j, i)}) < n}

\* relay_events of a channel, oldest first up to the cap.
chat_for_channel(c) == OldestOf({i \in Messages : stored[i] > 0 /\ In[i] = c}, CaptureCap)

\* The rows of a channel other than those a transport has already injected.
capture_messages(c) == {i \in chat_for_channel(c) : inbox[i] /= "injected"}

\* Reactions on own messages since the session exists; never by channel.
capture_reaction_sources == {i \in Items : Kind[i] = "reaction" /\ stored[i] > CREATED}

\* root_channel_of: the walk to a parentless row, through rows that exist.
KnownRoot[n \in 0..Cardinality(TChannels), c \in TChannels] ==
  /\ channel_readiness(c) /= "missing"
  /\ \/ TParent[c] = {}
     \/ n > 0 /\ \A p \in TParent[c] : KnownRoot[n - 1, p]

root_for_channel(c) == TParent[c] = {} \/ KnownRoot[Cardinality(TChannels), c]

\* topology::capture walks every channel that is not archived and fails on
\* the first whose ancestors are not all known.
CaptureFails == \E c \in Ready : ~root_for_channel(c)

\* A host's agents are listed while its backend administers the workspace.
profile_qualifies == admin
host_caps == {i \in Items : Kind[i] = "profile" /\ stored[i] > 0 /\ profile_qualifies}

\* Statuses of every channel in the topology.
status_caps(c) == {i \in Items : Kind[i] = "presence" /\ stored[i] > 0 /\ In[i] = c}

----------------------------------------------------------------------------
(* assemble.rs: what a view shows of the capture.                            *)

InWindow(i, since, now) == since < stored[i] /\ stored[i] <= now

host_rows(since, now, full) == {i \in host_caps : full \/ InWindow(i, since, now)}

presence_rows(c, since, now) ==
  IF since = 0 THEN {} ELSE {i \in status_caps(c) : InWindow(i, since, now)}

\* The groups with the oldest `latest' are kept, the rest is counted.
group_reactions(since, now) ==
  OldestOf({i \in capture_reaction_sources : InWindow(i, since, now)}, ReactionRows)

\* The newest rows: at most ClusterRows of them, without a long silence.
recent_cluster(S) ==
  LET After(i) == {j \in S : Before(i, j)}
      Close(i, j) == Cardinality(After(i)) = Cardinality(After(j)) + 1
                       => stored[j] - stored[i] <= ClusterGap
  IN IF Cardinality(S) <= ClusterRows THEN S
     ELSE {i \in S : /\ Cardinality(After(i)) < ClusterRows
                     /\ \A j, k \in After(i) \cup {i} : Close(j, k)}

\* The lower bound only: a row newer than `now' is shown as well.
Eligible(c, since, now) ==
  {i \in capture_messages(c) :
     stored[i] > (IF since = 0 THEN now - Window ELSE since)}

message_rows(c, forced, since, now) ==
  (IF since = 0 THEN recent_cluster(Eligible(c, since, now)) ELSE Eligible(c, since, now))
    \cup {i \in forced : In[i] = c}

Omitted(c, since, now) ==
  IF since = 0 THEN Eligible(c, since, now) \ recent_cluster(Eligible(c, since, now)) ELSE {}

is_member(c) == c \in scen.members

Children(c) == {d \in Ready : TParent[d] = {c}}

\* Children of the root, and of every child the session is a member of.
add_visible_children(root) ==
  LET Below[n \in 0..Cardinality(TChannels), c \in TChannels] ==
        IF n = 0 THEN {}
        ELSE Children(c) \cup UNION {Below[n - 1, d] : d \in {e \in Children(c) : is_member(e)}}
  IN Below[Cardinality(TChannels), root]

\* The workspace is bound on this host, so its root is listed in any case.
Roots == {c \in TChannels : TParent[c] = {}}

workspace_is_expanded == active_channels /= {}

full_channel_ids ==
  IF workspace_is_expanded
  THEN UNION {({r} \cap Ready) \cup add_visible_children(r) : r \in Roots} ELSE {}

\* Channels with something to say since the cursor, wherever they are.
delta_channel_ids(sel, forced, since, now) ==
  {c \in Ready : \/ presence_rows(c, since, now) /= {}
                 \/ c \in sel /\ message_rows(c, forced, since, now) /= {}}

\* Channels whose rows are printed.
workspace_rows(sel, forced, since, now) ==
  IF since = 0 THEN full_channel_ids ELSE delta_channel_ids(sel, forced, since, now)

channel_block(c, sel, forced, since, now) ==
  presence_rows(c, since, now)
    \cup (IF c \in sel THEN message_rows(c, forced, since, now) ELSE {})

assemble_view(claimed, warn, since, now) ==
  LET sel == selected_channels(claimed)
      printed == workspace_rows(sel, claimed, since, now)
  IN [items |-> host_rows(since, now, since = 0) \cup group_reactions(since, now)
                  \cup UNION {channel_block(c, sel, claimed, since, now) : c \in printed},
      omitted |-> UNION {Omitted(c, since, now) : c \in printed \cap sel},
      warn |-> warn \cup (IF missing_channels(claimed) = {} THEN {} ELSE {"missing"}),
      full |-> since = 0,
      headless |-> headless]

is_empty(view) == view.items = {} /\ view.warn = {} /\ ~view.full

----------------------------------------------------------------------------
(* The steps of a call.                                                      *)

\* A hook calls; the slots are alike, so the first free one takes it.
Called(h) ==
  /\ ncalls < MaxCalls /\ ncalls' = ncalls + 1
  /\ hooks[h].st = "none" /\ \A g \in THooks : hooks[g].st = "none" => h <= g

At(h, st) == hooks[h].st = st
Set(h, c) == hooks' = [hooks EXCEPT ![h] = c]

record_headless_mode(mode, announce_initial) ==
  IF ctx.headless = {} THEN announce_initial ELSE ctx.headless /= {mode}

push_mode_notice(announce_initial) ==
  IF headless /\ record_headless_mode(headless, announce_initial) THEN {"headless"} ELSE {}

advance_cursor_if_current(expected) == cursor = expected

\* rpc_turn_start opens the turn and reads the row again.
TurnStart(h) ==
  /\ Called(h)
  /\ Set(h, [NoHook EXCEPT !.st = "opened", !.kind = "start", !.rec = cursor,
                           !.since = cursor])
  /\ working' = TRUE
  /\ UNCHANGED <<clock, scen, chan, stored, inbox, cursor, headless, admin, ctx,
                 histVars, tfaults>>

\* rpc_turn_check reads the row...
TurnCheck(h) ==
  /\ Called(h)
  /\ Set(h, [NoHook EXCEPT !.st = "resolved", !.kind = "check", !.rec = cursor,
                           !.work = working])
  /\ UNCHANGED <<fabricVars, cursor, ctx, histVars, tfaults>>

\* ...and takes the window up to now before it looks at anything.
drive_cursor_request(h) ==
  LET c == hooks[h]
      wins == c.work /\ clock > c.rec /\ advance_cursor_if_current(c.rec)
  IN /\ At(h, "resolved")
     /\ cursor' = IF wins THEN clock ELSE cursor
     /\ Set(h, [c EXCEPT !.st = "opened", !.now = clock, !.rec = 0, !.work = FALSE,
                         !.since = IF wins THEN c.rec ELSE clock])
     /\ horizon' = Max({horizon, clock})
     /\ UNCHANGED <<fabricVars, ctx, shown, deltas, again, passed, lost, told, silent,
                    ncalls, tfaults>>

\* The pending mentions become delivered, in one transaction; a failed read is
\* a warning in the context.
take_inbox(ok) == IF ok THEN {i \in Items : inbox[i] = "pending"} ELSE {}

\* The mode notice, then the inbox.
ClaimMentions(h, now, announce_initial, ok) ==
  /\ At(h, "opened")
  /\ IF ok THEN UNCHANGED tfaults ELSE TFault
  /\ Set(h, [hooks[h] EXCEPT !.st = "claimed", !.now = now, !.claimed = take_inbox(ok),
                             !.warn = push_mode_notice(announce_initial)
                                        \cup (IF ok THEN {} ELSE {"incomplete"})])
  /\ inbox' = [i \in Items |-> IF i \in take_inbox(ok) THEN "delivered" ELSE inbox[i]]
  /\ ctx' = [ctx EXCEPT !.headless = {headless}]
  /\ silent' = (silent \/ (ctx.headless = {} /\ ~announce_initial))
  /\ horizon' = Max({horizon, now})
  /\ UNCHANGED <<clock, scen, chan, stored, cursor, working, headless, admin, shown,
                 deltas, again, passed, lost, told, ncalls>>

\* turn_start reads the clock here, turn_check has read it for the cursor.
assemble_turn_start(h, ok) == hooks[h].kind = "start" /\ ClaimMentions(h, clock, TRUE, ok)

assemble_turn_check(h, ok) == hooks[h].kind = "check" /\ ClaimMentions(h, hooks[h].now, FALSE, ok)

capture_inputs(h) ==
  LET c == hooks[h] IN
  /\ At(h, "claimed") /\ ~CaptureFails
  /\ Set(h, [c EXCEPT !.st = "captured",
                      !.view = assemble_view(c.claimed, c.warn, c.since, c.now),
                      !.unready = {i \in c.claimed : In[i] \notin Ready},
                      !.hidden = {i \in c.claimed :
                                    c.since = 0 /\ In[i] \in Ready \ full_channel_ids}])
  /\ passed' = IF c.since = 0 THEN passed \cup {i \in Items : stored[i] > 0} ELSE passed
  /\ UNCHANGED <<fabricVars, cursor, ctx, shown, deltas, again, lost, horizon, told, silent,
                 ncalls, tfaults>>

\* The capture's error ends the call: what it claimed is not put back.
CaptureError(h) ==
  LET c == hooks[h] IN
  /\ At(h, "claimed")
  /\ \/ CaptureFails /\ UNCHANGED tfaults
     \/ ~CaptureFails /\ TFault
  /\ Set(h, NoHook)
  /\ lost' = lost \cup c.claimed
                 \cup {i \in Items : c.since < stored[i] /\ stored[i] <= Max({c.now, cursor})}
  /\ silent' = (silent \/ "headless" \in c.warn)
  /\ UNCHANGED <<fabricVars, cursor, ctx, shown, deltas, again, passed, horizon, told, ncalls>>

\* render_context: nothing is said when the view is the last one again.
render_context(h, aged) ==
  LET c == hooks[h]
      text == (ctx.view /= {c.view} \/ aged) /\ ~is_empty(c.view)
      out == IF text THEN c.view.items ELSE {}
  IN /\ At(h, "captured")
     /\ aged => c.view.items /= {}
     /\ Set(h, [c EXCEPT !.st = "rendered", !.view = NoView, !.warn = {}])
     /\ ctx' = [ctx EXCEPT !.view = {c.view}]
     /\ shown' = shown \cup out
     /\ told' = (told \/ (text /\ "headless" \in c.view.warn))
     /\ deltas' = IF c.kind = "check" /\ ~c.view.full THEN deltas \cup (out \cap Bounded) ELSE deltas
     /\ again' = IF c.kind = "check" /\ ~c.view.full THEN again \cup (deltas \cap out) ELSE again
     /\ UNCHANGED <<fabricVars, cursor, passed, lost, horizon, silent, ncalls, tfaults>>

\* Mutant: turn_start moves the cursor to the time it ends.
EndAtClock(h) == clock

Seen(h) == hooks[h].now

\* The answer goes to the hook; turn_start has moved the cursor.
Answer(h) ==
  LET c == hooks[h]
      wins == c.kind = "start" /\ Seen(h) > c.rec /\ advance_cursor_if_current(c.rec)
  IN /\ At(h, "rendered")
     /\ cursor' = IF wins THEN Seen(h) ELSE cursor
     /\ Set(h, NoHook)
     /\ UNCHANGED <<fabricVars, ctx, histVars, ncalls, tfaults>>

----------------------------------------------------------------------------
(* What happens around the calls.                                            *)

\* An event of a second some hook has already closed.
Late(at) == at <= Max({horizon, cursor})

Others == <<cursor, hooks, ctx, shown, deltas, again, passed, lost, horizon, told, silent>>

TTick ==
  /\ clock < TMaxNow /\ clock' = clock + 1
  /\ UNCHANGED <<scen, chan, stored, inbox, working, headless, admin, Others, ncalls, tfaults>>

\* An event is materialized, with its author's second; a mention is queued.
Materialize(i, at) ==
  /\ i \in scen.items /\ stored[i] = 0 /\ at > 0
  /\ at = clock \/ "late" \in scen.env
  /\ stored' = [stored EXCEPT ![i] = at]
  /\ inbox' = [inbox EXCEPT ![i] = IF Kind[i] = "mention" THEN "pending" ELSE @]
  /\ lost' = IF Late(at) THEN lost \cup {i} ELSE lost
  /\ UNCHANGED <<clock, scen, chan, working, headless, admin, cursor, hooks, ctx, shown,
                 deltas, again, passed, horizon, told, silent, ncalls, tfaults>>

\* A transport delivers a pending mention into the session itself.
InjectMention(i) ==
  /\ inbox[i] = "pending"
  /\ inbox' = [inbox EXCEPT ![i] = "injected"]
  /\ UNCHANGED <<clock, scen, chan, stored, working, headless, admin, Others, ncalls, tfaults>>

\* The channel's kind:39000 arrives, in any order with its parent's.
ChannelArrives(c) ==
  /\ chan[c] = "missing" /\ chan' = [chan EXCEPT ![c] = "ready"]
  /\ UNCHANGED <<clock, scen, stored, inbox, working, headless, admin, Others, ncalls, tfaults>>

ChannelArchived(c) ==
  /\ "archive" \in scen.env
  /\ chan[c] = "ready" /\ TParent[c] /= {}
  /\ chan' = [chan EXCEPT ![c] = "archived"]
  /\ UNCHANGED <<clock, scen, stored, inbox, working, headless, admin, Others, ncalls, tfaults>>

\* A viewer attaches or detaches.
ModeChanges ==
  /\ "mode" \in scen.env
  /\ headless' = ~headless
  /\ UNCHANGED <<clock, scen, chan, stored, inbox, working, admin, Others, ncalls, tfaults>>

HostGranted ==
  /\ ~admin /\ admin' = TRUE
  /\ \E i \in scen.items : Kind[i] = "profile"
  /\ UNCHANGED <<clock, scen, chan, stored, inbox, working, headless, Others, ncalls, tfaults>>

TurnEnd ==
  /\ "end" \in scen.env /\ working /\ working' = FALSE
  /\ UNCHANGED <<clock, scen, chan, stored, inbox, headless, admin, Others, ncalls, tfaults>>

\* The daemon restarts: calls and hook_contexts are gone.
TRestart ==
  /\ TFault
  /\ hooks' = [h \in THooks |-> NoHook]
  /\ ctx' = [view |-> {}, headless |-> {}]
  /\ lost' = lost \cup UNION {hooks[h].claimed : h \in THooks}
                 \cup {i \in Items : stored[i] > 0 /\ stored[i] <= cursor}
  /\ silent' = TRUE
  /\ UNCHANGED <<fabricVars, cursor, shown, deltas, again, passed, horizon, told, ncalls>>

TurnNext ==
  \/ \E h \in THooks :
       \/ TurnStart(h) \/ TurnCheck(h) \/ drive_cursor_request(h)
       \/ (\E ok \in BOOLEAN : assemble_turn_start(h, ok) \/ assemble_turn_check(h, ok))
       \/ capture_inputs(h) \/ CaptureError(h)
       \/ (\E aged \in BOOLEAN : render_context(h, aged))
       \/ Answer(h)
  \/ TTick
  \/ \E i \in Items : \E at \in {clock - 1, clock} : Materialize(i, at)
  \/ \E i \in Items : InjectMention(i)
  \/ \E c \in TChannels : ChannelArrives(c) \/ ChannelArchived(c)
  \/ ModeChanges \/ HostGranted \/ TurnEnd \/ TRestart

TurnSpec == TurnInit /\ [][TurnNext]_tvars

----------------------------------------------------------------------------
(* Properties.                                                               *)

\* The type of every variable; a call that has not read its clock has no view,
\* and what a call claimed is no longer pending.
TurnTypeOK ==
  /\ clock \in 1..TMaxNow /\ cursor \in 0..TMaxNow /\ cursor <= clock
  /\ scen \in Scenarios
  /\ chan \in [TChannels -> {"ready", "archived", "missing"}]
  /\ stored \in [Items -> 0..TMaxNow]
  /\ inbox \in [Items -> {"none", "pending", "delivered", "injected"}]
  /\ {working, headless, admin, told, silent} \subseteq BOOLEAN
  /\ \A h \in THooks :
       LET c == hooks[h] IN
       /\ c.st \in {"none", "resolved", "opened", "claimed", "captured", "rendered"}
       /\ c.view \in Views
       /\ c.now = 0 => c.view = NoView
       /\ \A i \in c.claimed : inbox[i] = "delivered"
  /\ ctx.view \subseteq Views /\ ctx.headless \subseteq BOOLEAN
  /\ {shown, deltas, again, passed, lost} \subseteq SUBSET Items
  /\ ncalls \in 0..MaxCalls /\ tfaults \in 0..TMaxFaults

\* A message in the session's channel that was stored before any hook had
\* closed its second is rendered before the cursor passes it for good: the
\* cursor never runs ahead of what the hook that moved it has captured.
NothingSkipped ==
  \A i \in Messages :
    (/\ stored[i] > 0 /\ stored[i] <= cursor
     /\ In[i] = scen.scope /\ chan[In[i]] = "ready" /\ In[i] \notin scen.missing
     /\ inbox[i] /= "injected" /\ i \notin lost \cup passed)
    => \/ i \in shown
       \/ \E h \in THooks : /\ hooks[h].st \in {"opened", "claimed", "captured"}
                             /\ hooks[h].since < stored[i]

\* Two turn_checks never report the same reaction, presence change or agent
\* profile: of the hooks that race for a window only one gets it.
DeltaOnce == again = {}

\* A mention a hook has claimed (and nobody will be given again) is in what
\* the hooks have rendered, unless its channel is archived or unknown or a
\* first turn does not print its branch.
MentionsSurface ==
  \A h \in THooks :
    At(h, "rendered") => hooks[h].claimed \ (hooks[h].unready \cup hooks[h].hidden) \subseteq shown

\* A session whose mode was recorded as headless by its hooks has been told.
HeadlessTold ==
  ctx.headless = {TRUE} /\ ~silent
  => told \/ \E h \in THooks : "headless" \in hooks[h].warn

\* On a first turn the rows that are only counted are older than those that
\* are printed, claimed mentions aside.
OmittedAreOlder ==
  \A h \in THooks :
    \A o \in hooks[h].view.omitted, s \in hooks[h].view.items \cap Messages :
      In[o] = In[s] /\ s \notin hooks[h].claimed => Before(o, s)

\* What the hooks show an agent while they race for one window: nothing skipped,
\* nothing twice, every mention they claimed, and the notice that nobody watches.
TurnSafe == TurnTypeOK /\ NothingSkipped /\ DeltaOnce /\ MentionsSurface /\ HeadlessTold
            /\ OmittedAreOlder

\* What the documentation says of direct mentions: they surface.  A mention
\* that was delivered in a channel the host knows is in some rendered text.
MentionsAlwaysSurface ==
  \A i \in Messages :
    (inbox[i] = "delivered" /\ chan[In[i]] = "ready" /\ tfaults = 0)
    => i \in shown \/ \E h \in THooks : i \in hooks[h].claimed /\ ~At(h, "rendered")
=============================================================================
