----------------------------- MODULE ChannelMove -----------------------------
(***************************************************************************)
(* Moving a conversation and inviting a session: the topology nudge        *)
(* (channel_nudge.rs), the acceptance that turns an offer into a child     *)
(* channel and takes the speakers along (channel_move), and the invite RPC  *)
(* (invite_rpc).  All awaits of an RPC are steps of their own, so sessions  *)
(* stop, relaunch, leave and talk between any two of them.                  *)
(*                                                                          *)
(* One root channel, whose children are known by their names.  Sessions on  *)
(* this host carry a runtime generation; those of another host are known by *)
(* their live status only, and are admitted by their own backend.           *)
(***************************************************************************)
EXTENDS Integers, Sequences, FiniteSets, SequencesExt

CONSTANTS
  Scenarios,   \* the conversations and workloads an instance starts from
  MaxGen,      \* bound of the runtime generations
  MaxFaults    \* bound of relay failures and daemon restarts

CONVERSATION_WINDOW_SECS == 300
LOTTERY_COOLDOWN_SECS == 10
OFFER_TTL_SECS == 120
Root == "root"

VARIABLES
  scen,     \* the scenario: speakers, hosts, names, invites, churn, and the
            \* bound `until' of the clock, in seconds
  clock,
  sess,     \* session -> [run, gen, active, routes, busy, member]
  chat,     \* the root channel: sequence of [by, at, kind, name]
  kids,     \* names of the child channels in the read model
  nudge,    \* session -> [last, offer], the in-memory ChannelNudgeState
  acc,      \* session -> the channel_move_accept call it makes
  orch,     \* orchestration events on their way to the other backends
  inv,      \* the invite calls
  faults

moveVars == <<nudge, acc>>
vars == <<scen, clock, sess, chat, kids, nudge, acc, orch, inv, faults>>

Sessions == DOMAIN sess
LocalHost(s) == s \in scen.local
Callers == scen.callers
Invites == DOMAIN inv

NewCall == [pc |-> "idle", name |-> {}, offer |-> {}, gen |-> 0, todo |-> <<>>, read |-> 0,
            added |-> {}, requested |-> {}, skipped |-> {}, targets |-> {}, entered |-> FALSE,
            joins |-> {}]
NewInvite == [pc |-> "idle", gen |-> 0]

MoveInit ==
  /\ scen \in Scenarios
  /\ clock = scen.now
  /\ sess = [s \in scen.sessions |-> [run |-> s \notin scen.stopped, gen |-> 1,
                                      active |-> IF s \in scen.away THEN "other" ELSE Root,
                                      routes |-> {Root}, busy |-> s \in scen.busy,
                                      member |-> {Root}]]
  /\ chat = scen.chat /\ kids = scen.kids
  /\ nudge = [s \in scen.sessions |-> [last |-> {}, offer |-> {}]]
  /\ acc = [s \in scen.sessions |-> NewCall]
  /\ orch = {}
  /\ inv = [i \in DOMAIN scen.invites |-> NewInvite]
  /\ faults = 0

Fault == faults < MaxFaults /\ faults' = faults + 1

----------------------------------------------------------------------------
(* channel_move::current_evidence and channel_nudge::detect_root_conversation. *)

\* Live agents of the root that are neither admins nor whitelisted humans;
\* scen.audience further ones are live and never speak.
Participants ==
  {s \in Sessions : sess[s].run /\ Root \in sess[s].routes /\ s \notin scen.admins}

is_substantive_message(m) == m.kind = "talk"

Relevant(now) ==
  SelectSeq(chat, LAMBDA m : is_substantive_message(m) /\ m.by \in Participants
                             /\ m.at > now - CONVERSATION_WINDOW_SECS)
Authors(ms) == {ms[i].by : i \in DOMAIN ms}
Count(ms, s) == Cardinality({i \in DOMAIN ms : ms[i].by = s})
Engaged(ms) == Authors(ms) \cup {s \in scen.reactors \cap Participants : ms # <<>>}
Alternations(ms) == Cardinality({i \in 1..(Len(ms) - 1) : ms[i].by # ms[i + 1].by})

NarrowShare(ms) ==
  LET audience == Cardinality(Participants) + scen.audience
      engaged == Cardinality(Engaged(ms))
  IN audience >= engaged + 3 /\ 2 * engaged <= audience

detect_root_conversation(ms) ==
  /\ Cardinality({s \in Authors(ms) : Count(ms, s) >= 2}) >= 2
  /\ Len(ms) >= IF NarrowShare(ms) THEN 4 ELSE 6
  /\ Alternations(ms) >= 3
  /\ (ms[Len(ms)].at - ms[1].at >= 20 \/ Len(ms) >= 8)

\* The cohort: the authors, with the generation they speak from if it is known.
Cohort(ms) ==
  {[who |-> s, gen |-> IF LocalHost(s) THEN {sess[s].gen} ELSE {}] : s \in Authors(ms)}

current_evidence(now) ==
  LET ms == Relevant(now) IN
  IF detect_root_conversation(ms) THEN {[cohort |-> Cohort(ms)]} ELSE {}

Who(cohort) == {p.who : p \in cohort}

----------------------------------------------------------------------------
(* ChannelNudgeState: considered at the start of a turn and at its checks.  *)

HasOffer(s, now) == \E o \in nudge[s].offer : o.expires >= now
Cooling(s, now) == \E t \in nudge[s].last : now - t < LOTTERY_COOLDOWN_SECS

\* The lottery is won with probability 1/busy^2; either outcome is possible
\* unless the caller is the only busy one, who always wins.
lottery_wins(cohort) ==
  IF Cardinality({s \in Who(cohort) : sess[s].busy}) = 1 THEN {TRUE} ELSE BOOLEAN

consider(s, e, now) ==
  \E win \in lottery_wins(e.cohort) :
    nudge' = [nudge EXCEPT ![s] =
                [last |-> {now},
                 offer |-> IF win THEN {[cohort |-> e.cohort, at |-> now,
                                         expires |-> now + OFFER_TTL_SECS]} ELSE {}]]

maybe_nudge(s) ==
  /\ LocalHost(s) /\ s \in Callers /\ sess[s].run /\ sess[s].busy /\ sess[s].active = Root
  /\ \E e \in current_evidence(clock) :
       /\ s \in Who(e.cohort)
       /\ ~HasOffer(s, clock) /\ ~Cooling(s, clock)
       /\ consider(s, e, clock)
  /\ UNCHANGED <<scen, clock, sess, chat, kids, acc, orch, inv, faults>>

Ended(s, pc) == [acc EXCEPT ![s].pc = pc, ![s].gen = 0, ![s].read = 0, ![s].todo = <<>>,
                            ![s].targets = {}]

FailCall(s) == acc' = Ended(s, "failed") /\ UNCHANGED nudge

FailStale(s) ==
  /\ acc' = [acc EXCEPT ![s] = [NewCall EXCEPT !.pc = "failed", !.joins = acc[s].joins]]
  /\ nudge' = [nudge EXCEPT ![s].offer = {}]

----------------------------------------------------------------------------
(* rpc_accept.                                                              *)

caller_can_resume_offer(s, n) == sess[s].active \in {Root} \cup ({n} \cap kids)
Resuming(s, n) == sess[s].active = n /\ n \in kids

same_cohort(o) ==
  \E e \in current_evidence(clock) :
    /\ Who(e.cohort) = Who(o.cohort)
    /\ \A p \in o.cohort : p \in e.cohort

\* A call without a current offer is refused outright.  The name is a fresh one
\* or that of an existing child; after a failure the caller may try again.
rpc_accept(s, n) ==
  /\ LocalHost(s) /\ s \in Callers /\ sess[s].run /\ acc[s].pc \in {"idle", "failed"}
  /\ HasOffer(s, clock)
  /\ \E o \in nudge[s].offer :
       IF caller_can_resume_offer(s, n) /\ (Resuming(s, n) \/ same_cohort(o))
         THEN /\ acc' = [acc EXCEPT ![s] = [NewCall EXCEPT
                           !.pc = IF n \in kids THEN "reusing" ELSE "creating", !.name = {n},
                           !.offer = {o}, !.gen = sess[s].gen, !.joins = acc[s].joins,
                           !.todo = SetToSortSeq(o.cohort, LAMBDA p, q : scen.rank[p.who] < scen.rank[q.who])]]
              /\ UNCHANGED nudge
         ELSE FailStale(s)
  /\ UNCHANGED <<scen, clock, sess, chat, kids, orch, inv, faults>>

Name(s) == CHOOSE n \in acc[s].name : TRUE

\* The commit of an admission holds only for the incarnation that was read.
SameIncarnation(s, g) == sess[s].run /\ sess[s].gen = g

Admit(f, s, c) == [f EXCEPT ![s].routes = @ \cup {c}, ![s].member = @ \cup {c}]

\* ensure_joinable: the grant may fail, and so does a commit for a session
\* that has changed.
JoinFails(s, g) == ~SameIncarnation(s, g)

EnterExisting(s) ==
  /\ acc[s].pc = "reusing"
  /\ \/ /\ SameIncarnation(s, acc[s].gen)
        /\ sess' = [Admit(sess, s, Name(s)) EXCEPT ![s].active = Name(s)]
        /\ acc' = [acc EXCEPT ![s].pc = "peers", ![s].added = {s}, ![s].entered = TRUE]
        /\ UNCHANGED <<nudge, faults>>
     \/ JoinFails(s, acc[s].gen) /\ FailCall(s) /\ UNCHANGED <<sess, faults>>
     \/ Fault /\ FailCall(s) /\ UNCHANGED sess
  /\ UNCHANGED <<scen, clock, chat, kids, orch, inv>>

\* rpc_channel_create as the move uses it: a name taken meanwhile is refused;
\* a creator that changed meanwhile leaves the channel behind.
CreateChild(s) ==
  /\ acc[s].pc = "creating"
  /\ \/ /\ Name(s) \notin kids
        /\ kids' = kids \cup {Name(s)}
        /\ IF SameIncarnation(s, acc[s].gen)
             THEN /\ sess' = [Admit(sess, s, Name(s)) EXCEPT ![s].active = Name(s)]
                  /\ acc' = [acc EXCEPT ![s].pc = "peers", ![s].added = {s}, ![s].entered = TRUE]
                  /\ UNCHANGED nudge
             ELSE FailCall(s) /\ UNCHANGED sess
        /\ UNCHANGED faults
     \/ Name(s) \in kids /\ FailCall(s) /\ UNCHANGED <<kids, sess, faults>>
     \/ Fault /\ FailCall(s) /\ UNCHANGED sess /\ kids' \in {kids, kids \cup {Name(s)}}
  /\ UNCHANGED <<scen, clock, chat, orch, inv>>

\* Mutant: whoever runs under the participant's pubkey now is taken.
ParticipantByPubkey(p) == sess[p.who].run /\ Root \in sess[p.who].routes

current_local_participant(p) ==
  /\ sess[p.who].run /\ p.gen = {sess[p.who].gen}
  /\ Root \in sess[p.who].routes \cup {sess[p.who].active}

\* The next participant of the cohort is looked up.  The caller is passed over.
NextParticipant(s) ==
  /\ acc[s].pc = "peers" /\ acc[s].todo # <<>>
  /\ LET p == Head(acc[s].todo)
         rest == Tail(acc[s].todo)
     IN IF p.who = s THEN acc' = [acc EXCEPT ![s].todo = rest]
        ELSE IF LocalHost(p.who) /\ ~current_local_participant(p)
          THEN acc' = [acc EXCEPT ![s].todo = rest, ![s].skipped = @ \cup {p.who}]
        ELSE acc' = [acc EXCEPT ![s].pc = IF LocalHost(p.who) THEN "joining" ELSE "granting",
                                ![s].read = sess[p.who].gen]
  /\ UNCHANGED <<scen, clock, sess, chat, kids, nudge, orch, inv, faults>>

\* The grant's await is over: a local peer is in the child or skipped.
JoinPeer(s) ==
  /\ acc[s].pc = "joining"
  /\ LET p == Head(acc[s].todo) IN
     \/ /\ SameIncarnation(p.who, acc[s].read)
        /\ sess' = Admit(sess, p.who, Name(s))
        /\ acc' = [acc EXCEPT ![s].pc = "peers", ![s].todo = Tail(@), ![s].added = @ \cup {p.who},
                              ![s].joins = @ \cup {[p |-> p, gen |-> sess[p.who].gen]}]
        /\ UNCHANGED faults
     \/ /\ \/ JoinFails(p.who, acc[s].read) /\ UNCHANGED faults
           \/ Fault
        /\ acc' = [acc EXCEPT ![s].pc = "peers", ![s].todo = Tail(@), ![s].skipped = @ \cup {p.who}]
        /\ UNCHANGED sess
  /\ UNCHANGED <<scen, clock, chat, kids, nudge, orch, inv>>

\* resolve_backend_pubkey and ensure_backend_admin for a remote participant.
ensure_backend_admin(s) ==
  /\ acc[s].pc = "granting"
  /\ LET p == Head(acc[s].todo) IN
     \/ /\ acc' = [acc EXCEPT ![s].pc = "peers", ![s].todo = Tail(@), ![s].targets = @ \cup {p.who}]
        /\ UNCHANGED faults
     \/ /\ Fault
        /\ acc' = [acc EXCEPT ![s].pc = "peers", ![s].todo = Tail(@), ![s].skipped = @ \cup {p.who}]
  /\ UNCHANGED <<scen, clock, sess, chat, kids, nudge, orch, inv>>

\* One event for all remote targets; it is acknowledged by a relay or all of
\* them are skipped.
publish_running_only_moves(s) ==
  /\ acc[s].pc = "peers" /\ acc[s].todo = <<>>
  /\ \/ /\ orch' = orch \cup {[child |-> Name(s), who |-> t, only |-> TRUE] : t \in acc[s].targets}
        /\ acc' = [acc EXCEPT ![s].pc = "pointing", ![s].requested = acc[s].targets]
        /\ UNCHANGED faults
     \/ /\ acc[s].targets # {} /\ Fault
        /\ acc' = [acc EXCEPT ![s].pc = "pointing", ![s].skipped = @ \cup acc[s].targets]
        /\ UNCHANGED orch
  /\ UNCHANGED <<scen, clock, sess, chat, kids, nudge, inv>>

pointer_exists(o, n) ==
  \E i \in DOMAIN chat : chat[i].kind = "pointer" /\ chat[i].name = n /\ chat[i].at > o.at - 1

OfferOf(s) == CHOOSE o \in acc[s].offer : TRUE

FinishAccept(s) ==
  /\ acc' = Ended(s, "done")
  /\ nudge' = [nudge EXCEPT ![s].offer = {}]

CheckPointer(s) ==
  /\ acc[s].pc = "pointing"
  /\ IF pointer_exists(OfferOf(s), Name(s)) THEN FinishAccept(s)
     ELSE acc' = [acc EXCEPT ![s].pc = "posting"] /\ UNCHANGED nudge
  /\ UNCHANGED <<scen, clock, sess, chat, kids, orch, inv, faults>>

\* The pointer is an ordinary channel_send by the caller into the root, which
\* resolves the caller again: a stopped one cannot post.  A send that fails may
\* have reached a relay and come back as an echo.
PostPointer(s) ==
  /\ acc[s].pc = "posting"
  /\ \/ /\ sess[s].run
        /\ chat' = Append(chat, [by |-> s, at |-> clock, kind |-> "pointer", name |-> Name(s)])
        /\ FinishAccept(s) /\ UNCHANGED faults
     \/ ~sess[s].run /\ FailCall(s) /\ UNCHANGED <<chat, faults>>
     \/ /\ Fault /\ FailCall(s)
        /\ chat' \in {chat, Append(chat, [by |-> s, at |-> clock, kind |-> "pointer", name |-> Name(s)])}
  /\ UNCHANGED <<scen, clock, sess, kids, orch, inv>>

----------------------------------------------------------------------------
(* The other backends (handle_orchestration) and the invite RPC.            *)

\* admit_running_target: a stopped or relocated session is a terminal skip.
admit_running_target(o) == sess[o.who].run /\ Root \in sess[o.who].routes \cup {sess[o.who].active}

RemoteHandles(o) ==
  /\ o \in orch /\ orch' = orch \ {o}
  /\ sess' = IF o.only
               THEN IF admit_running_target(o) THEN Admit(sess, o.who, o.child) ELSE sess
               ELSE IF ~sess[o.who].run /\ sess[o.who].gen < MaxGen
                      THEN Admit([sess EXCEPT ![o.who].run = TRUE, ![o.who].gen = @ + 1,
                                              ![o.who].active = o.child], o.who, o.child)
                      ELSE sess
  /\ UNCHANGED <<scen, clock, chat, kids, nudge, acc, inv, faults>>

Target(i) == scen.invites[i].who
Into(i) == scen.invites[i].chan

\* invite_session: a running session is pulled, a stopped one resumed, one of
\* another host asked for through its backend.
rpc_invite(i) ==
  /\ inv[i].pc = "idle"
  /\ inv' = [inv EXCEPT ![i] = [pc |-> IF ~LocalHost(Target(i)) THEN "asking"
                                       ELSE IF sess[Target(i)].run THEN "pulling" ELSE "resuming",
                                gen |-> sess[Target(i)].gen]]
  /\ UNCHANGED <<scen, clock, sess, chat, kids, nudge, acc, orch, faults>>

FailInvite(i) == inv' = [inv EXCEPT ![i].pc = "failed"]

pull_live_session(i) ==
  /\ inv[i].pc = "pulling"
  /\ \/ /\ SameIncarnation(Target(i), inv[i].gen)
        /\ sess' = Admit(sess, Target(i), Into(i)) /\ inv' = [inv EXCEPT ![i].pc = "waiting"]
        /\ UNCHANGED faults
     \/ /\ \/ JoinFails(Target(i), inv[i].gen) /\ UNCHANGED faults
           \/ Fault
        /\ FailInvite(i) /\ UNCHANGED sess
  /\ UNCHANGED <<scen, clock, chat, kids, nudge, acc, orch>>

\* A generation is reserved over a stopped row only; a row that runs again
\* refuses the resume.
resume_local_session(i) ==
  /\ inv[i].pc = "resuming"
  /\ \/ /\ ~sess[Target(i)].run /\ sess[Target(i)].gen < MaxGen
        /\ sess' = Admit([sess EXCEPT ![Target(i)].run = TRUE, ![Target(i)].gen = @ + 1,
                                      ![Target(i)].active = Into(i)], Target(i), Into(i))
        /\ inv' = [inv EXCEPT ![i].pc = "waiting"] /\ UNCHANGED faults
     \/ /\ \/ (sess[Target(i)].run \/ sess[Target(i)].gen = MaxGen) /\ UNCHANGED faults
           \/ Fault
        /\ FailInvite(i) /\ UNCHANGED sess
  /\ UNCHANGED <<scen, clock, chat, kids, nudge, acc, orch>>

invite_remote_session(i) ==
  /\ inv[i].pc = "asking"
  /\ \/ /\ orch' = orch \cup {[child |-> Into(i), who |-> Target(i), only |-> FALSE]}
        /\ inv' = [inv EXCEPT ![i].pc = "waiting"] /\ UNCHANGED faults
     \/ Fault /\ FailInvite(i) /\ UNCHANGED orch
  /\ UNCHANGED <<scen, clock, sess, chat, kids, nudge, acc>>

\* The predicates of wait_local_session_online and wait_remote_session_online.
Online(i) ==
  /\ Into(i) \in sess[Target(i)].member
  /\ LocalHost(Target(i)) => sess[Target(i)].run /\ Into(i) \in sess[Target(i)].routes

\* Polled until it holds, or given up after ONLINE_WAIT.
wait_until(i) ==
  /\ inv[i].pc = "waiting"
  /\ inv' = [inv EXCEPT ![i].pc = IF Online(i) THEN "online" ELSE "failed"]
  /\ UNCHANGED <<scen, clock, sess, chat, kids, nudge, acc, orch, faults>>

----------------------------------------------------------------------------
(* The environment.                                                         *)

Tick ==
  /\ \E d \in scen.ticks : clock + d <= scen.until /\ clock' = clock + d
  /\ UNCHANGED <<scen, sess, chat, kids, nudge, acc, orch, inv, faults>>

Talks(s) ==
  /\ s \in scen.talkers /\ sess[s].run /\ Root \in sess[s].routes
  /\ Len(chat) < Len(scen.chat) + 1
  /\ chat' = Append(chat, [by |-> s, at |-> clock, kind |-> "talk", name |-> ""])
  /\ UNCHANGED <<scen, clock, sess, kids, nudge, acc, orch, inv, faults>>

Stops(s) ==
  /\ s \in scen.churn /\ sess[s].run
  /\ sess' = [sess EXCEPT ![s].run = FALSE, ![s].busy = FALSE]
  /\ UNCHANGED <<scen, clock, chat, kids, nudge, acc, orch, inv, faults>>

Relaunches(s) ==
  /\ s \in scen.churn /\ ~sess[s].run /\ sess[s].gen < MaxGen
  /\ sess' = [sess EXCEPT ![s].run = TRUE, ![s].gen = @ + 1]
  /\ UNCHANGED <<scen, clock, chat, kids, nudge, acc, orch, inv, faults>>

\* The session leaves the root, or returns its focus to it.
Leaves(s) ==
  /\ s \in scen.churn /\ sess[s].run /\ Root \in sess[s].routes /\ sess[s].active # Root
  /\ sess' = [sess EXCEPT ![s].routes = @ \ {Root}, ![s].member = @ \ {Root}]
  /\ UNCHANGED <<scen, clock, chat, kids, nudge, acc, orch, inv, faults>>

\* The nudge state and the calls live in the daemon's memory.
Restart ==
  /\ Fault
  /\ nudge' = [s \in Sessions |-> [last |-> {}, offer |-> {}]]
  /\ acc' = [s \in Sessions |-> IF acc[s].pc \in {"idle", "done"} THEN acc[s]
                                ELSE [NewCall EXCEPT !.pc = "failed", !.joins = acc[s].joins]]
  /\ inv' = [i \in Invites |-> [inv[i] EXCEPT !.pc = IF @ \in {"idle", "online"} THEN @ ELSE "failed"]]
  /\ UNCHANGED <<scen, clock, sess, chat, kids, orch>>

AcceptStep(s) ==
  \/ EnterExisting(s) \/ CreateChild(s) \/ NextParticipant(s) \/ JoinPeer(s)
  \/ ensure_backend_admin(s) \/ publish_running_only_moves(s) \/ CheckPointer(s) \/ PostPointer(s)

InviteStep(i) ==
  \/ pull_live_session(i) \/ resume_local_session(i) \/ invite_remote_session(i) \/ wait_until(i)

MoveNext ==
  \/ \E s \in Sessions :
       \/ maybe_nudge(s) \/ \E n \in scen.names : rpc_accept(s, n)
       \/ AcceptStep(s) \/ Talks(s) \/ Stops(s) \/ Relaunches(s) \/ Leaves(s)
  \/ \E o \in orch : RemoteHandles(o)
  \/ \E i \in Invites : rpc_invite(i) \/ InviteStep(i)
  \/ Tick \/ Restart

\* RPC handlers run on; the relays deliver an acknowledged event to the
\* backend it names.
MoveFairness ==
  /\ WF_vars(\E s \in Sessions : AcceptStep(s))
  /\ WF_vars(\E o \in orch : RemoteHandles(o))
  /\ WF_vars(\E i \in Invites : InviteStep(i))

MoveSpec == MoveInit /\ [][MoveNext]_vars /\ MoveFairness

----------------------------------------------------------------------------
CallPcs == {"idle", "creating", "reusing", "peers", "joining", "granting", "pointing", "posting",
            "done", "failed"}

\* Calls are at one of their program points and offers, clocks and chats are
\* of their types; a call past its checks carries the offer it took.
MoveTypeOK ==
  /\ clock \in scen.now..scen.until /\ faults \in 0..MaxFaults
  /\ \A s \in Sessions :
       /\ sess[s].gen \in 1..MaxGen /\ Cardinality(nudge[s].offer) <= 1
       /\ acc[s].pc \in CallPcs
       /\ acc[s].pc \in CallPcs \ {"idle", "failed"} => Cardinality(acc[s].offer) = 1
  /\ \A i \in Invites : inv[i].pc \in {"idle", "pulling", "resuming", "asking", "waiting",
                                        "online", "failed"}

Spoke(s) == \E i \in DOMAIN chat : chat[i].by = s /\ chat[i].kind = "talk"
Invited(s, c) == \E i \in Invites : Target(i) = s /\ Into(i) = c /\ inv[i].pc # "idle"

\* A move takes along the agents that took part and no silent ones
\* (channel_nudge.rs:170, skills/mosaico/references/channel-creation.md:125).
SilentStay ==
  \A s \in Sessions : \A c \in sess[s].routes \cap scen.names : Spoke(s) \/ Invited(s, c)

\* A peer on this host is admitted only as the incarnation that had spoken when
\* the offer was made, through every await of the acceptance (accept.rs:221).
MovedAsSpoken ==
  \A s \in Sessions : \A j \in acc[s].joins : j.p.gen = {j.gen}

\* The answer accounts for every member of the captured cohort exactly once,
\* whatever failed on the way (accept.rs:76).
AnswerComplete ==
  \A s \in Sessions : acc[s].pc = "done" =>
    LET a == acc[s] IN
    /\ a.added \cup a.requested \cup a.skipped = Who(OfferOf(s).cohort) \cup {s}
    /\ a.added \cap a.skipped = {} /\ a.requested \cap a.skipped = {}

\* Retrying a move after a failure posts no second pointer: there are at most as
\* many pointers to a child as sessions that went there (accept.rs:159).
PointerOncePerCaller ==
  \A n \in scen.names : \A s \in Sessions :
    Cardinality({i \in DOMAIN chat : chat[i].kind = "pointer" /\ chat[i].name = n /\ chat[i].by = s}) <= 1

\* A move that failed after its caller had entered the child can be taken up
\* again until the offer expires: the offer is still there unless the daemon
\* restarted (accept.rs:34-43).
PartialMoveResumable ==
  \A s \in Sessions :
    acc[s].pc = "failed" /\ acc[s].entered =>
      OfferOf(s).expires < clock \/ (nudge[s].offer = acc[s].offer /\ Name(s) \in kids)

\* The commit of an invite or a move never gives a route to a later incarnation
\* than the one it read: a session that relaunches while the membership is being
\* confirmed keeps the routes it has (invite_rpc/session.rs:34).
InviteFenced ==
  [][\A i \in Invites :
       inv[i].pc = "pulling" /\ inv'[i].pc = "waiting" => sess[Target(i)].gen = inv[i].gen
                                                          /\ sess[Target(i)].run]_vars

\* An agent of another host that was asked to move arrives in the child, unless
\* it has stopped or left the parent (orchestration_handler/running.rs:14).
RequestedArrive ==
  []<>(\A s \in Sessions : \A r \in acc[s].requested :
         \/ sess[r].gen > 1 \/ ~sess[r].run \/ Root \notin sess[r].routes
         \/ Name(s) \in sess[r].routes)

\* Every acceptance and every invite comes to an answer.
CallsAnswer ==
  []<>(/\ \A s \in Sessions : acc[s].pc \in {"idle", "done", "failed"}
       /\ \A i \in Invites : inv[i].pc \in {"idle", "online", "failed"})

\* What an accepted move promises: those who spoke and nobody else, as the
\* incarnation that spoke, one pointer, a full answer, and a retry that finds its way.
MoveSafe == MoveTypeOK /\ SilentStay /\ MovedAsSpoken /\ AnswerComplete
            /\ PointerOncePerCaller /\ PartialMoveResumable
=============================================================================
