---------------------------- MODULE McpGateway ----------------------------
(***************************************************************************)
(* The MCP server: the login that turns an authorization request into a    *)
(* bearer token (cli/mcp/auth*.rs), the resolution of a remote caller to a *)
(* daemon-owned session (cli/mcp/caller.rs, daemon/server/mcp_actor.rs,    *)
(* state/mcp_actors.rs), the daemon call a tool makes for it, and the      *)
(* resource subscriptions of the HTTP and stdio transports.  The three     *)
(* parts share no state, so a behaviour exercises one of them: `scene'.    *)
(***************************************************************************)
EXTENDS Naturals, FiniteSets, Sequences

CONSTANTS
    Browsers,     \* people logging in
    AskOf,        \* what the client of each asked for: resource and scope
    PageTTL,      \* 300 s: lifetime of a login page, of a code and of a signed login
    FutureSkew,   \* 120 s
    MMaxClock, MaxPages, MaxCodes,
    MReqs,        \* MCP requests
    ReqOf,        \* the caller metadata, tool and arguments of each
    ActorPubs,    \* fresh session keys
    AMaxGen,
    Uris,         \* subscribed resources, one per (actor, uri)
    MaxStreams, MaxUpdates, BroadcastCap,
    MMaxFaults

ASSUME GatewayBounds ==
    /\ {PageTTL, MMaxClock, MaxPages, MaxCodes, AMaxGen, MaxStreams, BroadcastCap} \subseteq Nat \ {0}
    /\ {FutureSkew, MaxUpdates, MMaxFaults} \subseteq Nat
    /\ ActorPubs \subseteq Nat

\* No client names its conversation like the constant that stands for none.
ASSUME RequestAssumption ==
    \A r \in MReqs : /\ ReqOf[r].agent \in {"openai", "grok", "other"}
                     /\ ReqOf[r].session # "subject-scoped-read"

VARIABLES
    scene,     \* which part runs: "login", "actor" or "feed"
    mclock,
    pages,     \* challenges: the login pages not yet submitted
    codes,     \* authorization codes not yet redeemed
    tokens,    \* tokens issued, for ever valid
    flow,      \* per browser: the forms it may post, the codes it was handed
    npage, ncode,
    alias,     \* mcp_actor_aliases: actor key -> {} or {pubkey}
    arow,      \* sessions rows of actors
    profiles,  \* actors whose profile was published
    mlane,     \* who holds mcp_actor_sync
    areq,      \* requests in flight
    tasks,     \* the subscription map: uri -> stream number, 0 when absent
    streams,   \* the tail streams spawned
    listener,  \* one SSE listener's queue
    updates, mfaults

loginVars == <<mclock, pages, codes, tokens, flow, npage, ncode>>
actorVars == <<alias, arow, profiles, mlane, areq>>
feedVars == <<tasks, streams, listener, updates>>
mcpVars == <<scene, loginVars, actorVars, feedVars, mfaults>>

Fault == mfaults < MMaxFaults /\ mfaults' = mfaults + 1

---------------------------------------------------------------------------
(* Login.  A field is "none" when the request omits it; the login page      *)
(* writes an omitted field as an empty one, which the posted form keeps.    *)

\* AuthorizeParams::login_fields.
login_fields(ask) ==
    [f \in {"resource", "scope"} |-> IF ask[f] = "none" THEN "empty" ELSE ask[f]]

\* resource_url fills in an omitted resource only.
resource_url(ask) == IF ask.resource = "none" THEN "mcp" ELSE ask.resource

\* AuthorizeParams::validate: the one field that depends on the request.
ValidAsk(ask) == resource_url(ask) = "mcp"

\* The page a browser gets, from `old' challenges; unsubmitted expired ones go.
login_page(b, ask, old) ==
    /\ npage < MaxPages
    /\ npage' = npage + 1
    /\ pages' = {p \in old : p.exp > mclock} \cup
                {[id |-> npage', ask |-> ask, born |-> mclock, exp |-> mclock + PageTTL]}
    /\ flow' = [flow EXCEPT ![b].forms = @ \cup {[page |-> npage', ask |-> login_fields(ask)]}]

authorize_page(b) ==
    /\ flow[b].forms = {} /\ ValidAsk(AskOf[b])
    /\ login_page(b, AskOf[b], pages)
    /\ UNCHANGED <<mclock, codes, tokens, ncode>>

\* Mutant: the challenge of a submitted page stays in the map.
ConsumeKeeping(id) == pages

\* consume_challenge removes the challenge whatever becomes of the login.
consume_challenge(id) == {p \in pages : p.id # id}

\* LoginChallenge::validate: not expired, and the form is the one of this page.
ChallengeAccepts(p, form) ==
    /\ p.exp > mclock
    /\ resource_url(p.ask) = resource_url(form.ask) /\ p.ask.scope = form.ask.scope

\* The scope written into the code: only an omitted one gets the default.
GrantedScope(ask) == IF ask.scope = "none" THEN "rw" ELSE ask.scope

\* verify_login_event: signed for this page's challenge, neither stale nor more than
\* the allowed skew ahead.  An nsec login proves the key without an event.
verify_login_event(ev, form) ==
    /\ ev.page = form.page
    /\ ev.at <= mclock + FutureSkew /\ ev.at + PageTTL >= mclock

\* pubkey_for_login, then ensure_whitelisted.
pubkey_for_login(b, evs, form) ==
    /\ AskOf[b].whitelisted
    /\ evs = {} \/ \E ev \in evs : verify_login_event(ev, form)

\* What a browser can send along: nothing but an nsec, or an event its extension
\* signed at some moment for the page of one of its forms.
Proofs(b) ==
    {{}} \cup {{[page |-> f.page, at |-> t]} : f \in flow[b].forms, t \in 0..MMaxClock}

\* A posted form: refused outright, sent back to a new page, or given a code.
authorize_submit(b, form, evs) ==
    LET page == {p \in pages : p.id = form.page}
        good == pubkey_for_login(b, evs, form) /\ \E p \in page : ChallengeAccepts(p, form)
    IN /\ form \in flow[b].forms /\ ValidAsk(form.ask)
       /\ IF good
          THEN /\ ncode < MaxCodes /\ ncode' = ncode + 1
               /\ pages' = consume_challenge(form.page)
               /\ codes' = codes \cup {[id |-> ncode', page |-> form.page,
                                        scope |-> GrantedScope(form.ask),
                                        born |-> (CHOOSE p \in page : TRUE).born,
                                        exp |-> mclock + PageTTL]}
               /\ flow' = [flow EXCEPT ![b].codes = @ \cup {ncode'}]
               /\ UNCHANGED npage
          ELSE /\ login_page(b, form.ask, consume_challenge(form.page))
               /\ UNCHANGED <<codes, ncode>>
       /\ UNCHANGED <<mclock, tokens>>

\* The code leaves the map before the request is validated.
Redeemed(c) == codes \ {c}

\* validate_token_request, for the client that holds the code and its verifier.
validate_token_request(c) == c.exp > mclock

\* issue_token signs what the code says; nothing in it expires.
issue_token(b, c) ==
    [n |-> Cardinality(tokens), page |-> c.page, who |-> b, scope |-> c.scope,
     age |-> mclock - c.born]

\* The client may repeat a request whose answer it lost.
token(b, c) ==
    /\ c \in codes /\ c.id \in flow[b].codes
    /\ codes' = Redeemed(c)
    /\ tokens' = IF validate_token_request(c)
                 THEN tokens \cup {issue_token(b, c)} ELSE tokens
    /\ UNCHANGED <<mclock, pages, flow, npage, ncode>>

LoginTick ==
    /\ mclock < MMaxClock /\ mclock' = mclock + 1
    /\ UNCHANGED <<pages, codes, tokens, flow, npage, ncode>>

---------------------------------------------------------------------------
(* Actors.                                                                 *)

\* describe: the fields the actor key is the keyed hash of, or a refusal.  Only an
\* OpenAI write without an explicit session needs a conversation.
describe(q) ==
    IF q.agent = "other" \/ (q.agent = "openai" /\ q.write /\ ~q.override /\ q.session = "none")
    THEN {}
    ELSE IF q.agent = "grok" THEN {[kind |-> "grok", subject |-> "none", session |-> "none"]}
         ELSE {[kind |-> "openai", subject |-> q.subject,
                session |-> IF q.session = "none" THEN "subject-scoped-read" ELSE q.session]}

Keys == UNION {describe(ReqOf[r]) : r \in MReqs}
KeyOf(r) == CHOOSE k \in describe(ReqOf[r]) : TRUE
NoRow == [st |-> "none", gen |-> 0, ep |-> 0, rec |-> "ready", kind |-> "none"]
Waiting == [pc |-> "idle", pub |-> {}, gen |-> 0, ep |-> 0, fresh |-> FALSE, as |-> "nobody"]
Fail(r) == [areq EXCEPT ![r] = [Waiting EXCEPT !.pc = "failed"]]

\* required_scope: the tokens' scopes that allow the request.
required_scope(q) == IF q.write THEN {"rw"} ELSE {"r", "rw"}

\* verify: the bearer's scope against the tool's.
verify(q) == q.token \in required_scope(q)

\* A request without the scope is answered with the challenge and nothing else.
post_mcp(r) ==
    /\ areq[r].pc = "idle"
    /\ areq' = IF verify(ReqOf[r]) THEN [areq EXCEPT ![r].pc = "resolve"] ELSE Fail(r)
    /\ UNCHANGED <<alias, arow, profiles, mlane, mfaults>>

resolve(r) ==
    /\ areq[r].pc = "resolve"
    /\ areq' = IF describe(ReqOf[r]) = {} THEN Fail(r) ELSE [areq EXCEPT ![r].pc = "lane"]
    /\ UNCHANGED <<alias, arow, profiles, mlane, mfaults>>

\* state.mcp_actor_sync is held from the lookup to the alias.
LaneFree == mlane = {}

\* mcp_actor_pubkey, in the lane.
mcp_actor_pubkey(r) ==
    /\ areq[r].pc = "lane" /\ LaneFree
    /\ mlane' = mlane \cup {r}
    /\ areq' = [areq EXCEPT ![r].pc = IF alias[KeyOf(r)] = {} THEN "reserve" ELSE "activate",
                            ![r].pub = alias[KeyOf(r)]]
    /\ UNCHANGED <<alias, arow, profiles, mfaults>>

\* Mutant: the row is set running whatever it is.
ActivateAnyway(row) ==
    {[row EXCEPT !.st = "running",
                 !.gen = @ + (IF row.st = "stopped" THEN 1 ELSE 0),
                 !.ep = @ + (IF row.st = "stopped" THEN 1 ELSE 0)]}

\* The row after activate_mcp_actor, nothing when it is stopping or revoked.
activate_mcp_actor(row) ==
    IF row.st = "stopping" \/ row.rec = "revoked" THEN {}
    ELSE {[row EXCEPT !.st = "running",
                      !.gen = @ + (IF row.st = "stopped" THEN 1 ELSE 0),
                      !.ep = @ + (IF row.st = "stopped" THEN 1 ELSE 0)]}

Activate(r) ==
    \E p \in areq[r].pub :
        /\ areq[r].pc = "activate" /\ mlane' = mlane \ {r}
        /\ arow[p].gen < AMaxGen
        /\ IF activate_mcp_actor(arow[p]) = {}
           THEN areq' = Fail(r) /\ UNCHANGED arow
           ELSE /\ areq' = [areq EXCEPT ![r].pc = "session"]
                /\ arow' = [arow EXCEPT ![p] = CHOOSE x \in activate_mcp_actor(arow[p]) : TRUE]
        /\ UNCHANGED <<alias, profiles, mfaults>>

\* prepare_session_identity, then reserve_mcp_actor_session: a running row.
reserve_mcp_actor_session(r) ==
    \E p \in ActorPubs :
        /\ areq[r].pc = "reserve" /\ arow[p].st = "none"
        /\ \A q \in ActorPubs : q < p => arow[q].st # "none"
        /\ arow' = [arow EXCEPT ![p] = [st |-> "running", gen |-> 1, ep |-> 1, rec |-> "ready",
                                        kind |-> ReqOf[r].agent]]
        /\ areq' = [areq EXCEPT ![r].pc = "bind", ![r].pub = {p}, ![r].fresh = TRUE]
        /\ UNCHANGED <<alias, profiles, mlane, mfaults>>

\* bind_mcp_actor inserts the alias, or finds another one there and fails.
bind_mcp_actor(r) ==
    /\ areq[r].pc = "bind" /\ mlane' = mlane \ {r}
    /\ IF alias[KeyOf(r)] \in {{}, areq[r].pub}
       THEN /\ alias' = [alias EXCEPT ![KeyOf(r)] = areq[r].pub]
            /\ areq' = [areq EXCEPT ![r].pc = "session"]
       ELSE areq' = Fail(r) /\ UNCHANGED alias
    /\ UNCHANGED <<arow, profiles, mfaults>>

\* The session is read once, before the membership is confirmed.
get_session(r) ==
    \E p \in areq[r].pub :
        /\ areq[r].pc = "session"
        /\ areq' = [areq EXCEPT ![r].pc = "join", ![r].gen = arow[p].gen, ![r].ep = arow[p].ep]
        /\ UNCHANGED <<alias, arow, profiles, mlane, mfaults>>

\* ensure_joinable: an unconfirmed grant fails, and so does a session that changed.
ensure_joinable(r, confirmed) ==
    \E p \in areq[r].pub :
        /\ areq[r].pc = "join"
        /\ IF confirmed THEN UNCHANGED mfaults ELSE Fault
        /\ LET same == arow[p].st = "running" /\ arow[p].gen = areq[r].gen /\ arow[p].ep = areq[r].ep
           IN areq' = IF confirmed /\ same
                      THEN [areq EXCEPT ![r].pc = IF areq[r].fresh THEN "profile" ELSE "call"]
                      ELSE Fail(r)
        /\ UNCHANGED <<alias, arow, profiles, mlane>>

publish_profile(r, stored) ==
    \E p \in areq[r].pub :
        /\ areq[r].pc = "profile"
        /\ IF stored THEN /\ profiles' = profiles \cup {p}
                          /\ areq' = [areq EXCEPT ![r].pc = "call"] /\ UNCHANGED mfaults
                     ELSE Fault /\ areq' = Fail(r) /\ UNCHANGED profiles
        /\ UNCHANGED <<alias, arow, mlane>>

\* The session the daemon acts as.  A tool's own session argument comes first, then
\* the caller's actor; channel_read writes its absent argument as a null, which
\* counts as present, and then the server's own identity stays.
caller_params(q, caller) ==
    IF q.override THEN "chosen" ELSE IF q.tool = "channel_read" THEN "server" ELSE caller

call_as(r) ==
    /\ areq[r].pc = "call"
    /\ areq' = [areq EXCEPT ![r].pc = "done", ![r].as = caller_params(ReqOf[r], "actor")]
    /\ UNCHANGED <<alias, arow, profiles, mlane, mfaults>>

\* reserve_due_idle_eviction stops an idle actor.
StopActor(p) ==
    /\ arow[p].st = "running"
    /\ arow' = [arow EXCEPT ![p].st = "stopping", ![p].ep = @ + 1]
    /\ UNCHANGED <<alias, profiles, mlane, areq, mfaults>>

FinishStop(p) ==
    /\ arow[p].st = "stopping"
    /\ arow' = [arow EXCEPT ![p].st = "stopped", ![p].ep = @ + 1]
    /\ UNCHANGED <<alias, profiles, mlane, areq, mfaults>>

\* The operator ends the session for good, running or not.
revoke_session_recovery_if_generation(p) ==
    /\ arow[p].st # "none" /\ arow[p].rec = "ready"
    /\ arow' = [arow EXCEPT ![p].rec = "revoked"]
    /\ UNCHANGED <<alias, profiles, mlane, areq, mfaults>>

\* reconcile_sessions keeps the running row of an aliased actor: it has no process.
Retained(p) == \E k \in Keys : p \in alias[k]

\* A crash ends the requests; boot stops what nobody can reach.
DaemonRestart ==
    /\ Fault /\ mlane' = {}
    /\ areq' = [r \in MReqs |-> IF areq[r].pc \in {"idle", "done", "failed"} THEN areq[r]
                                ELSE [Waiting EXCEPT !.pc = "failed"]]
    /\ arow' = [p \in ActorPubs |->
                  IF arow[p].st = "stopping" \/ (arow[p].st = "running" /\ ~Retained(p))
                  THEN [arow[p] EXCEPT !.st = "stopped", !.ep = @ + 1] ELSE arow[p]]
    /\ UNCHANGED <<alias, profiles>>

---------------------------------------------------------------------------
(* Subscriptions.  The entry of a stream that ended stays until it is      *)
(* removed, so a second subscribe to it answers without a stream.          *)

Absent(u) == tasks[u] = 0

add(u) ==
    /\ IF Absent(u)
       THEN /\ Cardinality(streams) < MaxStreams
            /\ LET n == Cardinality(streams) + 1
               IN /\ streams' = streams \cup {[id |-> n, uri |-> u, live |-> TRUE, todo |-> 0]}
                  /\ tasks' = [tasks EXCEPT ![u] = n]
       ELSE UNCHANGED <<streams, tasks>>
    /\ UNCHANGED <<listener, updates, mfaults>>

Aborted(ids) == {IF s.id \in ids THEN [s EXCEPT !.live = FALSE, !.todo = 0] ELSE s : s \in streams}

remove(u) ==
    /\ tasks[u] # 0
    /\ tasks' = [tasks EXCEPT ![u] = 0]
    /\ streams' = Aborted({tasks[u]})
    /\ UNCHANGED <<listener, updates, mfaults>>

\* End of input on stdio drains the map.
shutdown ==
    /\ \E u \in Uris : tasks[u] # 0
    /\ tasks' = [u \in Uris |-> 0]
    /\ streams' = Aborted({tasks[u] : u \in Uris})
    /\ UNCHANGED <<listener, updates, mfaults>>

\* The daemon connection of a stream ends; its entry is left behind.
StreamEnds(s) ==
    /\ s \in streams /\ s.live /\ Fault
    /\ streams' = (streams \ {s}) \cup {[s EXCEPT !.live = FALSE, !.todo = 0]}
    /\ UNCHANGED <<tasks, listener, updates>>

\* An event that event_updates_status_resource selects reaches every live stream.
Update ==
    /\ updates < MaxUpdates /\ updates' = updates + 1
    /\ streams' = {IF s.live THEN [s EXCEPT !.todo = @ + 1] ELSE s : s \in streams}
    /\ UNCHANGED <<tasks, listener, mfaults>>

\* A send into a full broadcast drops the oldest note, and the listener skips the lag.
run_subscription(s) ==
    /\ s \in streams /\ s.todo > 0
    /\ streams' = (streams \ {s}) \cup {[s EXCEPT !.todo = @ - 1]}
    /\ listener' = IF listener.open
                   THEN [listener EXCEPT !.q = IF Len(@) < BroadcastCap THEN Append(@, s.uri)
                                               ELSE Append(Tail(@), s.uri)]
                   ELSE listener
    /\ UNCHANGED <<tasks, updates, mfaults>>

get_mcp ==
    /\ ~listener.open /\ listener' = [listener EXCEPT !.open = TRUE]
    /\ UNCHANGED <<tasks, streams, updates, mfaults>>

ListenerReads ==
    /\ listener.q # <<>>
    /\ listener' = [listener EXCEPT !.q = Tail(@)]
    /\ UNCHANGED <<tasks, streams, updates, mfaults>>

---------------------------------------------------------------------------

McpInit ==
    /\ scene \in {"login", "actor", "feed"}
    /\ mclock = 0 /\ pages = {} /\ codes = {} /\ tokens = {} /\ npage = 0 /\ ncode = 0
    /\ flow = [b \in Browsers |-> [forms |-> {}, codes |-> {}]]
    /\ alias = [k \in Keys |-> {}] /\ arow = [p \in ActorPubs |-> NoRow]
    /\ profiles = {} /\ mlane = {} /\ areq = [r \in MReqs |-> Waiting]
    /\ tasks = [u \in Uris |-> 0] /\ streams = {} /\ updates = 0
    /\ listener = [open |-> FALSE, q |-> <<>>]
    /\ mfaults = 0

InLogin(A) == scene = "login" /\ A /\ UNCHANGED <<scene, actorVars, feedVars, mfaults>>
InActor(A) == scene = "actor" /\ A /\ UNCHANGED <<scene, loginVars, feedVars>>
InFeed(A) == scene = "feed" /\ A /\ UNCHANGED <<scene, loginVars, actorVars>>

McpNext ==
    \/ \E b \in Browsers :
        \/ InLogin(authorize_page(b))
        \/ \E f \in flow[b].forms, evs \in Proofs(b) : InLogin(authorize_submit(b, f, evs))
        \/ \E c \in codes : InLogin(token(b, c))
    \/ InLogin(LoginTick)
    \/ \E r \in MReqs :
        \/ InActor(post_mcp(r))
        \/ InActor(resolve(r))
        \/ InActor(mcp_actor_pubkey(r))
        \/ InActor(Activate(r))
        \/ InActor(reserve_mcp_actor_session(r))
        \/ InActor(bind_mcp_actor(r))
        \/ InActor(get_session(r))
        \/ \E ok \in BOOLEAN : InActor(ensure_joinable(r, ok))
        \/ \E ok \in BOOLEAN : InActor(publish_profile(r, ok))
        \/ InActor(call_as(r))
    \/ \E p \in ActorPubs :
        \/ InActor(StopActor(p))
        \/ InActor(revoke_session_recovery_if_generation(p))
        \/ InActor(FinishStop(p))
    \/ InActor(DaemonRestart)
    \/ \E u \in Uris : InFeed(add(u)) \/ InFeed(remove(u))
    \/ InFeed(shutdown)
    \/ \E s \in streams : InFeed(StreamEnds(s)) \/ InFeed(run_subscription(s))
    \/ InFeed(Update)
    \/ InFeed(get_mcp)
    \/ InFeed(ListenerReads)

McpSpec == McpInit /\ [][McpNext]_mcpVars

---------------------------------------------------------------------------

\* Type correctness: the lane has one holder, and no map outgrows its bounds.
McpTypeOK ==
    /\ scene \in {"login", "actor", "feed"} /\ mclock \in 0..MMaxClock
    /\ Cardinality(pages) <= MaxPages /\ Cardinality(codes) <= MaxCodes
    /\ Cardinality(mlane) <= 1 /\ profiles \subseteq ActorPubs
    /\ arow \in [ActorPubs -> [st : {"none", "running", "stopping", "stopped"}, gen : 0..AMaxGen,
                               ep : 0..(3 * AMaxGen), rec : {"ready", "revoked"},
                               kind : {"none", "openai", "grok"}]]
    /\ tasks \in [Uris -> 0..MaxStreams] /\ Len(listener.q) <= BroadcastCap
    /\ mfaults \in 0..MMaxFaults

\* One login page gives at most one token, however often the form is posted from
\* another tab and however often the client repeats the redemption (auth.rs:130, 226).
GrantedOnce == \A s, t \in tokens : s.page = t.page => s = t

\* A client that named its resource and scope gets exactly that scope, and never
\* longer after its page was shown than a page's and a code's lifetime, although
\* expired pages are only swept when another page is shown.
GrantAsAsked ==
    \A t \in tokens :
        /\ t.age < 2 * PageTTL
        /\ "none" \notin {AskOf[t.who].resource, AskOf[t.who].scope} => t.scope = AskOf[t.who].scope

\* All of grok is one conversation; OpenAI's are told apart by subject and session.
SameConversation(p, q) ==
    /\ p.agent = q.agent
    /\ p.agent = "openai" => p.subject = q.subject /\ p.session = q.session

\* Requests that were answered share an actor exactly when they come from one
\* conversation: two of them never act as one session, one never as two, although
\* the actor is made in several steps that requests, stops and crashes come between
\* (caller.rs:66-120, daemon/server/mcp_actor.rs).
ActorsApart ==
    \A r, s \in MReqs :
        (areq[r].pc = "done" /\ areq[s].pc = "done") =>
            (areq[r].pub = areq[s].pub <=> SameConversation(ReqOf[r], ReqOf[s]))

\* No running row of an actor is out of reach of every later request: it has its
\* alias, or the request that reserved it is about to write it, or it never will be
\* because the daemon died in between and boot stopped it.
NoOrphanActor ==
    \A p \in ActorPubs :
        arow[p].st = "running" =>
            \/ \E k \in Keys : p \in alias[k]
            \/ \E r \in MReqs : areq[r].pc = "bind" /\ areq[r].pub = {p}

\* A request never brings back an actor that is stopping or was revoked, and a
\* stopped one comes back only as a new generation.
RevivedAsNew ==
    [][\A p \in ActorPubs :
         (arow[p].st \in {"stopping", "stopped"} /\ arow'[p].st = "running") =>
            (arow[p].st = "stopped" /\ arow[p].rec = "ready" /\ arow'[p].gen > arow[p].gen)]_mcpVars

\* What a remote caller does, it does within its token's scope, and as its own
\* actor or as the session it named, never as whoever runs the server.
\* (channel_read is the exception, see README.)
ActsAsCaller ==
    \A r \in MReqs :
        (areq[r].pc = "done" /\ ReqOf[r].tool # "channel_read") =>
            /\ areq[r].as = (IF ReqOf[r].override THEN "chosen" ELSE "actor")
            /\ ReqOf[r].write => ReqOf[r].token = "rw"

\* Every running stream is the one its resource's entry names: none outlives its
\* unsubscribe or the end of the transport, and no resource has two.
StreamsOwned ==
    \A s \in streams : s.live =>
        /\ tasks[s.uri] = s.id
        /\ \A t \in streams : t.live /\ t.uri = s.uri => t = s

\* What the gateway promises its callers: a login grants once and what was asked,
\* a conversation is one actor and acts as itself, and a stream has one owner.
McpSafe == McpTypeOK /\ GrantedOnce /\ GrantAsAsked /\ ActorsApart /\ NoOrphanActor
           /\ ActsAsCaller /\ StreamsOwned
===========================================================================
