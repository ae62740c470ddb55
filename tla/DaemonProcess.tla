--------------------------- MODULE DaemonProcess ---------------------------
(* How the per-machine daemon comes to exist and how a command reaches it:   *)
(* the startup lock, the socket path, the protocol handshake and the retry   *)
(* policy of the clients (daemon/client.rs, daemon/client/startup.rs,        *)
(* daemon/blocking.rs, daemon/server/lifecycle.rs, cli/daemon_lifecycle.rs,  *)
(* the hook entry points of cli.rs, cli/turn.rs and cli/hooks.rs).           *)
(*                                                                           *)
(* A client is one command.  Its kind is                                     *)
(*   "mutate"  blocking::call of a method not declared idempotent            *)
(*   "query"   blocking::call of an idempotent method                        *)
(*   "async"   Client::connect_or_spawn followed by one Client::call         *)
(*   "stop"    daemon stop: call_no_spawn("shutdown"), then the flock        *)
(*   "hook"    a user-prompt-submit hook: reassert, then turn_start          *)
(*   "check"   any later hook (turn_check, turn_end, session_end): one       *)
(*             call_no_spawn                                                 *)
(* A daemon is one process.  The kernel's part (flock, the socket path, the  *)
(* listen backlog) is external.                                              *)
EXTENDS Naturals, FiniteSets

CONSTANTS
  Clients,        \* the commands issued
  Daemons,        \* the daemon processes that may be spawned, 1..n
  MaxTries,       \* attempts of one call (5 in both clients)
  DMaxFaults,     \* crashes, timeouts and killed commands, all together
  Workloads       \* the command mixes: functions from Clients to kind and version

ASSUME DaemonAssumption ==
  /\ Daemons \subseteq Nat \ {0} /\ 1 \in Daemons
  /\ MaxTries \in Nat \ {0}
  /\ DMaxFaults \in Nat
  /\ Workloads \subseteq
       [Clients -> [kind : {"mutate", "query", "async", "stop", "hook", "check"}, ver : {1, 2}]]

VARIABLES
  job,            \* the command each client runs: [kind, ver]
  lock,           \* holder of daemon.lock: {} or {<<"c" or "d", id>>}
  sock,           \* the daemon that bound the socket path last: {} or {d}
  dm,             \* daemon processes
  asks,           \* daemons with a PleaseExit frame not yet read
  reqs,           \* requests written and not yet answered
  cl,             \* clients
  runs,           \* history: daemons that executed the current request of a client
  inhibit,        \* the daemon.inhibit file exists
  unlucky,        \* history: a starting daemon met the lock in a client's hands
  dfaults

dvars == <<job, lock, sock, dm, asks, reqs, cl, runs, inhibit, unlucky, dfaults>>

Versions == {1, 2}
Spawners == {"mutate", "query", "async"}
Blocking == {"mutate", "query"}
Hooks == {"hook", "check"}

DaemonPcs == {"unborn", "boot", "locked", "bound", "accepting", "serving",
              "closing", "swept", "unlocked", "exit0", "exit1"}
ClientPcs == {"idle", "dial", "hello", "decide", "sent", "grace", "ping", "lock", "reclaim",
              "launch", "drop", "wait", "exitwait", "exitheld", "inhibit", "done"}
Results == {"none", "ok", "newer", "maybe", "crashed", "gave_up", "deadline",
            "refused", "absent", "killed"}

\* The method is in blocking.rs's list of methods that may be sent twice.
retry_after_delivery(c) == job[c].kind = "query"

Alive(d) == dm[d].pc \notin {"unborn", "exit0", "exit1"}

\* A connect succeeds: the listener exists, whether or not the loop accepts yet.
Listening(d) == dm[d].pc \in {"bound", "accepting", "serving"}

\* Connection tasks run until the process ends, the accept loop aborted or not.
TasksRun(d) == dm[d].pc \in {"accepting", "serving", "closing", "swept", "unlocked"}

Reachable == {d \in sock : Listening(d)}

\* The socket answers a handshake at once.
Answering == {d \in sock : dm[d].pc \in {"accepting", "serving"}}

compare_protocols(d, c) ==
  IF dm[d].ver = job[c].ver THEN "ready"
  ELSE IF dm[d].ver < job[c].ver THEN "ask_exit" ELSE "too_new"

DaemonFault == dfaults < DMaxFaults /\ dfaults' = dfaults + 1

Release(who) == lock \ {who}

----------------------------------------------------------------------------
(* The daemon process.                                                       *)

\* A process that ends drops its flock, its connections and what they carried.
EndProcess(d, code) ==
  /\ dm' = [dm EXCEPT ![d].pc = code]
  /\ lock' = Release(<<"d", d>>)
  /\ asks' = asks \ {d}
  /\ reqs' = {r \in reqs : r.d # d}

\* Mutant: the daemon starts although the lock is held by another process.
AcquireIgnoringHolder(d) ==
  /\ dm[d].pc = "boot"
  /\ lock' = {<<"d", d>>}
  /\ dm' = [dm EXCEPT ![d].pc = "locked"]
  /\ UNCHANGED <<job, sock, asks, reqs, cl, runs, inhibit, dfaults, unlucky>>

\* run() takes the lock without waiting; a daemon that does not get it exits 0.
AcquireLock(d) ==
  /\ dm[d].pc = "boot"
  /\ IF lock = {}
     THEN lock' = {<<"d", d>>} /\ dm' = [dm EXCEPT ![d].pc = "locked"]
     ELSE dm' = [dm EXCEPT ![d].pc = "exit0"] /\ UNCHANGED lock
  /\ unlucky' = (unlucky \/ lock \in {{<<"c", c>>} : c \in Clients})
  /\ UNCHANGED <<job, sock, asks, reqs, cl, runs, inhibit, dfaults>>

bind_socket(d) ==
  /\ dm[d].pc = "locked"
  /\ sock' = {d}
  /\ dm' = [dm EXCEPT ![d].pc = "bound"]
  /\ UNCHANGED <<job, lock, asks, reqs, cl, runs, inhibit, dfaults, unlucky>>

\* Configuration, state.db, NMP and the identities are opened after the bind
\* and before the accept loop; a failure ends the process, the socket file stays.
StartServing(d) ==
  /\ dm[d].pc = "bound"
  /\ \/ /\ dm' = [dm EXCEPT ![d].pc = "accepting"]
        /\ UNCHANGED <<lock, asks, reqs, dfaults>>
     \/ DaemonFault /\ EndProcess(d, "exit1")
  /\ UNCHANGED <<job, sock, cl, runs, inhibit, unlucky>>

\* The main task arrives at its select; earlier notifications have no waiter.
ReachSelect(d) ==
  /\ dm[d].pc = "accepting"
  /\ dm' = [dm EXCEPT ![d].pc = "serving"]
  /\ UNCHANGED <<job, lock, sock, asks, reqs, cl, runs, inhibit, dfaults, unlucky>>

\* notify_waiters wakes the main task if it waits, and is lost otherwise.
Notified(d) == IF dm[d].pc = "serving" THEN [dm EXCEPT ![d].pc = "closing"] ELSE dm

\* serve_connection reads the PleaseExit of a newer client.
HandlePleaseExit(d) ==
  /\ d \in asks /\ TasksRun(d)
  /\ asks' = asks \ {d}
  /\ dm' = Notified(d)
  /\ UNCHANGED <<job, lock, sock, reqs, cl, runs, inhibit, dfaults, unlucky>>

\* After the accept loop is aborted and the RPC sessions are shut down, the
\* socket path is removed, whoever bound it.
cleanup(d) ==
  /\ dm[d].pc = "closing"
  /\ sock' = {}
  /\ dm' = [dm EXCEPT ![d].pc = "swept"]
  /\ UNCHANGED <<job, lock, asks, reqs, cl, runs, inhibit, dfaults, unlucky>>

\* state.nmp.shutdown(), then drop(lock): tasks may still run for a moment.
DropLock(d) ==
  /\ dm[d].pc = "swept"
  /\ lock' = Release(<<"d", d>>)
  /\ dm' = [dm EXCEPT ![d].pc = "unlocked"]
  /\ UNCHANGED <<job, sock, asks, reqs, cl, runs, inhibit, dfaults, unlucky>>

ExitProcess(d) ==
  /\ dm[d].pc = "unlocked"
  /\ EndProcess(d, "exit0")
  /\ UNCHANGED <<job, sock, cl, runs, inhibit, dfaults, unlucky>>

Crash(d) ==
  /\ Alive(d)
  /\ DaemonFault
  /\ EndProcess(d, "exit1")
  /\ UNCHANGED <<job, sock, cl, runs, inhibit, unlucky>>

\* The attempt of its call a client is at; a hook's two calls are numbered too.
Attempt(c) == cl[c].loops + cl[c].stage

\* The client of this request still reads the connection it was written on.
Awaited(r) == cl[r.c].pc = "sent" /\ Attempt(r.c) = r.n

\* dispatch (handle_session_start for a hook's reassert) runs the request.  A
\* session start whose client has left may be dropped at its next progress frame.
Dispatch(r) ==
  /\ ~r.ran /\ TasksRun(r.d)
  /\ \/ /\ runs' = [runs EXCEPT ![r.c] = @ \cup {<<r.d, r.n>>}]
        /\ dm' = IF job[r.c].kind = "stop" THEN Notified(r.d) ELSE dm
     \/ /\ job[r.c].kind = "hook" /\ r.n = 1 /\ ~Awaited(r)
        /\ UNCHANGED <<runs, dm>>
  /\ reqs' = (reqs \ {r}) \cup IF Awaited(r) THEN {[r EXCEPT !.ran = TRUE]} ELSE {}
  /\ UNCHANGED <<job, lock, sock, asks, cl, inhibit, dfaults, unlucky>>

----------------------------------------------------------------------------
(* The clients.                                                              *)

Become(c, pc) == cl' = [cl EXCEPT ![c].pc = pc, ![c].conn = {}]

Finish(c, res) ==
  cl' = [cl EXCEPT ![c].pc = "done", ![c].conn = {}, ![c].child = {}, ![c].res = res]

\* A failed reassert leaves the degraded notice, and the hook goes on.
ReassertFails(c) ==
  cl' = [cl EXCEPT ![c].pc = "dial", ![c].conn = {}, ![c].stage = 2, ![c].notice = TRUE]

\* report_observation got the pubkey; the hook goes on to its turn.
report_observation(c) == cl' = [cl EXCEPT ![c].pc = "dial", ![c].conn = {}, ![c].stage = 2]

\* A failed turn_start ends the hook with whatever notice there is; a failed
\* turn_check, turn_end or session_end is skipped.
HookFails(c) ==
  IF job[c].kind = "hook" /\ cl[c].stage = 1 THEN ReassertFails(c) ELSE Finish(c, "refused")

\* The call failed before its request was written.
FailBefore(c) ==
  CASE job[c].kind \in Spawners -> Become(c, "ping")
    [] job[c].kind = "stop" -> Become(c, "inhibit")
    [] job[c].kind \in Hooks -> HookFails(c)

\* Mutant: every failed call is sent again.
FailAfterRetrying(c) ==
  CASE job[c].kind \in Blocking -> Become(c, "ping")
    [] job[c].kind = "stop" -> Become(c, "inhibit")
    [] job[c].kind \in Hooks -> HookFails(c)
    [] OTHER -> Finish(c, "maybe")

\* The call failed after its request was written: only an idempotent method of
\* the blocking client is tried again.
FailAfter(c) ==
  CASE job[c].kind \in Blocking /\ retry_after_delivery(c) -> Become(c, "ping")
    [] job[c].kind = "stop" -> Become(c, "inhibit")
    [] job[c].kind \in Hooks -> HookFails(c)
    [] OTHER -> Finish(c, "maybe")

\* A hook ends without a word when there is no socket.
inapplicable(c) == job[c].kind \in Hooks /\ sock = {}

\* cli::run: an explicit command clears the stop inhibit, a hook leaves it.
StartCommand(c) ==
  /\ cl[c].pc = "idle"
  /\ IF inapplicable(c) THEN Finish(c, "absent") ELSE Become(c, "dial")
  /\ inhibit' = (inhibit /\ job[c].kind \in Hooks)
  /\ UNCHANGED <<job, lock, sock, dm, asks, reqs, runs, dfaults, unlucky>>

\* daemon_call_hook_async answers Null while the daemon is inhibited: the
\* reassert then has no pubkey and leaves the notice, the turn has no context.
HookInhibited(c) ==
  /\ job[c].kind \in Hooks /\ cl[c].pc = "dial" /\ inhibit
  /\ HookFails(c)
  /\ UNCHANGED <<job, lock, sock, dm, asks, reqs, runs, inhibit, dfaults, unlucky>>

\* try_call and try_connect_handshake: connect and write the hello.
Dial(c) ==
  /\ cl[c].pc = "dial"
  /\ ~(job[c].kind \in Hooks /\ inhibit)
  /\ IF Reachable = {}
     THEN FailBefore(c)
     ELSE cl' = [cl EXCEPT ![c].pc = "hello", ![c].conn = Reachable]
  /\ UNCHANGED <<job, lock, sock, dm, asks, reqs, runs, inhibit, dfaults, unlucky>>

\* serve_connection answers the hello with its Welcome.
Welcome(c) ==
  /\ cl[c].pc = "hello"
  /\ \E d \in cl[c].conn : dm[d].pc \in {"accepting", "serving"}
  /\ cl' = [cl EXCEPT ![c].pc = "decide"]
  /\ UNCHANGED <<job, lock, sock, dm, asks, reqs, runs, inhibit, dfaults, unlucky>>

\* No Welcome: the daemon still opens its store and the two seconds pass, the
\* listener is gone, or a live daemon is too slow (a fault).
NoWelcome(c) ==
  /\ cl[c].pc = "hello"
  /\ IF \E d \in cl[c].conn : dm[d].pc \in {"accepting", "serving"}
     THEN DaemonFault ELSE UNCHANGED dfaults
  /\ FailBefore(c)
  /\ UNCHANGED <<job, lock, sock, dm, asks, reqs, runs, inhibit, unlucky>>

\* handshake_decision, then the request, the PleaseExit frame or the refusal.
Decide(c) ==
  /\ cl[c].pc = "decide"
  /\ \E d \in cl[c].conn :
       LET verdict == compare_protocols(d, c)
           exits == verdict = "ask_exit" /\ job[c].kind # "hook" /\ Alive(d)
       IN  /\ asks' = IF exits THEN asks \cup {d} ELSE asks
           /\ CASE verdict = "ready" /\ Alive(d) ->
                     /\ cl' = [cl EXCEPT ![c].pc = "sent"]
                     /\ reqs' = reqs \cup {[c |-> c, n |-> Attempt(c), d |-> d,
                                            ran |-> FALSE]}
                [] verdict = "ready" /\ ~Alive(d) ->
                     FailAfter(c) /\ UNCHANGED reqs
                [] verdict = "too_new" /\ job[c].kind \in Spawners ->
                     Finish(c, "newer") /\ UNCHANGED reqs
                [] exits /\ job[c].kind \in Spawners ->
                     Become(c, "grace") /\ UNCHANGED reqs
                [] OTHER -> FailBefore(c) /\ UNCHANGED reqs
  /\ UNCHANGED <<job, lock, sock, dm, runs, inhibit, dfaults, unlucky>>

\* DAEMON_RESPAWN_GRACE: the frame is read and the main task at its select by
\* then, unless the daemon is slow (a fault).
GraceEnds(c) ==
  /\ cl[c].pc = "grace"
  /\ IF \E d \in Answering : d \in asks \/ dm[d].pc = "accepting"
     THEN DaemonFault ELSE UNCHANGED dfaults
  /\ cl' = [cl EXCEPT ![c].pc = "ping"]
  /\ UNCHANGED <<job, lock, sock, dm, asks, reqs, runs, inhibit, unlucky>>

\* The terminal frame of the request arrives.
Answer(c) ==
  /\ cl[c].pc = "sent"
  /\ \E r \in reqs :
       /\ r.c = c /\ r.ran /\ Awaited(r)
       /\ reqs' = reqs \ {r}
  /\ CASE job[c].kind = "hook" /\ cl[c].stage = 1 ->
            report_observation(c)
       [] job[c].kind = "stop" -> Become(c, "exitwait")
       [] OTHER -> Finish(c, "ok")
  /\ UNCHANGED <<job, lock, sock, dm, asks, runs, inhibit, dfaults, unlucky>>

\* The connection closed before the answer, or (not for Client::call, which
\* waits as long as the connection lasts) the response timeout passed.
NoAnswer(c) ==
  /\ cl[c].pc = "sent"
  /\ IF \E d \in cl[c].conn : Alive(d)
     THEN job[c].kind # "async" /\ DaemonFault
     ELSE UNCHANGED dfaults
  /\ FailAfter(c)
  /\ reqs' = {r \in reqs : ~(r.c = c /\ r.ran)}
  /\ UNCHANGED <<job, lock, sock, dm, asks, runs, inhibit, unlucky>>

\* daemon_answers_ping (an equal daemon) or probe_handshake (any Welcome).
DaemonUp(c) ==
  \E d \in Answering : job[c].kind = "async" \/ compare_protocols(d, c) = "ready"

\* spawn_if_absent returned: the next of the attempts, or none is left.
PingAnswered(c) ==
  /\ cl[c].pc \in {"ping", "wait"} /\ DaemonUp(c)
  /\ IF cl[c].loops + 1 >= MaxTries
     THEN Finish(c, "gave_up")
     ELSE cl' = [cl EXCEPT ![c].pc = "dial", ![c].child = {}, ![c].loops = @ + 1]
  /\ UNCHANGED <<job, lock, sock, dm, asks, reqs, runs, inhibit, dfaults, unlucky>>

\* Mutant: a ping does not ask an older daemon to exit.
AskedByNoPing(c) == {}

\* The blocking client's ping is a whole try_call: an older daemon is asked
\* again to exit by every one of them.
AskedByPing(c) ==
  IF job[c].kind \in Blocking
  THEN {d \in Answering : compare_protocols(d, c) = "ask_exit"} ELSE {}

PingUnanswered(c) ==
  /\ cl[c].pc = "ping" /\ ~DaemonUp(c)
  /\ asks' = asks \cup AskedByPing(c)
  /\ cl' = [cl EXCEPT ![c].pc = "lock"]
  /\ UNCHANGED <<job, lock, sock, dm, reqs, runs, inhibit, dfaults, unlucky>>

\* StartupLock::try_acquire: held by a daemon or another client, ping again.
TryLock(c) ==
  /\ cl[c].pc = "lock"
  /\ IF lock = {}
     THEN lock' = {<<"c", c>>} /\ cl' = [cl EXCEPT ![c].pc = "reclaim"]
     ELSE UNCHANGED lock /\ cl' = [cl EXCEPT ![c].pc = "ping"]
  /\ UNCHANGED <<job, sock, dm, asks, reqs, runs, inhibit, dfaults, unlucky>>

ReclaimSocket(c) ==
  /\ cl[c].pc = "reclaim"
  /\ sock' = {}
  /\ cl' = [cl EXCEPT ![c].pc = "launch"]
  /\ UNCHANGED <<job, lock, dm, asks, reqs, runs, inhibit, dfaults, unlucky>>

spawn_detached_daemon(c) ==
  /\ cl[c].pc = "launch"
  /\ \E d \in Daemons :
       /\ dm[d].pc = "unborn" /\ \A e \in Daemons : e < d => dm[e].pc # "unborn"
       /\ dm' = [dm EXCEPT ![d] = [pc |-> "boot", ver |-> job[c].ver]]
       /\ cl' = [cl EXCEPT ![c].pc = "drop", ![c].child = {d}]
  /\ UNCHANGED <<job, lock, sock, asks, reqs, runs, inhibit, dfaults, unlucky>>

DropStartupLock(c) ==
  /\ cl[c].pc = "drop"
  /\ lock' = Release(<<"c", c>>)
  /\ cl' = [cl EXCEPT ![c].pc = "wait"]
  /\ UNCHANGED <<job, sock, dm, asks, reqs, runs, inhibit, dfaults, unlucky>>

\* poll_spawned_child in the second loop: exit 0 lost a race, anything else ends
\* the call with the daemon's log.
poll_spawned_child(c) ==
  /\ cl[c].pc = "wait" /\ ~DaemonUp(c)
  /\ asks' = asks \cup AskedByPing(c)
  /\ \/ /\ \E d \in cl[c].child : dm[d].pc = "exit0"
        /\ cl' = [cl EXCEPT ![c].child = {}]
     \/ /\ \E d \in cl[c].child : dm[d].pc = "exit1"
        /\ Finish(c, "crashed")
     \/ /\ \A d \in cl[c].child : dm[d].pc \notin {"exit0", "exit1"}
        /\ asks' # asks
        /\ UNCHANGED cl
  /\ UNCHANGED <<job, lock, sock, dm, reqs, runs, inhibit, dfaults, unlucky>>

\* Nothing else can still change what the waiting client sees: every process
\* and every other command is at rest, so the 30 seconds pass.
AtRest(c) ==
  /\ \A d \in Daemons : dm[d].pc \in {"unborn", "serving", "exit0", "exit1"}
  /\ asks = {} /\ AskedByPing(c) = {}
  /\ \A e \in Clients \ {c} : cl[e].pc \in {"idle", "wait", "ping", "lock", "done"}
  /\ \A e \in Clients \ {c} : cl[e].pc \in {"ping", "lock"} => lock # {}

\* A deadline of spawn_if_absent: the first loop falls into the second, the
\* second fails the call.
DeadlinePasses(c) ==
  /\ cl[c].pc \in {"ping", "wait"} /\ ~DaemonUp(c)
  /\ cl[c].pc = "ping" => lock # {}
  /\ \A d \in cl[c].child : Alive(d)
  /\ IF AtRest(c) THEN UNCHANGED dfaults ELSE DaemonFault
  /\ IF cl[c].pc = "ping" THEN Become(c, "wait") ELSE Finish(c, "deadline")
  /\ UNCHANGED <<job, lock, sock, dm, asks, reqs, runs, inhibit, unlucky>>

\* wait_for_exit polls the flock: it takes it and drops it again at once, or its
\* ten seconds pass (a fault).
WaitForExit(c) ==
  /\ cl[c].pc = "exitwait"
  /\ IF lock = {}
     THEN lock' = {<<"c", c>>} /\ cl' = [cl EXCEPT ![c].pc = "exitheld"] /\ UNCHANGED dfaults
     ELSE Become(c, "inhibit") /\ DaemonFault /\ UNCHANGED lock
  /\ UNCHANGED <<job, sock, dm, asks, reqs, runs, inhibit, unlucky>>

ReleaseProbe(c) ==
  /\ cl[c].pc = "exitheld"
  /\ lock' = Release(<<"c", c>>)
  /\ Become(c, "inhibit")
  /\ UNCHANGED <<job, sock, dm, asks, reqs, runs, inhibit, dfaults, unlucky>>

\* daemon stop ends by inhibiting the hooks, whatever the shutdown came to.
SetInhibit(c) ==
  /\ cl[c].pc = "inhibit"
  /\ inhibit' = TRUE
  /\ Finish(c, "ok")
  /\ UNCHANGED <<job, lock, sock, dm, asks, reqs, runs, dfaults, unlucky>>

\* Ctrl-C: the kernel drops the flock of the command.
KillCommand(c) ==
  /\ cl[c].pc \notin {"idle", "done"}
  /\ DaemonFault
  /\ Finish(c, "killed")
  /\ lock' = Release(<<"c", c>>)
  /\ reqs' = {r \in reqs : ~(r.c = c /\ r.ran)}
  /\ UNCHANGED <<job, sock, dm, asks, runs, inhibit, unlucky>>
----------------------------------------------------------------------------
\* The machine before the commands: nothing, the socket file of a daemon that
\* crashed, or a daemon of the older protocol at work.
DaemonInit ==
  /\ job \in Workloads
  /\ \E start \in {"none", "stale", "running"} :
       /\ dm = [d \in Daemons |->
                  [pc |-> IF d # 1 \/ start = "none" THEN "unborn"
                          ELSE IF start = "stale" THEN "exit1" ELSE "serving",
                   ver |-> 1]]
       /\ sock = IF start = "none" THEN {} ELSE {1}
       /\ lock = IF start = "running" THEN {<<"d", 1>>} ELSE {}
  /\ asks = {} /\ reqs = {} /\ inhibit = FALSE /\ unlucky = FALSE /\ dfaults = 0
  /\ cl = [c \in Clients |-> [pc |-> "idle", conn |-> {}, child |-> {}, loops |-> 0,
                              stage |-> 1, notice |-> FALSE, res |-> "none"]]
  /\ runs = [c \in Clients |-> {}]

MainTask(d) ==
  \/ AcquireLock(d) \/ bind_socket(d) \/ StartServing(d) \/ ReachSelect(d)
  \/ cleanup(d) \/ DropLock(d) \/ ExitProcess(d)

ClientStep(c) ==
  \/ StartCommand(c) \/ HookInhibited(c) \/ Dial(c) \/ Welcome(c) \/ NoWelcome(c)
  \/ Decide(c) \/ GraceEnds(c) \/ Answer(c) \/ NoAnswer(c) \/ PingAnswered(c) \/ PingUnanswered(c)
  \/ TryLock(c) \/ ReclaimSocket(c) \/ spawn_detached_daemon(c) \/ DropStartupLock(c)
  \/ poll_spawned_child(c) \/ WaitForExit(c) \/ ReleaseProbe(c) \/ SetInhibit(c)

DaemonNext ==
  \/ \E d \in Daemons : MainTask(d) \/ HandlePleaseExit(d) \/ Crash(d)
  \/ \E r \in reqs : Dispatch(r)
  \/ \E c \in Clients : ClientStep(c) \/ DeadlinePasses(c) \/ KillCommand(c)

\* The scheduler runs every process and every connection task.
DaemonFairness ==
  /\ \A d \in Daemons : WF_dvars(MainTask(d)) /\ WF_dvars(HandlePleaseExit(d))
  /\ \A c \in Clients : WF_dvars(ClientStep(c))
  /\ WF_dvars(\E r \in reqs : Dispatch(r))

DaemonSpec == DaemonInit /\ [][DaemonNext]_dvars /\ DaemonFairness

----------------------------------------------------------------------------
DaemonTypeOK ==
  /\ lock \in {{}} \cup {{<<"c", c>>} : c \in Clients} \cup {{<<"d", d>>} : d \in Daemons}
  /\ sock \in {{}} \cup {{d} : d \in Daemons}
  /\ \A d \in Daemons : dm[d].pc \in DaemonPcs /\ dm[d].ver \in Versions
  /\ asks \subseteq {d \in Daemons : Alive(d)}
  /\ \A r \in reqs : TasksRun(r.d) /\ (r.ran => Awaited(r))
  /\ \A c \in Clients :
       /\ cl[c].pc \in ClientPcs /\ cl[c].res \in Results
       /\ cl[c].conn # {} <=> cl[c].pc \in {"hello", "decide", "sent"}
       /\ cl[c].res # "none" <=> cl[c].pc = "done"
       /\ cl[c].pc \in {"reclaim", "launch", "drop", "exitheld"} => lock = {<<"c", c>>}

\* Only one process at a time holds state.db open, through spawn races, skew
\* restarts and crashes (the flock that lifecycle.rs run keeps for its life).
StoreSoleOwner ==
  Cardinality({d \in Daemons : dm[d].pc \in {"bound", "accepting", "serving",
                                             "closing", "swept"}}) <= 1

\* The path leads to the daemon that listens: neither a client that reclaims a
\* stale socket nor a daemon that cleans up removes a socket in use.
SocketIsOwners == \A d \in Daemons : Listening(d) => sock = {d}

\* A request that is not declared idempotent is executed at most once per
\* command, whatever crashes, timeouts and retries happen (blocking.rs
\* call_with_attempt, Client::call).
SentAtMostOnce ==
  \A c \in Clients :
    job[c].kind \in {"mutate", "async", "stop"} => Cardinality(runs[c]) <= 1

\* An error that does not say the call may have been processed means it was not,
\* and an answer means it was.
ErrorsHonest ==
  \A c \in Clients : cl[c].pc = "done" /\ job[c].kind \in {"mutate", "async"} =>
    /\ cl[c].res = "ok" => runs[c] # {}
    /\ cl[c].res \in {"newer", "crashed", "gave_up", "deadline"} => runs[c] = {}

\* No request is executed by a daemon of another protocol version.
SameProtocol ==
  \A c \in Clients : \A x \in runs[c] : dm[x[1]].ver = job[c].ver

\* A prompt hook that finds a socket and whose session is then not reasserted by
\* any daemon tells the agent so.
DegradedVisible ==
  \A c \in Clients :
    /\ job[c].kind = "hook" /\ cl[c].pc = "done" /\ cl[c].res \notin {"killed", "absent"}
    /\ \A x \in runs[c] : x[2] # 1
    => cl[c].notice

OneVersion == \A c, e \in Clients : job[c].ver = job[e].ver
NoStop == \A c \in Clients : job[c].kind # "stop"
Newest(c) == \A e \in Clients : job[e].ver <= job[c].ver

AllServed(cs) ==
  \A c \in cs : cl[c].pc = "done" /\ job[c].kind \in Spawners => cl[c].res = "ok"

\* Without faults, commands of one version that race to start the daemon are all
\* answered: a spawned daemon that loses the lock to another daemon is no error
\* (poll_spawned_child's LostRace).
SpawnRaceServed ==
  dfaults = 0 /\ OneVersion /\ NoStop /\ ~unlucky => AllServed(Clients)

\* Without faults, the newest connect_or_spawn is answered or runs out of its
\* attempts against older daemons that other commands keep spawning: it never
\* waits out a deadline for a daemon nobody starts.
UpgradeNotStranded ==
  dfaults = 0 /\ NoStop /\ ~unlucky =>
    \A c \in Clients : cl[c].pc = "done" /\ job[c].kind = "async" /\ Newest(c) =>
      cl[c].res \in {"ok", "gave_up"}

\* A blocking client does not meet an older daemon for ever, although the
\* notification of a first PleaseExit may find no waiter.
OldDaemonGoes ==
  []<>(dfaults > 0 \/
       \A d \in Answering, c \in Clients :
         job[c].kind \in Blocking /\ cl[c].pc \in {"ping", "lock", "wait"} =>
           dm[d].ver >= job[c].ver)

\* What commands can rely on while daemons of several builds come, go and crash: the
\* socket is the owner's, a call runs at most once, by its own protocol, its error is
\* true, and a session that was not reasserted is said to be so.
DaemonSafe == DaemonTypeOK /\ SocketIsOwners /\ SentAtMostOnce /\ ErrorsHonest /\ SameProtocol
              /\ DegradedVisible
=============================================================================
