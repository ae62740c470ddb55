---------------------------- MODULE ServerProofs ----------------------------
(***************************************************************************)
(* The two servers of the program, for every value of the constants.       *)
(*                                                                         *)
(* DaemonProcess, for every number of commands, daemons, attempts and      *)
(* faults: one owner of the store and of the socket path, and requests     *)
(* that are executed at most once, by their own protocol, with honest      *)
(* errors.  The argument for the owner: whoever is between taking and      *)
(* dropping the flock, daemon or client, is its one holder, so the socket  *)
(* path is only touched while nobody else listens.  The argument for the   *)
(* requests: a command whose method may not be sent twice has left the     *)
(* states from which it could send once a request of its own exists.       *)
(*                                                                         *)
(* McpGateway, for every number of browsers, logins, requests, actors and  *)
(* subscriptions.  A login page is on show, answered with a code or paid   *)
(* for with a token, and only one of them.  Only the holder of the actor   *)
(* lane is between the lookup of an actor and the writing of its alias, so *)
(* the pubkey it reserves is nobody's, and a request that was answered     *)
(* acts as the actor its own conversation's key names.  A live stream has  *)
(* the number that the entry of its resource holds.                        *)
(***************************************************************************)
EXTENDS DaemonProcess, McpGateway, FiniteSetTheorems, SequenceTheorems, TLAPS

-----------------------------------------------------------------------------
(* The invariant.                                                          *)

Command == [kind : {"mutate", "query", "async", "stop", "hook", "check"}, ver : {1, 2}]
Process == [pc : DaemonPcs, ver : Versions]
Slot == {{}} \cup {{d} : d \in Daemons}
Client == [pc : ClientPcs, conn : SUBSET Daemons, child : SUBSET Daemons, loops : Nat,
           stage : {1, 2}, notice : BOOLEAN, res : Results]
Request == [c : Clients, n : Nat, d : Daemons, ran : BOOLEAN]

ProcessTypes ==
  /\ dm \in [Daemons -> Process]
  /\ lock \in {{}} \cup {{<<"c", c>>} : c \in Clients} \cup {{<<"d", d>>} : d \in Daemons}
  /\ sock \in Slot
  /\ asks \in SUBSET Daemons

ClientTypes == cl \in [Clients -> Client]

CallTypes ==
  /\ job \in [Clients -> Command]
  /\ runs \in [Clients -> SUBSET (Daemons \X Nat)]
  /\ reqs \in SUBSET Request

Types == ProcessTypes /\ ClientTypes /\ CallTypes

\* Daemons and clients that have taken the flock and not dropped it.
Owning == {"locked", "bound", "accepting", "serving", "closing", "swept"}
Starting == {"reclaim", "launch", "drop", "exitheld"}

Ownership ==
  /\ \A d \in Daemons : dm[d].pc \in Owning => lock = {<<"d", d>>}
  /\ \A c \in Clients : cl[c].pc \in Starting => lock = {<<"c", c>>}
  /\ \A d \in Daemons : Listening(d) => sock = {d}

\* Which commands come to which states.
Roles ==
  \A c \in Clients :
    /\ cl[c].pc \in {"grace", "ping", "lock", "reclaim", "launch", "drop", "wait"} =>
         job[c].kind \in Spawners
    /\ cl[c].pc \in {"exitwait", "exitheld", "inhibit"} => job[c].kind = "stop"
    /\ cl[c].loops # 0 => job[c].kind \in Spawners
    /\ cl[c].stage = 2 => job[c].kind = "hook"
    /\ cl[c].conn # {} <=> cl[c].pc \in {"hello", "decide", "sent"}
    /\ cl[c].res # "none" <=> cl[c].pc = "done"

\* A connection leads to a daemon that listened, one past its Welcome to a daemon
\* that served; so does a PleaseExit frame.
Connected ==
  /\ \A c \in Clients : \A d, e \in cl[c].conn : d = e
  /\ \A c \in Clients : \A d \in cl[c].conn :
       /\ dm[d].pc \notin {"unborn", "boot", "locked"}
       /\ cl[c].pc \in {"decide", "sent"} => dm[d].pc # "bound"
  /\ \A d \in asks : TasksRun(d)

\* Requests are numbered: those of the current attempt were sent in it, to a running
\* daemon of the client's protocol.
InFlight ==
  \A r \in reqs :
    /\ TasksRun(r.d) /\ dm[r.d].ver = job[r.c].ver
    /\ r.n <= Attempt(r.c)
    /\ r.n = Attempt(r.c) => cl[r.c].pc \notin {"idle", "dial", "hello", "decide"}
    /\ r.ran => Awaited(r) /\ <<r.d, r.n>> \in runs[r.c]

Numbered == \A r, s \in reqs : r.c = s.c /\ r.n = s.n => r = s

Executed ==
  \A c \in Clients : \A x \in runs[c] : dm[x[1]].pc # "unborn" /\ dm[x[1]].ver = job[c].ver

Requests == InFlight /\ Numbered /\ Executed

\* Commands that are sent once, where they are once they are sent, and the results
\* that say they were not.
Once == {"mutate", "async", "stop"}
Past == {"sent", "exitwait", "exitheld", "inhibit", "done"}
Refusals == {"newer", "crashed", "gave_up", "deadline"}

SentOnceOf(c) ==
  job[c].kind \in Once =>
    /\ runs[c] # {} \/ (\E r \in reqs : r.c = c) =>
         cl[c].pc \in Past /\ cl[c].res \notin Refusals
    /\ \A r, s \in reqs : r.c = c /\ s.c = c => r = s
    /\ \A r \in reqs : r.c = c /\ ~r.ran => runs[c] = {}
    /\ \A x, y \in runs[c] : x = y
    /\ cl[c].res = "ok" /\ job[c].kind # "stop" => runs[c] # {}

SentOnce == \A c \in Clients : SentOnceOf(c)

\* A hook that has gone on to its turn was reasserted or has its notice.
Noticed ==
  \A c \in Clients : job[c].kind = "hook" =>
    /\ cl[c].stage = 2 => cl[c].notice \/ \E x \in runs[c] : x[2] = 1
    /\ cl[c].pc = "done" /\ cl[c].res \notin {"killed", "absent"} => cl[c].stage = 2

DaemonInv == Types /\ Ownership /\ Roles /\ Connected /\ Requests /\ SentOnce /\ Noticed

-----------------------------------------------------------------------------
(* What a step does to its client.                                         *)

\* Client c is left so; the others are not touched.
At(c, pc, conn, loops, stage, notice, res) ==
  /\ cl'[c].pc = pc /\ cl'[c].conn = conn /\ cl'[c].loops = loops
  /\ cl'[c].stage = stage /\ cl'[c].notice = notice /\ cl'[c].res = res
  /\ \A e \in Clients : e # c => cl'[e] = cl[e]

Same(c, pc, conn) == At(c, pc, conn, cl[c].loops, cl[c].stage, cl[c].notice, cl[c].res)

LEMMA Put ==
  ASSUME ClientTypes, NEW c \in Clients, NEW x \in Client, cl' = [cl EXCEPT ![c] = x]
  PROVE  ClientTypes' /\ At(c, x.pc, x.conn, x.loops, x.stage, x.notice, x.res)
  BY DEF ClientTypes, At

LEMMA PutPc ==
  ASSUME ClientTypes, NEW c \in Clients, NEW p \in ClientPcs, cl' = [cl EXCEPT ![c].pc = p]
  PROVE  ClientTypes' /\ Same(c, p, cl[c].conn)
  <1> DEFINE x == [cl[c] EXCEPT !.pc = p]
  <1>1. x \in Client  BY DEF Client, ClientTypes
  <1>2. cl' = [cl EXCEPT ![c] = x]  BY DEF Client, ClientTypes
  <1> QED  BY <1>1, <1>2, Put DEF Same, Client, ClientTypes

LEMMA BecomePut ==
  ASSUME ClientTypes, NEW c \in Clients, NEW p \in ClientPcs, Become(c, p)
  PROVE  ClientTypes' /\ Same(c, p, {})
  <1> DEFINE x == [cl[c] EXCEPT !.pc = p, !.conn = {}]
  <1>1. x \in Client  BY DEF Client, ClientTypes
  <1>2. cl' = [cl EXCEPT ![c] = x]  BY DEF Become, Client, ClientTypes
  <1> QED  BY <1>1, <1>2, Put DEF Same, Client, ClientTypes

LEMMA FinishPut ==
  ASSUME ClientTypes, NEW c \in Clients, NEW res \in Results, Finish(c, res)
  PROVE  /\ ClientTypes'
         /\ At(c, "done", {}, cl[c].loops, cl[c].stage, cl[c].notice, res)
  <1> DEFINE x == [cl[c] EXCEPT !.pc = "done", !.conn = {}, !.child = {}, !.res = res]
  <1>1. "done" \in ClientPcs  BY DEF ClientPcs
  <1>2. x \in Client  BY <1>1 DEF Client, ClientTypes
  <1>3. cl' = [cl EXCEPT ![c] = x]  BY DEF Finish, Client, ClientTypes
  <1> QED  BY <1>2, <1>3, Put DEF Client, ClientTypes

LEMMA NextCallPut ==
  ASSUME ClientTypes, NEW c \in Clients
  PROVE  /\ ReassertFails(c) =>
              ClientTypes' /\ At(c, "dial", {}, cl[c].loops, 2, TRUE, cl[c].res)
         /\ report_observation(c) =>
              ClientTypes' /\ At(c, "dial", {}, cl[c].loops, 2, cl[c].notice, cl[c].res)
  <1>1. "dial" \in ClientPcs  BY DEF ClientPcs
  <1>2. ASSUME ReassertFails(c)
        PROVE  ClientTypes' /\ At(c, "dial", {}, cl[c].loops, 2, TRUE, cl[c].res)
    <2> DEFINE x == [cl[c] EXCEPT !.pc = "dial", !.conn = {}, !.stage = 2, !.notice = TRUE]
    <2>1. x \in Client  BY <1>1 DEF Client, ClientTypes
    <2>2. cl' = [cl EXCEPT ![c] = x]  BY <1>2 DEF ReassertFails, Client, ClientTypes
    <2>3. ClientTypes' /\ At(c, x.pc, x.conn, x.loops, x.stage, x.notice, x.res)
      BY <2>1, <2>2, Put
    <2>4. x.pc = "dial" /\ x.conn = {} /\ x.loops = cl[c].loops /\ x.stage = 2
          /\ x.res = cl[c].res
      BY DEF Client, ClientTypes
    <2>5. x.notice = TRUE  BY Zenon DEF Client, ClientTypes
    <2> QED  BY <2>3, <2>4, <2>5, Zenon
  <1>3. ASSUME report_observation(c)
        PROVE  ClientTypes' /\ At(c, "dial", {}, cl[c].loops, 2, cl[c].notice, cl[c].res)
    <2> DEFINE x == [cl[c] EXCEPT !.pc = "dial", !.conn = {}, !.stage = 2]
    <2>1. x \in Client  BY <1>1 DEF Client, ClientTypes
    <2>2. cl' = [cl EXCEPT ![c] = x]  BY <1>3 DEF report_observation, Client, ClientTypes
    <2> QED  BY <2>1, <2>2, Put DEF Client, ClientTypes
  <1> QED  BY <1>2, <1>3

-----------------------------------------------------------------------------
(* The kinds of steps, by their effect on clients, daemons and requests.   *)

\* The requests that are left when nobody reads the answers of c any more.
Rest(c) == {r \in reqs : ~ (r.c = c /\ r.ran)}

\* A PleaseExit frame is only written to a daemon whose tasks run.
Asked == \A d \in asks' : d \in asks \/ (d \in Daemons /\ TasksRun(d))

Walks(c) ==
  /\ UNCHANGED <<job, dm, sock, lock, reqs, runs>> /\ Asked
  /\ \/ cl[c].pc = "idle" /\ Same(c, "dial", {})
     \/ cl[c].pc = "dial" /\ Same(c, "hello", Reachable) /\ Reachable # {}
     \/ /\ cl[c].pc = "hello" /\ Same(c, "decide", cl[c].conn)
        /\ \E d \in cl[c].conn : TasksRun(d)
     \/ /\ cl[c].pc \in {"dial", "hello", "decide"} /\ job[c].kind \in Spawners
        /\ Same(c, "ping", {}) \/ Same(c, "grace", {})
     \/ /\ cl[c].pc \in {"dial", "hello", "decide"} /\ job[c].kind = "stop"
        /\ Same(c, "inhibit", {})
     \/ /\ cl[c].pc \in {"grace", "ping", "lock", "wait"}
        /\ Same(c, "ping", {}) \/ Same(c, "lock", {}) \/ Same(c, "wait", {})
     \/ cl[c].pc = "exitwait" /\ Same(c, "inhibit", {})

\* Client c ends with res, and may.
Quits(c, res) ==
  /\ UNCHANGED <<job, dm, sock, runs>> /\ Asked
  /\ lock' = lock \/ lock' = Release(<<"c", c>>)
  /\ reqs' = Rest(c)
  /\ cl[c].pc # "done" /\ res # "none"
  /\ At(c, "done", {}, cl[c].loops, cl[c].stage, cl[c].notice, res)
  /\ res = "ok" => job[c].kind = "stop" \/ \E r \in reqs : r.c = c /\ r.ran
  /\ res \in Refusals => cl[c].pc \notin Past
  /\ job[c].kind = "hook" /\ res \notin {"killed", "absent"} => cl[c].stage = 2

\* A hook goes on from its reassert to its turn.
GoesOn(c) ==
  /\ UNCHANGED <<job, dm, sock, lock, runs>> /\ Asked
  /\ reqs' = Rest(c)
  /\ job[c].kind = "hook" /\ cl[c].stage = 1 /\ cl[c].pc # "done"
  /\ \/ At(c, "dial", {}, cl[c].loops, 2, TRUE, cl[c].res)
     \/ /\ At(c, "dial", {}, cl[c].loops, 2, cl[c].notice, cl[c].res)
        /\ \E r \in reqs : r.c = c /\ r.ran

Sends(c, d) ==
  /\ UNCHANGED <<job, dm, sock, lock, runs, asks>>
  /\ cl[c].pc = "decide" /\ d \in cl[c].conn /\ Alive(d) /\ dm[d].ver = job[c].ver
  /\ Same(c, "sent", cl[c].conn)
  /\ reqs' = reqs \cup {[c |-> c, n |-> Attempt(c), d |-> d, ran |-> FALSE]}

\* The call is over, and the command is not.
Returns(c) ==
  /\ UNCHANGED <<job, dm, sock, lock, runs, asks>>
  /\ cl[c].pc = "sent" /\ reqs' = Rest(c)
  /\ \/ job[c].kind = "query" /\ Same(c, "ping", {})
     \/ job[c].kind = "stop" /\ (Same(c, "exitwait", {}) \/ Same(c, "inhibit", {}))

Retries(c) ==
  /\ UNCHANGED <<job, dm, sock, lock, reqs, runs, asks>>
  /\ cl[c].pc \in {"ping", "wait"}
  /\ At(c, "dial", {}, cl[c].loops + 1, cl[c].stage, cl[c].notice, cl[c].res)

Takes(c) ==
  /\ UNCHANGED <<job, dm, sock, reqs, runs, asks>>
  /\ lock = {} /\ lock' = {<<"c", c>>}
  /\ \/ cl[c].pc = "lock" /\ Same(c, "reclaim", {})
     \/ cl[c].pc = "exitwait" /\ Same(c, "exitheld", {})

Reclaims(c) ==
  /\ UNCHANGED <<job, dm, lock, reqs, runs, asks>>
  /\ cl[c].pc = "reclaim" /\ Same(c, "launch", {}) /\ sock' = {}

\* Daemon d is left at pc; the others are not touched.
Turned(d, pc) ==
  /\ dm'[d].pc = pc /\ dm'[d].ver = dm[d].ver
  /\ \A e \in Daemons : e # d => dm'[e] = dm[e]

Spawns(c, d) ==
  /\ UNCHANGED <<job, sock, lock, reqs, runs, asks>>
  /\ cl[c].pc = "launch" /\ Same(c, "drop", {})
  /\ dm[d].pc = "unborn" /\ dm'[d].pc = "boot"
  /\ \A e \in Daemons : e # d => dm'[e] = dm[e]

Drops(c) ==
  /\ UNCHANGED <<job, dm, sock, reqs, runs, asks>>
  /\ lock' = Release(<<"c", c>>)
  /\ \/ cl[c].pc = "drop" /\ Same(c, "wait", {})
     \/ cl[c].pc = "exitheld" /\ Same(c, "inhibit", {})

ClientKind(c) ==
  \/ Walks(c) \/ (\E res \in Results : Quits(c, res)) \/ GoesOn(c)
  \/ (\E d \in Daemons : Sends(c, d)) \/ Returns(c) \/ Retries(c) \/ Takes(c) \/ Reclaims(c)
  \/ (\E d \in Daemons : Spawns(c, d)) \/ Drops(c)

\* A daemon goes on without touching the lock or the path.
Advances(d) ==
  /\ UNCHANGED <<job, cl, runs, reqs, lock, sock>> /\ asks' \subseteq asks
  /\ \/ dm' = dm
     \/ dm[d].pc = "boot" /\ Turned(d, "exit0")
     \/ dm[d].pc = "bound" /\ Turned(d, "accepting")
     \/ dm[d].pc = "accepting" /\ Turned(d, "serving")
     \/ dm[d].pc = "serving" /\ Turned(d, "closing")

Acquires(d) ==
  /\ UNCHANGED <<job, cl, runs, reqs, sock, asks>>
  /\ dm[d].pc = "boot" /\ lock = {}
  /\ lock' = {<<"d", d>>} /\ Turned(d, "locked")

Repaths(d) ==
  /\ UNCHANGED <<job, cl, runs, reqs, lock, asks>>
  /\ \/ dm[d].pc = "locked" /\ sock' = {d} /\ Turned(d, "bound")
     \/ dm[d].pc = "closing" /\ sock' = {} /\ Turned(d, "swept")

Unlocks(d) ==
  /\ UNCHANGED <<job, cl, runs, reqs, sock, asks>>
  /\ dm[d].pc = "swept" /\ lock' = Release(<<"d", d>>) /\ Turned(d, "unlocked")

Ends(d) ==
  /\ UNCHANGED <<job, cl, runs, sock>>
  /\ Alive(d) /\ (Turned(d, "exit0") \/ Turned(d, "exit1"))
  /\ lock' = Release(<<"d", d>>)
  /\ asks' = asks \ {d} /\ reqs' = {r \in reqs : r.d # d}

\* A request is executed, or dropped by the task of a client that has left.
Executes(r) ==
  /\ UNCHANGED <<job, cl, lock, sock, asks>>
  /\ ~r.ran
  /\ dm' = dm \/ (dm[r.d].pc = "serving" /\ Turned(r.d, "closing"))
  /\ \/ runs' = [runs EXCEPT ![r.c] = @ \cup {<<r.d, r.n>>}]
     \/ runs' = runs /\ ~Awaited(r)
  /\ reqs' = (reqs \ {r}) \cup IF Awaited(r) THEN {[r EXCEPT !.ran = TRUE]} ELSE {}

DaemonKind(d) == Advances(d) \/ Acquires(d) \/ Repaths(d) \/ Unlocks(d) \/ Ends(d)

\* The states, results and kinds are among theirs.
LEMMA Names ==
  /\ \A p \in {"idle", "dial", "hello", "decide", "sent", "grace", "ping", "lock", "reclaim",
               "launch", "drop", "wait", "exitwait", "exitheld", "inhibit", "done"} :
       p \in ClientPcs
  /\ \A x \in {"ok", "newer", "maybe", "crashed", "gave_up", "deadline", "refused", "absent",
               "killed"} : x \in Results /\ x # "none"
  BY DEF ClientPcs, Results

\* Where answers are no longer read, nothing changes when they are dropped.
LEMMA RestIsAll ==
  ASSUME Requests, NEW c \in Clients, cl[c].pc # "sent"
  PROVE  Rest(c) = reqs
  BY DEF Requests, InFlight, Rest, Awaited

\* What a failed call leaves, by the kind of the command.
HookFailed(c) ==
  \/ /\ job[c].kind = "hook" /\ cl[c].stage = 1
     /\ At(c, "dial", {}, cl[c].loops, 2, TRUE, cl[c].res)
  \/ /\ job[c].kind \in Hooks /\ (job[c].kind = "hook" => cl[c].stage = 2)
     /\ At(c, "done", {}, cl[c].loops, cl[c].stage, cl[c].notice, "refused")

LEMMA HookFailsPut ==
  ASSUME ClientTypes, NEW c \in Clients, job[c].kind \in Hooks, HookFails(c)
  PROVE  ClientTypes' /\ HookFailed(c)
  <1>1. CASE job[c].kind = "hook" /\ cl[c].stage = 1
    BY <1>1, NextCallPut DEF HookFails, HookFailed
  <1>2. CASE ~ (job[c].kind = "hook" /\ cl[c].stage = 1)
    <2>1. job[c].kind = "hook" => cl[c].stage = 2  BY <1>2 DEF ClientTypes, Client
    <2> QED  BY <1>2, <2>1, FinishPut, Names DEF HookFails, HookFailed
  <1> QED  BY <1>1, <1>2

LEMMA FailBeforePut ==
  ASSUME ClientTypes, CallTypes, NEW c \in Clients, FailBefore(c)
  PROVE  /\ ClientTypes'
         /\ \/ job[c].kind \in Spawners /\ Same(c, "ping", {})
            \/ job[c].kind = "stop" /\ Same(c, "inhibit", {})
            \/ HookFailed(c)
  <1>1. job[c].kind \in Spawners \/ job[c].kind = "stop" \/ job[c].kind \in Hooks
    BY DEF CallTypes, Command, Spawners, Hooks
  <1>2. CASE job[c].kind \in Spawners
    BY <1>2, BecomePut, Names DEF FailBefore, Spawners, Hooks
  <1>3. CASE job[c].kind = "stop"
    BY <1>3, BecomePut, Names DEF FailBefore, Spawners, Hooks
  <1>4. CASE job[c].kind \in Hooks
    BY <1>4, HookFailsPut DEF FailBefore, Spawners, Hooks
  <1> QED  BY <1>1, <1>2, <1>3, <1>4

LEMMA FailAfterPut ==
  ASSUME ClientTypes, CallTypes, NEW c \in Clients, FailAfter(c)
  PROVE  /\ ClientTypes'
         /\ \/ job[c].kind = "query" /\ Same(c, "ping", {})
            \/ job[c].kind = "stop" /\ Same(c, "inhibit", {})
            \/ HookFailed(c)
            \/ /\ job[c].kind \in {"mutate", "async"}
               /\ At(c, "done", {}, cl[c].loops, cl[c].stage, cl[c].notice, "maybe")
  <1>1. \/ job[c].kind = "query" \/ job[c].kind = "stop" \/ job[c].kind \in Hooks
        \/ job[c].kind \in {"mutate", "async"}
    BY DEF CallTypes, Command, Hooks
  <1>2. CASE job[c].kind = "query"
    BY <1>2, BecomePut, Names DEF FailAfter, Blocking, Hooks, retry_after_delivery
  <1>3. CASE job[c].kind = "stop"
    BY <1>3, BecomePut, Names DEF FailAfter, Blocking, Hooks, retry_after_delivery
  <1>4. CASE job[c].kind \in Hooks
    BY <1>4, HookFailsPut DEF FailAfter, Blocking, Hooks, retry_after_delivery
  <1>5. CASE job[c].kind \in {"mutate", "async"}
    BY <1>5, FinishPut, Names DEF FailAfter, Blocking, Hooks, retry_after_delivery
  <1> QED  BY <1>1, <1>2, <1>3, <1>4, <1>5

LEMMA AnsweringRuns ==
  ASSUME ProcessTypes, NEW c \in Clients
  PROVE  AskedByPing(c) \subseteq {d \in Daemons : TasksRun(d)}
  BY DEF AskedByPing, Answering, ProcessTypes, Slot, TasksRun

\* Every step of a client is of one of the kinds.
LEMMA ClientSteps ==
  ASSUME Types, Roles, Connected, Requests, NEW c \in Clients,
         ClientStep(c) \/ DeadlinePasses(c) \/ KillCommand(c)
  PROVE  ClientTypes' /\ ClientKind(c)
  <1> ProcessTypes /\ ClientTypes /\ CallTypes  BY DEF Types
  <1>1. CASE StartCommand(c)
    <2>1. CASE inapplicable(c)
      <3>1. job[c].kind \in Hooks /\ cl[c].pc = "idle" /\ Finish(c, "absent")
        BY <1>1, <2>1 DEF StartCommand, inapplicable
      <3>2. ClientTypes' /\ Quits(c, "absent")
        BY <3>1, <1>1, FinishPut, Names, RestIsAll DEF StartCommand, Quits, Refusals, Asked
      <3> QED  BY <3>2, Names DEF ClientKind
    <2>2. CASE ~inapplicable(c)
      <3>1. ClientTypes' /\ Walks(c)
        BY <1>1, <2>2, BecomePut, Names DEF StartCommand, Walks, Asked
      <3> QED  BY <3>1 DEF ClientKind
    <2> QED  BY <2>1, <2>2
  <1>2. CASE HookInhibited(c)
    BY <1>2, HookFailsPut, Names, RestIsAll
    DEF HookInhibited, HookFailed, ClientKind, Quits, GoesOn, Refusals, Asked
  <1>3. CASE Dial(c)
    <2>1. CASE Reachable = {}
      BY <1>3, <2>1, FailBeforePut, Names, RestIsAll
      DEF Dial, HookFailed, ClientKind, Walks, Quits, GoesOn, Refusals, Asked
    <2>2. CASE Reachable # {}
      <3> DEFINE x == [cl[c] EXCEPT !.pc = "hello", !.conn = Reachable]
      <3>1. Reachable \in SUBSET Daemons  BY DEF Reachable, Types, ProcessTypes, Slot
      <3>2. x \in Client  BY <3>1, Names DEF Client, ClientTypes
      <3>3. cl' = [cl EXCEPT ![c] = x]  BY <1>3, <2>2 DEF Dial, Client, ClientTypes
      <3>4. ClientTypes' /\ Same(c, "hello", Reachable)
        BY <3>2, <3>3, Put DEF Same, Client, ClientTypes
      <3> QED  BY <1>3, <2>2, <3>4 DEF Dial, ClientKind, Walks, Asked
    <2> QED  BY <2>1, <2>2
  <1>4. CASE Welcome(c)
    BY <1>4, PutPc, Names DEF Welcome, ClientKind, Walks, Asked, TasksRun
  <1>5. CASE NoWelcome(c)
    BY <1>5, FailBeforePut, Names, RestIsAll
    DEF NoWelcome, HookFailed, ClientKind, Walks, Quits, GoesOn, Refusals, Asked
  <1>6. CASE Decide(c)
    <2>1. PICK d \in cl[c].conn :
            /\ asks' = asks \/ (asks' = asks \cup {d} /\ Alive(d))
            /\ \/ /\ compare_protocols(d, c) = "ready" /\ Alive(d) /\ asks' = asks
                  /\ cl' = [cl EXCEPT ![c].pc = "sent"]
                  /\ reqs' = reqs \cup {[c |-> c, n |-> Attempt(c), d |-> d, ran |-> FALSE]}
               \/ FailAfter(c) /\ UNCHANGED reqs
               \/ job[c].kind \in Spawners /\ Finish(c, "newer") /\ UNCHANGED reqs
               \/ job[c].kind \in Spawners /\ Become(c, "grace") /\ UNCHANGED reqs
               \/ FailBefore(c) /\ UNCHANGED reqs
      BY <1>6 DEF Decide
    <2>2. d \in Daemons /\ (Alive(d) => TasksRun(d))
      BY <1>6 DEF Decide, Connected, ClientTypes, Client, Types, ProcessTypes, Process,
                  DaemonPcs, Alive, TasksRun
    <2>3. Asked  BY <2>1, <2>2 DEF Asked
    <2>4. cl[c].pc = "decide" /\ UNCHANGED <<job, lock, sock, dm, runs>>  BY <1>6 DEF Decide
    <2>5. CASE /\ compare_protocols(d, c) = "ready" /\ Alive(d) /\ asks' = asks
               /\ cl' = [cl EXCEPT ![c].pc = "sent"]
               /\ reqs' = reqs \cup {[c |-> c, n |-> Attempt(c), d |-> d, ran |-> FALSE]}
      <3>1. dm[d].ver = job[c].ver  BY <2>5 DEF compare_protocols
      <3>2. ClientTypes' /\ Same(c, "sent", cl[c].conn)  BY <2>5, PutPc, Names
      <3>3. Sends(c, d)  BY <2>4, <2>5, <3>1, <3>2 DEF Sends
      <3> QED  BY <2>2, <3>2, <3>3 DEF ClientKind
    <2>6. CASE FailAfter(c) /\ UNCHANGED reqs
      BY <2>3, <2>4, <2>6, FailAfterPut, Names, RestIsAll
      DEF HookFailed, ClientKind, Walks, Quits, GoesOn, Refusals, Spawners, Hooks
    <2>7. CASE job[c].kind \in Spawners /\ Finish(c, "newer") /\ UNCHANGED reqs
      BY <2>3, <2>4, <2>7, FinishPut, Names, RestIsAll
      DEF ClientKind, Quits, Refusals, Spawners, Past
    <2>8. CASE job[c].kind \in Spawners /\ Become(c, "grace") /\ UNCHANGED reqs
      BY <2>3, <2>4, <2>8, BecomePut, Names DEF ClientKind, Walks
    <2>9. CASE FailBefore(c) /\ UNCHANGED reqs
      BY <2>3, <2>4, <2>9, FailBeforePut, Names, RestIsAll
      DEF HookFailed, ClientKind, Walks, Quits, GoesOn, Refusals
    <2> QED  BY <2>1, <2>5, <2>6, <2>7, <2>8, <2>9
  <1>7. CASE GraceEnds(c)
    BY <1>7, PutPc, Names DEF GraceEnds, ClientKind, Walks, Asked, Roles
  <1>8. CASE Answer(c)
    <2>1. PICK r \in reqs : r.c = c /\ r.ran /\ Awaited(r) /\ reqs' = reqs \ {r}
      BY <1>8 DEF Answer
    <2>2. reqs' = Rest(c)
      <3>1. \A s \in reqs : s.c = c /\ s.ran => s = r
        <4>1. \A s \in reqs : s.ran => s.n = Attempt(s.c)  BY DEF Requests, InFlight, Awaited
        <4>2. \A s, t \in reqs : s.c = t.c /\ s.n = t.n => s = t  BY DEF Requests, Numbered
        <4> QED  BY <2>1, <4>1, <4>2
      <3> QED  BY <2>1, <3>1 DEF Rest
    <2>3. /\ cl[c].pc = "sent" /\ Asked
          /\ UNCHANGED <<job, lock, sock, dm, asks, runs>>
      BY <1>8 DEF Answer, Asked
    <2>4. CASE job[c].kind = "hook" /\ cl[c].stage = 1
      BY <1>8, <2>1, <2>2, <2>3, <2>4, NextCallPut DEF Answer, ClientKind, GoesOn
    <2>5. CASE job[c].kind = "stop"
      BY <1>8, <2>2, <2>3, <2>5, BecomePut, Names DEF Answer, ClientKind, Returns
    <2>6. CASE ~ (job[c].kind = "hook" /\ cl[c].stage = 1) /\ job[c].kind # "stop"
      <3>1. job[c].kind = "hook" => cl[c].stage = 2  BY <2>6 DEF ClientTypes, Client
      <3>2. Finish(c, "ok")  BY <1>8, <2>6 DEF Answer
      <3>3. ClientTypes' /\ Quits(c, "ok")
        BY <2>1, <2>2, <2>3, <3>1, <3>2, FinishPut, Names DEF Quits, Refusals
      <3> QED  BY <3>3, Names DEF ClientKind
    <2> QED  BY <2>4, <2>5, <2>6
  <1>9. CASE NoAnswer(c)
    BY <1>9, FailAfterPut, Names
    DEF NoAnswer, HookFailed, ClientKind, Returns, Quits, GoesOn, Rest, Refusals, Asked
  <1>10. CASE PingAnswered(c)
    <2>1. /\ cl[c].pc \in {"ping", "wait"} /\ Asked
          /\ UNCHANGED <<job, lock, sock, dm, asks, reqs, runs>>
      BY <1>10 DEF PingAnswered, Asked
    <2>2. CASE Finish(c, "gave_up")
      <3>1. job[c].kind # "hook"  BY <2>1 DEF Roles, Spawners
      <3> QED  BY <2>1, <2>2, <3>1, FinishPut, Names, RestIsAll DEF ClientKind, Quits, Past
    <2>3. CASE cl' = [cl EXCEPT ![c].pc = "dial", ![c].child = {}, ![c].loops = @ + 1]
      <3> DEFINE x == [cl[c] EXCEPT !.pc = "dial", !.child = {}, !.loops = @ + 1]
      <3>1. x \in Client
        <4>1. cl[c] \in Client /\ cl[c].loops + 1 \in Nat  BY DEF Client, ClientTypes
        <4> QED  BY <4>1, Names DEF Client
      <3>2. cl' = [cl EXCEPT ![c] = x]  BY <2>3 DEF Client, ClientTypes
      <3>3. cl[c].conn = {}  BY <2>1 DEF Roles
      <3>4. /\ x.pc = "dial" /\ x.conn = {} /\ x.loops = cl[c].loops + 1
            /\ x.stage = cl[c].stage /\ x.notice = cl[c].notice /\ x.res = cl[c].res
        BY <3>3 DEF Client, ClientTypes
      <3>5. ClientTypes' /\ At(c, x.pc, x.conn, x.loops, x.stage, x.notice, x.res)
        BY <3>1, <3>2, Put
      <3>6. At(c, "dial", {}, cl[c].loops + 1, cl[c].stage, cl[c].notice, cl[c].res)
        <4> HIDE DEF x
        <4> QED  BY <3>4, <3>5
      <3> QED  BY <2>1, <3>5, <3>6 DEF ClientKind, Retries
    <2> QED  BY <1>10, <2>2, <2>3 DEF PingAnswered
  <1>11. CASE PingUnanswered(c)
    <2>1. Asked  BY <1>11, AnsweringRuns DEF PingUnanswered, Asked
    <2> QED  BY <1>11, <2>1, PutPc, Names DEF PingUnanswered, ClientKind, Walks, Roles
  <1>12. CASE TryLock(c)
    <2>1. cl[c].pc = "lock" /\ cl[c].conn = {}  BY <1>12 DEF TryLock, Roles
    <2>2. CASE lock = {}
      BY <1>12, <2>1, <2>2, PutPc, Names DEF TryLock, ClientKind, Takes
    <2>3. CASE lock # {}
      BY <1>12, <2>1, <2>3, PutPc, Names DEF TryLock, ClientKind, Walks, Asked
    <2> QED  BY <2>2, <2>3
  <1>13. CASE ReclaimSocket(c)
    BY <1>13, PutPc, Names DEF ReclaimSocket, ClientKind, Reclaims, Roles
  <1>14. CASE spawn_detached_daemon(c)
    <2>1. PICK d \in Daemons :
            /\ dm[d].pc = "unborn" /\ dm' = [dm EXCEPT ![d] = [pc |-> "boot", ver |-> job[c].ver]]
            /\ cl' = [cl EXCEPT ![c].pc = "drop", ![c].child = {d}]
      BY <1>14 DEF spawn_detached_daemon
    <2> DEFINE x == [cl[c] EXCEPT !.pc = "drop", !.child = {d}]
    <2>2. x \in Client  BY Names DEF Client, ClientTypes
    <2>3. cl' = [cl EXCEPT ![c] = x]  BY <2>1 DEF Client, ClientTypes
    <2>4. cl[c].conn = {}  BY <1>14 DEF spawn_detached_daemon, Roles
    <2>5. ClientTypes' /\ Same(c, "drop", {})
      BY <2>2, <2>3, <2>4, Put DEF Same, Client, ClientTypes
    <2>6. dm'[d].pc = "boot" /\ \A e \in Daemons : e # d => dm'[e] = dm[e]
      BY <2>1 DEF Types, ProcessTypes
    <2> QED  BY <1>14, <2>1, <2>5, <2>6 DEF spawn_detached_daemon, ClientKind, Spawns
  <1>15. CASE DropStartupLock(c)
    BY <1>15, PutPc, Names DEF DropStartupLock, ClientKind, Drops, Roles
  <1>16. CASE poll_spawned_child(c)
    <2>1. Asked  BY <1>16, AnsweringRuns DEF poll_spawned_child, Asked
    <2>2. /\ cl[c].pc = "wait" /\ cl[c].conn = {} /\ job[c].kind # "hook"
          /\ UNCHANGED <<job, lock, sock, dm, reqs, runs>>
      BY <1>16 DEF poll_spawned_child, Roles, Spawners
    <2>3. CASE Finish(c, "crashed")
      BY <2>1, <2>2, <2>3, FinishPut, Names, RestIsAll DEF ClientKind, Quits, Past
    <2>4. CASE cl' = [cl EXCEPT ![c].child = {}]
      <3> DEFINE x == [cl[c] EXCEPT !.child = {}]
      <3>1. x \in Client  BY DEF Client, ClientTypes
      <3>2. cl' = [cl EXCEPT ![c] = x]  BY <2>4 DEF Client, ClientTypes
      <3>3. /\ x.pc = "wait" /\ x.conn = {} /\ x.loops = cl[c].loops
            /\ x.stage = cl[c].stage /\ x.notice = cl[c].notice /\ x.res = cl[c].res
        BY <2>2 DEF Client, ClientTypes
      <3>4. ClientTypes' /\ At(c, x.pc, x.conn, x.loops, x.stage, x.notice, x.res)
        BY <3>1, <3>2, Put
      <3>5. Same(c, "wait", {})  BY <3>3, <3>4 DEF Same
      <3> QED  BY <2>1, <2>2, <3>4, <3>5 DEF ClientKind, Walks
    <2>5. CASE UNCHANGED cl
      <3>1. ClientTypes' /\ Same(c, "wait", {})  BY <2>2, <2>5 DEF ClientTypes, Same, At
      <3> QED  BY <2>1, <2>2, <3>1 DEF ClientKind, Walks
    <2> QED  BY <1>16, <2>3, <2>4, <2>5 DEF poll_spawned_child
  <1>17. CASE WaitForExit(c)
    <2>1. cl[c].pc = "exitwait" /\ cl[c].conn = {}  BY <1>17 DEF WaitForExit, Roles
    <2>2. CASE lock = {}
      BY <1>17, <2>1, <2>2, PutPc, Names DEF WaitForExit, ClientKind, Takes
    <2>3. CASE lock # {}
      BY <1>17, <2>1, <2>3, BecomePut, Names DEF WaitForExit, ClientKind, Walks, Asked
    <2> QED  BY <2>2, <2>3
  <1>18. CASE ReleaseProbe(c)
    BY <1>18, BecomePut, Names DEF ReleaseProbe, ClientKind, Drops, Roles
  <1>19. CASE SetInhibit(c)
    <2>1. job[c].kind = "stop"  BY <1>19 DEF SetInhibit, Roles
    <2> QED
      BY <1>19, <2>1, FinishPut, Names, RestIsAll DEF SetInhibit, ClientKind, Quits, Refusals, Asked
  <1>20. CASE DeadlinePasses(c)
    <2>1. /\ cl[c].pc \in {"ping", "wait"} /\ Asked /\ job[c].kind # "hook"
          /\ UNCHANGED <<job, lock, sock, dm, reqs, runs>>
      BY <1>20 DEF DeadlinePasses, Asked, Roles, Spawners
    <2>2. CASE Become(c, "wait")
      BY <2>1, <2>2, BecomePut, Names DEF ClientKind, Walks
    <2>3. CASE Finish(c, "deadline")
      BY <2>1, <2>3, FinishPut, Names, RestIsAll DEF ClientKind, Quits, Past
    <2> QED  BY <1>20, <2>2, <2>3 DEF DeadlinePasses
  <1>21. CASE KillCommand(c)
    BY <1>21, FinishPut, Names DEF KillCommand, ClientKind, Quits, Rest, Refusals, Asked
  <1> QED
    BY <1>1, <1>2, <1>3, <1>4, <1>5, <1>6, <1>7, <1>8, <1>9, <1>10, <1>11, <1>12, <1>13,
       <1>14, <1>15, <1>16, <1>17, <1>18, <1>19, <1>20, <1>21 DEF ClientStep

LEMMA TurnedBy ==
  ASSUME ProcessTypes, NEW d \in Daemons, NEW p \in DaemonPcs, dm' = [dm EXCEPT ![d].pc = p]
  PROVE  Turned(d, p) /\ dm' \in [Daemons -> Process]
  <1> DEFINE x == [dm[d] EXCEPT !.pc = p]
  <1>1. x \in Process  BY DEF Process, ProcessTypes
  <1>2. dm' = [dm EXCEPT ![d] = x]  BY DEF Process, ProcessTypes
  <1>3. x.pc = p /\ x.ver = dm[d].ver  BY DEF Process, ProcessTypes
  <1> QED  BY <1>1, <1>2, <1>3 DEF Turned, ProcessTypes

LEMMA PcNames ==
  \A p \in {"boot", "locked", "bound", "accepting", "serving", "closing", "swept", "unlocked",
            "exit0", "exit1"} : p \in DaemonPcs
  BY DEF DaemonPcs

LEMMA EndsBy ==
  ASSUME ProcessTypes, NEW d \in Daemons, NEW code \in {"exit0", "exit1"}, Alive(d),
         EndProcess(d, code), UNCHANGED <<job, cl, runs, sock>>
  PROVE  Ends(d) /\ dm' \in [Daemons -> Process]
  BY TurnedBy, PcNames DEF EndProcess, Ends

LEMMA NotifiedBy ==
  ASSUME ProcessTypes, NEW d \in Daemons, dm' = Notified(d)
  PROVE  /\ dm' \in [Daemons -> Process]
         /\ dm' = dm \/ (dm[d].pc = "serving" /\ Turned(d, "closing"))
  <1>1. CASE dm[d].pc = "serving"
    BY <1>1, TurnedBy, PcNames DEF Notified
  <1>2. CASE dm[d].pc # "serving"
    BY <1>2 DEF Notified, ProcessTypes
  <1> QED  BY <1>1, <1>2

\* Every step of a daemon is of one of the kinds.
LEMMA DaemonSteps ==
  ASSUME ProcessTypes, NEW d \in Daemons, MainTask(d) \/ HandlePleaseExit(d) \/ Crash(d)
  PROVE  dm' \in [Daemons -> Process] /\ DaemonKind(d)
  <1>1. CASE AcquireLock(d)
    BY <1>1, TurnedBy, PcNames DEF AcquireLock, DaemonKind, Acquires, Advances
  <1>2. CASE bind_socket(d)
    BY <1>2, TurnedBy, PcNames DEF bind_socket, DaemonKind, Repaths
  <1>3. CASE StartServing(d)
    <2>1. CASE EndProcess(d, "exit1")
      BY <1>3, <2>1, EndsBy DEF StartServing, Alive, DaemonKind
    <2>2. CASE dm' = [dm EXCEPT ![d].pc = "accepting"] /\ UNCHANGED <<lock, asks, reqs>>
      BY <1>3, <2>2, TurnedBy, PcNames DEF StartServing, DaemonKind, Advances
    <2> QED  BY <1>3, <2>1, <2>2 DEF StartServing
  <1>4. CASE ReachSelect(d)
    BY <1>4, TurnedBy, PcNames DEF ReachSelect, DaemonKind, Advances
  <1>5. CASE cleanup(d)
    BY <1>5, TurnedBy, PcNames DEF cleanup, DaemonKind, Repaths
  <1>6. CASE DropLock(d)
    BY <1>6, TurnedBy, PcNames DEF DropLock, DaemonKind, Unlocks
  <1>7. CASE ExitProcess(d)
    BY <1>7, EndsBy DEF ExitProcess, Alive, DaemonKind
  <1>8. CASE HandlePleaseExit(d)
    BY <1>8, NotifiedBy DEF HandlePleaseExit, DaemonKind, Advances
  <1>9. CASE Crash(d)
    BY <1>9, EndsBy DEF Crash, DaemonKind
  <1> QED  BY <1>1, <1>2, <1>3, <1>4, <1>5, <1>6, <1>7, <1>8, <1>9 DEF MainTask

LEMMA DispatchSteps ==
  ASSUME ProcessTypes, CallTypes, NEW r \in reqs, Dispatch(r)
  PROVE  dm' \in [Daemons -> Process] /\ Executes(r)
  <1>1. r.d \in Daemons  BY DEF CallTypes, Request
  <1>2. dm' = dm \/ dm' = Notified(r.d)  BY DEF Dispatch
  <1>3. /\ dm' \in [Daemons -> Process]
        /\ dm' = dm \/ (dm[r.d].pc = "serving" /\ Turned(r.d, "closing"))
    BY <1>1, <1>2, NotifiedBy DEF ProcessTypes
  <1> QED  BY <1>3 DEF Dispatch, Executes

-----------------------------------------------------------------------------
(* The types.                                                              *)

LockType == {{}} \cup {{<<"c", c>>} : c \in Clients} \cup {{<<"d", d>>} : d \in Daemons}

\* What a kind leaves of the lock and the path is a lock and a path.
LEMMA LockTypes ==
  /\ \A c \in Clients : {<<"c", c>>} \in LockType
  /\ \A d \in Daemons : {<<"d", d>>} \in LockType /\ {d} \in Slot
  /\ {} \in LockType /\ {} \in Slot
  /\ \A x : lock \in LockType => Release(x) \in LockType
  <1>1. \A x : lock \in LockType => Release(x) = lock \/ Release(x) = {}
    BY DEF LockType, Release
  <1>2. {} \in LockType  BY DEF LockType
  <1> QED  BY <1>1, <1>2 DEF LockType, Slot

LEMMA ProcessStep ==
  ASSUME Types, Roles, Connected, Requests, [DaemonNext]_dvars
  PROVE  ProcessTypes'
  <1> ProcessTypes /\ CallTypes  BY DEF Types
  <1> lock \in LockType /\ sock \in Slot /\ asks \in SUBSET Daemons
    BY DEF ProcessTypes, LockType
  <1> DEFINE Typed == /\ dm' \in [Daemons -> Process]
                      /\ lock' \in LockType /\ sock' \in Slot /\ asks' \in SUBSET Daemons
  <1>1. SUFFICES Typed  BY DEF ProcessTypes, LockType, Slot
  <1>2. ASSUME NEW d \in Daemons, MainTask(d) \/ HandlePleaseExit(d) \/ Crash(d)
        PROVE  Typed
    <2>1. dm' \in [Daemons -> Process] /\ DaemonKind(d)  BY <1>2, DaemonSteps
    <2> QED
      BY <2>1, LockTypes DEF DaemonKind, Advances, Acquires, Repaths, Unlocks, Ends
  <1>3. ASSUME NEW r \in reqs, Dispatch(r)  PROVE Typed
    BY <1>3, DispatchSteps DEF Executes
  <1>4. ASSUME NEW c \in Clients, ClientStep(c) \/ DeadlinePasses(c) \/ KillCommand(c)
        PROVE  Typed
    <2>1. ClientKind(c)  BY <1>4, ClientSteps
    <2>2. lock' \in LockType /\ sock' \in Slot /\ asks' \in SUBSET Daemons
      BY <2>1, LockTypes
      DEF ClientKind, Walks, Quits, GoesOn, Sends, Returns, Retries, Takes, Reclaims, Spawns,
          Drops, Asked
    <2>3. dm' \in [Daemons -> Process]
      <3>1. CASE dm' = dm  BY <3>1 DEF ProcessTypes
      <3>2. CASE spawn_detached_daemon(c)
        <4>1. job[c].ver \in Versions  BY DEF CallTypes, Command, Versions
        <4>2. [pc |-> "boot", ver |-> job[c].ver] \in Process  BY <4>1, PcNames DEF Process
        <4> QED  BY <3>2, <4>2 DEF spawn_detached_daemon, ProcessTypes
      <3>3. dm' = dm \/ spawn_detached_daemon(c)
        BY <1>4 DEF ClientStep, StartCommand, HookInhibited, Dial, Welcome, NoWelcome, Decide,
             GraceEnds, Answer, NoAnswer, PingAnswered, PingUnanswered, TryLock, ReclaimSocket,
             DropStartupLock, poll_spawned_child, WaitForExit, ReleaseProbe, SetInhibit,
             DeadlinePasses, KillCommand
      <3> QED  BY <3>1, <3>2, <3>3
    <2> QED  BY <2>2, <2>3
  <1>5. CASE UNCHANGED dvars  BY <1>5 DEF dvars, ProcessTypes
  <1> QED  BY <1>2, <1>3, <1>4, <1>5 DEF DaemonNext

\* Every step is of one of the kinds.
LEMMA Kinds ==
  ASSUME Types, Roles, Connected, Requests, [DaemonNext]_dvars
  PROVE  \/ \E d \in Daemons : DaemonKind(d)
         \/ \E r \in reqs : Executes(r)
         \/ \E c \in Clients : ClientTypes' /\ ClientKind(c)
         \/ UNCHANGED dvars
  BY DaemonSteps, DispatchSteps, ClientSteps DEF DaemonNext, Types

LEMMA ClientTypesStep ==
  ASSUME Types, Roles, Connected, Requests, [DaemonNext]_dvars
  PROVE  ClientTypes'
  BY Kinds DEF DaemonKind, Advances, Acquires, Repaths, Unlocks, Ends, Executes, dvars, Types,
               ClientTypes

LEMMA CallTypesStep ==
  ASSUME Types, Roles, Connected, Requests, [DaemonNext]_dvars
  PROVE  CallTypes'
  <1> ProcessTypes /\ ClientTypes /\ CallTypes  BY DEF Types
  <1>1. ASSUME NEW d \in Daemons, DaemonKind(d)  PROVE CallTypes'
    BY <1>1 DEF DaemonKind, Advances, Acquires, Repaths, Unlocks, Ends, CallTypes
  <1>2. ASSUME NEW r \in reqs, Executes(r)  PROVE CallTypes'
    <2>1. r \in Request /\ r.c \in Clients /\ <<r.d, r.n>> \in Daemons \X Nat
      BY DEF CallTypes, Request
    <2>2. [r EXCEPT !.ran = TRUE] \in Request  BY <2>1 DEF Request
    <2>3. reqs' \in SUBSET Request  BY <1>2, <2>2 DEF Executes, CallTypes
    <2>4. runs' \in [Clients -> SUBSET (Daemons \X Nat)]  BY <1>2, <2>1 DEF Executes, CallTypes
    <2>5. job' = job  BY <1>2 DEF Executes
    <2> QED  BY <2>3, <2>4, <2>5 DEF CallTypes
  <1>3. ASSUME NEW c \in Clients, ClientKind(c)  PROVE CallTypes'
    <2>1. UNCHANGED <<job, runs>>
      BY <1>3 DEF ClientKind, Walks, Quits, GoesOn, Sends, Returns, Retries, Takes, Reclaims,
                  Spawns, Drops
    <2>2. reqs' \subseteq reqs \/ \E d \in Daemons : Sends(c, d)
      BY <1>3 DEF ClientKind, Walks, Quits, GoesOn, Returns, Retries, Takes, Reclaims, Spawns,
                  Drops, Rest
    <2>3. Attempt(c) \in Nat  BY DEF Attempt, ClientTypes, Client
    <2>4. \A d \in Daemons : [c |-> c, n |-> Attempt(c), d |-> d, ran |-> FALSE] \in Request
      BY <2>3 DEF Request
    <2>5. reqs' \in SUBSET Request  BY <2>2, <2>4 DEF Sends, CallTypes
    <2> QED  BY <2>1, <2>5 DEF CallTypes
  <1>4. CASE UNCHANGED dvars  BY <1>4 DEF dvars, CallTypes
  <1> QED  BY <1>1, <1>2, <1>3, <1>4, Kinds

-----------------------------------------------------------------------------
(* The conjuncts of the invariant, one after the other.                    *)

\* Whoever holds the flock holds it alone.
LEMMA SoleHolder ==
  ASSUME Ownership
  PROVE  /\ \A d, e \in Daemons : dm[d].pc \in Owning /\ dm[e].pc \in Owning => d = e
         /\ \A c \in Clients, d \in Daemons : cl[c].pc \in Starting => dm[d].pc \notin Owning
  <1>1. \A d, e \in Daemons : {<<"d", d>>} = {<<"d", e>>} => d = e
    <2>1. SUFFICES ASSUME NEW d \in Daemons, NEW e \in Daemons, {<<"d", d>>} = {<<"d", e>>}
                   PROVE  d = e
      OBVIOUS
    <2>2. <<"d", d>> = <<"d", e>>  BY <2>1
    <2> QED  BY <2>2
  <1>2. \A c \in Clients, d \in Daemons : {<<"c", c>>} # {<<"d", d>>}
    <2>1. \A c \in Clients, d \in Daemons : <<"c", c>> # <<"d", d>>  OBVIOUS
    <2> QED  BY <2>1
  <1> QED  BY <1>1, <1>2 DEF Ownership

LEMMA OwnershipStep ==
  ASSUME Types, Ownership, Roles, Connected, Requests, [DaemonNext]_dvars
  PROVE  Ownership'
  <1> ProcessTypes /\ ClientTypes /\ CallTypes  BY DEF Types
  <1>1. ASSUME NEW d \in Daemons, DaemonKind(d)  PROVE Ownership'
    <2>1. CASE Advances(d)
      BY <2>1 DEF Advances, Turned, Ownership, Owning, Starting, Listening
    <2>2. CASE Acquires(d)
      BY <2>2 DEF Acquires, Turned, Ownership, Owning, Starting, Listening
    <2>3. CASE Repaths(d)
      <3>1. \A e \in Daemons : dm[e].pc \in Owning => e = d
        BY <2>3, SoleHolder DEF Repaths, Owning
      <3> QED  BY <2>3, <3>1 DEF Repaths, Turned, Ownership, Owning, Listening
    <2>4. CASE Unlocks(d)
      BY <2>4 DEF Unlocks, Turned, Ownership, Owning, Starting, Listening, Release
    <2>5. CASE Ends(d)
      BY <2>5 DEF Ends, Turned, Ownership, Owning, Starting, Listening, Release
    <2> QED  BY <1>1, <2>1, <2>2, <2>3, <2>4, <2>5 DEF DaemonKind
  <1>2. ASSUME NEW r \in reqs, Executes(r)  PROVE Ownership'
    BY <1>2 DEF Executes, Turned, Ownership, Owning, Starting, Listening, CallTypes, Request
  <1>3. ASSUME NEW c \in Clients, ClientKind(c)  PROVE Ownership'
    <2>1. CASE Walks(c)
      BY <2>1 DEF Walks, Same, At, Ownership, Starting, Listening
    <2>2. ASSUME NEW res \in Results, Quits(c, res)  PROVE Ownership'
      BY <2>2 DEF Quits, At, Ownership, Starting, Listening, Release
    <2>3. CASE GoesOn(c)
      BY <2>3 DEF GoesOn, At, Ownership, Starting, Listening
    <2>4. ASSUME NEW d \in Daemons, Sends(c, d)  PROVE Ownership'
      BY <2>4 DEF Sends, Same, At, Ownership, Starting, Listening
    <2>5. CASE Returns(c)
      BY <2>5 DEF Returns, Same, At, Ownership, Starting, Listening
    <2>6. CASE Retries(c)
      BY <2>6 DEF Retries, At, Ownership, Starting, Listening
    <2>7. CASE Takes(c)
      BY <2>7 DEF Takes, Same, At, Ownership, Starting, Listening
    <2>8. CASE Reclaims(c)
      <3>1. \A e \in Daemons : dm[e].pc \notin Owning
        BY <2>8, SoleHolder DEF Reclaims, Starting
      <3> QED  BY <2>8, <3>1 DEF Reclaims, Same, At, Ownership, Owning, Starting, Listening
    <2>9. ASSUME NEW d \in Daemons, Spawns(c, d)  PROVE Ownership'
      BY <2>9 DEF Spawns, Same, At, Ownership, Owning, Starting, Listening
    <2>10. CASE Drops(c)
      BY <2>10 DEF Drops, Same, At, Ownership, Starting, Listening, Release
    <2> QED  BY <1>3, <2>1, <2>2, <2>3, <2>4, <2>5, <2>6, <2>7, <2>8, <2>9, <2>10 DEF ClientKind
  <1>4. CASE UNCHANGED dvars  BY <1>4 DEF dvars, Ownership, Listening
  <1> QED  BY <1>1, <1>2, <1>3, <1>4, Kinds

LEMMA RolesStep ==
  ASSUME Types, Roles, Connected, Requests, [DaemonNext]_dvars
  PROVE  Roles'
  <1> ProcessTypes /\ ClientTypes /\ CallTypes  BY DEF Types
  <1>1. ASSUME NEW d \in Daemons, DaemonKind(d)  PROVE Roles'
    BY <1>1 DEF DaemonKind, Advances, Acquires, Repaths, Unlocks, Ends, Roles,
                 Spawners, Client, ClientTypes
  <1>2. ASSUME NEW r \in reqs, Executes(r)  PROVE Roles'
    BY <1>2 DEF Executes, Turned, Roles, Spawners, Client, ClientTypes
  <1>3. ASSUME NEW c \in Clients, ClientKind(c)  PROVE Roles'
    <2>1. CASE Walks(c)
      BY <2>1 DEF Walks, Same, At, Roles, Spawners, Client, ClientTypes
    <2>2. ASSUME NEW res \in Results, Quits(c, res)  PROVE Roles'
      BY <2>2 DEF Quits, At, Roles, Spawners, Client, ClientTypes
    <2>3. CASE GoesOn(c)
      BY <2>3 DEF GoesOn, At, Roles, Spawners, Client, ClientTypes
    <2>4. ASSUME NEW d \in Daemons, Sends(c, d)  PROVE Roles'
      BY <2>4 DEF Sends, Same, At, Roles, Spawners, Client, ClientTypes
    <2>5. CASE Returns(c)
      BY <2>5 DEF Returns, Same, At, Roles, Spawners, Client, ClientTypes
    <2>6. CASE Retries(c)
      BY <2>6 DEF Retries, At, Roles, Spawners, Client, ClientTypes
    <2>7. CASE Takes(c)
      BY <2>7 DEF Takes, Same, At, Roles, Spawners, Client, ClientTypes
    <2>8. CASE Reclaims(c)
      BY <2>8 DEF Reclaims, Same, At, Roles, Spawners, Client, ClientTypes
    <2>9. ASSUME NEW d \in Daemons, Spawns(c, d)  PROVE Roles'
      BY <2>9 DEF Spawns, Same, At, Roles, Spawners, Client, ClientTypes
    <2>10. CASE Drops(c)
      BY <2>10 DEF Drops, Same, At, Roles, Spawners, Client, ClientTypes
    <2> QED  BY <1>3, <2>1, <2>2, <2>3, <2>4, <2>5, <2>6, <2>7, <2>8, <2>9, <2>10 DEF ClientKind
  <1>4. CASE UNCHANGED dvars  BY <1>4 DEF dvars, Roles, Spawners, Client, ClientTypes
  <1> QED  BY <1>1, <1>2, <1>3, <1>4, Kinds

LEMMA ConnectedStep ==
  ASSUME Types, Roles, Connected, Requests, [DaemonNext]_dvars
  PROVE  Connected'
  <1> ProcessTypes /\ ClientTypes /\ CallTypes  BY DEF Types
  <1>a. asks \subseteq Daemons /\ \A c \in Clients : cl[c].conn \subseteq Daemons
    BY DEF ProcessTypes, ClientTypes, Client
  <1>1. ASSUME NEW d \in Daemons, DaemonKind(d)  PROVE Connected'
    <2>1. CASE Advances(d)
      BY <2>1, <1>a DEF Advances, Turned, Connected, TasksRun
    <2>2. CASE Acquires(d)
      BY <2>2, <1>a DEF Acquires, Turned, Connected, TasksRun
    <2>3. CASE Repaths(d)
      BY <2>3, <1>a DEF Repaths, Turned, Connected, TasksRun
    <2>4. CASE Unlocks(d)
      BY <2>4, <1>a DEF Unlocks, Turned, Connected, TasksRun
    <2>5. CASE Ends(d)
      BY <2>5, <1>a DEF Ends, Turned, Connected, TasksRun
    <2> QED  BY <1>1, <2>1, <2>2, <2>3, <2>4, <2>5 DEF DaemonKind
  <1>2. ASSUME NEW r \in reqs, Executes(r)  PROVE Connected'
    BY <1>2, <1>a DEF Executes, Turned, CallTypes, Request, Connected, TasksRun
  <1>3. ASSUME NEW c \in Clients, ClientKind(c)  PROVE Connected'
    <2>1. CASE Walks(c)
      <3>1. \A d \in asks' : TasksRun(d)  BY <2>1 DEF Walks, Asked, Connected
      <3>2. \A d \in Reachable : dm[d].pc \in {"bound", "accepting", "serving"}
        BY DEF Reachable, Listening
      <3>3. \A d, e \in Reachable : d = e  BY DEF Reachable, ProcessTypes, Slot
      <3>4. UNCHANGED dm  BY <2>1 DEF Walks
      <3> QED  BY <2>1, <1>a, <3>1, <3>2, <3>3, <3>4 DEF Walks, Same, At, Connected, TasksRun
    <2>2. ASSUME NEW res \in Results, Quits(c, res)  PROVE Connected'
      BY <2>2, <1>a DEF Quits, Asked, At, Connected, TasksRun
    <2>3. CASE GoesOn(c)
      BY <2>3, <1>a DEF GoesOn, Asked, At, Connected, TasksRun
    <2>4. ASSUME NEW d \in Daemons, Sends(c, d)  PROVE Connected'
      BY <2>4 DEF Sends, Same, At, Connected, TasksRun
    <2>5. CASE Returns(c)
      BY <2>5 DEF Returns, Same, At, Connected, TasksRun
    <2>6. CASE Retries(c)
      BY <2>6 DEF Retries, At, Connected, TasksRun
    <2>7. CASE Takes(c)
      BY <2>7 DEF Takes, Same, At, Connected, TasksRun
    <2>8. CASE Reclaims(c)
      BY <2>8 DEF Reclaims, Same, At, Connected, TasksRun
    <2>9. ASSUME NEW d \in Daemons, Spawns(c, d)  PROVE Connected'
      BY <2>9, <1>a DEF Spawns, Same, At, Connected, TasksRun
    <2>10. CASE Drops(c)
      BY <2>10 DEF Drops, Same, At, Connected, TasksRun
    <2> QED  BY <1>3, <2>1, <2>2, <2>3, <2>4, <2>5, <2>6, <2>7, <2>8, <2>9, <2>10 DEF ClientKind
  <1>4. CASE UNCHANGED dvars  BY <1>4 DEF dvars, Connected, TasksRun
  <1> QED  BY <1>1, <1>2, <1>3, <1>4, Kinds

\* What every kind of client step keeps: the daemons that exist, the other clients, the
\* count of attempts; and no answer waits for a client that has stopped reading.
Early == {"idle", "dial", "hello", "decide"}

Kept(c) ==
  /\ UNCHANGED <<job, runs>>
  /\ \A d \in Daemons : dm[d].pc # "unborn" => dm'[d] = dm[d]
  /\ \A e \in Clients : e # c => cl'[e] = cl[e]
  /\ \/ /\ cl'[c].loops = cl[c].loops /\ cl'[c].stage = cl[c].stage
        /\ cl'[c].pc \in Early => cl[c].pc \in Early
     \/ cl'[c].loops + cl'[c].stage = cl[c].loops + cl[c].stage + 1
  /\ \A r \in reqs' : r.c = c => ~r.ran
  /\ reqs' \subseteq reqs \/ \E d \in Daemons : Sends(c, d)

LEMMA ClientKeeps ==
  ASSUME Types, Roles, Requests, NEW c \in Clients, ClientKind(c)
  PROVE  Kept(c)
  <1> ProcessTypes /\ ClientTypes /\ CallTypes  BY DEF Types
  <1>a. cl[c].loops \in Nat /\ cl[c].stage \in {1, 2}  BY DEF ClientTypes, Client
  <1>b. cl[c].pc # "sent" => \A r \in reqs : r.c = c => ~r.ran
    BY DEF Requests, InFlight, Awaited
  <1>c. \A r \in Rest(c) : r \in reqs /\ (r.c = c => ~r.ran)  BY DEF Rest
  <1>1. CASE Walks(c)
    BY <1>1, <1>b DEF Walks, Same, At, Kept, Early
  <1>2. ASSUME NEW res \in Results, Quits(c, res)  PROVE Kept(c)
    BY <1>2, <1>c DEF Quits, At, Kept, Early
  <1>3. CASE GoesOn(c)
    BY <1>3, <1>c, <1>a DEF GoesOn, At, Kept, Early
  <1>4. ASSUME NEW d \in Daemons, Sends(c, d)  PROVE Kept(c)
    BY <1>4, <1>b DEF Sends, Same, At, Kept, Early
  <1>5. CASE Returns(c)
    BY <1>5, <1>c DEF Returns, Same, At, Kept, Early
  <1>6. CASE Retries(c)
    BY <1>6, <1>b, <1>a DEF Retries, At, Kept, Early
  <1>7. CASE Takes(c)
    BY <1>7, <1>b DEF Takes, Same, At, Kept, Early
  <1>8. CASE Reclaims(c)
    BY <1>8, <1>b DEF Reclaims, Same, At, Kept, Early
  <1>9. ASSUME NEW d \in Daemons, Spawns(c, d)  PROVE Kept(c)
    BY <1>9, <1>b DEF Spawns, Same, At, Kept, Early
  <1>10. CASE Drops(c)
    BY <1>10, <1>b DEF Drops, Same, At, Kept, Early
  <1> QED  BY <1>1, <1>2, <1>3, <1>4, <1>5, <1>6, <1>7, <1>8, <1>9, <1>10 DEF ClientKind

LEMMA InFlightStep ==
  ASSUME Types, Roles, Connected, Requests, [DaemonNext]_dvars
  PROVE  InFlight'
  <1> ProcessTypes /\ ClientTypes /\ CallTypes  BY DEF Types
  <1>a. /\ \A r \in reqs : r.c \in Clients /\ r.d \in Daemons /\ r.n \in Nat
        /\ \A c \in Clients : Attempt(c) \in Nat /\ cl[c].loops \in Nat /\ cl[c].stage \in {1, 2}
    BY DEF CallTypes, Request, ClientTypes, Client, Attempt
  <1>1. ASSUME NEW d \in Daemons, DaemonKind(d)  PROVE InFlight'
    <2>1. CASE Advances(d)
      BY <2>1, <1>a DEF Advances, Turned, Requests, InFlight, TasksRun, Awaited, Attempt
    <2>2. CASE Acquires(d)
      BY <2>2, <1>a DEF Acquires, Turned, Requests, InFlight, TasksRun, Awaited, Attempt
    <2>3. CASE Repaths(d)
      BY <2>3, <1>a DEF Repaths, Turned, Requests, InFlight, TasksRun, Awaited, Attempt
    <2>4. CASE Unlocks(d)
      BY <2>4, <1>a DEF Unlocks, Turned, Requests, InFlight, TasksRun, Awaited, Attempt
    <2>5. CASE Ends(d)
      BY <2>5, <1>a DEF Ends, Turned, Requests, InFlight, TasksRun, Awaited, Attempt
    <2> QED  BY <1>1, <2>1, <2>2, <2>3, <2>4, <2>5 DEF DaemonKind
  <1>2. ASSUME NEW r \in reqs, Executes(r)  PROVE InFlight'
    <2> SUFFICES ASSUME NEW s \in reqs'
                 PROVE  /\ TasksRun(s.d)' /\ dm'[s.d].ver = job[s.c].ver
                        /\ s.n <= Attempt(s.c)
                        /\ s.n = Attempt(s.c) => cl[s.c].pc \notin Early
                        /\ s.ran => Awaited(s) /\ <<s.d, s.n>> \in runs'[s.c]
      BY <1>2 DEF Executes, InFlight, Awaited, Attempt, Early
    <2>1. TasksRun(r.d) /\ \A d \in Daemons : TasksRun(d) => TasksRun(d)' /\ dm'[d].ver = dm[d].ver
      BY <1>2, <1>a DEF Executes, Turned, TasksRun, Requests, InFlight
    <2>2. \A c \in Clients : runs[c] \subseteq runs'[c]  BY <1>2 DEF Executes, CallTypes
    <2>3. CASE s \in reqs
      BY <2>1, <2>2, <2>3, <1>a DEF Requests, InFlight, Early
    <2>4. CASE s = [r EXCEPT !.ran = TRUE] /\ Awaited(r)
      <3>1. s.c = r.c /\ s.n = r.n /\ s.d = r.d  BY <2>4 DEF CallTypes, Request
      <3>2. <<r.d, r.n>> \in runs'[r.c]  BY <1>2, <1>a, <2>4 DEF Executes, CallTypes
      <3> QED  BY <2>1, <2>4, <3>1, <3>2, <1>a DEF Requests, InFlight, Early, Awaited
    <2> QED  BY <1>2, <2>3, <2>4 DEF Executes
  <1>3. ASSUME NEW c \in Clients, ClientKind(c)  PROVE InFlight'
    <2>1. Kept(c)  BY <1>3, ClientKeeps
    <2> SUFFICES ASSUME NEW s \in reqs'
                 PROVE  /\ TasksRun(s.d)' /\ dm'[s.d].ver = job[s.c].ver
                        /\ s.n <= cl'[s.c].loops + cl'[s.c].stage
                        /\ s.n = cl'[s.c].loops + cl'[s.c].stage => cl'[s.c].pc \notin Early
                        /\ s.ran => Awaited(s)' /\ <<s.d, s.n>> \in runs[s.c]
      BY <2>1 DEF Kept, InFlight, Attempt, Early
    <2>2. CASE s \in reqs
      <3>1. TasksRun(s.d)' /\ dm'[s.d].ver = job[s.c].ver
        BY <2>1, <2>2, <1>a DEF Kept, Requests, InFlight, TasksRun
      <3>2. CASE s.c # c
        <4>1. cl'[s.c] = cl[s.c]  BY <2>1, <2>2, <3>2, <1>a DEF Kept
        <4> QED
          BY <2>2, <3>1, <4>1 DEF Requests, InFlight, Awaited, Attempt, Early
      <3>3. CASE s.c = c
        BY <2>1, <2>2, <3>1, <3>3, <1>a DEF Kept, Requests, InFlight, Attempt, Early
      <3> QED  BY <3>2, <3>3
    <2>3. CASE s \notin reqs
      <3>1. PICK d \in Daemons : Sends(c, d)  BY <2>1, <2>3 DEF Kept
      <3>2. s.c = c /\ s.n = Attempt(c) /\ s.d = d /\ ~s.ran  BY <2>3, <3>1 DEF Sends
      <3>3. TasksRun(d)
        BY <3>1 DEF Sends, Connected, ProcessTypes, Process, DaemonPcs, Alive, TasksRun
      <3> QED  BY <3>1, <3>2, <3>3, <1>a DEF Sends, Same, At, Attempt, TasksRun, Early
    <2> QED  BY <2>2, <2>3
  <1>4. CASE UNCHANGED dvars  BY <1>4 DEF dvars, Requests, InFlight, TasksRun, Awaited, Attempt
  <1> QED  BY <1>1, <1>2, <1>3, <1>4, Kinds

LEMMA NumberedStep ==
  ASSUME Types, Roles, Connected, Requests, [DaemonNext]_dvars
  PROVE  Numbered'
  <1> ProcessTypes /\ ClientTypes /\ CallTypes  BY DEF Types
  <1>1. CASE reqs' \subseteq reqs  BY <1>1 DEF Requests, Numbered
  <1>2. ASSUME NEW r \in reqs, Executes(r)  PROVE Numbered'
    <2>1. \A s \in reqs' : s \in reqs \ {r} \/ (s = [r EXCEPT !.ran = TRUE])
      BY <1>2 DEF Executes
    <2>2. [r EXCEPT !.ran = TRUE].c = r.c /\ [r EXCEPT !.ran = TRUE].n = r.n
      BY DEF CallTypes, Request
    <2> QED  BY <2>1, <2>2 DEF Requests, Numbered
  <1>3. ASSUME NEW c \in Clients, NEW d \in Daemons, Sends(c, d)  PROVE Numbered'
    <2> DEFINE new == [c |-> c, n |-> Attempt(c), d |-> d, ran |-> FALSE]
    <2>1. \A s \in reqs : s.c = c => s.n # Attempt(c)
      BY <1>3 DEF Sends, Requests, InFlight
    <2>2. new.c = c /\ new.n = Attempt(c)  OBVIOUS
    <2>3. reqs' = reqs \cup {new}  BY <1>3 DEF Sends
    <2> HIDE DEF new
    <2> QED  BY <2>1, <2>2, <2>3 DEF Requests, Numbered
  <1>4. \/ reqs' \subseteq reqs \/ (\E r \in reqs : Executes(r))
        \/ \E c \in Clients, d \in Daemons : Sends(c, d)
    BY Kinds, ClientKeeps
    DEF DaemonKind, Advances, Acquires, Repaths, Unlocks, Ends, Kept, dvars
  <1> QED  BY <1>1, <1>2, <1>3, <1>4

LEMMA ExecutedStep ==
  ASSUME Types, Roles, Connected, Requests, [DaemonNext]_dvars
  PROVE  Executed'
  <1> ProcessTypes /\ ClientTypes /\ CallTypes  BY DEF Types
  <1>a. \A c \in Clients : \A x \in runs[c] : x[1] \in Daemons  BY DEF CallTypes
  <1>1. ASSUME NEW d \in Daemons, DaemonKind(d)  PROVE Executed'
    <2>1. CASE Advances(d)
      BY <2>1, <1>a DEF Advances, Turned, Requests, Executed
    <2>2. CASE Acquires(d)
      BY <2>2, <1>a DEF Acquires, Turned, Requests, Executed
    <2>3. CASE Repaths(d)
      BY <2>3, <1>a DEF Repaths, Turned, Requests, Executed
    <2>4. CASE Unlocks(d)
      BY <2>4, <1>a DEF Unlocks, Turned, Requests, Executed
    <2>5. CASE Ends(d)
      BY <2>5, <1>a DEF Ends, Turned, Requests, Executed
    <2> QED  BY <1>1, <2>1, <2>2, <2>3, <2>4, <2>5 DEF DaemonKind
  <1>2. ASSUME NEW r \in reqs, Executes(r)  PROVE Executed'
    <2>1. r.c \in Clients /\ r.d \in Daemons  BY DEF CallTypes, Request
    <2>2. \A d \in Daemons : dm'[d].ver = dm[d].ver /\ (dm[d].pc # "unborn" => dm'[d].pc # "unborn")
      BY <1>2, <2>1 DEF Executes, Turned
    <2>3. \A c \in Clients : \A x \in runs'[c] : x \in runs[c] \/ (c = r.c /\ x = <<r.d, r.n>>)
      BY <1>2, <2>1 DEF Executes, CallTypes
    <2>4. dm[r.d].pc # "unborn" /\ dm[r.d].ver = job[r.c].ver
      BY DEF Requests, InFlight, TasksRun
    <2>5. UNCHANGED job  BY <1>2 DEF Executes
    <2> SUFFICES ASSUME NEW c \in Clients, NEW x \in runs'[c]
                 PROVE  dm'[x[1]].pc # "unborn" /\ dm'[x[1]].ver = job[c].ver
      BY <2>5 DEF Executed
    <2>6. CASE x \in runs[c]  BY <2>2, <2>6, <1>a DEF Requests, Executed
    <2>7. CASE c = r.c /\ x = <<r.d, r.n>>  BY <2>1, <2>2, <2>4, <2>7
    <2> QED  BY <2>3, <2>6, <2>7
  <1>3. ASSUME NEW c \in Clients, ClientKind(c)  PROVE Executed'
    BY <1>3, <1>a, ClientKeeps DEF Kept, Requests, Executed
  <1>4. CASE UNCHANGED dvars  BY <1>4 DEF dvars, Requests, Executed
  <1> QED  BY <1>1, <1>2, <1>3, <1>4, Kinds

\* Steps that take requests away and leave the client and its history alone.
LEMMA SentOnceKept ==
  ASSUME SentOnce, NEW e \in Clients, job' = job, cl'[e] = cl[e], runs'[e] = runs[e],
         \A r \in reqs' : r.c = e => r \in reqs
  PROVE  SentOnceOf(e)'
  BY DEF SentOnce, SentOnceOf

\* A client that is past sending stays past it.
LEMMA PastStays ==
  ASSUME Types, Roles, Requests, NEW c \in Clients, ClientKind(c), job[c].kind \in Once,
         cl[c].pc \in Past, cl[c].res \notin Refusals
  PROVE  cl'[c].pc \in Past /\ cl'[c].res \notin Refusals
  <1>1. CASE Walks(c)
    BY <1>1 DEF Walks, Same, At, Past, Once
  <1>2. ASSUME NEW res \in Results, Quits(c, res)
        PROVE  cl'[c].pc \in Past /\ cl'[c].res \notin Refusals
    BY <1>2 DEF Quits, At, Past, Once
  <1>3. CASE GoesOn(c)
    BY <1>3 DEF GoesOn, At, Past, Once
  <1>4. ASSUME NEW d \in Daemons, Sends(c, d)
        PROVE  cl'[c].pc \in Past /\ cl'[c].res \notin Refusals
    BY <1>4 DEF Sends, Same, At, Past, Once
  <1>5. CASE Returns(c)
    BY <1>5 DEF Returns, Same, At, Past, Once
  <1>6. CASE Retries(c)
    BY <1>6 DEF Retries, At, Past, Once
  <1>7. CASE Takes(c)
    BY <1>7 DEF Takes, Same, At, Past, Once
  <1>8. CASE Reclaims(c)
    BY <1>8 DEF Reclaims, Same, At, Past, Once
  <1>9. ASSUME NEW d \in Daemons, Spawns(c, d)
        PROVE  cl'[c].pc \in Past /\ cl'[c].res \notin Refusals
    BY <1>9 DEF Spawns, Same, At, Past, Once
  <1>10. CASE Drops(c)
    BY <1>10 DEF Drops, Same, At, Past, Once
  <1> QED  BY <1>1, <1>2, <1>3, <1>4, <1>5, <1>6, <1>7, <1>8, <1>9, <1>10 DEF ClientKind

\* Only a step that ends the command gives it a result.
LEMMA ResultOnlyAtEnd ==
  ASSUME NEW c \in Clients, ClientKind(c)
  PROVE  cl'[c].res = cl[c].res \/ \E res \in Results : Quits(c, res) /\ cl'[c].res = res
  BY DEF ClientKind, Walks, Quits, GoesOn, Sends, Returns, Retries, Takes, Reclaims, Spawns,
         Drops, Same, At

LEMMA SentOnceStep ==
  ASSUME Types, Roles, Connected, Requests, SentOnce, [DaemonNext]_dvars
  PROVE  SentOnce'
  <1> ProcessTypes /\ ClientTypes /\ CallTypes  BY DEF Types
  <1> SUFFICES ASSUME NEW e \in Clients  PROVE SentOnceOf(e)'
    BY DEF SentOnce
  <1>1. ASSUME NEW d \in Daemons, DaemonKind(d)  PROVE SentOnceOf(e)'
    BY <1>1, SentOnceKept DEF DaemonKind, Advances, Acquires, Repaths, Unlocks, Ends
  <1>2. ASSUME NEW r \in reqs, Executes(r)  PROVE SentOnceOf(e)'
    <2> DEFINE q == [r EXCEPT !.ran = TRUE]
    <2>1. q.c = r.c /\ q.n = r.n /\ q.ran  BY DEF CallTypes, Request
    <2>2. \A s \in reqs' : s \in reqs \ {r} \/ s = q  BY <1>2 DEF Executes
    <2>3. r.c \in Clients /\ job' = job /\ cl' = cl /\ ~r.ran
      BY <1>2 DEF Executes, CallTypes, Request
    <2>4. \A c \in Clients : c # r.c => runs'[c] = runs[c]  BY <1>2, <2>3 DEF Executes, CallTypes
    <2>5. runs'[r.c] = runs[r.c] \/ runs'[r.c] = runs[r.c] \cup {<<r.d, r.n>>}
      BY <1>2, <2>3 DEF Executes, CallTypes
    <2> HIDE DEF q
    <2>6. CASE e # r.c
      BY <2>1, <2>2, <2>3, <2>4, <2>6, SentOnceKept
    <2>7. CASE e = r.c
      <3> SUFFICES ASSUME job[e].kind \in Once  PROVE SentOnceOf(e)'
        BY <2>3 DEF SentOnceOf
      <3>1. /\ runs[e] = {} /\ cl[e].pc \in Past /\ cl[e].res \notin Refusals
            /\ \A s \in reqs : s.c = e => s = r
        BY <2>3, <2>7 DEF SentOnce, SentOnceOf
      <3>2. \A s \in reqs' : s.c = e => s = q  BY <2>2, <3>1
      <3>3. cl[e].res = "ok" /\ job[e].kind # "stop" => runs[e] # {}  BY DEF SentOnce, SentOnceOf
      <3>4. \A x \in runs'[e] : x = <<r.d, r.n>>  BY <2>5, <2>7, <3>1
      <3> QED  BY <2>1, <2>3, <3>1, <3>2, <3>3, <3>4 DEF SentOnceOf
    <2> QED  BY <2>6, <2>7
  <1>3. ASSUME NEW c \in Clients, ClientKind(c)  PROVE SentOnceOf(e)'
    <2>1. Kept(c)  BY <1>3, ClientKeeps
    <2>2. CASE e # c
      <3>1. \A r \in reqs' : r.c = e => r \in reqs  BY <2>1, <2>2 DEF Kept, Sends
      <3> QED  BY <2>1, <2>2, <3>1, SentOnceKept DEF Kept
    <2>3. CASE e = c
      <3> SUFFICES ASSUME job[c].kind \in Once  PROVE SentOnceOf(c)'
        BY <2>1, <2>3 DEF Kept, SentOnceOf
      <3>1. job' = job /\ runs' = runs  BY <2>1 DEF Kept
      <3>2. cl'[c].res = "ok" /\ job[c].kind # "stop" => runs[c] # {}
        <4>1. CASE cl'[c].res = cl[c].res  BY <4>1 DEF SentOnce, SentOnceOf
        <4>2. ASSUME NEW res \in Results, Quits(c, res), cl'[c].res = res
              PROVE  cl'[c].res = "ok" /\ job[c].kind # "stop" => runs[c] # {}
          BY <4>2 DEF Quits, Requests, InFlight
        <4> QED  BY <1>3, <4>1, <4>2, ResultOnlyAtEnd
      <3>3. CASE reqs' \subseteq reqs
        <4>1. runs[c] # {} \/ (\E r \in reqs' : r.c = c) =>
                cl'[c].pc \in Past /\ cl'[c].res \notin Refusals
          BY <1>3, <3>3, PastStays DEF SentOnce, SentOnceOf
        <4> QED  BY <3>1, <3>2, <3>3, <4>1 DEF SentOnce, SentOnceOf
      <3>4. ASSUME NEW d \in Daemons, Sends(c, d)  PROVE SentOnceOf(c)'
        <4> DEFINE q == [c |-> c, n |-> Attempt(c), d |-> d, ran |-> FALSE]
        <4>1. runs[c] = {} /\ \A r \in reqs : r.c # c
          BY <3>4 DEF Sends, SentOnce, SentOnceOf, Past
        <4>2. reqs' = reqs \cup {q} /\ cl'[c].pc = "sent" /\ cl'[c].res = "none"
          BY <3>4 DEF Sends, Same, At, Roles
        <4> HIDE DEF q
        <4> QED  BY <3>1, <3>2, <4>1, <4>2 DEF SentOnceOf, Past, Refusals
      <3> QED  BY <2>1, <3>3, <3>4 DEF Kept
    <2> QED  BY <2>2, <2>3
  <1>4. CASE UNCHANGED dvars  BY <1>4, SentOnceKept DEF dvars
  <1> QED  BY <1>1, <1>2, <1>3, <1>4, Kinds

LEMMA NoticedStep ==
  ASSUME Types, Roles, Connected, Requests, Noticed, [DaemonNext]_dvars
  PROVE  Noticed'
  <1> ProcessTypes /\ ClientTypes /\ CallTypes  BY DEF Types
  <1>1. ASSUME NEW d \in Daemons, DaemonKind(d)  PROVE Noticed'
    BY <1>1 DEF DaemonKind, Advances, Acquires, Repaths, Unlocks, Ends, Noticed
  <1>2. ASSUME NEW r \in reqs, Executes(r)  PROVE Noticed'
    <2>1. \A c \in Clients : runs[c] \subseteq runs'[c]  BY <1>2 DEF Executes, CallTypes
    <2> QED  BY <1>2, <2>1 DEF Executes, Noticed
  <1>3. ASSUME NEW c \in Clients, ClientKind(c)  PROVE Noticed'
    <2>1. /\ UNCHANGED <<job, runs>> /\ \A e \in Clients : e # c => cl'[e] = cl[e]
      BY <1>3, ClientKeeps DEF Kept
    <2> SUFFICES ASSUME job[c].kind = "hook"
                 PROVE  /\ cl'[c].stage = 2 => cl'[c].notice \/ \E x \in runs[c] : x[2] = 1
                        /\ cl'[c].pc = "done" /\ cl'[c].res \notin {"killed", "absent"} =>
                             cl'[c].stage = 2
      BY <2>1 DEF Noticed
    <2>2. CASE GoesOn(c)
      <3>1. cl'[c].pc = "dial" /\ cl'[c].stage = 2  BY <2>2 DEF GoesOn, At
      <3>2. CASE At(c, "dial", {}, cl[c].loops, 2, TRUE, cl[c].res)
        <4>1. cl'[c].notice = TRUE  BY <3>2, Zenon DEF At
        <4> QED  BY <3>1, <4>1
      <3>3. ASSUME NEW r \in reqs, r.c = c, r.ran
            PROVE  \E x \in runs[c] : x[2] = 1
        <4>1. <<r.d, r.n>> \in runs[c] /\ r.n = Attempt(c)
          BY <3>3 DEF Requests, InFlight, Awaited
        <4>2. Attempt(c) = 1
          BY <2>2 DEF GoesOn, Attempt, Roles, Spawners, ClientTypes, Client
        <4> QED  BY <4>1, <4>2
      <3> QED  BY <2>2, <3>1, <3>2, <3>3 DEF GoesOn
    <2>3. CASE ~GoesOn(c)
      <3>1. cl'[c].stage = cl[c].stage /\ cl'[c].notice = cl[c].notice
        BY <1>3, <2>3 DEF ClientKind, Walks, Quits, Sends, Returns, Retries, Takes, Reclaims,
                          Spawns, Drops, Same, At
      <3>2. cl'[c].pc # "done" \/ \E res \in Results : Quits(c, res) /\ cl'[c].res = res
        BY <1>3, <2>3 DEF ClientKind, Walks, Quits, Sends, Returns, Retries, Takes, Reclaims,
                          Spawns, Drops, Same, At
      <3> QED  BY <3>1, <3>2 DEF Noticed, Quits
    <2> QED  BY <2>2, <2>3
  <1>4. CASE UNCHANGED dvars  BY <1>4 DEF dvars, Noticed
  <1> QED  BY <1>1, <1>2, <1>3, <1>4, Kinds

-----------------------------------------------------------------------------
(* The theorems.                                                           *)

LEMMA InitHolds == DaemonInit => DaemonInv
  <1> SUFFICES ASSUME DaemonInit  PROVE DaemonInv
    OBVIOUS
  <1>1. PICK start \in {"none", "stale", "running"} :
          /\ dm = [d \in Daemons |->
                     [pc |-> IF d # 1 \/ start = "none" THEN "unborn"
                             ELSE IF start = "stale" THEN "exit1" ELSE "serving",
                      ver |-> 1]]
          /\ sock = IF start = "none" THEN {} ELSE {1}
          /\ lock = IF start = "running" THEN {<<"d", 1>>} ELSE {}
    BY DEF DaemonInit
  <1>2. 1 \in Daemons /\ \A d \in Daemons : dm[d].pc \in {"unborn", "exit1", "serving"}
                                            /\ dm[d].ver = 1
    BY <1>1, DaemonAssumption
  <1>3. \A d \in Daemons : dm[d].pc = "serving" => d = 1 /\ start = "running"  BY <1>1
  <1>4. ProcessTypes
    <2>1. dm \in [Daemons -> Process]  BY <1>1 DEF Process, DaemonPcs, Versions
    <2>2. lock \in LockType /\ sock \in Slot  BY <1>1, <1>2, LockTypes
    <2> QED  BY <2>1, <2>2 DEF ProcessTypes, LockType, DaemonInit
  <1>5. \A c \in Clients : /\ cl[c] \in Client
                           /\ cl[c].pc = "idle" /\ cl[c].conn = {} /\ cl[c].loops = 0
                           /\ cl[c].stage = 1 /\ cl[c].res = "none" /\ runs[c] = {}
    BY DEF DaemonInit, Client, ClientPcs, Results
  <1>6. ClientTypes  BY <1>5 DEF ClientTypes, DaemonInit
  <1>7. CallTypes  BY DaemonAssumption DEF CallTypes, DaemonInit, Command
  <1>8. Ownership  BY <1>1, <1>2, <1>3, <1>5 DEF Ownership, Owning, Starting, Listening
  <1>9. Roles  BY <1>5 DEF Roles
  <1>10. Connected  BY <1>5 DEF Connected, DaemonInit
  <1>11. Requests  BY <1>5 DEF Requests, InFlight, Numbered, Executed, DaemonInit
  <1>12. SentOnce  BY <1>5 DEF SentOnce, SentOnceOf, DaemonInit
  <1>13. Noticed  BY <1>5 DEF Noticed
  <1> QED
    BY <1>4, <1>6, <1>7, <1>8, <1>9, <1>10, <1>11, <1>12, <1>13 DEF DaemonInv, Types

LEMMA StepKeeps == DaemonInv /\ [DaemonNext]_dvars => DaemonInv'
  <1> SUFFICES ASSUME DaemonInv, [DaemonNext]_dvars  PROVE DaemonInv'
    OBVIOUS
  <1>1. Types /\ Ownership /\ Roles /\ Connected /\ Requests /\ SentOnce /\ Noticed
    BY DEF DaemonInv
  <1>2. Types'
    BY <1>1, ProcessStep, ClientTypesStep, CallTypesStep DEF Types
  <1>3. Requests'
    BY <1>1, InFlightStep, NumberedStep, ExecutedStep DEF Requests
  <1>4. Ownership' /\ Roles' /\ Connected' /\ SentOnce' /\ Noticed'
    BY <1>1, OwnershipStep, RolesStep, ConnectedStep, SentOnceStep, NoticedStep
  <1> QED  BY <1>2, <1>3, <1>4 DEF DaemonInv

LEMMA InvHolds == DaemonSpec => []DaemonInv
  BY InitHolds, StepKeeps, PTL DEF DaemonSpec

LEMMA AtMostOneOf ==
  ASSUME NEW S, \A x, y \in S : x = y
  PROVE  Cardinality(S) <= 1
  <1>1. CASE S = {}  BY <1>1, FS_EmptySet
  <1>2. CASE S # {}
    <2>1. PICK x : S = {x}  BY <1>2
    <2> QED  BY <2>1, FS_Singleton
  <1> QED  BY <1>1, <1>2

\* Of any number of daemons that are spawned, race, are replaced and crash, at most one
\* has state.db open (lifecycle.rs run keeps the flock for as long as it does).
THEOREM StoreSoleOwnerCorrect == DaemonSpec => []StoreSoleOwner
  <1>1. DaemonInv => StoreSoleOwner
    <2> SUFFICES ASSUME DaemonInv  PROVE StoreSoleOwner
      OBVIOUS
    <2>1. \A d, e \in {x \in Daemons : dm[x].pc \in {"bound", "accepting", "serving",
                                                     "closing", "swept"}} : d = e
      BY SoleHolder DEF DaemonInv, Owning
    <2> QED  BY <2>1, AtMostOneOf DEF StoreSoleOwner
  <1> QED  BY <1>1, InvHolds, PTL

\* For any number of commands of any kind and version, daemons, attempts and faults: the
\* socket path is the listening daemon's, a request that is not idempotent is executed at
\* most once and by its own protocol, an error tells whether it was, and a hook whose
\* session was not reasserted has its notice (client.rs, blocking.rs, lifecycle.rs).
THEOREM DaemonSafeCorrect == DaemonSpec => []DaemonSafe
  <1>1. DaemonInv => DaemonSafe
    <2> SUFFICES ASSUME DaemonInv  PROVE DaemonSafe
      OBVIOUS
    <2> Types /\ Ownership /\ Roles /\ Connected /\ Requests /\ SentOnce /\ Noticed
      BY DEF DaemonInv
    <2> ProcessTypes /\ ClientTypes /\ CallTypes  BY DEF Types
    <2>1. DaemonTypeOK
      <3>1. lock \in {{}} \cup {{<<"c", c>>} : c \in Clients} \cup {{<<"d", d>>} : d \in Daemons}
        BY DEF ProcessTypes
      <3>2. sock \in {{}} \cup {{d} : d \in Daemons}  BY DEF ProcessTypes, Slot
      <3>3. \A d \in Daemons : dm[d].pc \in DaemonPcs /\ dm[d].ver \in Versions
        BY DEF ProcessTypes, Process
      <3>4. asks \subseteq {d \in Daemons : Alive(d)}
        BY DEF ProcessTypes, Connected, TasksRun, Alive
      <3>5. \A r \in reqs : TasksRun(r.d) /\ (r.ran => Awaited(r))  BY DEF Requests, InFlight
      <3>6. \A c \in Clients :
              /\ cl[c].pc \in ClientPcs /\ cl[c].res \in Results
              /\ cl[c].conn # {} <=> cl[c].pc \in {"hello", "decide", "sent"}
              /\ cl[c].res # "none" <=> cl[c].pc = "done"
              /\ cl[c].pc \in {"reclaim", "launch", "drop", "exitheld"} => lock = {<<"c", c>>}
        BY DEF ClientTypes, Client, Roles, Ownership, Starting
      <3> QED  BY <3>1, <3>2, <3>3, <3>4, <3>5, <3>6 DEF DaemonTypeOK
    <2>2. SocketIsOwners  BY DEF Ownership, SocketIsOwners
    <2>3. SentAtMostOnce
      BY AtMostOneOf DEF SentOnce, SentOnceOf, Once, SentAtMostOnce
    <2>4. ErrorsHonest
      BY DEF SentOnce, SentOnceOf, Once, Refusals, ErrorsHonest
    <2>5. SameProtocol  BY DEF Requests, Executed, SameProtocol
    <2>6. DegradedVisible  BY DEF Noticed, DegradedVisible
    <2> QED  BY <2>1, <2>2, <2>3, <2>4, <2>5, <2>6 DEF DaemonSafe
  <1> QED  BY <1>1, InvHolds, PTL

-----------------------------------------------------------------------------
(* The MCP server: the invariant.                                           *)

\* Logins.  An asked text is a browser's or the page's empty field.
Texts == {"empty"} \cup {AskOf[b].resource : b \in Browsers} \cup {AskOf[b].scope : b \in Browsers}
Fields == [{"resource", "scope"} -> Texts]
Forms == [page : Nat, ask : Fields]
Logins == [forms : SUBSET Forms, codes : SUBSET Nat]
FlowTyped == flow \in [Browsers -> Logins] /\ mclock \in 0..MMaxClock

\* The pages shown and not submitted, and the codes handed out and not redeemed.
PagesKept ==
    /\ npage \in 0..MaxPages /\ IsFiniteSet(pages) /\ Cardinality(pages) <= npage
    /\ \A p \in pages : p.id \in 1..npage /\ p.born \in 0..mclock /\ p.exp = p.born + PageTTL
    /\ \A p, q \in pages : p.id = q.id => p = q
CodesKept ==
    /\ ncode \in 0..MaxCodes /\ IsFiniteSet(codes) /\ Cardinality(codes) <= ncode
    /\ \A c \in codes : /\ c.id \in 1..ncode /\ c.page \in 1..npage
                        /\ c.born \in 0..mclock /\ c.exp \in Nat /\ c.exp < c.born + 2 * PageTTL
    /\ \A c, d \in codes : c.id = d.id \/ c.page = d.page => c = d

\* A page is shown, or answered with a code, or paid for with a token: only one of them.
OnePlace ==
    /\ \A c \in codes : \A p \in pages : p.id # c.page
    /\ \A t \in tokens : /\ t.page \in 1..npage
                         /\ \A p \in pages : p.id # t.page
                         /\ \A c \in codes : c.page # t.page

\* What a client that named everything asked for is what its forms and its codes say.
Named(b) == "none" \notin {AskOf[b].resource, AskOf[b].scope}
FormsSay ==
    \A b \in Browsers : \A f \in flow[b].forms :
        Named(b) => f.ask["resource"] = AskOf[b].resource /\ f.ask["scope"] = AskOf[b].scope
CodesSay ==
    \A b \in Browsers :
        /\ flow[b].codes \subseteq 1..ncode
        /\ \A c \in codes : c.id \in flow[b].codes /\ Named(b) => c.scope = AskOf[b].scope

LoginInv ==
    /\ FlowTyped /\ PagesKept /\ CodesKept /\ OnePlace /\ FormsSay /\ CodesSay
    /\ GrantedOnce /\ GrantAsAsked

\* Actors.
Standings == [st : {"none", "running", "stopping", "stopped"}, gen : 0..AMaxGen,
              ep : 0..(3 * AMaxGen), rec : {"ready", "revoked"}, kind : {"none", "openai", "grok"}]
Pending == {"reserve", "activate", "bind"}
Served == {"session", "join", "profile", "call", "done"}
ReqPcs == {"idle", "failed", "resolve", "lane"} \cup Pending \cup Served
ActorReqs == [pc : ReqPcs, pub : SUBSET ActorPubs, gen : Nat, ep : Nat, fresh : BOOLEAN,
            as : {"nobody", "chosen", "server", "actor"}]
ActorTyped ==
    /\ alias \in [Keys -> SUBSET ActorPubs] /\ arow \in [ActorPubs -> Standings]
    /\ areq \in [MReqs -> ActorReqs] /\ mlane \subseteq MReqs
    /\ profiles \subseteq ActorPubs /\ mfaults \in 0..MMaxFaults

\* An epoch is a stop's, its end's or a generation's.
Edges(r) ==
    /\ r.st = "none" => r.gen = 0 /\ r.ep = 0
    /\ r.st # "none" => r.gen >= 1
    /\ r.st = "running" => r.ep <= 3 * r.gen - 2
    /\ r.st = "stopping" => r.ep <= 3 * r.gen - 1
    /\ r.st = "stopped" => r.ep <= 3 * r.gen

\* Only the holder of the lane is between the lookup and the alias.
InLane ==
    /\ \A r, s \in mlane : r = s
    /\ \A r \in MReqs : areq[r].pc \in Pending => r \in mlane

\* A pubkey is one actor's, and known before it is anyone's.
AliasOf(r) == alias[KeyOf(r)]
Aliased ==
    /\ \A k \in Keys : \A p, q \in alias[k] : p = q
    /\ \A k, l \in Keys : alias[k] \cap alias[l] # {} => k = l
    /\ \A k \in Keys : \A p \in alias[k] : arow[p].st # "none"

\* What a request has found out at its place.
FoundOut(r, q) ==
    /\ q.pc \notin {"idle", "failed"} => verify(ReqOf[r])
    /\ q.pc \in {"lane"} \cup Pending \cup Served => describe(ReqOf[r]) # {}
    /\ q.pc \in {"reserve", "bind"} => AliasOf(r) = {}
    /\ q.pc = "bind" => \E p \in ActorPubs : /\ q.pub = {p} /\ arow[p].st # "none"
                                             /\ \A k \in Keys : p \notin alias[k]
    /\ q.pc \in {"activate"} \cup Served => q.pub = AliasOf(r) /\ q.pub # {}
    /\ q.pc = "done" => q.as = caller_params(ReqOf[r], "actor")

ActorInv ==
    /\ ActorTyped /\ (\A p \in ActorPubs : Edges(arow[p])) /\ InLane /\ Aliased
    /\ (\A r \in MReqs : FoundOut(r, areq[r])) /\ NoOrphanActor

\* Streams.
Streams == [id : Nat, uri : Uris, live : BOOLEAN, todo : Nat]
StreamsNumbered(ss, ts) ==
    /\ ss \subseteq Streams /\ IsFiniteSet(ss) /\ Cardinality(ss) <= MaxStreams
    /\ \A s \in ss : s.id \in 1..Cardinality(ss) /\ (s.live => ts[s.uri] = s.id)
    /\ \A s, t \in ss : s.id = t.id => s = t
FeedInv ==
    /\ tasks \in [Uris -> 0..MaxStreams] /\ updates \in Nat
    /\ listener \in [open : BOOLEAN, q : Seq(Uris)] /\ Len(listener.q) <= BroadcastCap
    /\ StreamsNumbered(streams, tasks)

McpInv == scene \in {"login", "actor", "feed"} /\ LoginInv /\ ActorInv /\ FeedInv

-----------------------------------------------------------------------------
(* The MCP server: steps of a login.                                        *)

LEMMA GatewayNumbers ==
    /\ PageTTL \in Nat /\ PageTTL > 0 /\ MMaxClock \in Nat /\ MaxPages \in Nat /\ MaxCodes \in Nat
    /\ AMaxGen \in Nat /\ AMaxGen > 0 /\ MaxStreams \in Nat /\ MaxStreams > 0
    /\ BroadcastCap \in Nat /\ BroadcastCap > 0
    /\ MMaxFaults \in Nat /\ FutureSkew \in Nat /\ MaxUpdates \in Nat /\ ActorPubs \subseteq Nat
  BY GatewayBounds

\* A set that loses members and gains one.
LEMMA OneMore ==
    ASSUME NEW S, IsFiniteSet(S), NEW T, T \subseteq S, NEW x, NEW n \in Nat, Cardinality(S) <= n
    PROVE  /\ IsFiniteSet(T) /\ Cardinality(T) <= n
           /\ IsFiniteSet(T \cup {x}) /\ Cardinality(T \cup {x}) <= n + 1
<1>1. IsFiniteSet(T) /\ Cardinality(T) <= Cardinality(S) /\ Cardinality(S) \in Nat /\ Cardinality(T) \in Nat
  BY FS_Subset, FS_CardinalityType
<1>2. IsFiniteSet(T \cup {x}) /\ (Cardinality(T \cup {x}) = Cardinality(T) \/ Cardinality(T \cup {x}) = Cardinality(T) + 1)
  BY <1>1, FS_AddElement
<1> QED
  BY <1>1, <1>2

\* The answer to a page shown: the fields of the request, an omitted one empty.
LEMMA FieldsShown ==
    ASSUME NEW ask, ask["resource"] \in Texts, ask["scope"] \in Texts
    PROVE  /\ login_fields(ask) \in Fields
           /\ ask["resource"] # "none" => login_fields(ask)["resource"] = ask["resource"]
           /\ ask["scope"] # "none" => login_fields(ask)["scope"] = ask["scope"]
  BY DEF login_fields, Fields, Texts

\* A new login page, in the place of those that expired or of the one submitted.
LEMMA ShownKeeps ==
    ASSUME LoginInv, NEW b \in Browsers, NEW ask, NEW old, old \subseteq pages, login_page(b, ask, old),
           ask["resource"] \in Texts, ask["scope"] \in Texts,
           Named(b) => ask["resource"] = AskOf[b].resource /\ ask["scope"] = AskOf[b].scope,
           UNCHANGED <<mclock, codes, tokens, ncode>>
    PROVE  LoginInv'
<1> DEFINE kept == {p \in old : p.exp > mclock}
           new == [id |-> npage + 1, ask |-> ask, born |-> mclock, exp |-> mclock + PageTTL]
           form == [page |-> npage + 1, ask |-> login_fields(ask)]
<1>1. npage \in 0..MaxPages /\ npage < MaxPages /\ npage' = npage + 1 /\ pages' = kept \cup {new}
  BY DEF LoginInv, PagesKept, login_page
<1>2. kept \subseteq pages
  OBVIOUS
<1>3. mclock \in 0..MMaxClock /\ mclock' = mclock /\ codes' = codes /\ tokens' = tokens /\ ncode' = ncode
  BY DEF LoginInv, FlowTyped
<1>4. new.id = npage + 1 /\ new.born = mclock /\ new.exp = mclock + PageTTL
  OBVIOUS
<1>5. form \in Forms /\ form.ask = login_fields(ask)
  BY <1>1, FieldsShown, GatewayNumbers DEF Forms
<1>6. flow' = [flow EXCEPT ![b].forms = @ \cup {form}]
  BY <1>1 DEF login_page
<1> HIDE DEF form, kept, new
<1>7. /\ flow' \in [Browsers -> Logins]
      /\ \A d \in Browsers : flow'[d].codes = flow[d].codes /\ flow'[d].forms \subseteq flow[d].forms \cup (IF d = b THEN {form} ELSE {})
  BY <1>5, <1>6 DEF LoginInv, FlowTyped, Logins
<1>8. FlowTyped'
  BY <1>3, <1>7 DEF FlowTyped
<1>9. PagesKept'
  <2>1. IsFiniteSet(pages') /\ Cardinality(pages') <= npage + 1
    <3>1. IsFiniteSet(pages) /\ Cardinality(pages) <= npage /\ npage \in Nat
      BY <1>1, GatewayNumbers DEF LoginInv, PagesKept
    <3>2. IsFiniteSet(kept \cup {new}) /\ Cardinality(kept \cup {new}) <= npage + 1
      BY <1>2, <3>1, OneMore
    <3> QED
      BY <1>1, <3>2
  <2>2. \A p \in pages' : p.id \in 1..(npage + 1) /\ p.born \in 0..mclock /\ p.exp = p.born + PageTTL
    BY <1>1, <1>2, <1>3, <1>4 DEF LoginInv, PagesKept
  <2>3. \A p, q \in pages' : p.id = q.id => p = q
    BY <1>1, <1>2, <1>4 DEF LoginInv, PagesKept
  <2> QED
    BY <1>1, <1>3, <2>1, <2>2, <2>3, GatewayNumbers DEF PagesKept
<1>10. CodesKept'
  BY <1>1, <1>3, GatewayNumbers DEF LoginInv, CodesKept
<1>11. OnePlace'
  <2>1. \A c \in codes : \A p \in pages' : p.id # c.page
    BY <1>1, <1>2, <1>4 DEF LoginInv, CodesKept, OnePlace
  <2>2. \A t \in tokens : t.page \in 1..(npage + 1) /\ \A p \in pages' : p.id # t.page
    BY <1>1, <1>2, <1>4, GatewayNumbers DEF LoginInv, OnePlace
  <2> QED
    BY <1>1, <1>3, <2>1, <2>2 DEF LoginInv, OnePlace
<1>12. FormsSay'
  <2>1. Named(b) => form.ask["resource"] = AskOf[b].resource /\ form.ask["scope"] = AskOf[b].scope
    BY <1>5, FieldsShown DEF Named
  <2> QED
    BY <1>7, <2>1 DEF LoginInv, FormsSay
<1>13. CodesSay'
  BY <1>3, <1>7 DEF LoginInv, CodesSay
<1>14. GrantedOnce' /\ GrantAsAsked'
  BY <1>3 DEF LoginInv, GrantedOnce, GrantAsAsked
<1> QED
  BY <1>8, <1>9, <1>10, <1>11, <1>12, <1>13, <1>14 DEF LoginInv

LEMMA AskKeeps ==
    ASSUME LoginInv, NEW b \in Browsers, authorize_page(b)
    PROVE  LoginInv'
<1>1. AskOf[b].resource \in Texts /\ AskOf[b].scope \in Texts
  BY DEF Texts
<1>2. login_page(b, AskOf[b], pages) /\ UNCHANGED <<mclock, codes, tokens, ncode>>
  BY DEF authorize_page
<1> QED
  BY <1>1, <1>2, ShownKeeps

\* A form that is accepted takes its page's place, and says what its browser asked for.
LEMMA GrantedKeeps ==
    ASSUME LoginInv, NEW b \in Browsers, NEW form \in flow[b].forms, NEW p \in pages,
           p.id = form.page, p.exp > mclock, ncode < MaxCodes, ncode' = ncode + 1,
           pages' = consume_challenge(form.page),
           codes' = codes \cup {[id |-> ncode', page |-> form.page, scope |-> GrantedScope(form.ask),
                                 born |-> p.born, exp |-> mclock + PageTTL]},
           flow' = [flow EXCEPT ![b].codes = @ \cup {ncode'}],
           UNCHANGED <<npage, mclock, tokens>>
    PROVE  LoginInv'
<1> DEFINE new == [id |-> ncode + 1, page |-> p.id, scope |-> GrantedScope(form.ask),
                   born |-> p.born, exp |-> mclock + PageTTL]
<1>1. codes' = codes \cup {new} /\ pages' \subseteq pages /\ \A q \in pages' : q.id # p.id
  BY DEF consume_challenge
<1>2. /\ new.id = ncode + 1 /\ new.page = p.id /\ new.scope = GrantedScope(form.ask)
      /\ new.born = p.born /\ new.exp = mclock + PageTTL
  OBVIOUS
<1> HIDE DEF new
<1>3. mclock \in 0..MMaxClock /\ ncode \in 0..MaxCodes /\ npage \in 0..MaxPages
  BY DEF LoginInv, FlowTyped, CodesKept, PagesKept
<1>4. p.id \in 1..npage /\ p.born \in 0..mclock /\ p.exp = p.born + PageTTL
  BY DEF LoginInv, PagesKept
<1>5. \A c \in codes : c.id \in 1..ncode /\ c.page # p.id
  BY DEF LoginInv, CodesKept, OnePlace
<1>6. /\ flow' \in [Browsers -> Logins]
      /\ \A d \in Browsers : flow'[d].forms = flow[d].forms /\ flow'[d].codes = flow[d].codes \cup (IF d = b THEN {ncode + 1} ELSE {})
  BY <1>3, GatewayNumbers DEF LoginInv, FlowTyped, Logins
<1>7. FlowTyped'
  BY <1>3, <1>6 DEF FlowTyped
<1>8. PagesKept'
  <2>1. IsFiniteSet(pages') /\ Cardinality(pages') <= npage
    <3>1. IsFiniteSet(pages) /\ Cardinality(pages) <= npage /\ npage \in Nat
      BY <1>3, GatewayNumbers DEF LoginInv, PagesKept
    <3> QED
      BY <1>1, <3>1, OneMore
  <2> QED
    BY <1>1, <1>3, <2>1 DEF LoginInv, PagesKept
<1>9. CodesKept'
  <2>1. IsFiniteSet(codes') /\ Cardinality(codes') <= ncode + 1
    <3>1. IsFiniteSet(codes) /\ Cardinality(codes) <= ncode /\ ncode \in Nat
      BY <1>3, GatewayNumbers DEF LoginInv, CodesKept
    <3>2. IsFiniteSet(codes \cup {new}) /\ Cardinality(codes \cup {new}) <= ncode + 1
      BY <3>1, OneMore
    <3> QED
      BY <1>1, <3>2
  <2>2. \A c \in codes' : /\ c.id \in 1..(ncode + 1) /\ c.page \in 1..npage
                          /\ c.born \in 0..mclock /\ c.exp \in Nat /\ c.exp < c.born + 2 * PageTTL
    BY <1>1, <1>2, <1>3, <1>4, GatewayNumbers DEF LoginInv, CodesKept
  <2>3. \A c, d \in codes' : c.id = d.id \/ c.page = d.page => c = d
    BY <1>1, <1>2, <1>3, <1>5 DEF LoginInv, CodesKept
  <2> QED
    BY <1>3, <2>1, <2>2, <2>3, GatewayNumbers DEF CodesKept
<1>10. OnePlace'
  BY <1>1, <1>2, <1>4 DEF LoginInv, OnePlace
<1>11. FormsSay'
  BY <1>6 DEF LoginInv, FormsSay
<1>12. CodesSay'
  <2>1. \A d \in Browsers : flow'[d].codes \subseteq 1..(ncode + 1)
    BY <1>3, <1>6, GatewayNumbers DEF LoginInv, CodesSay
  <2>2. Named(b) => new.scope = AskOf[b].scope
    BY <1>2 DEF LoginInv, FormsSay, GrantedScope, Named
  <2>3. ASSUME NEW d \in Browsers, NEW c \in codes', c.id \in flow'[d].codes, Named(d)
        PROVE  c.scope = AskOf[d].scope
    <3>1. CASE c \in codes
      <4>1. c.id \in flow[d].codes
        BY <1>3, <1>5, <1>6, <2>3, <3>1
      <4> QED
        BY <2>3, <3>1, <4>1 DEF LoginInv, CodesSay
    <3>2. CASE c = new
      <4>1. ncode + 1 \notin flow[d].codes
        BY <1>3 DEF LoginInv, CodesSay
      <4>2. d = b
        BY <1>2, <1>6, <2>3, <3>2, <4>1
      <4> QED
        BY <2>2, <2>3, <3>2, <4>2
    <3> QED
      BY <1>1, <2>3, <3>1, <3>2
  <2> QED
    BY <2>1, <2>3 DEF CodesSay, Named
<1>13. GrantedOnce' /\ GrantAsAsked'
  BY DEF LoginInv, GrantedOnce, GrantAsAsked
<1> QED
  BY <1>7, <1>8, <1>9, <1>10, <1>11, <1>12, <1>13 DEF LoginInv

LEMMA SubmitKeeps ==
    ASSUME LoginInv, NEW b \in Browsers, NEW form \in flow[b].forms, NEW evs, authorize_submit(b, form, evs)
    PROVE  LoginInv'
<1> DEFINE page == {p \in pages : p.id = form.page}
           good == pubkey_for_login(b, evs, form) /\ \E p \in page : ChallengeAccepts(p, form)
<1>1. CASE good
  <2>1. PICK q \in page : q.exp > mclock
    BY <1>1 DEF ChallengeAccepts
  <2>2. \E x : x \in page
    BY <2>1
  <2>3. PICK p \in page : p = CHOOSE x \in page : TRUE
    BY <2>2
  <2>4. p.exp > mclock
    <3>1. PICK x \in page : ChallengeAccepts(x, form)
      BY <1>1
    <3> QED
      BY <1>1, <2>1, <2>3 DEF LoginInv, PagesKept
  <2> QED
    BY <1>1, <2>3, <2>4, GrantedKeeps DEF authorize_submit
<1>2. CASE ~good
  <2>1. form \in Forms
    BY DEF LoginInv, FlowTyped, Logins
  <2>2. form.ask["resource"] \in Texts /\ form.ask["scope"] \in Texts
    BY <2>1 DEF Forms, Fields
  <2>3. Named(b) => form.ask["resource"] = AskOf[b].resource /\ form.ask["scope"] = AskOf[b].scope
    BY DEF LoginInv, FormsSay
  <2>4. login_page(b, form.ask, consume_challenge(form.page)) /\ UNCHANGED <<mclock, codes, tokens, ncode>>
    BY <1>2 DEF authorize_submit
  <2>5. consume_challenge(form.page) \subseteq pages
    BY DEF consume_challenge
  <2> QED
    BY <2>2, <2>3, <2>4, <2>5, ShownKeeps
<1> QED
  BY <1>1, <1>2

\* A code is redeemed once, within its lifetime.
LEMMA RedeemedKeeps ==
    ASSUME LoginInv, NEW b \in Browsers, NEW c \in codes, token(b, c)
    PROVE  LoginInv'
<1>1. /\ codes' = codes \ {c} /\ c.id \in flow[b].codes /\ UNCHANGED <<mclock, pages, flow, npage, ncode>>
      /\ tokens' = IF c.exp > mclock THEN tokens \cup {issue_token(b, c)} ELSE tokens
  BY DEF token, Redeemed, validate_token_request
<1>2. /\ c.page \in 1..npage /\ c.born \in 0..mclock /\ c.exp \in Nat /\ c.exp < c.born + 2 * PageTTL
      /\ mclock \in 0..MMaxClock /\ ncode \in 0..MaxCodes
  BY DEF LoginInv, CodesKept, FlowTyped
<1> DEFINE new == issue_token(b, c)
<1>3. new.page = c.page /\ new.who = b /\ new.scope = c.scope /\ new.age = mclock - c.born
  BY DEF issue_token
<1>4. \A t \in tokens' : t \in tokens \/ (t = new /\ c.exp > mclock)
  BY <1>1
<1> HIDE DEF new
<1>5. FlowTyped' /\ PagesKept' /\ FormsSay'
  BY <1>1 DEF LoginInv, FlowTyped, PagesKept, FormsSay
<1>6. CodesKept'
  <2>1. IsFiniteSet(codes') /\ Cardinality(codes') <= ncode
    <3>1. IsFiniteSet(codes) /\ Cardinality(codes) <= ncode /\ ncode \in Nat
      BY <1>2, GatewayNumbers DEF LoginInv, CodesKept
    <3> QED
      BY <1>1, <3>1, OneMore
  <2> QED
    BY <1>1, <2>1 DEF LoginInv, CodesKept
<1>7. CodesSay'
  BY <1>1 DEF LoginInv, CodesSay
<1>8. \A d \in codes' : d.page # c.page
  BY <1>1 DEF LoginInv, CodesKept
<1>9. OnePlace'
  BY <1>1, <1>2, <1>3, <1>4, <1>8 DEF LoginInv, OnePlace
<1>10. GrantedOnce'
  BY <1>3, <1>4 DEF LoginInv, OnePlace, GrantedOnce
<1>11. GrantAsAsked'
  <2>1. c.exp > mclock => mclock - c.born < 2 * PageTTL
    BY <1>2, GatewayNumbers
  <2>2. Named(b) => c.scope = AskOf[b].scope
    BY <1>1 DEF LoginInv, CodesSay
  <2>3. ASSUME NEW t \in tokens'
        PROVE  t.age < 2 * PageTTL /\ ("none" \notin {AskOf[t.who].resource, AskOf[t.who].scope} => t.scope = AskOf[t.who].scope)
    BY <1>3, <1>4, <2>1, <2>2, <2>3 DEF LoginInv, GrantAsAsked, Named
  <2> QED
    BY <2>3 DEF GrantAsAsked
<1> QED
  BY <1>5, <1>6, <1>7, <1>9, <1>10, <1>11 DEF LoginInv

LEMMA LoginTickKeeps ==
    ASSUME LoginInv, LoginTick
    PROVE  LoginInv'
<1>1. /\ mclock \in 0..MMaxClock /\ mclock' \in 0..MMaxClock /\ mclock' = mclock + 1
      /\ UNCHANGED <<pages, codes, tokens, flow, npage, ncode>>
  BY GatewayNumbers DEF LoginInv, FlowTyped, LoginTick
<1>2. FlowTyped' /\ PagesKept' /\ CodesKept'
  BY <1>1, GatewayNumbers DEF LoginInv, FlowTyped, PagesKept, CodesKept
<1>3. OnePlace' /\ FormsSay' /\ CodesSay' /\ GrantedOnce' /\ GrantAsAsked'
  BY <1>1 DEF LoginInv, OnePlace, FormsSay, CodesSay, GrantedOnce, GrantAsAsked
<1> QED
  BY <1>2, <1>3 DEF LoginInv

LEMMA LoginInitially ==
    McpInit => LoginInv
<1> SUFFICES ASSUME McpInit PROVE LoginInv
  OBVIOUS
<1>1. /\ mclock = 0 /\ pages = {} /\ codes = {} /\ tokens = {} /\ npage = 0 /\ ncode = 0
      /\ flow = [b \in Browsers |-> [forms |-> {}, codes |-> {}]]
  BY DEF McpInit
<1>2. IsFiniteSet({}) /\ Cardinality({}) = 0
  BY FS_EmptySet
<1>3. FlowTyped /\ PagesKept /\ CodesKept
  BY <1>1, <1>2, GatewayNumbers DEF FlowTyped, Logins, PagesKept, CodesKept
<1>4. OnePlace /\ FormsSay /\ CodesSay /\ GrantedOnce /\ GrantAsAsked
  BY <1>1 DEF OnePlace, FormsSay, CodesSay, GrantedOnce, GrantAsAsked
<1> QED
  BY <1>3, <1>4 DEF LoginInv

LEMMA LoginUnchanged ==
    ASSUME LoginInv, UNCHANGED loginVars
    PROVE  LoginInv'
<1>1. UNCHANGED <<mclock, pages, codes, tokens, flow, npage, ncode>>
  BY DEF loginVars
<1>2. FlowTyped' /\ PagesKept' /\ CodesKept'
  BY <1>1 DEF LoginInv, FlowTyped, PagesKept, CodesKept
<1>3. OnePlace' /\ FormsSay' /\ CodesSay' /\ GrantedOnce' /\ GrantAsAsked'
  BY <1>1 DEF LoginInv, OnePlace, FormsSay, CodesSay, GrantedOnce, GrantAsAsked
<1> QED
  BY <1>2, <1>3 DEF LoginInv

-----------------------------------------------------------------------------
(* The MCP server: steps of a request and of an actor.                      *)

\* A request that resolves to an actor has one key.
LEMMA OneKey ==
    ASSUME NEW r \in MReqs, describe(ReqOf[r]) # {}
    PROVE  KeyOf(r) \in Keys /\ describe(ReqOf[r]) = {KeyOf(r)}
<1>1. KeyOf(r) \in describe(ReqOf[r]) /\ \A k, l \in describe(ReqOf[r]) : k = l
  BY DEF KeyOf, describe
<1> QED
  BY <1>1 DEF Keys

\* The key is the conversation.
LEMMA KeyIsConversation ==
    ASSUME NEW r \in MReqs, NEW s \in MReqs, describe(ReqOf[r]) # {}, describe(ReqOf[s]) # {}
    PROVE  KeyOf(r) = KeyOf(s) <=> SameConversation(ReqOf[r], ReqOf[s])
<1> DEFINE p == ReqOf[r]
           q == ReqOf[s]
           Open(x) == [kind |-> "openai", subject |-> x.subject,
                       session |-> IF x.session = "none" THEN "subject-scoped-read" ELSE x.session]
           Grok == [kind |-> "grok", subject |-> "none", session |-> "none"]
<1>1. p.agent \in {"openai", "grok", "other"} /\ q.agent \in {"openai", "grok", "other"}
      /\ p.session # "subject-scoped-read" /\ q.session # "subject-scoped-read"
  BY RequestAssumption
<1>2. p.agent # "other" /\ q.agent # "other"
  BY DEF describe
<1>3. describe(p) = {KeyOf(r)} /\ describe(q) = {KeyOf(s)}
  BY OneKey
<1>4. /\ KeyOf(r) = (IF p.agent = "grok" THEN Grok ELSE Open(p))
      /\ KeyOf(s) = (IF q.agent = "grok" THEN Grok ELSE Open(q))
  <2>1. describe(p) = {IF p.agent = "grok" THEN Grok ELSE Open(p)}
    BY <1>1, <1>2 DEF describe
  <2>2. describe(q) = {IF q.agent = "grok" THEN Grok ELSE Open(q)}
    BY <1>1, <1>2 DEF describe
  <2> QED
    BY <1>3, <2>1, <2>2
<1>5. /\ \A x : Grok # Open(x)
      /\ Open(p) = Open(q) <=> p.subject = q.subject /\ p.session = q.session
  <2>1. \A x : Grok.kind = "grok" /\ Open(x).kind = "openai"
    OBVIOUS
  <2>2. Open(p).subject = p.subject /\ Open(q).subject = q.subject
    OBVIOUS
  <2>3. Open(p).session = Open(q).session <=> p.session = q.session
    BY <1>1
  <2> QED
    BY <2>1, <2>2, <2>3
<1> HIDE DEF Grok, Open, p, q
<1> QED
  BY <1>1, <1>2, <1>4, <1>5 DEF SameConversation, p, q

\* A step of one request that writes no alias.
LEMMA ReqKeeps ==
    ASSUME ActorInv, NEW r \in MReqs, NEW q \in ActorReqs, areq' = [areq EXCEPT ![r] = q], alias' = alias,
           areq[r].pc # "bind", mlane' \subseteq MReqs, mlane \ {r} \subseteq mlane', \A s, t \in mlane' : s = t,
           q.pc \in Pending => r \in mlane', FoundOut(r, q)',
           profiles' \subseteq ActorPubs, mfaults' \in 0..MMaxFaults,
           arow' \in [ActorPubs -> Standings], \A p \in ActorPubs : Edges(arow'[p]),
           \A p \in ActorPubs : arow[p].st # "none" => arow'[p].st # "none",
           \A p \in ActorPubs : arow'[p].st = "running" =>
               arow[p].st = "running" \/ (\E k \in Keys : p \in alias[k]) \/ (q.pc = "bind" /\ q.pub = {p})
    PROVE  ActorInv'
<1>1. areq' \in [MReqs -> ActorReqs] /\ areq'[r] = q /\ \A s \in MReqs \ {r} : areq'[s] = areq[s]
  BY DEF ActorInv, ActorTyped
<1>2. ActorTyped'
  BY <1>1 DEF ActorInv, ActorTyped
<1>3. InLane'
  <2>1. \A s \in MReqs : areq'[s].pc \in Pending => s \in mlane'
    BY <1>1 DEF ActorInv, InLane
  <2> QED
    BY <2>1 DEF InLane
<1>4. Aliased'
  BY DEF ActorInv, ActorTyped, Aliased
<1>5. ASSUME NEW s \in MReqs
      PROVE  FoundOut(s, areq[s])' 
  <2>1. CASE s = r
    BY <1>1, <2>1
  <2>2. CASE s # r
    <3>1. areq'[s] = areq[s] /\ FoundOut(s, areq[s])
      BY <1>1, <2>2 DEF ActorInv
    <3>2. AliasOf(s)' = AliasOf(s)
      BY DEF AliasOf
    <3> QED
      BY <3>1, <3>2 DEF FoundOut
  <2> QED
    BY <2>1, <2>2
<1>6. NoOrphanActor'
  <2> SUFFICES ASSUME NEW p \in ActorPubs, arow'[p].st = "running",
                      ~\E k \in Keys : p \in alias'[k]
               PROVE  \E s \in MReqs : areq'[s].pc = "bind" /\ areq'[s].pub = {p}
    BY DEF NoOrphanActor
  <2>1. CASE q.pc = "bind" /\ q.pub = {p}
    BY <1>1, <2>1
  <2>2. CASE arow[p].st = "running"
    <3>1. PICK s \in MReqs : areq[s].pc = "bind" /\ areq[s].pub = {p}
      BY <2>2 DEF ActorInv, NoOrphanActor
    <3> QED
      BY <1>1, <3>1
  <2> QED
    BY <2>1, <2>2
<1> QED
  BY <1>2, <1>3, <1>4, <1>5, <1>6 DEF ActorInv

\* A step of one row on its own.
LEMMA RowKeeps ==
    ASSUME ActorInv, NEW p \in ActorPubs, NEW n \in Standings, arow' = [arow EXCEPT ![p] = n], Edges(n),
           arow[p].st # "none", n.st # "none", n.st = "running" => arow[p].st = "running",
           UNCHANGED <<alias, profiles, mlane, areq, mfaults>>
    PROVE  ActorInv'
<1>1. arow' \in [ActorPubs -> Standings] /\ arow'[p] = n /\ \A o \in ActorPubs \ {p} : arow'[o] = arow[o]
  BY DEF ActorInv, ActorTyped
<1>2. ActorTyped' /\ InLane'
  BY <1>1 DEF ActorInv, ActorTyped, InLane
<1>3. \A o \in ActorPubs : Edges(arow'[o])
  BY <1>1 DEF ActorInv
<1>4. Aliased'
  BY <1>1 DEF ActorInv, ActorTyped, Aliased
<1>5. ASSUME NEW s \in MReqs
      PROVE  FoundOut(s, areq[s])'
  <2>1. areq'[s] = areq[s] /\ FoundOut(s, areq[s])
    BY DEF ActorInv
  <2>2. AliasOf(s)' = AliasOf(s)
    BY DEF AliasOf
  <2> QED
    BY <1>1, <2>1, <2>2 DEF FoundOut
<1>6. NoOrphanActor'
  BY <1>1 DEF ActorInv, NoOrphanActor
<1> QED
  BY <1>2, <1>3, <1>4, <1>5, <1>6 DEF ActorInv, Edges

\* A step of one request alone, outside the lane.
LEMMA ReqAlone ==
    ASSUME ActorInv, NEW r \in MReqs, NEW q \in ActorReqs, areq' = [areq EXCEPT ![r] = q],
           UNCHANGED <<alias, arow, mlane>>, areq[r].pc # "bind", q.pc \notin Pending, FoundOut(r, q),
           profiles' \subseteq ActorPubs, mfaults' \in 0..MMaxFaults
    PROVE  ActorInv'
<1>1. FoundOut(r, q)'
  BY DEF FoundOut, AliasOf
<1>2. mlane \subseteq MReqs /\ \A s, t \in mlane : s = t
  BY DEF ActorInv, ActorTyped, InLane
<1>3. arow \in [ActorPubs -> Standings] /\ \A p \in ActorPubs : Edges(arow[p])
  BY DEF ActorInv, ActorTyped
<1> QED
  BY <1>1, <1>2, <1>3, ReqKeeps

\* Nothing is asked of a request that failed.
LEMMA Failing ==
    ASSUME NEW r \in MReqs
    PROVE  \E q \in ActorReqs : /\ Fail(r) = [areq EXCEPT ![r] = q] /\ q.pc = "failed" /\ FoundOut(r, q) /\ FoundOut(r, q)'
<1> DEFINE q == [Waiting EXCEPT !.pc = "failed"]
<1>1. q \in ActorReqs /\ q.pc = "failed"
  BY DEF Waiting, ActorReqs, ReqPcs
<1>2. Fail(r) = [areq EXCEPT ![r] = q]
  BY DEF Fail
<1> HIDE DEF q
<1>3. FoundOut(r, q) /\ FoundOut(r, q)'
  BY <1>1 DEF FoundOut, Pending, Served
<1> QED
  BY <1>1, <1>2, <1>3

LEMMA FaultsTyped ==
    ASSUME ActorInv
    PROVE  /\ profiles \subseteq ActorPubs /\ mfaults \in 0..MMaxFaults /\ (Fault => mfaults' \in 0..MMaxFaults)
           /\ \A r \in MReqs : areq[r] \in ActorReqs
  BY GatewayNumbers DEF ActorInv, ActorTyped, Fault

\* A request that goes on keeps what it knows, or learns who it is.
MovedTo(a, pc) == [a EXCEPT !.pc = pc]
Knows(a, pc, pub) == [a EXCEPT !.pc = pc, !.pub = pub]

LEMMA Moved ==
    ASSUME NEW a \in ActorReqs, NEW pc \in ReqPcs
    PROVE  /\ MovedTo(a, pc) \in ActorReqs
           /\ MovedTo(a, pc).pc = pc /\ MovedTo(a, pc).pub = a.pub /\ MovedTo(a, pc).fresh = a.fresh /\ MovedTo(a, pc).as = a.as
  BY DEF ActorReqs, MovedTo

LEMMA Learned ==
    ASSUME NEW a \in ActorReqs, NEW pc \in ReqPcs, NEW pub \in SUBSET ActorPubs
    PROVE  Knows(a, pc, pub) \in ActorReqs /\ Knows(a, pc, pub).pc = pc /\ Knows(a, pc, pub).pub = pub
  BY DEF ActorReqs, Knows

LEMMA Places ==
    {"idle", "failed", "resolve", "lane", "reserve", "activate", "bind", "session", "join", "profile", "call", "done"} = ReqPcs
  BY DEF ReqPcs, Pending, Served

LEMMA PostKeeps ==
    ASSUME ActorInv, NEW r \in MReqs, post_mcp(r)
    PROVE  ActorInv'
<1>1. /\ areq[r].pc = "idle" /\ UNCHANGED <<alias, arow, profiles, mlane, mfaults>>
      /\ areq' = IF verify(ReqOf[r]) THEN [areq EXCEPT ![r].pc = "resolve"] ELSE Fail(r)
  BY DEF post_mcp
<1>2. CASE verify(ReqOf[r])
  <2>1. PICK q \in ActorReqs : q = MovedTo(areq[r], "resolve") /\ q.pc = "resolve"
    <3>1. areq[r] \in ActorReqs /\ "resolve" \in ReqPcs
      BY FaultsTyped, Places
    <3> QED
      BY <3>1, Moved
  <2>2. areq' = [areq EXCEPT ![r] = q]
    BY <1>1, <1>2, <2>1 DEF MovedTo
  <2>3. FoundOut(r, q) /\ q.pc \notin Pending
    BY <1>2, <2>1 DEF FoundOut, Pending, Served
  <2> QED
    BY <1>1, <2>2, <2>3, FaultsTyped, ReqAlone
<1>3. CASE ~verify(ReqOf[r])
  <2>1. PICK q \in ActorReqs : Fail(r) = [areq EXCEPT ![r] = q] /\ q.pc = "failed" /\ FoundOut(r, q)
    BY Failing
  <2>2. areq' = [areq EXCEPT ![r] = q] /\ q.pc \notin Pending
    BY <1>1, <1>3, <2>1 DEF Pending
  <2> QED
    BY <1>1, <2>1, <2>2, FaultsTyped, ReqAlone
<1> QED
  BY <1>2, <1>3

LEMMA ResolveKeeps ==
    ASSUME ActorInv, NEW r \in MReqs, resolve(r)
    PROVE  ActorInv'
<1>1. /\ areq[r].pc = "resolve" /\ UNCHANGED <<alias, arow, profiles, mlane, mfaults>>
      /\ areq' = IF describe(ReqOf[r]) = {} THEN Fail(r) ELSE [areq EXCEPT ![r].pc = "lane"]
  BY DEF resolve
<1>2. CASE describe(ReqOf[r]) # {}
  <2>1. PICK q \in ActorReqs : q = MovedTo(areq[r], "lane") /\ q.pc = "lane"
    <3>1. areq[r] \in ActorReqs /\ "lane" \in ReqPcs
      BY FaultsTyped, Places
    <3> QED
      BY <3>1, Moved
  <2>2. areq' = [areq EXCEPT ![r] = q]
    BY <1>1, <1>2, <2>1 DEF MovedTo
  <2>3. FoundOut(r, q) /\ q.pc \notin Pending
    BY <1>1, <1>2, <2>1 DEF ActorInv, FoundOut, Pending, Served
  <2> QED
    BY <1>1, <2>2, <2>3, FaultsTyped, ReqAlone
<1>3. CASE describe(ReqOf[r]) = {}
  <2>1. PICK q \in ActorReqs : Fail(r) = [areq EXCEPT ![r] = q] /\ q.pc = "failed" /\ FoundOut(r, q)
    BY Failing
  <2>2. areq' = [areq EXCEPT ![r] = q] /\ q.pc \notin Pending
    BY <1>1, <1>3, <2>1 DEF Pending
  <2> QED
    BY <1>1, <2>1, <2>2, FaultsTyped, ReqAlone
<1> QED
  BY <1>2, <1>3

\* The lane is entered with what the aliases say.
LEMMA LookupKeeps ==
    ASSUME ActorInv, NEW r \in MReqs, mcp_actor_pubkey(r)
    PROVE  ActorInv'
<1>1. /\ areq[r].pc = "lane" /\ mlane = {} /\ mlane' = {r} /\ UNCHANGED <<alias, arow, profiles, mfaults>>
      /\ areq' = [areq EXCEPT ![r].pc = IF alias[KeyOf(r)] = {} THEN "reserve" ELSE "activate",
                              ![r].pub = alias[KeyOf(r)]]
  BY DEF mcp_actor_pubkey, LaneFree
<1>2. describe(ReqOf[r]) # {} /\ verify(ReqOf[r])
  BY <1>1 DEF ActorInv, FoundOut
<1>3. KeyOf(r) \in Keys /\ AliasOf(r) = alias[KeyOf(r)] /\ AliasOf(r)' = AliasOf(r)
  BY <1>1, <1>2, OneKey DEF AliasOf
<1>4. alias[KeyOf(r)] \in SUBSET ActorPubs
  BY <1>3 DEF ActorInv, ActorTyped
<1> DEFINE at == IF AliasOf(r) = {} THEN "reserve" ELSE "activate"
<1>5. PICK q \in ActorReqs : /\ q = Knows(areq[r], at, AliasOf(r))
                             /\ q.pc = at /\ q.pub = AliasOf(r)
  <2>1. at \in ReqPcs /\ AliasOf(r) \in SUBSET ActorPubs /\ areq[r] \in ActorReqs
    BY <1>3, <1>4, FaultsTyped, Places
  <2> QED
    BY <2>1, Learned
<1>6. areq' = [areq EXCEPT ![r] = q]
  BY <1>1, <1>3, <1>5 DEF Knows
<1>7. FoundOut(r, q)'
  BY <1>2, <1>3, <1>5 DEF FoundOut, Pending, Served
<1>8. arow \in [ActorPubs -> Standings] /\ \A p \in ActorPubs : Edges(arow[p])
  BY DEF ActorInv, ActorTyped
<1>9. mlane' \subseteq MReqs /\ (\A s, t \in mlane' : s = t) /\ r \in mlane' /\ mlane \ {r} \subseteq mlane'
  BY <1>1
<1> QED
  BY <1>1, <1>6, <1>7, <1>8, <1>9, FaultsTyped, ReqKeeps

\* An actor that is known comes up again, unless it is stopping or revoked.
LEMMA ActivateKeeps ==
    ASSUME ActorInv, NEW r \in MReqs, Activate(r)
    PROVE  ActorInv'
<1>1. PICK p \in areq[r].pub :
        /\ areq[r].pc = "activate" /\ mlane' = mlane \ {r} /\ arow[p].gen < AMaxGen
        /\ UNCHANGED <<alias, profiles, mfaults>>
        /\ IF activate_mcp_actor(arow[p]) = {}
           THEN areq' = Fail(r) /\ UNCHANGED arow
           ELSE /\ areq' = [areq EXCEPT ![r].pc = "session"]
                /\ arow' = [arow EXCEPT ![p] = CHOOSE x \in activate_mcp_actor(arow[p]) : TRUE]
  BY DEF Activate
<1>2. describe(ReqOf[r]) # {} /\ verify(ReqOf[r]) /\ areq[r].pub = AliasOf(r)
  BY <1>1 DEF ActorInv, FoundOut, Pending
<1>3. KeyOf(r) \in Keys /\ p \in alias[KeyOf(r)] /\ AliasOf(r)' = AliasOf(r)
  BY <1>1, <1>2, OneKey DEF AliasOf
<1>4. p \in ActorPubs /\ arow[p].st # "none" /\ arow[p] \in Standings /\ Edges(arow[p])
  BY <1>3 DEF ActorInv, ActorTyped, Aliased
<1>5. mlane' \subseteq MReqs /\ (\A s, t \in mlane' : s = t) /\ mlane \ {r} \subseteq mlane'
  BY <1>1 DEF ActorInv, ActorTyped, InLane
<1>6. arow \in [ActorPubs -> Standings] /\ \A o \in ActorPubs : Edges(arow[o])
  BY DEF ActorInv, ActorTyped
<1>7. CASE activate_mcp_actor(arow[p]) = {}
  <2>1. PICK q \in ActorReqs : Fail(r) = [areq EXCEPT ![r] = q] /\ q.pc = "failed" /\ FoundOut(r, q)'
    BY Failing
  <2>2. areq' = [areq EXCEPT ![r] = q] /\ q.pc \notin Pending /\ arow' = arow
    BY <1>1, <1>7, <2>1 DEF Pending
  <2> QED
    BY <1>1, <1>5, <1>6, <2>1, <2>2, FaultsTyped, ReqKeeps
<1>8. CASE activate_mcp_actor(arow[p]) # {}
  <2> DEFINE d == IF arow[p].st = "stopped" THEN 1 ELSE 0
  <2>1. PICK n \in Standings :
             /\ activate_mcp_actor(arow[p]) = {n}
             /\ n.st = "running" /\ n.gen = arow[p].gen + d /\ n.ep = arow[p].ep + d
    <3>1. arow[p].gen \in Nat /\ arow[p].gen + d \in 0..AMaxGen
      BY <1>1, <1>4, GatewayNumbers DEF Standings
    <3>2. arow[p].ep + d \in 0..(3 * AMaxGen)
      BY <1>1, <1>4, <3>1, GatewayNumbers DEF Standings, Edges
    <3> DEFINE n == [arow[p] EXCEPT !.st = "running", !.gen = @ + d, !.ep = @ + d]
    <3>3. n \in Standings /\ n.st = "running" /\ n.gen = arow[p].gen + d /\ n.ep = arow[p].ep + d
      BY <1>4, <3>1, <3>2 DEF Standings
    <3>4. activate_mcp_actor(arow[p]) = {n}
      BY <1>8 DEF activate_mcp_actor
    <3> QED
      BY <3>3, <3>4
  <2>2. arow' = [arow EXCEPT ![p] = n]
    BY <1>1, <1>8, <2>1
  <2>3. Edges(n)
    BY <1>4, <1>8, <2>1, GatewayNumbers DEF Edges, Standings, activate_mcp_actor
  <2>4. /\ arow' \in [ActorPubs -> Standings] /\ \A o \in ActorPubs : Edges(arow'[o])
        /\ \A o \in ActorPubs : arow[o].st # "none" => arow'[o].st # "none"
        /\ \A o \in ActorPubs : arow'[o].st = "running" => arow[o].st = "running" \/ \E k \in Keys : o \in alias[k]
    BY <1>3, <1>4, <1>6, <2>1, <2>2, <2>3
  <2>5. PICK q \in ActorReqs : q = MovedTo(areq[r], "session") /\ q.pc = "session" /\ q.pub = areq[r].pub
    <3>1. areq[r] \in ActorReqs /\ "session" \in ReqPcs
      BY FaultsTyped, Places
    <3> QED
      BY <3>1, Moved
  <2>6. areq' = [areq EXCEPT ![r] = q] /\ q.pc \notin Pending
    BY <1>1, <1>8, <2>5 DEF Pending, MovedTo
  <2>7. FoundOut(r, q)'
    BY <1>1, <1>2, <1>3, <2>5 DEF FoundOut, Pending, Served
  <2> QED
    BY <1>1, <1>5, <2>4, <2>6, <2>7, FaultsTyped, ReqKeeps
<1> QED
  BY <1>7, <1>8

\* A new actor's row runs before its alias is written: the request owes the alias.
LEMMA ReserveKeeps ==
    ASSUME ActorInv, NEW r \in MReqs, reserve_mcp_actor_session(r)
    PROVE  ActorInv'
<1>1. PICK p \in ActorPubs :
        /\ areq[r].pc = "reserve" /\ arow[p].st = "none" /\ UNCHANGED <<alias, profiles, mlane, mfaults>>
        /\ arow' = [arow EXCEPT ![p] = [st |-> "running", gen |-> 1, ep |-> 1, rec |-> "ready",
                                        kind |-> ReqOf[r].agent]]
        /\ areq' = [areq EXCEPT ![r].pc = "bind", ![r].pub = {p}, ![r].fresh = TRUE]
  BY DEF reserve_mcp_actor_session
<1>2. describe(ReqOf[r]) # {} /\ verify(ReqOf[r]) /\ AliasOf(r) = {} /\ AliasOf(r)' = AliasOf(r)
  BY <1>1 DEF ActorInv, FoundOut, Pending, AliasOf
<1>3. PICK n \in Standings : /\ n = [st |-> "running", gen |-> 1, ep |-> 1, rec |-> "ready", kind |-> ReqOf[r].agent]
                             /\ n.st = "running" /\ n.gen = 1 /\ n.ep = 1
  <2>1. ReqOf[r].agent \in {"openai", "grok"}
    BY <1>2, RequestAssumption DEF describe
  <2>2. 1 \in 0..AMaxGen /\ 1 \in 0..(3 * AMaxGen)
    BY GatewayNumbers
  <2> DEFINE n == [st |-> "running", gen |-> 1, ep |-> 1, rec |-> "ready", kind |-> ReqOf[r].agent]
  <2>3. n \in Standings /\ n.st = "running" /\ n.gen = 1 /\ n.ep = 1
    BY <2>1, <2>2 DEF Standings
  <2> QED
    BY <2>3
<1>4. arow' = [arow EXCEPT ![p] = n] /\ Edges(n)
  BY <1>1, <1>3 DEF Edges
<1>5. /\ arow' \in [ActorPubs -> Standings] /\ arow'[p] = n /\ \A o \in ActorPubs \ {p} : arow'[o] = arow[o]
  BY <1>4 DEF ActorInv, ActorTyped
<1>6. \A o \in ActorPubs : Edges(arow'[o])
  BY <1>4, <1>5 DEF ActorInv
<1>7. PICK q \in ActorReqs : /\ q = [Knows(areq[r], "bind", {p}) EXCEPT !.fresh = TRUE]
                             /\ q.pc = "bind" /\ q.pub = {p}
  <2>1. "bind" \in ReqPcs /\ {p} \in SUBSET ActorPubs /\ areq[r] \in ActorReqs
    BY FaultsTyped, Places
  <2>2. PICK a \in ActorReqs : a = Knows(areq[r], "bind", {p}) /\ a.pc = "bind" /\ a.pub = {p}
    BY <2>1, Learned
  <2>3. [a EXCEPT !.fresh = TRUE] \in ActorReqs /\ [a EXCEPT !.fresh = TRUE].pc = "bind" /\ [a EXCEPT !.fresh = TRUE].pub = {p}
    BY <2>2 DEF ActorReqs
  <2> QED
    BY <2>2, <2>3
<1>8. areq' = [areq EXCEPT ![r] = q]
  BY <1>1, <1>7 DEF Knows
<1>9. \A k \in Keys : p \notin alias[k]
  BY <1>1 DEF ActorInv, Aliased
<1>10. FoundOut(r, q)'
  BY <1>1, <1>2, <1>3, <1>5, <1>7, <1>9 DEF FoundOut, Pending, Served
<1>11. r \in mlane /\ mlane \subseteq MReqs /\ \A s, t \in mlane : s = t
  BY <1>1 DEF ActorInv, ActorTyped, InLane, Pending
<1>12. /\ \A o \in ActorPubs : arow[o].st # "none" => arow'[o].st # "none"
       /\ \A o \in ActorPubs : arow'[o].st = "running" => arow[o].st = "running" \/ (q.pc = "bind" /\ q.pub = {o})
  BY <1>3, <1>5, <1>7
<1>13. areq[r].pc # "bind" /\ mlane' = mlane /\ profiles' \subseteq ActorPubs /\ mfaults' \in 0..MMaxFaults /\ alias' = alias
  BY <1>1, FaultsTyped
<1> QED
  BY <1>5, <1>6, <1>8, <1>10, <1>11, <1>12, <1>13, ReqKeeps

\* The alias is written: nobody else could have written one for this key.
LEMMA BindKeeps ==
    ASSUME ActorInv, NEW r \in MReqs, bind_mcp_actor(r)
    PROVE  ActorInv'
<1>1. areq[r].pc = "bind" /\ mlane' = mlane \ {r} /\ UNCHANGED <<arow, profiles, mfaults>>
  BY DEF bind_mcp_actor
<1>2. /\ describe(ReqOf[r]) # {} /\ verify(ReqOf[r]) /\ AliasOf(r) = {}
      /\ \E p \in ActorPubs : areq[r].pub = {p} /\ arow[p].st # "none" /\ \A k \in Keys : p \notin alias[k]
  BY <1>1 DEF ActorInv, FoundOut, Pending
<1>3. PICK p \in ActorPubs : areq[r].pub = {p} /\ arow[p].st # "none" /\ \A k \in Keys : p \notin alias[k]
  BY <1>2
<1>4. PICK key \in Keys : key = KeyOf(r)
  BY <1>2, OneKey
<1>5. alias' = [alias EXCEPT ![key] = {p}] /\ areq' = [areq EXCEPT ![r].pc = "session"]
  BY <1>2, <1>3, <1>4 DEF bind_mcp_actor, AliasOf
<1>6. /\ alias' \in [Keys -> SUBSET ActorPubs] /\ alias'[key] = {p}
      /\ \A k \in Keys \ {key} : alias'[k] = alias[k]
  BY <1>3, <1>5 DEF ActorInv, ActorTyped
<1>7. PICK q \in ActorReqs : q = MovedTo(areq[r], "session") /\ q.pc = "session" /\ q.pub = {p}
  <2>1. areq[r] \in ActorReqs /\ "session" \in ReqPcs
    BY FaultsTyped, Places
  <2> QED
    BY <1>3, <2>1, Moved
<1>8. areq' \in [MReqs -> ActorReqs] /\ areq'[r] = q /\ \A s \in MReqs \ {r} : areq'[s] = areq[s]
  BY <1>5, <1>7 DEF ActorInv, ActorTyped, MovedTo
<1>9. ActorTyped'
  BY <1>1, <1>6, <1>8 DEF ActorInv, ActorTyped
<1>10. InLane'
  BY <1>1, <1>7, <1>8 DEF ActorInv, InLane, Pending
<1>11. Aliased'
  BY <1>1, <1>2, <1>3, <1>4, <1>6 DEF ActorInv, Aliased, AliasOf
<1>12. \A s \in MReqs \ {r} : areq[s].pc \notin Pending
  BY <1>1 DEF ActorInv, InLane, Pending
<1>13. ASSUME NEW s \in MReqs
       PROVE  FoundOut(s, areq[s])'
  <2>1. CASE s = r
    <3>1. AliasOf(r)' = {p}
      BY <1>4, <1>6 DEF AliasOf
    <3> QED
      BY <1>2, <1>7, <1>8, <2>1, <3>1 DEF FoundOut, Pending, Served
  <2>2. CASE s # r
    <3>1. areq'[s] = areq[s] /\ FoundOut(s, areq[s]) /\ areq[s].pc \notin Pending
      BY <1>8, <1>12, <2>2 DEF ActorInv
    <3>2. areq[s].pc \in Served => AliasOf(s)' = AliasOf(s)
      <4> SUFFICES ASSUME areq[s].pc \in Served PROVE AliasOf(s)' = AliasOf(s)
        OBVIOUS
      <4>1. describe(ReqOf[s]) # {} /\ AliasOf(s) # {}
        BY <3>1 DEF FoundOut
      <4>2. KeyOf(s) \in Keys /\ KeyOf(s) # key
        BY <1>2, <1>4, <4>1, OneKey DEF AliasOf
      <4> QED
        BY <1>6, <4>2 DEF AliasOf
    <3> QED
      BY <3>1, <3>2 DEF FoundOut, Pending
  <2> QED
    BY <2>1, <2>2
<1>14. NoOrphanActor'
  <2> SUFFICES ASSUME NEW o \in ActorPubs, arow[o].st = "running" PROVE \E k \in Keys : o \in alias'[k]
    BY <1>1 DEF NoOrphanActor
  <2>1. CASE \E k \in Keys : o \in alias[k]
    <3>1. PICK k \in Keys : o \in alias[k]
      BY <2>1
    <3>2. k # key
      BY <1>2, <1>4, <3>1 DEF AliasOf
    <3> QED
      BY <1>6, <3>1, <3>2
  <2>2. CASE \E s \in MReqs : areq[s].pc = "bind" /\ areq[s].pub = {o}
    BY <1>3, <1>6, <1>12, <2>2 DEF Pending
  <2> QED
    BY <2>1, <2>2 DEF ActorInv, NoOrphanActor
<1> QED
  BY <1>1, <1>9, <1>10, <1>11, <1>13, <1>14 DEF ActorInv

\* A request that was served up to here goes one step on, or fails.
LEMMA ServedOn ==
    ASSUME ActorInv, NEW r \in MReqs, areq[r].pc \in Served, NEW q \in ActorReqs, q.pub = areq[r].pub,
           q.pc \in Served, q.pc = "done" => q.as = caller_params(ReqOf[r], "actor")
    PROVE  FoundOut(r, q) /\ q.pc \notin Pending
  BY DEF ActorInv, FoundOut, Pending, Served

LEMMA SessionReadKeeps ==
    ASSUME ActorInv, NEW r \in MReqs, get_session(r)
    PROVE  ActorInv'
<1>1. PICK p \in areq[r].pub :
        /\ areq[r].pc = "session" /\ UNCHANGED <<alias, arow, profiles, mlane, mfaults>>
        /\ areq' = [areq EXCEPT ![r].pc = "join", ![r].gen = arow[p].gen, ![r].ep = arow[p].ep]
  BY DEF get_session
<1>2. areq[r] \in ActorReqs /\ arow[p].gen \in Nat /\ arow[p].ep \in Nat
  <2>1. areq[r] \in ActorReqs /\ p \in ActorPubs
    BY FaultsTyped DEF ActorReqs
  <2> QED
    BY <2>1, GatewayNumbers DEF ActorInv, ActorTyped, Standings
<1> DEFINE n == [areq[r] EXCEPT !.pc = "join", !.gen = arow[p].gen, !.ep = arow[p].ep]
<1>3. n \in ActorReqs /\ n.pc = "join" /\ n.pub = areq[r].pub
  BY <1>2, Places DEF ActorReqs
<1>4. areq' = [areq EXCEPT ![r] = n]
  BY <1>1
<1> HIDE DEF n
<1>5. FoundOut(r, n) /\ n.pc \notin Pending
  BY <1>1, <1>3, ServedOn DEF Served
<1> QED
  BY <1>1, <1>3, <1>4, <1>5, FaultsTyped, ReqAlone

LEMMA JoinKeeps ==
    ASSUME ActorInv, NEW r \in MReqs, NEW confirmed \in BOOLEAN, ensure_joinable(r, confirmed)
    PROVE  ActorInv'
<1> DEFINE next == IF areq[r].fresh THEN "profile" ELSE "call"
<1>1. /\ areq[r].pc = "join" /\ UNCHANGED <<alias, arow, profiles, mlane>>
      /\ mfaults' = mfaults \/ Fault
      /\ areq' = [areq EXCEPT ![r].pc = next] \/ areq' = Fail(r)
  BY DEF ensure_joinable
<1>2. profiles' \subseteq ActorPubs /\ mfaults' \in 0..MMaxFaults
  BY <1>1, FaultsTyped
<1>3. CASE areq' = [areq EXCEPT ![r].pc = next]
  <2>1. PICK q \in ActorReqs : q = MovedTo(areq[r], next) /\ q.pc = next /\ q.pub = areq[r].pub
    <3>1. areq[r] \in ActorReqs /\ next \in ReqPcs
      BY FaultsTyped, Places
    <3> QED
      BY <3>1, Moved
  <2>2. areq' = [areq EXCEPT ![r] = q]
    BY <1>3, <2>1 DEF MovedTo
  <2>3. FoundOut(r, q) /\ q.pc \notin Pending
    BY <1>1, <2>1, ServedOn DEF Served
  <2> QED
    BY <1>1, <1>2, <2>2, <2>3, ReqAlone
<1>4. CASE areq' = Fail(r)
  <2>1. PICK q \in ActorReqs : Fail(r) = [areq EXCEPT ![r] = q] /\ q.pc = "failed" /\ FoundOut(r, q)
    BY Failing
  <2>2. areq' = [areq EXCEPT ![r] = q] /\ q.pc \notin Pending
    BY <1>4, <2>1 DEF Pending
  <2> QED
    BY <1>1, <1>2, <2>1, <2>2, ReqAlone
<1> QED
  BY <1>1, <1>3, <1>4

LEMMA ProfileKeeps ==
    ASSUME ActorInv, NEW r \in MReqs, NEW stored \in BOOLEAN, publish_profile(r, stored)
    PROVE  ActorInv'
<1>1. PICK p \in areq[r].pub :
        /\ areq[r].pc = "profile" /\ UNCHANGED <<alias, arow, mlane>>
        /\ \/ /\ profiles' = profiles \cup {p} /\ areq' = [areq EXCEPT ![r].pc = "call"] /\ UNCHANGED mfaults
           \/ Fault /\ areq' = Fail(r) /\ UNCHANGED profiles
  BY DEF publish_profile
<1>2. profiles' \subseteq ActorPubs /\ mfaults' \in 0..MMaxFaults
  <2>1. p \in ActorPubs
    BY FaultsTyped DEF ActorReqs
  <2> QED
    BY <1>1, <2>1, FaultsTyped
<1>3. CASE areq' = [areq EXCEPT ![r].pc = "call"]
  <2>1. PICK q \in ActorReqs : q = MovedTo(areq[r], "call") /\ q.pc = "call" /\ q.pub = areq[r].pub
    <3>1. areq[r] \in ActorReqs /\ "call" \in ReqPcs
      BY FaultsTyped, Places
    <3> QED
      BY <3>1, Moved
  <2>2. areq' = [areq EXCEPT ![r] = q]
    BY <1>3, <2>1 DEF MovedTo
  <2>3. FoundOut(r, q) /\ q.pc \notin Pending
    BY <1>1, <2>1, ServedOn DEF Served
  <2> QED
    BY <1>1, <1>2, <2>2, <2>3, ReqAlone
<1>4. CASE areq' = Fail(r)
  <2>1. PICK q \in ActorReqs : Fail(r) = [areq EXCEPT ![r] = q] /\ q.pc = "failed" /\ FoundOut(r, q)
    BY Failing
  <2>2. areq' = [areq EXCEPT ![r] = q] /\ q.pc \notin Pending
    BY <1>4, <2>1 DEF Pending
  <2> QED
    BY <1>1, <1>2, <2>1, <2>2, ReqAlone
<1> QED
  BY <1>1, <1>3, <1>4

LEMMA CallKeeps ==
    ASSUME ActorInv, NEW r \in MReqs, call_as(r)
    PROVE  ActorInv'
<1> DEFINE who == caller_params(ReqOf[r], "actor")
           n == [areq[r] EXCEPT !.pc = "done", !.as = who]
<1>1. /\ areq[r].pc = "call" /\ UNCHANGED <<alias, arow, profiles, mlane, mfaults>>
      /\ areq' = [areq EXCEPT ![r] = n]
  BY DEF call_as
<1>2. areq[r] \in ActorReqs /\ who \in {"nobody", "chosen", "server", "actor"}
  BY FaultsTyped DEF caller_params
<1> HIDE DEF who
<1>3. n \in ActorReqs /\ n.pc = "done" /\ n.pub = areq[r].pub /\ n.as = who
  BY <1>2, Places DEF ActorReqs
<1> HIDE DEF n
<1>4. FoundOut(r, n) /\ n.pc \notin Pending
  BY <1>1, <1>3, ServedOn DEF Served, who
<1> QED
  BY <1>1, <1>3, <1>4, FaultsTyped, ReqAlone

\* An actor's row stops in two steps, and may be revoked at any time.
LEMMA RowStops ==
    ASSUME ActorInv, NEW p \in ActorPubs, StopActor(p) \/ FinishStop(p) \/ revoke_session_recovery_if_generation(p)
    PROVE  ActorInv'
<1>1. UNCHANGED <<alias, profiles, mlane, areq, mfaults>> /\ arow[p].st # "none"
  BY DEF StopActor, FinishStop, revoke_session_recovery_if_generation
<1>2. arow[p] \in Standings /\ Edges(arow[p])
  BY DEF ActorInv, ActorTyped
<1>3. arow[p].ep \in Nat /\ arow[p].gen \in 1..AMaxGen
  BY <1>1, <1>2, GatewayNumbers DEF Standings, Edges
<1>4. CASE StopActor(p)
  <2> DEFINE n == [arow[p] EXCEPT !.st = "stopping", !.ep = @ + 1]
  <2>1. arow' = [arow EXCEPT ![p] = n] /\ arow[p].st = "running"
    BY <1>4 DEF StopActor
  <2>2. arow[p].ep + 1 \in 0..(3 * AMaxGen) /\ arow[p].ep + 1 <= 3 * arow[p].gen - 1
    BY <1>2, <1>3, <2>1, GatewayNumbers DEF Edges
  <2>3. n \in Standings /\ n.st = "stopping" /\ n.ep = arow[p].ep + 1 /\ n.gen = arow[p].gen
    BY <1>2, <2>2 DEF Standings
  <2> HIDE DEF n
  <2>4. Edges(n)
    BY <1>3, <2>2, <2>3 DEF Edges
  <2> QED
    BY <1>1, <2>1, <2>3, <2>4, RowKeeps
<1>5. CASE FinishStop(p)
  <2> DEFINE n == [arow[p] EXCEPT !.st = "stopped", !.ep = @ + 1]
  <2>1. arow' = [arow EXCEPT ![p] = n] /\ arow[p].st = "stopping"
    BY <1>5 DEF FinishStop
  <2>2. arow[p].ep + 1 \in 0..(3 * AMaxGen) /\ arow[p].ep + 1 <= 3 * arow[p].gen
    BY <1>2, <1>3, <2>1, GatewayNumbers DEF Edges
  <2>3. n \in Standings /\ n.st = "stopped" /\ n.ep = arow[p].ep + 1 /\ n.gen = arow[p].gen
    BY <1>2, <2>2 DEF Standings
  <2> HIDE DEF n
  <2>4. Edges(n)
    BY <1>3, <2>2, <2>3 DEF Edges
  <2> QED
    BY <1>1, <2>1, <2>3, <2>4, RowKeeps
<1>6. CASE revoke_session_recovery_if_generation(p)
  <2> DEFINE n == [arow[p] EXCEPT !.rec = "revoked"]
  <2>1. arow' = [arow EXCEPT ![p] = n]
    BY <1>6 DEF revoke_session_recovery_if_generation
  <2>2. n \in Standings /\ n.st = arow[p].st /\ n.ep = arow[p].ep /\ n.gen = arow[p].gen
    BY <1>2 DEF Standings
  <2> HIDE DEF n
  <2>3. Edges(n)
    BY <1>2, <2>2 DEF Edges
  <2> QED
    BY <1>1, <2>1, <2>2, <2>3, RowKeeps
<1> QED
  BY <1>4, <1>5, <1>6

\* What a restart leaves of a row.
Rebooted(p) ==
    IF arow[p].st = "stopping" \/ (arow[p].st = "running" /\ ~Retained(p))
    THEN [arow[p] EXCEPT !.st = "stopped", !.ep = @ + 1] ELSE arow[p]

\* Boot stops every row that no alias leads to, whoever was about to write one.
LEMMA RestartKeeps ==
    ASSUME ActorInv, DaemonRestart
    PROVE  ActorInv'
<1> DEFINE q == [Waiting EXCEPT !.pc = "failed"]
<1>1. /\ Fault /\ mlane' = {} /\ UNCHANGED <<alias, profiles>>
      /\ areq' = [r \in MReqs |-> IF areq[r].pc \in {"idle", "done", "failed"} THEN areq[r] ELSE q]
      /\ arow' = [p \in ActorPubs |-> Rebooted(p)]
  BY DEF DaemonRestart, Rebooted
<1>2. q \in ActorReqs /\ q.pc = "failed"
  BY DEF Waiting, ActorReqs, ReqPcs
<1> HIDE DEF q
<1>3. ASSUME NEW p \in ActorPubs
      PROVE  /\ Rebooted(p) \in Standings /\ Edges(Rebooted(p))
             /\ (Rebooted(p).st = "none" <=> arow[p].st = "none")
             /\ Rebooted(p).st = "running" => arow[p].st = "running" /\ Retained(p)
  <2>1. arow[p] \in Standings /\ Edges(arow[p])
    BY DEF ActorInv, ActorTyped
  <2>2. CASE arow[p].st = "stopping" \/ (arow[p].st = "running" /\ ~Retained(p))
    <3> DEFINE n == [arow[p] EXCEPT !.st = "stopped", !.ep = @ + 1]
    <3>1. arow[p].ep \in Nat /\ arow[p].gen \in 1..AMaxGen
      BY <2>1, <2>2, GatewayNumbers DEF Standings, Edges
    <3>2. arow[p].ep + 1 \in 0..(3 * AMaxGen) /\ arow[p].ep + 1 <= 3 * arow[p].gen
      BY <2>1, <2>2, <3>1, GatewayNumbers DEF Edges
    <3>3. n \in Standings /\ n.st = "stopped" /\ n.ep = arow[p].ep + 1 /\ n.gen = arow[p].gen
      BY <2>1, <3>2 DEF Standings
    <3>4. Rebooted(p) = n
      BY <2>2 DEF Rebooted
    <3> HIDE DEF n
    <3>5. Edges(n)
      BY <3>1, <3>2, <3>3 DEF Edges
    <3> QED
      BY <2>2, <3>3, <3>4, <3>5
  <2>3. CASE ~(arow[p].st = "stopping" \/ (arow[p].st = "running" /\ ~Retained(p)))
    BY <2>1, <2>3 DEF Rebooted
  <2> QED
    BY <2>2, <2>3
<1>4. /\ areq' \in [MReqs -> ActorReqs]
      /\ \A r \in MReqs : (areq'[r] = areq[r] /\ areq[r].pc \in {"idle", "done", "failed"}) \/ areq'[r] = q
  BY <1>1, <1>2 DEF ActorInv, ActorTyped
<1>5. ActorTyped'
  BY <1>1, <1>3, <1>4, FaultsTyped DEF ActorInv, ActorTyped
<1>6. InLane'
  BY <1>1, <1>2, <1>4 DEF InLane, Pending
<1>7. Aliased'
  BY <1>1, <1>3 DEF ActorInv, ActorTyped, Aliased
<1>8. ASSUME NEW r \in MReqs
      PROVE  FoundOut(r, areq[r])'
  <2>1. CASE areq'[r] = q
    BY <1>2, <2>1 DEF FoundOut, Pending, Served
  <2>2. CASE areq'[r] = areq[r] /\ areq[r].pc \in {"idle", "done", "failed"}
    <3>1. FoundOut(r, areq[r]) /\ AliasOf(r)' = AliasOf(r)
      BY <1>1 DEF ActorInv, AliasOf
    <3> QED
      BY <2>2, <3>1 DEF FoundOut, Pending, Served
  <2> QED
    BY <1>4, <2>1, <2>2
<1>9. NoOrphanActor'
  BY <1>1, <1>3 DEF NoOrphanActor, Retained
<1> QED
  BY <1>1, <1>3, <1>5, <1>6, <1>7, <1>8, <1>9 DEF ActorInv

LEMMA ActorInitially ==
    McpInit => ActorInv
<1> SUFFICES ASSUME McpInit PROVE ActorInv
  OBVIOUS
<1>1. /\ alias = [k \in Keys |-> {}] /\ arow = [p \in ActorPubs |-> NoRow]
      /\ profiles = {} /\ mlane = {} /\ areq = [r \in MReqs |-> Waiting] /\ mfaults = 0
  BY DEF McpInit
<1>2. NoRow \in Standings /\ NoRow.st = "none" /\ Edges(NoRow)
  BY GatewayNumbers DEF NoRow, Standings, Edges
<1>3. Waiting \in ActorReqs /\ Waiting.pc = "idle"
  BY DEF Waiting, ActorReqs, ReqPcs
<1>4. ActorTyped /\ InLane
  BY <1>1, <1>2, <1>3, GatewayNumbers DEF ActorTyped, InLane, Pending
<1>5. Aliased /\ NoOrphanActor
  BY <1>1, <1>2 DEF Aliased, NoOrphanActor
<1>6. \A r \in MReqs : FoundOut(r, areq[r])
  BY <1>1, <1>3 DEF FoundOut, Pending, Served
<1> QED
  BY <1>1, <1>2, <1>4, <1>5, <1>6 DEF ActorInv

LEMMA ActorUnchanged ==
    ASSUME ActorInv, UNCHANGED <<actorVars, mfaults>> \/ (UNCHANGED actorVars /\ Fault)
    PROVE  ActorInv'
<1>1. UNCHANGED <<alias, arow, profiles, mlane, areq>> /\ mfaults' \in 0..MMaxFaults
  BY FaultsTyped DEF actorVars
<1>2. ActorTyped' /\ InLane' /\ Aliased' /\ NoOrphanActor' /\ (\A p \in ActorPubs : Edges(arow[p]))'
  BY <1>1 DEF ActorInv, ActorTyped, InLane, Aliased, NoOrphanActor
<1>3. \A r \in MReqs : FoundOut(r, areq[r])'
  BY <1>1 DEF ActorInv, FoundOut, AliasOf
<1> QED
  BY <1>2, <1>3 DEF ActorInv

-----------------------------------------------------------------------------
(* The MCP server: steps of a stream.                                       *)

\* Streams keep their numbers: whatever else changes in one, as many are left.
LEMMA Renewed ==
    ASSUME NEW ss, NEW ts, StreamsNumbered(ss, ts), NEW f \in [ss -> Streams], NEW us,
           \A s \in ss : f[s].id = s.id /\ (f[s].live => us[f[s].uri] = f[s].id)
    PROVE  StreamsNumbered({f[s] : s \in ss}, us)
<1> DEFINE new == {f[s] : s \in ss}
<1>0. /\ IsFiniteSet(ss) /\ Cardinality(ss) <= MaxStreams
      /\ \A s \in ss : s.id \in 1..Cardinality(ss)
      /\ \A s, t \in ss : s.id = t.id => s = t
  BY DEF StreamsNumbered
<1>1. f \in Bijection(ss, new)
  <2>1. f \in [ss -> new] /\ (\A t \in new : \E s \in ss : f[s] = t)
    OBVIOUS
  <2>2. \A s, t \in ss : f[s] = f[t] => s = t
    BY <1>0
  <2> QED BY <2>1, <2>2 DEF Bijection, Injection, Surjection, IsInjective
<1>2. IsFiniteSet(new) /\ Cardinality(new) = Cardinality(ss)
  BY <1>0, <1>1, FS_Bijection DEF ExistsBijection
<1>3. \A t \in new : \E s \in ss : t = f[s] /\ t \in Streams
  OBVIOUS
<1>4. \A t \in new : t.id \in 1..Cardinality(ss) /\ (t.live => us[t.uri] = t.id)
  BY <1>0, <1>3
<1>5. \A s, t \in new : s.id = t.id => s = t
  BY <1>0, <1>3
<1>6. new \subseteq Streams
  BY <1>3
<1> QED BY <1>0, <1>2, <1>4, <1>5, <1>6 DEF StreamsNumbered

\* One stream changes and keeps its number.
LEMMA RenewedOne ==
    ASSUME NEW ss, NEW ts, StreamsNumbered(ss, ts), NEW s \in ss, NEW n \in Streams, n.id = s.id,
           n.live => s.live, n.uri = s.uri
    PROVE  StreamsNumbered((ss \ {s}) \cup {n}, ts)
<1> DEFINE f == [t \in ss |-> IF t = s THEN n ELSE t]
<1>0. ss \subseteq Streams /\ \A t \in ss : t.live => ts[t.uri] = t.id
  BY DEF StreamsNumbered
<1>1. f \in [ss -> Streams] /\ (\A t \in ss : f[t] = IF t = s THEN n ELSE t)
  BY <1>0
<1>2. \A t \in ss : f[t].id = t.id /\ (f[t].live => ts[f[t].uri] = f[t].id)
  BY <1>0, <1>1
<1>3. (ss \ {s}) \cup {n} = {f[t] : t \in ss}
  BY <1>1
<1> HIDE DEF f
<1> QED BY <1>1, <1>2, <1>3, Renewed

\* A stream that is aborted, one that gets a note and one that sends it.
Stopped(s) == [s EXCEPT !.live = FALSE, !.todo = 0]
Noted(s) == [s EXCEPT !.todo = @ + 1]
Sent(s) == [s EXCEPT !.todo = @ - 1]
LEMMA StreamSteps ==
    ASSUME NEW s \in Streams
    PROVE  /\ Stopped(s) \in Streams /\ Stopped(s).id = s.id /\ ~Stopped(s).live /\ Stopped(s).uri = s.uri
           /\ Noted(s) \in Streams /\ Noted(s).id = s.id /\ Noted(s).live = s.live /\ Noted(s).uri = s.uri
           /\ s.todo > 0 => /\ Sent(s) \in Streams /\ Sent(s).id = s.id
                            /\ Sent(s).live = s.live /\ Sent(s).uri = s.uri
<1>1. /\ Stopped(s) \in Streams /\ Stopped(s).id = s.id /\ ~Stopped(s).live /\ Stopped(s).uri = s.uri
  BY DEF Streams, Stopped
<1>2. Noted(s) \in Streams /\ Noted(s).id = s.id /\ Noted(s).live = s.live /\ Noted(s).uri = s.uri
  BY DEF Streams, Noted
<1>3. s.todo > 0 => /\ Sent(s) \in Streams /\ Sent(s).id = s.id
                    /\ Sent(s).live = s.live /\ Sent(s).uri = s.uri
  BY DEF Streams, Sent
<1> QED BY <1>1, <1>2, <1>3

\* The streams of some entries are aborted, and no other entry changes.
LEMMA AbortedKeeps ==
    ASSUME FeedInv, NEW ids, NEW us \in [Uris -> 0..MaxStreams],
           \A u \in Uris : us[u] = tasks[u] \/ tasks[u] \in ids
    PROVE  StreamsNumbered(Aborted(ids), us)
<1>1. PICK ss, ts : ss = streams /\ ts = tasks
  OBVIOUS
<1> DEFINE f == [s \in ss |-> IF s.id \in ids THEN Stopped(s) ELSE s]
<1>2. StreamsNumbered(ss, ts) /\ (\A u \in Uris : us[u] = ts[u] \/ ts[u] \in ids)
  BY <1>1 DEF FeedInv
<1>3. ss \subseteq Streams /\ \A t \in ss : t.live => ts[t.uri] = t.id
  BY <1>2 DEF StreamsNumbered
<1>4. f \in [ss -> Streams] /\ (\A t \in ss : f[t] = IF t.id \in ids THEN Stopped(t) ELSE t)
  BY <1>3, StreamSteps
<1>5. Aborted(ids) = {f[t] : t \in ss}
  BY <1>1 DEF Aborted, Stopped
<1>6. ASSUME NEW t \in ss
      PROVE  f[t].id = t.id /\ (f[t].live => us[f[t].uri] = f[t].id)
  <2>1. t \in Streams /\ t.uri \in Uris
    BY <1>3 DEF Streams
  <2>2. CASE t.id \in ids
    BY <1>4, <2>1, <2>2, StreamSteps
  <2>3. CASE t.id \notin ids
    BY <1>2, <1>3, <1>4, <2>1, <2>3
  <2> QED BY <2>2, <2>3
<1> HIDE DEF f
<1> QED BY <1>2, <1>4, <1>5, <1>6, Renewed

\* A resource without an entry gets a stream of the next number.
LEMMA AddKeeps ==
    ASSUME FeedInv, NEW u \in Uris, add(u)
    PROVE  FeedInv'
<1>1. CASE Absent(u)
  <2>1. PICK ss, ts : ss = streams /\ ts = tasks
    OBVIOUS
  <2> DEFINE n == Cardinality(ss) + 1
             new == [id |-> n, uri |-> u, live |-> TRUE, todo |-> 0]
             us == [ts EXCEPT ![u] = n]
  <2>2. /\ Cardinality(ss) < MaxStreams /\ streams' = ss \cup {new} /\ tasks' = us
        /\ UNCHANGED <<listener, updates>>
    BY <1>1, <2>1 DEF add
  <2>3. /\ ss \subseteq Streams /\ IsFiniteSet(ss) /\ ts \in [Uris -> 0..MaxStreams] /\ ts[u] = 0
        /\ \A s \in ss : s.id \in 1..Cardinality(ss) /\ (s.live => ts[s.uri] = s.id)
        /\ \A s, t \in ss : s.id = t.id => s = t
    BY <1>1, <2>1 DEF FeedInv, StreamsNumbered, Absent
  <2>4. Cardinality(ss) \in Nat /\ n \in 1..MaxStreams
    BY <2>2, <2>3, FS_CardinalityType, GatewayNumbers
  <2>5. new \notin ss /\ new \in Streams /\ new.id = n /\ new.uri = u
    BY <2>3, <2>4 DEF Streams
  <2>6. IsFiniteSet(ss \cup {new}) /\ Cardinality(ss \cup {new}) = n
    BY <2>3, <2>5, FS_AddElement
  <2>7. us \in [Uris -> 0..MaxStreams] /\ us[u] = n /\ (\A v \in Uris : v # u => us[v] = ts[v])
    BY <2>3, <2>4
  <2>8. \A s \in ss : s.live => s.uri # u /\ s.uri \in Uris
    BY <2>3 DEF Streams
  <2> HIDE DEF us, new
  <2>9. \A s \in ss \cup {new} : s.id \in 1..n /\ (s.live => us[s.uri] = s.id)
    BY <2>3, <2>4, <2>5, <2>7, <2>8
  <2>10. \A s, t \in ss \cup {new} : s.id = t.id => s = t
    <3>1. \A s \in ss : s.id # n
      BY <2>3, <2>4
    <3> QED BY <2>3, <2>5, <3>1
  <2>11. StreamsNumbered(ss \cup {new}, us)
    <3>1. PICK all : all = ss \cup {new}
      OBVIOUS
    <3>2. all \subseteq Streams /\ IsFiniteSet(all) /\ Cardinality(all) = n
      BY <2>3, <2>5, <2>6, <3>1
    <3>3. Cardinality(all) <= MaxStreams
      BY <2>4, <3>2, GatewayNumbers
    <3>4. \A s \in all : s.id \in 1..Cardinality(all) /\ (s.live => us[s.uri] = s.id)
      BY <2>9, <3>1, <3>2
    <3>5. \A s, t \in all : s.id = t.id => s = t
      BY <2>10, <3>1
    <3>6. StreamsNumbered(all, us)
      BY <3>2, <3>3, <3>4, <3>5 DEF StreamsNumbered
    <3> QED BY <3>1, <3>6
  <2> QED BY <2>2, <2>7, <2>11 DEF FeedInv
<1>2. CASE ~Absent(u)
  BY <1>2 DEF add, FeedInv
<1> QED BY <1>1, <1>2

LEMMA RemoveKeeps ==
    ASSUME FeedInv, NEW u \in Uris, remove(u)
    PROVE  FeedInv'
<1>1. tasks' = [tasks EXCEPT ![u] = 0] /\ streams' = Aborted({tasks[u]}) /\ UNCHANGED <<listener, updates>>
  BY DEF remove
<1>2. tasks \in [Uris -> 0..MaxStreams] /\ MaxStreams \in Nat
  BY GatewayNumbers DEF FeedInv
<1>3. tasks' \in [Uris -> 0..MaxStreams] /\ \A v \in Uris : tasks'[v] = tasks[v] \/ tasks[v] \in {tasks[u]}
  BY <1>1, <1>2
<1>4. StreamsNumbered(Aborted({tasks[u]}), tasks')
  BY <1>3, AbortedKeeps
<1> QED BY <1>1, <1>3, <1>4 DEF FeedInv

LEMMA ShutdownKeeps ==
    ASSUME FeedInv, shutdown
    PROVE  FeedInv'
<1>1. /\ tasks' = [u \in Uris |-> 0] /\ streams' = Aborted({tasks[u] : u \in Uris})
      /\ UNCHANGED <<listener, updates>>
  BY DEF shutdown
<1>2. tasks' \in [Uris -> 0..MaxStreams]
  BY <1>1, GatewayNumbers
<1>3. StreamsNumbered(Aborted({tasks[u] : u \in Uris}), tasks')
  BY <1>2, AbortedKeeps
<1> QED BY <1>1, <1>2, <1>3 DEF FeedInv

LEMMA StreamEndKeeps ==
    ASSUME FeedInv, NEW s \in streams, StreamEnds(s)
    PROVE  FeedInv'
<1>1. PICK ss, ts : ss = streams /\ ts = tasks
  OBVIOUS
<1>2. streams' = (ss \ {s}) \cup {Stopped(s)} /\ UNCHANGED <<tasks, listener, updates>>
  BY <1>1 DEF StreamEnds, Stopped
<1>3. StreamsNumbered(ss, ts) /\ s \in ss /\ s \in Streams
  BY <1>1 DEF FeedInv, StreamsNumbered
<1>4. StreamsNumbered((ss \ {s}) \cup {Stopped(s)}, ts)
  BY <1>3, StreamSteps, RenewedOne
<1> QED BY <1>1, <1>2, <1>4 DEF FeedInv

LEMMA UpdateKeeps ==
    ASSUME FeedInv, Update
    PROVE  FeedInv'
<1>1. PICK ss, ts : ss = streams /\ ts = tasks
  OBVIOUS
<1> DEFINE f == [s \in ss |-> IF s.live THEN Noted(s) ELSE s]
<1>2. streams' = {f[s] : s \in ss} /\ updates' = updates + 1 /\ UNCHANGED <<tasks, listener>>
  BY <1>1 DEF Update, Noted
<1>3. StreamsNumbered(ss, ts)
  BY <1>1 DEF FeedInv
<1>4. ss \subseteq Streams /\ \A t \in ss : t.live => ts[t.uri] = t.id
  BY <1>3 DEF StreamsNumbered
<1>5. f \in [ss -> Streams] /\ (\A t \in ss : f[t] = IF t.live THEN Noted(t) ELSE t)
  BY <1>4, StreamSteps
<1>6. \A t \in ss : f[t].id = t.id /\ (f[t].live => ts[f[t].uri] = f[t].id)
  <2> TAKE t \in ss
  <2>1. t \in Streams
    BY <1>4
  <2>2. CASE t.live
    <3>1. f[t] = Noted(t)
      BY <1>5, <2>2
    <3>2. Noted(t).id = t.id /\ Noted(t).uri = t.uri
      BY <2>1, StreamSteps
    <3> QED BY <1>4, <2>2, <3>1, <3>2
  <2>3. CASE ~t.live
    BY <1>4, <1>5, <2>3
  <2> QED BY <2>2, <2>3
<1> HIDE DEF f
<1>7. StreamsNumbered({f[t] : t \in ss}, ts)
  BY <1>3, <1>5, <1>6, Renewed
<1> QED BY <1>1, <1>2, <1>7 DEF FeedInv

LEMMA SentKeeps ==
    ASSUME FeedInv, NEW s \in streams, run_subscription(s)
    PROVE  FeedInv'
<1>1. PICK ss, ts : ss = streams /\ ts = tasks
  OBVIOUS
<1>2. streams' = (ss \ {s}) \cup {Sent(s)} /\ s.todo > 0 /\ UNCHANGED <<tasks, updates>>
  BY <1>1 DEF run_subscription, Sent
<1>3. StreamsNumbered(ss, ts) /\ s \in ss /\ s \in Streams /\ s.uri \in Uris
  BY <1>1 DEF FeedInv, StreamsNumbered, Streams
<1>4. StreamsNumbered((ss \ {s}) \cup {Sent(s)}, ts)
  BY <1>2, <1>3, StreamSteps, RenewedOne
<1>5. PICK l, q, u : l = listener /\ q = l.q /\ u = s.uri
  OBVIOUS
<1> DEFINE n == IF Len(q) < BroadcastCap THEN Append(q, u) ELSE Append(Tail(q), u)
<1>6. /\ l \in [open : BOOLEAN, q : Seq(Uris)] /\ q \in Seq(Uris) /\ u \in Uris
      /\ Len(q) \in Nat /\ Len(q) <= BroadcastCap
  BY <1>3, <1>5, LenProperties DEF FeedInv
<1>7. n \in Seq(Uris) /\ Len(n) <= BroadcastCap
  <2>1. CASE Len(q) < BroadcastCap
    BY <1>6, <2>1, AppendProperties, GatewayNumbers
  <2>2. CASE ~(Len(q) < BroadcastCap)
    <3>1. Len(q) = BroadcastCap /\ q # <<>>
      BY <1>6, <2>2, GatewayNumbers, EmptySeq
    <3>2. Tail(q) \in Seq(Uris) /\ Len(Tail(q)) = BroadcastCap - 1
      BY <1>6, <3>1, HeadTailProperties
    <3>3. Append(Tail(q), u) \in Seq(Uris) /\ Len(Append(Tail(q), u)) = (BroadcastCap - 1) + 1
      BY <1>6, <3>2, AppendProperties
    <3> QED BY <2>2, <3>3, GatewayNumbers
  <2> QED BY <2>1, <2>2
<1>8. listener' = IF l.open THEN [l EXCEPT !.q = n] ELSE l
  BY <1>5 DEF run_subscription
<1> HIDE DEF n
<1>9. listener' \in [open : BOOLEAN, q : Seq(Uris)] /\ (listener'.q = n \/ listener' = l)
  BY <1>6, <1>7, <1>8
<1>10. Len(listener'.q) <= BroadcastCap
  BY <1>5, <1>6, <1>7, <1>9
<1> QED BY <1>1, <1>2, <1>4, <1>9, <1>10 DEF FeedInv

LEMMA ListenerKeeps ==
    ASSUME FeedInv, get_mcp \/ ListenerReads
    PROVE  FeedInv'
<1>1. PICK l, q : l = listener /\ q = l.q
  OBVIOUS
<1>2. /\ l \in [open : BOOLEAN, q : Seq(Uris)] /\ q \in Seq(Uris)
      /\ Len(q) \in Nat /\ Len(q) <= BroadcastCap
  BY <1>1, LenProperties DEF FeedInv
<1>3. UNCHANGED <<tasks, streams, updates>>
  BY DEF get_mcp, ListenerReads
<1>4. CASE get_mcp
  <2>1. listener' = [l EXCEPT !.open = TRUE]
    BY <1>1, <1>4 DEF get_mcp
  <2>2. listener' \in [open : BOOLEAN, q : Seq(Uris)] /\ listener'.q = q
    BY <1>1, <1>2, <2>1
  <2> QED BY <1>2, <1>3, <2>2 DEF FeedInv
<1>5. CASE ListenerReads
  <2>1. listener' = [l EXCEPT !.q = Tail(q)] /\ q # <<>>
    BY <1>1, <1>5 DEF ListenerReads
  <2>2. Tail(q) \in Seq(Uris) /\ Len(Tail(q)) = Len(q) - 1
    BY <1>2, <2>1, HeadTailProperties
  <2>3. listener' \in [open : BOOLEAN, q : Seq(Uris)] /\ listener'.q = Tail(q)
    BY <1>2, <2>1, <2>2
  <2>4. Len(listener'.q) <= BroadcastCap
    BY <1>2, <2>2, <2>3, GatewayNumbers
  <2> QED BY <1>3, <2>3, <2>4 DEF FeedInv
<1> QED BY <1>4, <1>5

LEMMA FeedInitially ==
    McpInit => FeedInv
<1> SUFFICES ASSUME McpInit PROVE FeedInv
  OBVIOUS
<1>1. /\ tasks = [u \in Uris |-> 0] /\ streams = {} /\ updates = 0
      /\ listener = [open |-> FALSE, q |-> <<>>]
  BY DEF McpInit
<1>2. IsFiniteSet({}) /\ Cardinality({}) = 0
  BY FS_EmptySet
<1>3. StreamsNumbered(streams, tasks)
  BY <1>1, <1>2, GatewayNumbers DEF StreamsNumbered
<1>4. listener \in [open : BOOLEAN, q : Seq(Uris)] /\ Len(listener.q) <= BroadcastCap
  BY <1>1, EmptySeq, GatewayNumbers
<1> QED BY <1>1, <1>3, <1>4, GatewayNumbers DEF FeedInv

LEMMA FeedUnchanged ==
    ASSUME FeedInv, UNCHANGED feedVars
    PROVE  FeedInv'
  BY DEF feedVars, FeedInv

-----------------------------------------------------------------------------
(* The MCP server: the theorems.                                            *)

LEMMA McpInitially ==
    McpInit => McpInv
  BY LoginInitially, ActorInitially, FeedInitially DEF McpInit, McpInv

LEMMA McpStep ==
    ASSUME McpInv, [McpNext]_mcpVars
    PROVE  McpInv'
<1>0. LoginInv /\ ActorInv /\ FeedInv /\ scene \in {"login", "actor", "feed"}
  BY DEF McpInv
<1>1. SUFFICES ASSUME McpNext \/ UNCHANGED mcpVars
               PROVE  LoginInv' /\ ActorInv' /\ FeedInv' /\ scene' = scene
  BY <1>0 DEF McpInv
\* A step of the login leaves the actors and the streams alone, and so on.
<1>2. ASSUME UNCHANGED <<scene, actorVars, feedVars, mfaults>>, LoginInv'
      PROVE  LoginInv' /\ ActorInv' /\ FeedInv' /\ scene' = scene
  BY <1>0, <1>2, ActorUnchanged, FeedUnchanged
<1>3. ASSUME UNCHANGED <<scene, loginVars, feedVars>>, ActorInv'
      PROVE  LoginInv' /\ ActorInv' /\ FeedInv' /\ scene' = scene
  BY <1>0, <1>3, LoginUnchanged, FeedUnchanged
<1>4. ASSUME UNCHANGED <<scene, loginVars, actorVars>>, UNCHANGED mfaults \/ Fault, FeedInv'
      PROVE  LoginInv' /\ ActorInv' /\ FeedInv' /\ scene' = scene
  BY <1>0, <1>4, LoginUnchanged, ActorUnchanged
<1>5. ASSUME NEW b \in Browsers, InLogin(authorize_page(b))
      PROVE  LoginInv' /\ ActorInv' /\ FeedInv' /\ scene' = scene
  BY <1>0, <1>2, <1>5, AskKeeps DEF InLogin
<1>6. ASSUME NEW b \in Browsers, NEW f \in flow[b].forms, NEW evs \in Proofs(b), InLogin(authorize_submit(b, f, evs))
      PROVE  LoginInv' /\ ActorInv' /\ FeedInv' /\ scene' = scene
  BY <1>0, <1>2, <1>6, SubmitKeeps DEF InLogin
<1>7. ASSUME NEW b \in Browsers, NEW c \in codes, InLogin(token(b, c))
      PROVE  LoginInv' /\ ActorInv' /\ FeedInv' /\ scene' = scene
  BY <1>0, <1>2, <1>7, RedeemedKeeps DEF InLogin
<1>8. ASSUME InLogin(LoginTick)
      PROVE  LoginInv' /\ ActorInv' /\ FeedInv' /\ scene' = scene
  BY <1>0, <1>2, <1>8, LoginTickKeeps DEF InLogin
<1>9. ASSUME NEW r \in MReqs,
             \/ InActor(post_mcp(r)) \/ InActor(resolve(r)) \/ InActor(mcp_actor_pubkey(r))
             \/ InActor(Activate(r)) \/ InActor(reserve_mcp_actor_session(r)) \/ InActor(bind_mcp_actor(r))
             \/ InActor(get_session(r)) \/ InActor(call_as(r))
      PROVE  LoginInv' /\ ActorInv' /\ FeedInv' /\ scene' = scene
  BY <1>0, <1>3, <1>9, PostKeeps, ResolveKeeps, LookupKeeps, ActivateKeeps, ReserveKeeps, BindKeeps,
     SessionReadKeeps, CallKeeps DEF InActor
<1>10. ASSUME NEW r \in MReqs, NEW ok \in BOOLEAN, InActor(ensure_joinable(r, ok)) \/ InActor(publish_profile(r, ok))
       PROVE  LoginInv' /\ ActorInv' /\ FeedInv' /\ scene' = scene
  BY <1>0, <1>3, <1>10, JoinKeeps, ProfileKeeps DEF InActor
<1>11. ASSUME NEW p \in ActorPubs, \/ InActor(StopActor(p)) \/ InActor(FinishStop(p))
                                   \/ InActor(revoke_session_recovery_if_generation(p))
       PROVE  LoginInv' /\ ActorInv' /\ FeedInv' /\ scene' = scene
  BY <1>0, <1>3, <1>11, RowStops DEF InActor
<1>12. ASSUME InActor(DaemonRestart)
       PROVE  LoginInv' /\ ActorInv' /\ FeedInv' /\ scene' = scene
  BY <1>0, <1>3, <1>12, RestartKeeps DEF InActor
<1>13. ASSUME NEW u \in Uris, InFeed(add(u)) \/ InFeed(remove(u))
       PROVE  LoginInv' /\ ActorInv' /\ FeedInv' /\ scene' = scene
  <2>1. FeedInv'
    BY <1>0, <1>13, AddKeeps, RemoveKeeps DEF InFeed
  <2> QED BY <1>4, <1>13, <2>1 DEF InFeed, add, remove
<1>14. ASSUME NEW s \in streams, InFeed(StreamEnds(s)) \/ InFeed(run_subscription(s))
       PROVE  LoginInv' /\ ActorInv' /\ FeedInv' /\ scene' = scene
  <2>1. FeedInv'
    BY <1>0, <1>14, StreamEndKeeps, SentKeeps DEF InFeed
  <2> QED BY <1>4, <1>14, <2>1 DEF InFeed, StreamEnds, run_subscription
<1>15. ASSUME InFeed(shutdown) \/ InFeed(Update) \/ InFeed(get_mcp) \/ InFeed(ListenerReads)
       PROVE  LoginInv' /\ ActorInv' /\ FeedInv' /\ scene' = scene
  <2>1. FeedInv'
    BY <1>0, <1>15, ShutdownKeeps, UpdateKeeps, ListenerKeeps DEF InFeed
  <2> QED BY <1>4, <1>15, <2>1 DEF InFeed, shutdown, Update, get_mcp, ListenerReads
<1>16. ASSUME UNCHANGED mcpVars
       PROVE  LoginInv' /\ ActorInv' /\ FeedInv' /\ scene' = scene
  BY <1>0, <1>16, LoginUnchanged, ActorUnchanged, FeedUnchanged DEF mcpVars
<1> QED
  BY <1>1, <1>5, <1>6, <1>7, <1>8, <1>9, <1>10, <1>11, <1>12, <1>13, <1>14, <1>15, <1>16 DEF McpNext

\* One holder of the lane.
LEMMA OneHolder ==
    ASSUME NEW S, \A r, s \in S : r = s
    PROVE  Cardinality(S) <= 1
<1>1. CASE S = {}
  BY <1>1, FS_EmptySet
<1>2. CASE S # {}
  <2>1. PICK r : S = {r}
    BY <1>2
  <2>2. IsFiniteSet({}) /\ Cardinality({}) = 0
    BY FS_EmptySet
  <2>3. Cardinality({} \cup {r}) = 1
    BY <2>2, FS_AddElement
  <2> QED BY <2>1, <2>3
<1> QED BY <1>1, <1>2

LEMMA McpInvTyped ==
    McpInv => McpTypeOK
<1> SUFFICES ASSUME McpInv PROVE McpTypeOK
  OBVIOUS
<1>1. /\ scene \in {"login", "actor", "feed"} /\ mclock \in 0..MMaxClock
      /\ npage \in 0..MaxPages /\ ncode \in 0..MaxCodes
      /\ IsFiniteSet(pages) /\ Cardinality(pages) <= npage
      /\ IsFiniteSet(codes) /\ Cardinality(codes) <= ncode
  BY DEF McpInv, LoginInv, FlowTyped, PagesKept, CodesKept
<1>2. Cardinality(pages) \in Nat /\ Cardinality(codes) \in Nat
  BY <1>1, FS_CardinalityType
<1>3. Cardinality(pages) <= MaxPages /\ Cardinality(codes) <= MaxCodes
  BY <1>1, <1>2, GatewayNumbers
<1>4. Cardinality(mlane) <= 1
  BY OneHolder DEF McpInv, ActorInv, InLane
<1>5. /\ profiles \subseteq ActorPubs /\ mfaults \in 0..MMaxFaults
      /\ arow \in [ActorPubs -> Standings]
  BY DEF McpInv, ActorInv, ActorTyped
<1>6. tasks \in [Uris -> 0..MaxStreams] /\ Len(listener.q) <= BroadcastCap
  BY DEF McpInv, FeedInv
<1> QED BY <1>1, <1>3, <1>4, <1>5, <1>6 DEF McpTypeOK, Standings

\* An actor has a row, and so its requests are apart as their conversations are.
LEMMA McpInvApart ==
    McpInv => ActorsApart
<1> SUFFICES ASSUME McpInv, NEW r \in MReqs, NEW s \in MReqs, areq[r].pc = "done", areq[s].pc = "done"
             PROVE  areq[r].pub = areq[s].pub <=> SameConversation(ReqOf[r], ReqOf[s])
  BY DEF ActorsApart
<1>1. /\ areq[r].pub = alias[KeyOf(r)] /\ areq[r].pub # {} /\ describe(ReqOf[r]) # {}
      /\ areq[s].pub = alias[KeyOf(s)] /\ areq[s].pub # {} /\ describe(ReqOf[s]) # {}
  BY DEF McpInv, ActorInv, FoundOut, AliasOf, Served
<1>2. KeyOf(r) \in Keys /\ KeyOf(s) \in Keys
  BY <1>1, OneKey
<1>3. alias[KeyOf(r)] \cap alias[KeyOf(s)] # {} => KeyOf(r) = KeyOf(s)
  BY <1>2 DEF McpInv, ActorInv, Aliased
<1>4. KeyOf(r) = KeyOf(s) <=> SameConversation(ReqOf[r], ReqOf[s])
  BY <1>1, KeyIsConversation
<1>5. areq[r].pub = areq[s].pub <=> KeyOf(r) = KeyOf(s)
  BY <1>1, <1>3
<1> QED BY <1>4, <1>5

LEMMA McpInvCaller ==
    McpInv => ActsAsCaller
<1> SUFFICES ASSUME McpInv, NEW r \in MReqs, areq[r].pc = "done", ReqOf[r].tool # "channel_read"
             PROVE  /\ areq[r].as = (IF ReqOf[r].override THEN "chosen" ELSE "actor")
                    /\ ReqOf[r].write => ReqOf[r].token = "rw"
  BY DEF ActsAsCaller
<1>1. verify(ReqOf[r]) /\ areq[r].as = caller_params(ReqOf[r], "actor")
  BY DEF McpInv, ActorInv, FoundOut
<1> QED BY <1>1 DEF verify, required_scope, caller_params

LEMMA McpInvOwned ==
    McpInv => StreamsOwned
  BY DEF McpInv, FeedInv, StreamsNumbered, StreamsOwned

\* What the gateway promises holds for any number of browsers, pages, requests,
\* conversations, streams and faults.  A page is shown, answered with a code or paid
\* for with a token, and only one of them (auth.rs consume_challenge, token); only
\* the holder of mcp_actor_sync is between the lookup of an actor and its alias, so
\* that no key gets two and no pubkey serves two keys (mcp_actor_pubkey,
\* bind_mcp_actor); and a live stream carries the number its resource's entry names.
THEOREM McpSafeCorrect == McpSpec => []McpSafe
<1>1. McpInit => McpInv
  BY McpInitially
<1>2. McpInv /\ [McpNext]_mcpVars => McpInv'
  BY McpStep
<1>3. McpInv => McpSafe
  BY McpInvTyped, McpInvApart, McpInvCaller, McpInvOwned DEF McpInv, LoginInv, ActorInv, McpSafe
<1> QED BY <1>1, <1>2, <1>3, PTL DEF McpSpec

\* Only activate_mcp_actor sets the row of an actor that ran before to running: a
\* stopped one's, one that can be recovered, and with the next generation.
LEMMA RevivedStep ==
    ASSUME McpInv, McpNext, NEW p \in ActorPubs,
           arow[p].st \in {"stopping", "stopped"}, arow'[p].st = "running"
    PROVE  arow[p].st = "stopped" /\ arow[p].rec = "ready" /\ arow'[p].gen > arow[p].gen
<1>0. arow \in [ActorPubs -> Standings] /\ arow[p] \in Standings
  BY DEF McpInv, ActorInv, ActorTyped
<1>1. PICK row : row = arow[p]
  OBVIOUS
<1>2. row \in Standings /\ row.st \in {"stopping", "stopped"}
  BY <1>0, <1>1
<1>3. arow' # arow /\ arow'[p] # row
  BY <1>1
<1>4. \/ \E r \in MReqs : Activate(r) \/ reserve_mcp_actor_session(r)
      \/ \E q \in ActorPubs : StopActor(q) \/ revoke_session_recovery_if_generation(q) \/ FinishStop(q)
      \/ DaemonRestart
  BY <1>3 DEF McpNext, InLogin, InActor, InFeed, actorVars, post_mcp, resolve, mcp_actor_pubkey,
     bind_mcp_actor, get_session, ensure_joinable, publish_profile, call_as
<1>5. ASSUME NEW r \in MReqs, Activate(r)
      PROVE  arow[p].st = "stopped" /\ arow[p].rec = "ready" /\ arow'[p].gen > arow[p].gen
  <2>1. PICK q \in areq[r].pub :
          /\ activate_mcp_actor(arow[q]) # {}
          /\ arow' = [arow EXCEPT ![q] = CHOOSE x \in activate_mcp_actor(arow[q]) : TRUE]
    BY <1>3, <1>5 DEF Activate
  <2>2. q = p
    BY <1>0, <1>1, <1>3, <2>1
  <2>3. activate_mcp_actor(row) # {} /\ arow'[p] = CHOOSE x \in activate_mcp_actor(row) : TRUE
    BY <1>0, <1>1, <2>1, <2>2
  <2>4. PICK new : new = arow'[p]
    OBVIOUS
  <2>5. new \in activate_mcp_actor(row)
    BY <2>3, <2>4
  <2>6. row.st = "stopped" /\ row.rec # "revoked" /\ new.gen = row.gen + 1
    BY <1>2, <2>3, <2>5 DEF activate_mcp_actor, Standings
  <2>7. row.rec = "ready" /\ row.gen \in Nat
    BY <1>2, <2>6, GatewayNumbers DEF Standings
  <2>8. new.gen > row.gen
    BY <2>6, <2>7
  <2> QED BY <1>1, <2>4, <2>6, <2>7, <2>8
<1>6. ASSUME NEW r \in MReqs, reserve_mcp_actor_session(r)
      PROVE  FALSE
  <2>1. PICK q \in ActorPubs : arow[q].st = "none" /\ \E n : arow' = [arow EXCEPT ![q] = n]
    BY <1>6 DEF reserve_mcp_actor_session
  <2> QED BY <1>0, <1>1, <1>2, <1>3, <2>1
<1>7. ASSUME NEW q \in ActorPubs, StopActor(q) \/ revoke_session_recovery_if_generation(q) \/ FinishStop(q)
      PROVE  FALSE
  <2>1. \/ arow' = [arow EXCEPT ![q].st = "stopping", ![q].ep = @ + 1]
        \/ arow' = [arow EXCEPT ![q].rec = "revoked"]
        \/ arow' = [arow EXCEPT ![q].st = "stopped", ![q].ep = @ + 1]
    BY <1>7 DEF StopActor, FinishStop, revoke_session_recovery_if_generation
  <2>2. q = p
    BY <1>0, <1>1, <1>3, <2>1
  <2>3. \/ arow'[p] = [row EXCEPT !.st = "stopping", !.ep = @ + 1]
        \/ arow'[p] = [row EXCEPT !.rec = "revoked"]
        \/ arow'[p] = [row EXCEPT !.st = "stopped", !.ep = @ + 1]
    BY <1>0, <1>1, <2>1, <2>2
  <2> QED BY <1>2, <2>3 DEF Standings
<1>8. ASSUME DaemonRestart
      PROVE  FALSE
  <2>1. arow'[p] = [row EXCEPT !.st = "stopped", !.ep = @ + 1] \/ arow'[p] = row
    BY <1>1, <1>8 DEF DaemonRestart
  <2> QED BY <1>2, <1>3, <2>1 DEF Standings
<1> QED BY <1>4, <1>5, <1>6, <1>7, <1>8

\* A request never brings back an actor that is stopping or was revoked, and a
\* stopped one only as a new generation (state/mcp_actors.rs activate_mcp_actor),
\* whatever requests, stops, revocations and restarts come in between.
THEOREM RevivedAsNewCorrect == McpSpec => RevivedAsNew
<1> DEFINE Revives ==
        \A p \in ActorPubs :
            (arow[p].st \in {"stopping", "stopped"} /\ arow'[p].st = "running") =>
                (arow[p].st = "stopped" /\ arow[p].rec = "ready" /\ arow'[p].gen > arow[p].gen)
<1>1. McpInit => McpInv
  BY McpInitially
<1>2. McpInv /\ [McpNext]_mcpVars => McpInv'
  BY McpStep
<1>3. McpInv /\ [McpNext]_mcpVars => [Revives]_mcpVars
  BY RevivedStep
<1>4. RevivedAsNew <=> [][Revives]_mcpVars
  BY DEF RevivedAsNew
<1> QED BY <1>1, <1>2, <1>3, <1>4, PTL DEF McpSpec

=============================================================================
