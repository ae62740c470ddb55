---------------------------- MODULE SessionLaunch ----------------------------
(***************************************************************************)
(* How a session gets an identity, a handle, a runtime generation and a    *)
(* process.  Launches (pty_spawn, pty_resume, pty_resume_native and        *)
(* session_pty_wrap) reserve a generation before they open a process and   *)
(* then register it with session_start; the hooks of a harness process,    *)
(* hosted or started by the user, call session_start by themselves.  No    *)
(* lock covers a call: every store transaction is a step of its own.       *)
(*                                                                         *)
(* A harness process occupies a slot, which is also its pid, so that pids  *)
(* are reused.  Pubkey 0 is the one durable agent, which has no lease.     *)
(***************************************************************************)
EXTENDS Naturals, FiniteSets

CONSTANTS Derived,      \* derived session pubkeys, minted in order: 1..n
          GenHandles,   \* generated code names, tried in order: 1..n
          LSlots,       \* process slots, i.e. pids
          LCallers,     \* concurrent callers
          Natives,      \* harness-native session ids
          MaxLaunches,  \* bound on calls started
          LMaxFaults    \* bound on failing steps

ASSUME LaunchAssumption ==
  /\ MaxLaunches \in Nat /\ LMaxFaults \in Nat
  /\ Derived \subseteq Nat \ {0} /\ GenHandles \subseteq Nat \ {0}
  /\ 1 \in Derived /\ LSlots \subseteq Nat \ {0} /\ LCallers \subseteq Nat

Durable == 0
PKs == Derived \cup {Durable}
NamedHandle == 0                 \* the one name `--session-name` asks for
Handles == GenHandles \cup {NamedHandle}

VARIABLES
  srow,     \* sessions table
  lease,    \* handle_leases: {} or one lease per handle
  native,   \* native_resume locators: {} or the owning pubkey
  pidloc,   \* pid locators: {} or [pk, gen]
  procs,    \* the harness processes of this machine
  eng,      \* runtime.engines: {} or the engine task's generation, pid, cancel
  calls,    \* in-flight calls
  minted,   \* pubkeys derived so far
  retired,  \* pubkeys whose profile was republished under the bare npub
  taken,    \* history: pubkeys whose lease was reclaimed after they had run
  leaked,   \* history: pubkeys whose call died between lease and reservation
  contested,\* history: pubkeys that two processes or two native sessions laid claim to
  tripped,  \* history: pubkeys whose start met another start or an old engine, or whose
            \* running generation an old locator of a reused pid stopped
  nlaunch, lfaults

launchVars == <<srow, lease, native, pidloc, procs, eng, calls, minted, retired,
                taken, leaked, contested, tripped, nlaunch, lfaults>>

NoCall == [kind |-> "none", pc |-> "idle", pk |-> 0, gen |-> 0, slot |-> 0,
           nat |-> {}, named |-> FALSE, reclaimed |-> {}, armed |-> FALSE,
           already |-> FALSE, runs |-> FALSE]
NoProc == [alive |-> FALSE, hosted |-> FALSE, pk |-> 0, nat |-> {}]

LeastOf(S) == {x \in S : \A y \in S : x <= y}

-----------------------------------------------------------------------------
(* The store *)

running(pk) == srow[pk].st = "running"

\* handle_for_pubkey / lease_for_pubkey
LeaseOf(pk) == {h \in Handles : \E l \in lease[h] : l.pk = pk}

\* occupied: a live lease, or a lease whose owner's row is running
occupied(h) == \E l \in lease[h] : l.live \/ running(l.pk)

\* A lease that allocate_handle_in may delete: dead for the whole grace.
reclaimable(h) == ~occupied(h) /\ \A l \in lease[h] : l.stale

\* The stop half of every terminal transition: the row and its lease.
StoppedRow(pk) == [srow EXCEPT ![pk].st = "stopped"]

mark_handle_stopped(ls, pk) ==
  [h \in Handles |-> {IF l.pk = pk THEN [l EXCEPT !.live = FALSE, !.stale = FALSE]
                      ELSE l : l \in ls[h]}]

\* mark_runtime_stopped_if_generation
mark_runtime_stopped_if_generation(pk, gen) ==
  IF running(pk) /\ srow[pk].gen = gen
  THEN srow' = StoppedRow(pk) /\ lease' = mark_handle_stopped(lease, pk)
  ELSE UNCHANGED <<srow, lease>>

\* The engine task of exactly this generation is in the map.
EngineOf(pk, gen) == \E e \in eng[pk] : e.gen = gen

\* cancel_session: the task is notified; it leaves the map when it has ended
cancel_session(S) ==
  eng' = [pk \in PKs |-> {[e EXCEPT !.cancelled = @ \/ (pk \in S /\ e.gen = srow[pk].gen)] :
                            e \in eng[pk]}]

\* admission::release, and the drop of an armed RuntimeReservation
release(c) ==
  mark_runtime_stopped_if_generation(calls[c].pk, calls[c].gen)

\* reserve_session_with_facts: the sole running incarnation of a pubkey
CanReserve(pk) == srow[pk].st \in {"none", "stopped"}

reserve_session_with_facts(pk) ==
  /\ CanReserve(pk)
  /\ srow' = [srow EXCEPT ![pk].st = "running", ![pk].gen = @ + 1,
                           ![pk].ep = 0, ![pk].pid = 0]
  /\ lease' = [h \in Handles |-> {IF l.pk = pk THEN [l EXCEPT !.live = TRUE, !.stale = FALSE]
                                  ELSE l : l \in lease[h]}]

ClaimStealing(pk, n) == [native EXCEPT ![n] = {pk}]

\* claim_native_resume_locator never steals
claim_native_resume_locator(pk, n) ==
  IF native[n] = {} THEN [native EXCEPT ![n] = {pk}] ELSE native

\* put_session_locator of kind native_resume: the pubkey's former id is
\* dropped and a row of another pubkey is taken over
set_native_resume_locator(pk, ns) ==
  [n \in Natives |-> IF n \in ns THEN {pk}
                     ELSE IF ns # {} THEN native[n] \ {pk} ELSE native[n]]

\* put_session_locator of kind pid
put_pid_locator(pk, s) ==
  [x \in LSlots |-> IF x = s THEN {[pk |-> pk, gen |-> srow[pk].gen]}
                    ELSE {l \in pidloc[x] : l.pk # pk}]

\* resume_token_for
resume_token_for(pk) == {n \in Natives : native[n] = {pk}}

\* load_session_identity: a derived session must have its public handle
load_session_identity(pk) ==
  srow[pk].st # "none" /\ (pk = Durable \/ LeaseOf(pk) # {})

-----------------------------------------------------------------------------
(* Identity: prepare_session_identity and the handle allocator *)

NewLease(pk) == {[pk |-> pk, live |-> TRUE, stale |-> FALSE]}

\* The first candidate that is free or reclaimable; a candidate that is
\* skipped may come before any other, so a reclaimable one may be first.
Candidates == LeastOf({h \in GenHandles : lease[h] = {}})
              \cup {h \in GenHandles : lease[h] # {} /\ reclaimable(h)}

\* reserve_derived_identity: signer and handle in one transaction
reserve_derived_identity(c, h) ==
  LET pk == minted + 1
      former == {l.pk : l \in lease[h]}
  IN /\ minted' = pk
     /\ lease' = [lease EXCEPT ![h] = NewLease(pk)]
     /\ taken' = taken \cup {p \in former : srow[p].st # "none"}
     /\ calls' = [calls EXCEPT ![c].pk = pk, ![c].reclaimed = former,
                               ![c].pc = IF calls[c].kind = "hook" THEN "retire" ELSE "reserve"]

Returned(c) == calls' = [calls EXCEPT ![c] = NoCall]

\* A generated code name: the first candidate nobody holds.
allocate_handle_in(c) == \E h \in Candidates : reserve_derived_identity(c, h)

\* A requested name: refused while it is in use, taken at once from a dead owner
allocate_custom_handle_in(c) ==
  IF occupied(NamedHandle)
  THEN Returned(c) /\ UNCHANGED <<lease, minted, taken>>
  ELSE reserve_derived_identity(c, NamedHandle)

\* prepare_session_identity for a derived session
prepare_session_identity(c) ==
  /\ calls[c].pc = "prepare" /\ calls[c].pk # Durable
  /\ minted + 1 \in Derived
  /\ IF calls[c].named THEN allocate_custom_handle_in(c) ELSE allocate_handle_in(c)
  /\ UNCHANGED <<srow, native, pidloc, procs, eng, retired, leaked, contested, tripped, nlaunch, lfaults>>

\* The durable agent has one key: validate_agent_identity_admission refuses a
\* second runtime of the agent.
PrepareDurable(c) ==
  /\ calls[c].pc = "prepare" /\ calls[c].pk = Durable
  /\ IF running(Durable) THEN Returned(c)
     ELSE calls' = [calls EXCEPT ![c].pc = "reserve"]
  /\ UNCHANGED <<srow, lease, native, pidloc, procs, eng, minted, retired, taken,
                 leaked, contested, tripped, nlaunch, lfaults>>

-----------------------------------------------------------------------------
(* Launches *)

\* The kernel does not hand out a pid again within the seconds that a start or
\* an engine needs to look at it; afterwards it may.
FreeSlots == {s \in LSlots : /\ ~procs[s].alive
                             /\ \A pk \in PKs : \A e \in eng[pk] : e.pid # s
                             /\ \A c \in LCallers : calls[c].slot # s}

Begin(c, call) ==
  /\ calls[c].pc = "idle" /\ nlaunch < MaxLaunches
  /\ \A d \in LCallers : d < c => calls[d].pc # "idle"     \* callers are alike
  /\ nlaunch' = nlaunch + 1
  /\ calls' = [calls EXCEPT ![c] = call]
  /\ UNCHANGED <<srow, lease, native, pidloc, procs, eng, minted, retired, taken,
                 leaked, contested, tripped, lfaults>>

\* rpc_pty_spawn (and every other spawn_agent_inner_full)
rpc_pty_spawn(c) ==
  \E named \in BOOLEAN :
    /\ named => ~occupied(NamedHandle)            \* ensure_custom_handle_available
    /\ Begin(c, [NoCall EXCEPT !.kind = "launch", !.pc = "prepare", !.pk = 1,
                               !.named = named])

SpawnDurable(c) == Begin(c, [NoCall EXCEPT !.kind = "launch", !.pc = "prepare"])

Resuming(pk, ns) == [NoCall EXCEPT !.kind = "resume", !.pc = "load", !.pk = pk, !.nat = ns]

\* rpc_pty_resume and rpc_pty_launch_existing: a stopped row with a token
rpc_pty_resume(c) ==
  \E pk \in PKs :
    /\ srow[pk].st = "stopped" /\ resume_token_for(pk) # {}
    /\ Begin(c, Resuming(pk, resume_token_for(pk)))

\* live_pty_for_session
live_pty_for_session(pk) ==
  running(pk) /\ srow[pk].ep # 0 /\ procs[srow[pk].ep].alive

\* rpc_pty_resume_native: a mapped id resumes its row (a live PTY attaches, a
\* running row refuses); an id without a locator is adopted under a new one.
rpc_pty_resume_native(c) ==
  \E n \in Natives :
    \/ /\ native[n] = {}
       /\ Begin(c, [NoCall EXCEPT !.kind = "adopt", !.pc = "prepare", !.pk = 1, !.nat = {n}])
    \/ \E pk \in native[n] :
         /\ ~live_pty_for_session(pk) /\ ~running(pk)
         /\ Begin(c, Resuming(pk, {n}))

\* decide_pty_wrap: a running row outside a live PTY that has a token
decide_pty_wrap(c) ==
  \E pk \in Derived :
    /\ running(pk) /\ ~live_pty_for_session(pk) /\ resume_token_for(pk) # {}
    /\ Begin(c, [NoCall EXCEPT !.kind = "resume", !.pc = "kill", !.pk = pk,
                               !.nat = resume_token_for(pk)])

\* The process a row tracks: by its pid, which another process may reuse.
ProcessOf(pk) == {s \in LSlots : s = srow[pk].pid /\ procs[s].alive}

\* rpc_session_kill inside the wrap.  terminate_explicit needs the endpoint or
\* the pid of the row: a row admitted by a launch that is not registered yet
\* has neither.  A row that is already stopped counts as killed.
WrapKill(c) ==
  /\ calls[c].pc = "kill"
  /\ LET pk == calls[c].pk IN
     \/ /\ ~running(pk)
        /\ calls' = [calls EXCEPT ![c].pc = "load"]
        /\ UNCHANGED <<procs, srow, lease, eng, lfaults>>
     \/ /\ running(pk) /\ srow[pk].pid # 0
        /\ procs' = [s \in LSlots |-> IF s \in ProcessOf(pk) THEN NoProc ELSE procs[s]]
        /\ srow' = StoppedRow(pk) /\ lease' = mark_handle_stopped(lease, pk)
        /\ cancel_session({pk})
        /\ calls' = [calls EXCEPT ![c].pc = "load"]
        /\ UNCHANGED lfaults
     \/ /\ running(pk) /\ (srow[pk].pid = 0 \/ lfaults < LMaxFaults)
        /\ lfaults' = IF srow[pk].pid = 0 THEN lfaults ELSE lfaults + 1
        /\ Returned(c) /\ UNCHANGED <<procs, srow, lease, eng>>
  /\ UNCHANGED <<native, pidloc, minted, retired, taken, leaked, contested, tripped, nlaunch>>

\* reserve_resume_exact, first half: the persisted signer and handle
LoadIdentity(c) ==
  /\ calls[c].pc = "load"
  /\ IF load_session_identity(calls[c].pk)
     THEN calls' = [calls EXCEPT ![c].pc = "reserve"]
     ELSE Returned(c)
  /\ UNCHANGED <<srow, lease, native, pidloc, procs, eng, minted, retired, taken,
                 leaked, contested, tripped, nlaunch, lfaults>>

\* reserve_prepared
reserve_prepared(c) ==
  /\ calls[c].pc = "reserve"
  /\ LET pk == calls[c].pk IN
     IF CanReserve(pk)
     THEN /\ reserve_session_with_facts(pk)
          /\ calls' = [calls EXCEPT ![c].pc = IF calls[c].kind = "adopt" THEN "claim" ELSE "open",
                                    ![c].gen = srow[pk].gen + 1]
     ELSE Returned(c) /\ UNCHANGED <<srow, lease>>
  /\ UNCHANGED <<native, pidloc, procs, eng, minted, retired, taken, leaked, contested, tripped,
                 nlaunch, lfaults>>

\* adopt_native_session: the claim decides between two adoptions of one id
Claim(c) ==
  /\ calls[c].pc = "claim"
  /\ \E n \in calls[c].nat :
       LET pk == calls[c].pk IN
        /\ native' = claim_native_resume_locator(pk, n)
        /\ IF native'[n] = {pk}
           THEN calls' = [calls EXCEPT ![c].pc = "open"] /\ UNCHANGED <<srow, lease>>
           ELSE Returned(c) /\ release(c)
  /\ UNCHANGED <<pidloc, procs, eng, minted, retired, taken, leaked, contested, tripped, nlaunch, lfaults>>

\* The child runs under the identity of its reservation.
HostedProcess(c) == [alive |-> TRUE, hosted |-> TRUE, pk |-> calls[c].pk, nat |-> calls[c].nat]

\* open_agent_session / transport.resume: the process, or release
open_agent_session(c) ==
  /\ calls[c].pc = "open"
  /\ \/ /\ \E s \in LeastOf(FreeSlots) :
           /\ procs' = [procs EXCEPT ![s] = HostedProcess(c)]
           /\ calls' = [calls EXCEPT ![c].pc = "locate", ![c].slot = s,
                \* launch_resume hands session_start no reclaimed pubkey
                ![c].reclaimed = IF calls[c].kind = "launch" THEN @ ELSE {}]
        /\ UNCHANGED <<srow, lease, lfaults>>
     \/ /\ lfaults < LMaxFaults /\ lfaults' = lfaults + 1
        /\ Returned(c) /\ release(c)
        /\ UNCHANGED procs
  /\ UNCHANGED <<native, pidloc, eng, minted, retired, taken, leaked, contested, tripped, nlaunch>>

-----------------------------------------------------------------------------
(* session_start: called by the launch for the process it opened, and by    *)
(* the hooks of every harness process                                       *)

\* A hook of a live process; a harness runs its hooks one at a time.
Hook(c) ==
  \E s \in LSlots :
    /\ procs[s].alive
    /\ \A d \in LCallers : ~(calls[d].kind = "hook" /\ calls[d].slot = s)
    /\ Begin(c, [NoCall EXCEPT !.kind = "hook", !.pc = "locate", !.slot = s,
                               !.pk = procs[s].pk, !.nat = procs[s].nat])

\* resolve_existing_pubkey: the pubkey of the launch environment, else the
\* native locator, and the pid only when the caller has no native id.
resolve_existing_pubkey(c) ==
  LET s == calls[c].slot IN
  IF calls[c].kind # "hook" \/ procs[s].hosted THEN {calls[c].pk}
  ELSE IF calls[c].nat # {} THEN UNION {native[n] : n \in calls[c].nat}
  ELSE {l.pk : l \in pidloc[s]}

\* A call that fails: the guard of session_start stops the generation it
\* holds, and a launch kills its process and releases its reservation.
Abandon(c) ==
  LET r == calls[c] IN
  /\ Returned(c)
  /\ procs' = IF r.kind # "hook" /\ r.slot # 0 THEN [procs EXCEPT ![r.slot] = NoProc] ELSE procs
  /\ IF r.armed \/ r.kind # "hook"
     THEN release(c)
     ELSE UNCHANGED <<srow, lease>>

SessionStartLocate(c) ==
  /\ calls[c].pc = "locate"
  /\ LET found == resolve_existing_pubkey(c) IN
     \/ /\ found = {}
        /\ calls' = [calls EXCEPT ![c].pc = "prepare", ![c].pk = 1]
        /\ UNCHANGED <<srow, lease, procs>>
     \/ \E pk \in found :
          IF load_session_identity(pk)
          THEN /\ calls' = [calls EXCEPT ![c].pc = "retire", ![c].pk = pk]
               /\ UNCHANGED <<srow, lease, procs>>
          ELSE Abandon(c)
  /\ UNCHANGED <<native, pidloc, eng, minted, retired, taken, leaked, contested, tripped, nlaunch, lfaults>>

\* retire_conflicting_pid_runtime: another running session on the same pid
Superseded(c) ==
  {l.pk : l \in {x \in pidloc[calls[c].slot] : x.pk # calls[c].pk /\ running(x.pk)}}

\* The locator is of an earlier generation, and its pid has been given away since.
Misjudged(c) ==
  {l.pk : l \in {x \in pidloc[calls[c].slot] : x.pk \in Superseded(c) /\ x.gen # srow[x.pk].gen}}

\* stop_generation of the superseded runtime; a failure ends the call after
\* a fresh identity was leased.
retire_conflicting_pid_runtime(c) ==
  /\ calls[c].pc = "retire"
  /\ \/ /\ srow' = [pk \in PKs |-> IF pk \in Superseded(c) THEN [srow[pk] EXCEPT !.st = "stopped"]
                                   ELSE srow[pk]]
        /\ lease' = [h \in Handles |->
             {IF l.pk \in Superseded(c) THEN [l EXCEPT !.live = FALSE, !.stale = FALSE] ELSE l :
                l \in lease[h]}]
        /\ cancel_session(Superseded(c))
        /\ calls' = [calls EXCEPT ![c].pc = "check"]
        /\ tripped' = tripped \cup Misjudged(c)
        /\ UNCHANGED <<leaked, lfaults, procs>>
     \/ /\ lfaults < LMaxFaults /\ lfaults' = lfaults + 1
        /\ leaked' = IF srow[calls[c].pk].st = "none" THEN leaked \cup {calls[c].pk} ELSE leaked
        /\ Abandon(c) /\ UNCHANGED <<eng, tripped>>
  /\ UNCHANGED <<native, pidloc, minted, retired, taken, contested, nlaunch>>

\* This start finds an engine of another generation, or a generation without
\* an engine that another call is starting.
Overlaps(c) ==
  LET pk == calls[c].pk IN
  \/ \E e \in eng[pk] : e.gen # srow[pk].gen
  \/ eng[pk] = {} /\ \E d \in LCallers \ {c} : calls[d].pk = pk /\ calls[d].gen = srow[pk].gen

\* existing and already_running, read once and used to the end of the call;
\* already_running asks for an engine of the pubkey, of whatever generation
CheckRunning(c) ==
  /\ calls[c].pc = "check"
  /\ LET pk == calls[c].pk IN
     calls' = [calls EXCEPT ![c].pc = "admit", ![c].runs = running(pk),
                            ![c].gen = srow[pk].gen,
                            ![c].already = running(pk) /\ eng[pk] # {}]
  /\ tripped' = IF Overlaps(c) THEN tripped \cup {calls[c].pk} ELSE tripped
  /\ UNCHANGED <<srow, lease, native, pidloc, procs, eng, minted, retired, taken,
                 leaked, contested, nlaunch, lfaults>>

\* reserve_generation: the running row's generation, or a new one
reserve_generation(c) ==
  /\ calls[c].pc = "admit"
  /\ LET pk == calls[c].pk IN
     IF calls[c].runs
     THEN /\ calls' = [calls EXCEPT ![c].pc = "bind", ![c].armed = ~calls[c].already]
          /\ UNCHANGED <<srow, lease, procs>>
     ELSE IF CanReserve(pk)
     THEN /\ reserve_session_with_facts(pk)
          /\ calls' = [calls EXCEPT ![c].pc = "bind", ![c].gen = srow[pk].gen + 1,
                                    ![c].armed = TRUE]
          /\ UNCHANGED <<procs>>
     ELSE Abandon(c)
  /\ UNCHANGED <<native, pidloc, eng, minted, retired, taken, leaked, contested, tripped, nlaunch, lfaults>>

\* Whoever had the native id that this start reports, and the pubkey itself when
\* somebody had, or when another process than this one is its running session.
Rivals(c) ==
  LET pk == calls[c].pk
      former == UNION {native[n] : n \in calls[c].nat} \ {pk}
  IN former \cup {p \in {pk} : former # {} \/ \E e \in eng[p] : e.pid # calls[c].slot}

\* bind_runtime_process and bind_locators, in one visit to the store
BindRuntime(c) ==
  /\ calls[c].pc = "bind"
  /\ LET pk == calls[c].pk
         s == calls[c].slot
     IN IF running(pk) /\ srow[pk].gen = calls[c].gen
        THEN /\ srow' = [srow EXCEPT ![pk].pid = s,
                                     ![pk].ep = IF procs[s].hosted THEN s ELSE @]
             /\ native' = set_native_resume_locator(pk, calls[c].nat)
             /\ pidloc' = put_pid_locator(pk, s)
             /\ contested' = contested \cup Rivals(c)
             /\ calls' = [calls EXCEPT ![c].pc = "profile"]
             /\ UNCHANGED <<lease, procs>>
        ELSE Abandon(c) /\ UNCHANGED <<native, pidloc, contested>>
  /\ UNCHANGED <<eng, minted, retired, taken, leaked, tripped, nlaunch, lfaults>>

\* retire_reclaimed_profile: the former owner of the handle is republished
\* under its npub.  A failed enqueue ends the call.
retire_reclaimed_profile(c) ==
  /\ calls[c].pc = "profile"
  /\ \/ /\ retired' = retired \cup calls[c].reclaimed
        /\ calls' = [calls EXCEPT ![c].pc = "engine"]
        /\ UNCHANGED <<srow, lease, procs, lfaults>>
     \/ /\ calls[c].reclaimed # {} /\ lfaults < LMaxFaults /\ lfaults' = lfaults + 1
        /\ Abandon(c) /\ UNCHANGED retired
  /\ UNCHANGED <<native, pidloc, eng, minted, taken, leaked, contested, tripped, nlaunch>>

\* advisory::plan: a call that found the session running returns without a spawn
Reasserts(c) == calls[c].already

NewEngine(c) == {[gen |-> calls[c].gen, pid |-> calls[c].slot, cancelled |-> FALSE]}

\* The reassert return, or spawn_session: refused when an engine of this or a
\* newer generation exists, and then the guard stops the shared generation.
spawn_session(c) ==
  /\ calls[c].pc = "engine"
  /\ LET pk == calls[c].pk
         gen == calls[c].gen
     IN \/ /\ Reasserts(c)
           /\ Returned(c) /\ UNCHANGED <<srow, lease, procs, eng>>
        \/ /\ ~Reasserts(c) /\ \A e \in eng[pk] : e.gen < gen
           /\ eng' = [eng EXCEPT ![pk] = NewEngine(c)]
           /\ Returned(c) /\ UNCHANGED <<srow, lease, procs>>
        \/ /\ ~Reasserts(c) /\ \E e \in eng[pk] : e.gen >= gen
           /\ Abandon(c) /\ UNCHANGED eng
  /\ UNCHANGED <<native, pidloc, minted, retired, taken, leaked, contested, tripped, nlaunch, lfaults>>

-----------------------------------------------------------------------------
(* The rest of the machine *)

\* The user starts a harness in a terminal, on a native id nobody runs.
UserStarts ==
  /\ nlaunch < MaxLaunches /\ nlaunch' = nlaunch + 1
  /\ \A s \in LSlots : procs[s].alive => procs[s].hosted
  /\ \E n \in Natives, slot \in LeastOf(FreeSlots) :
       /\ \A s \in LSlots : n \notin procs[s].nat
       /\ procs' = [procs EXCEPT ![slot] =
                      [alive |-> TRUE, hosted |-> FALSE, pk |-> 0, nat |-> {n}]]
  /\ UNCHANGED <<srow, lease, native, pidloc, eng, calls, minted, retired, taken,
                 leaked, contested, tripped, lfaults>>

\* `/clear`: the process goes on under another native id
UserClears ==
  /\ \E s \in LSlots, n \in Natives :
       /\ procs[s].alive /\ ~procs[s].hosted
       /\ \A x \in LSlots : n \notin procs[x].nat
       /\ procs' = [procs EXCEPT ![s].nat = {n}]
  /\ UNCHANGED <<srow, lease, native, pidloc, eng, calls, minted, retired, taken,
                 leaked, contested, tripped, nlaunch, lfaults>>

ProcessExits ==
  /\ \E s \in LSlots :
       /\ procs[s].alive
       /\ \A c \in LCallers : calls[c].slot # s
       /\ procs' = [procs EXCEPT ![s] = NoProc]
  /\ UNCHANGED <<srow, lease, native, pidloc, eng, calls, minted, retired, taken,
                 leaked, contested, tripped, nlaunch, lfaults>>

\* The engine task of a process that is gone, or that was cancelled, ends: it
\* leaves the map and stops the
\* generation it ran (stop_generation with reason Crash).
EngineExits ==
  /\ \E pk \in PKs : \E e \in eng[pk] :
         /\ e.cancelled \/ ~procs[e.pid].alive
         /\ eng' = [eng EXCEPT ![pk] = {}]
         /\ mark_runtime_stopped_if_generation(pk, e.gen)
  /\ UNCHANGED <<native, pidloc, procs, calls, minted, retired, taken, leaked, contested, tripped,
                 nlaunch, lfaults>>

\* Seven days without activity: every dead lease is past its grace.
GracePasses ==
  /\ \E h \in Handles : \E l \in lease[h] : ~l.live /\ ~l.stale
  /\ lease' = [h \in Handles |-> {[l EXCEPT !.stale = ~l.live] : l \in lease[h]}]
  /\ UNCHANGED <<srow, native, pidloc, procs, eng, calls, minted, retired, taken, leaked,
                 contested, tripped, nlaunch, lfaults>>

\* Either nothing happened yet, or pubkey 1 ran native session n and stopped.
LaunchInit ==
  /\ \E before \in BOOLEAN, n \in Natives :
       /\ srow = [pk \in PKs |-> [st |-> IF before /\ pk = 1 THEN "stopped" ELSE "none",
                                  gen |-> IF before /\ pk = 1 THEN 1 ELSE 0, ep |-> 0, pid |-> 0]]
       /\ lease = [h \in Handles |-> IF before /\ h = NamedHandle
                     THEN {[pk |-> 1, live |-> FALSE, stale |-> FALSE]} ELSE {}]
       /\ native = [x \in Natives |-> IF before /\ x = n THEN {1} ELSE {}]
       /\ minted = IF before THEN 1 ELSE 0
  /\ pidloc = [s \in LSlots |-> {}]
  /\ procs = [s \in LSlots |-> NoProc]
  /\ eng = [pk \in PKs |-> {}]
  /\ calls = [c \in LCallers |-> NoCall]
  /\ retired = {} /\ taken = {} /\ leaked = {} /\ contested = {} /\ tripped = {}
  /\ nlaunch = 0 /\ lfaults = 0

CallStep(c) ==
  \/ prepare_session_identity(c) \/ PrepareDurable(c) \/ WrapKill(c) \/ LoadIdentity(c)
  \/ reserve_prepared(c) \/ Claim(c) \/ open_agent_session(c)
  \/ SessionStartLocate(c) \/ retire_conflicting_pid_runtime(c) \/ CheckRunning(c)
  \/ reserve_generation(c) \/ BindRuntime(c) \/ retire_reclaimed_profile(c)
  \/ spawn_session(c)

LaunchNext ==
  \/ \E c \in LCallers :
       \/ rpc_pty_spawn(c) \/ SpawnDurable(c) \/ rpc_pty_resume(c)
       \/ rpc_pty_resume_native(c) \/ decide_pty_wrap(c) \/ Hook(c)
       \/ CallStep(c)
  \/ UserStarts \/ UserClears \/ ProcessExits \/ EngineExits \/ GracePasses

LaunchSpec == LaunchInit /\ [][LaunchNext]_launchVars

-----------------------------------------------------------------------------
(* Properties *)

LaunchTypeOK ==
  /\ srow \in [PKs -> [st : {"none", "running", "stopped"}, gen : Nat, ep : LSlots \cup {0}, pid : LSlots \cup {0}]]
  /\ \A h \in Handles : lease[h] \subseteq [pk : Derived, live : BOOLEAN, stale : BOOLEAN]
                        /\ Cardinality(lease[h]) <= 1
  /\ \A pk \in Derived : Cardinality(LeaseOf(pk)) <= 1
  /\ \A n \in Natives : native[n] \subseteq PKs /\ Cardinality(native[n]) <= 1
  /\ \A s \in LSlots : Cardinality(pidloc[s]) <= 1
  /\ \A pk \in PKs : Cardinality(eng[pk]) <= 1
  /\ retired \subseteq PKs

HeldBy(pk) == {c \in LCallers : calls[c].pc \notin {"idle", "prepare", "locate", "kill", "load"}
                                /\ calls[c].pk = pk}
              \cup {c \in LCallers : calls[c].kind # "hook" /\ calls[c].pc = "locate"
                                     /\ calls[c].pk = pk}

\* A running session answers to a public handle: from the moment a generation
\* is reserved its pubkey owns a live lease, whatever other launches allocate.
\* (A session that lost its handle while it was stopped is the exception.)
RunningHasHandle ==
  \A pk \in Derived : running(pk) /\ pk \notin taken =>
    \E h \in Handles : \E l \in lease[h] : l.pk = pk /\ l.live

\* No reservation is left behind: a running row has an engine, or a call that
\* will still give it one or release it.
ReservationResolves ==
  \A pk \in PKs \ tripped : running(pk) => EngineOf(pk, srow[pk].gen) \/ HeldBy(pk) # {}

\* A live lease is the lease of a session that runs or is being started; only
\* a call that dies between the lease and the row leaves one behind.
LiveLeaseBacked ==
  \A h \in Handles : \A l \in lease[h] :
    l.live => running(l.pk) \/ HeldBy(l.pk) # {} \/ l.pk \in leaked

\* The daemon never opens two processes on one native session: adoption,
\* resume, attach and takeover exclude each other through the locator and the
\* row, whichever order their transactions take.  (A generation that two starts
\* share, or that a reused pid stops, can be stopped under its live process and
\* resumed again; so can a session that the user also runs in a terminal.)
NativeOnce ==
  \A s, t \in LSlots :
    /\ s # t /\ procs[s].alive /\ procs[s].hosted /\ procs[t].alive /\ procs[t].hosted
    /\ {procs[s].pk, procs[t].pk} \cap (tripped \cup contested) = {}
    => procs[s].nat \cap procs[t].nat = {}

\* One terminal process is one running session: when it goes on under another
\* native id the session it was is retired.
OneSessionPerProcess ==
  \A p, q \in PKs \ (tripped \cup contested) :
    p # q /\ running(p) /\ running(q) /\ eng[p] # {} /\ eng[q] # {} =>
      \A s \in LSlots : s \in ProcessOf(p) \cap ProcessOf(q) => procs[s].hosted

\* A handle that changes hands is retired from its former owner's profile
\* before the session launched under it gets its engine.
ReclaimedIsRetired ==
  \A c \in LCallers : calls[c].pc = "engine" /\ ~calls[c].already =>
    calls[c].reclaimed \subseteq retired

\* An engine that nobody cancelled and whose process lives serves the
\* generation the store calls running.  Two starts that share one generation
\* are the exception: the one that fails stops the row under the other.
EngineIsCurrent ==
  \A pk \in PKs \ tripped : \A e \in eng[pk] :
    ~e.cancelled /\ procs[e.pid].alive => running(pk) /\ srow[pk].gen = e.gen

\* What overlapping launches, resumes and hooks keep between handles, rows,
\* engines, native sessions and processes.
LaunchSafe == LaunchTypeOK /\ RunningHasHandle /\ ReservationResolves /\ LiveLeaseBacked
              /\ NativeOnce /\ OneSessionPerProcess /\ ReclaimedIsRetired /\ EngineIsCurrent
=============================================================================
