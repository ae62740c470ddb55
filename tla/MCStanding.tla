----------------------------- MODULE MCStanding -----------------------------
(***************************************************************************)
(* SessionStanding for TLC.  The callers are interchangeable: an action    *)
(* treats them alike and no property names one, so the run may take one    *)
(* representative of each permutation of them.  A behaviour takes its      *)
(* bounds from one of four scenarios; the constants of SessionStanding are *)
(* the largest of them.                                                    *)
(***************************************************************************)
EXTENDS SessionStanding, TLC

VARIABLE caps   \* the bounds of this behaviour

CallerSymmetry == Permutations(Callers)

Caps(gen, evict, rejected, lost, errors, crashes, forgets, leaves) ==
  [gen |-> gen, evict |-> evict,
   spent |-> [requests |-> 2, rejected |-> rejected, grants |-> lost, removals |-> lost,
              errors |-> errors, crashes |-> crashes, forgets |-> forgets,
              leaves |-> leaves]]

\* A relaunch with a leave under a relay that may refuse and a store that may fail,
\* with a forget under a store that may fail, and with both; evictions with a crash,
\* lost answers and a store that may fail.
Scenarios ==
  {Caps(2, FALSE, 1, 0, 1, 0, 0, 1), Caps(2, FALSE, 0, 0, 1, 0, 1, 0),
   Caps(2, FALSE, 0, 0, 0, 0, 1, 1), Caps(1, TRUE, 0, 1, 1, 1, 0, 0)}

Fits ==
  /\ row.gen <= caps.gen /\ (row.rt = "stopping" => caps.evict)
  /\ \A k \in DOMAIN Budget : spent[k] <= caps.spent[k]

In(A) == UNCHANGED caps /\ A /\ Fits'

CappedInit == Init /\ caps \in Scenarios

CappedNext ==
  \/ In(Tick) \/ In(Launch) \/ In(RuntimeStops) \/ In(EvictionReserved)
  \/ In(EvictionCancelled) \/ In(EvictionFinalized) \/ In(Crash)
  \/ \E t \in Callers : In(Request(t)) \/ In(RecoveryRequest(t))
  \/ \E t \in Tasks :
       \/ In(AdmitLock(t)) \/ In(Grant(t)) \/ In(Commit(t)) \/ In(Fallback(t))
       \/ In(Remove(t)) \/ In(Mark(t))
  \/ In(Repair) \/ In(Expire) \/ In(Leave) \/ In(LeaveLock)
  \/ In(ForgetRevoke) \/ In(ForgetTerminate) \/ In(ForgetFinalize) \/ In(ForgetLock)

CappedSpec == CappedInit /\ [][CappedNext]_<<vars, caps>>
=============================================================================
