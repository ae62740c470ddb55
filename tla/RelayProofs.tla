---------------------------- MODULE RelayProofs ----------------------------
(***************************************************************************)
(* What others see of a session, what the daemon sees of the relays, and    *)
(* what it does there for a session's standing, for every value of the      *)
(* bounds.                                                                  *)
(*                                                                         *)
(* PresenceStatus: whoever may close generation g (a stop between its two  *)
(* steps, a cancelled engine) belongs to a generation the row has left or  *)
(* stopped; and a renewal period ends only when nobody is under way, so a  *)
(* row that has been stopped for a period has no engine and no reader left *)
(* that could publish it as live again.                                    *)
(*                                                                         *)
(* RelayCoverage: an observation and its drain thread are replaced in one  *)
(* step, so that a replay outside the sync lock cannot leave two threads   *)
(* of a key or none; and a sync's plan still opens whatever is wanted and  *)
(* not yet believed applied, so that an exhausted plan covers everything.  *)
(*                                                                         *)
(* SessionStanding: only the holder of the lane is between its lock and     *)
(* its release, with a confirmed grant still on the relay until it is       *)
(* committed; and the epoch a task carries is never ahead of the row's.     *)
(***************************************************************************)
EXTENDS PresenceStatus, RelayCoverage, SessionStanding, SessionRowProofs, FiniteSetTheorems, TLAPS

-----------------------------------------------------------------------------
(* The invariant.                                                          *)

Rows == [gen : PGens, run : BOOLEAN, work : BOOLEAN, path : BOOLEAN, chans : SUBSET PChannels]
EngineTasks == [st : {"none", "starting", "opening", "up"}, cancel : BOOLEAN]
Reads == [kind : {"open", "reconcile"}, gen : PGens, proj : SUBSET Projections]
Recs == [gen : PGens, proj : Projections, live : BOOLEAN, armed : BOOLEAN]
Events == [status : Statuses, age : 0..(AgeCap - 1)]
Mirrored == [state : PStates, age : 0..AgeCap, left : -1..LeaseTicks]

RowTyped == prow \in Rows
EngineTyped == engine \in [PGens -> EngineTasks]
ClosingTyped == closing \subseteq PGens
ReadsTyped == reads \subseteq Reads
RecTyped == prec \subseteq Recs /\ \A a, b \in prec : a = b
WireTyped == wire \subseteq Events
MirrorTyped == pmirror \in [PChannels -> SUBSET Mirrored]
AgeTyped == stopAge \in 0..(LeaseTicks + 1)

Types ==
    /\ RowTyped /\ EngineTyped /\ ClosingTyped /\ ReadsTyped /\ RecTyped
    /\ WireTyped /\ MirrorTyped /\ AgeTyped

\* Generation g is over: the row has gone on to a later one or has stopped.
Over(g) == g < prow.gen \/ (g = prow.gen /\ ~prow.run)

\* Who may close a generation belongs to one that is over.
ClosersAreOver == \A g \in PGens : g \in closing \/ engine[g].cancel => Over(g)

\* An engine that nobody has cancelled is that of the running row.
EnginesAreCurrent ==
    \A g \in PGens : engine[g].st = "none" \/ engine[g].cancel \/ (g = prow.gen /\ prow.run)

\* An engine has one open under way, and only between its start and its lease.
OpensAreEngines ==
    /\ \A r \in reads : r.kind = "open" => engine[r.gen].st = "opening"
    /\ \A r, q \in reads : r.kind = "open" /\ q.kind = "open" /\ r.gen = q.gen => r = q

\* Nobody is left to publish as live a session that was stopped for a period.
AtRest ==
    stopAge > 0 =>
        /\ ~prow.run /\ reads = {} /\ closing = {}
        /\ \A g \in PGens : engine[g].st = "none"

\* A status that may outlast what is left of the lease since the stop is an end.
Spent(s) == s.state = "offline" \/ s.left <= LeaseTicks - stopAge
OutsSpent == \A o \in outs : o.status \in Statuses /\ Spent(o.status)
JobsSpent ==
    /\ Len(jobs) <= QueueCap
    /\ \E S : jobs \in Seq(S) /\ \A s \in S : s.status \in Statuses /\ Spent(s.status)
WireSpent == \A e \in wire : Spent(e.status)
MirrorSpent == \A c \in PChannels : \A m \in pmirror[c] : Spent(m)

Ends == ClosersAreOver /\ EnginesAreCurrent /\ OpensAreEngines /\ AtRest
Leases == OutsSpent /\ JobsSpent /\ WireSpent /\ MirrorSpent
PresenceInv == Types /\ Ends /\ Leases

-----------------------------------------------------------------------------
(* The reconciler's operations: what they do to the one record and to the  *)
(* outcomes that wait to be submitted.                                     *)

\* The step of CloseIsOwn.
Own ==
    \A r \in prec, n \in prec' :
        /\ n.gen >= r.gen
        /\ (n.gen = r.gen /\ r.live /\ ~n.live) => (prow'.gen > r.gen \/ ~prow'.run)

\* Only generation g may have gone offline.
OnlyCloses(g) ==
    \A r \in prec, n \in prec' :
        /\ n.gen >= r.gen
        /\ (n.gen = r.gen /\ r.live /\ ~n.live) => r.gen = g

\* Nothing has gone offline.
ClosesNone ==
    \A r \in prec, n \in prec' :
        n.gen >= r.gen /\ (n.gen = r.gen /\ r.live => n.live)

Published == \A o \in outs' : o \in outs \/ (o.status \in Statuses /\ Spent(o.status))

LEMMA Constants ==
    /\ LeaseTicks \in Nat /\ LeaseTicks > 0 /\ QueueCap \in Nat /\ QueueCap > 0
    /\ PMaxGen \in Nat /\ 1 \in PGens /\ PGens \subseteq Nat
    /\ PChannels # {} /\ Home \in PChannels
<1>1. \E c \in PChannels : TRUE
  BY LeaseAssumption
<1>2. Home \in PChannels
  BY <1>1 DEF Home
<1> QED
  BY <1>2, LeaseAssumption DEF PGens

\* What is published of a record is a status, and an end when it expires.
LEMMA StatusOf ==
    ASSUME NEW r \in Recs, NEW b \in BOOLEAN
    PROVE  /\ to_status(command_of(r), b) \in Statuses
           /\ b => to_status(command_of(r), b).state = "offline"
<1> DEFINE cmd == command_of(r)
<1>1. cmd \in Projections
  BY DEF command_of, Recs, Projections, PStates
<1>2. LeaseTicks \in Nat
  BY Constants
<1> HIDE DEF cmd
<1>3. to_status(cmd, b) \in Statuses /\ (b => to_status(cmd, b).state = "offline")
  BY <1>1, <1>2 DEF to_status, Statuses, Projections, PStates
<1> QED
  BY <1>3 DEF cmd

\* As long as nothing is stopped for a period, every status may go out.
LEMMA FreshIsSpent ==
    ASSUME stopAge = 0, NEW s \in Statuses
    PROVE  Spent(s)
BY Constants DEF Spent, Statuses

LEMMA OutcomePublishes ==
    ASSUME NEW t, NEW s \in Statuses, Spent(s), Outcome(t, s)
    PROVE  Published
<1>1. ASSUME NEW o \in outs', o \notin outs
      PROVE  o.status = s
  BY <1>1 DEF Outcome
<1> QED
  BY <1>1 DEF Published

LEMMA OwnedChosen ==
    ASSUME RecTyped, NEW g, owned_mut(g) # {}
    PROVE  /\ (CHOOSE x \in owned_mut(g) : TRUE) \in prec
           /\ (CHOOSE x \in owned_mut(g) : TRUE) \in Recs
           /\ (CHOOSE x \in owned_mut(g) : TRUE).gen = g
           /\ prec = {CHOOSE x \in owned_mut(g) : TRUE}
<1> DEFINE r == CHOOSE x \in owned_mut(g) : TRUE
<1>1. \E x : x \in owned_mut(g)
  OBVIOUS
<1>2. r \in owned_mut(g)
  BY <1>1
<1> HIDE DEF r
<1>3. r \in prec /\ r.gen = g
  BY <1>2 DEF owned_mut
<1>4. r \in Recs /\ prec = {r}
  BY <1>3 DEF RecTyped
<1> QED
  BY <1>3, <1>4 DEF r

LEMMA RecordGenerations ==
    ASSUME RecTyped
    PROVE  \A r \in prec : r.gen \in Nat
<1>1. \A r \in prec : r.gen \in PGens
  BY DEF RecTyped, Recs
<1> QED
  BY <1>1, Constants

\* An operation that finds nothing to do.
LEMMA NothingDone ==
    ASSUME RecTyped, NoOutcome, UNCHANGED prec
    PROVE  RecTyped' /\ Published /\ ClosesNone /\ \A g : OnlyCloses(g)
<1>1. RecTyped' /\ Published
  BY DEF RecTyped, NoOutcome, Published
<1>2. ClosesNone
  BY RecordGenerations DEF ClosesNone, RecTyped
<1>3. \A g : OnlyCloses(g)
  BY RecordGenerations DEF OnlyCloses, RecTyped
<1> QED
  BY <1>1, <1>2, <1>3

LEMMA OpenStep ==
    ASSUME RecTyped, stopAge = 0, NEW g \in PGens, NEW p \in Projections, open(g, p)
    PROVE  RecTyped' /\ Published /\ ClosesNone
<1>0. g \in Nat
  BY Constants
<1>1. CASE \E r \in prec : r.gen >= g
  BY <1>1, NothingDone DEF open
<1>2. CASE ~\E r \in prec : r.gen >= g
  <2> DEFINE r == [gen |-> g, proj |-> p, live |-> TRUE, armed |-> TRUE]
  <2>1. r \in Recs /\ r.gen = g
    BY DEF Recs
  <2>2. prec' = {r} /\ Outcome(g, to_status(command_of(r), FALSE))
    BY <1>2 DEF open
  <2>3. to_status(command_of(r), FALSE) \in Statuses
    BY <2>1, StatusOf
  <2> HIDE DEF r
  <2>4. Published
    BY <2>2, <2>3, FreshIsSpent, OutcomePublishes
  <2>5. \A q \in prec : q.gen < g
    BY <1>2, RecordGenerations, <1>0
  <2>6. ClosesNone
    BY <2>1, <2>2, <2>5, RecordGenerations, <1>0 DEF ClosesNone
  <2> QED
    BY <2>1, <2>2, <2>4, <2>6 DEF RecTyped
<1> QED
  BY <1>1, <1>2

LEMMA ReconcileStep ==
    ASSUME RecTyped, stopAge = 0, NEW g \in PGens, NEW p \in Projections, reconcile(g, p)
    PROVE  RecTyped' /\ Published /\ ClosesNone
<1>1. CASE owned_mut(g) = {}
  BY <1>1, NothingDone DEF reconcile
<1>2. CASE owned_mut(g) # {}
  <2> DEFINE r == CHOOSE x \in owned_mut(g) : TRUE
             n == [r EXCEPT !.proj = p, !.live = TRUE]
  <2>1. r \in Recs /\ r.gen = g /\ prec = {r}
    BY <1>2, OwnedChosen
  <2>2. /\ prec' = {n}
        /\ Outcome(0, to_status(command_of(n), FALSE)) \/ NoOutcome
    BY <1>2 DEF reconcile
  <2> HIDE DEF r
  <2>3. n \in Recs /\ n.gen = g /\ n.live
    BY <2>1 DEF Recs
  <2> HIDE DEF n
  <2>4. to_status(command_of(n), FALSE) \in Statuses
    BY <2>3, StatusOf
  <2>5. Published
    <3>1. CASE NoOutcome
      BY <3>1 DEF NoOutcome, Published
    <3>2. CASE Outcome(0, to_status(command_of(n), FALSE))
      BY <3>2, <2>4, FreshIsSpent, OutcomePublishes
    <3> QED
      BY <2>2, <3>1, <3>2
  <2>6. ClosesNone
    BY <2>1, <2>2, <2>3, Constants DEF ClosesNone
  <2> QED
    BY <2>2, <2>3, <2>5, <2>6 DEF RecTyped
<1> QED
  BY <1>1, <1>2

LEMMA RenewStep ==
    ASSUME RecTyped, stopAge = 0, NEW g \in PGens, renew(g)
    PROVE  RecTyped' /\ Published /\ ClosesNone
<1>1. CASE ~\E r \in owned_mut(g) : ~r.armed
  BY <1>1, NothingDone DEF renew
<1>2. CASE \E r \in owned_mut(g) : ~r.armed
  <2> DEFINE r == CHOOSE x \in owned_mut(g) : TRUE
             n == [r EXCEPT !.armed = TRUE]
  <2>1. r \in Recs /\ r.gen = g /\ prec = {r}
    BY <1>2, OwnedChosen
  <2>2. prec' = {n} /\ Outcome(g, to_status(command_of(r), FALSE))
    BY <1>2 DEF renew
  <2> HIDE DEF r
  <2>3. n \in Recs /\ n.gen = g /\ n.live = r.live
    BY <2>1 DEF Recs
  <2> HIDE DEF n
  <2>4. to_status(command_of(r), FALSE) \in Statuses
    BY <2>1, StatusOf
  <2>5. Published
    BY <2>2, <2>4, FreshIsSpent, OutcomePublishes
  <2>6. ClosesNone
    BY <2>1, <2>2, <2>3, Constants DEF ClosesNone
  <2> QED
    BY <2>2, <2>3, <2>5, <2>6 DEF RecTyped
<1> QED
  BY <1>1, <1>2

LEMMA CloseStep ==
    ASSUME RecTyped, stopAge = 0, NEW g \in PGens, NEW t, close(g, t)
    PROVE  RecTyped' /\ Published /\ OnlyCloses(g)
<1>1. CASE ~\E r \in owned_mut(g) : r.live
  BY <1>1, NothingDone DEF close
<1>2. CASE \E r \in owned_mut(g) : r.live
  <2> DEFINE r == CHOOSE x \in owned_mut(g) : TRUE
             n == [r EXCEPT !.live = FALSE]
  <2>1. r \in Recs /\ r.gen = g /\ prec = {r}
    BY <1>2, OwnedChosen
  <2>2. prec' = {n} /\ Outcome(t, to_status(command_of(n), FALSE))
    BY <1>2 DEF close
  <2> HIDE DEF r
  <2>3. n \in Recs /\ n.gen = g
    BY <2>1 DEF Recs
  <2> HIDE DEF n
  <2>4. to_status(command_of(n), FALSE) \in Statuses
    BY <2>3, StatusOf
  <2>5. Published
    BY <2>2, <2>4, FreshIsSpent, OutcomePublishes
  <2>6. OnlyCloses(g)
    BY <2>1, <2>2, <2>3, Constants DEF OnlyCloses
  <2> QED
    BY <2>2, <2>3, <2>5, <2>6 DEF RecTyped
<1> QED
  BY <1>1, <1>2

\* A revocation publishes an end, at whatever age.
LEMMA RevokeStep ==
    ASSUME RecTyped, NEW g \in PGens, revoke(g)
    PROVE  RecTyped' /\ Published /\ ClosesNone
<1>1. CASE owned_mut(g) = {}
  BY <1>1, NothingDone DEF revoke
<1>2. CASE owned_mut(g) # {}
  <2> DEFINE r == CHOOSE x \in owned_mut(g) : TRUE
             s == to_status(command_of(r), TRUE)
  <2>1. r \in Recs
    BY <1>2, OwnedChosen
  <2>2. prec' = {} /\ Outcome(0, s)
    BY <1>2 DEF revoke
  <2> HIDE DEF r
  <2>3. s \in Statuses /\ s.state = "offline"
    BY <2>1, StatusOf
  <2> HIDE DEF s
  <2>4. Spent(s)
    BY <2>3 DEF Spent
  <2> QED
    BY <2>2, <2>3, <2>4, OutcomePublishes DEF RecTyped, ClosesNone
<1> QED
  BY <1>1, <1>2

-----------------------------------------------------------------------------
(* Rows, engines, stops and reads.                                         *)

Control == RowTyped /\ EngineTyped /\ ClosingTyped /\ ReadsTyped /\ AgeTyped /\ Ends

EngineStates == {"none", "starting", "opening", "up"}

LEMMA RowFields ==
    ASSUME RowTyped
    PROVE  /\ prow.gen \in PGens /\ prow.gen \in Nat
           /\ prow.run \in BOOLEAN /\ prow.work \in BOOLEAN
           /\ prow.path \in BOOLEAN /\ prow.chans \in SUBSET PChannels
BY Constants DEF RowTyped, Rows

LEMMA PublicationTyped ==
    ASSUME RowTyped
    PROVE  publication \in Projections
<1>1. classify(prow.run, prow.work, prow.path) \in PStates
  BY RowFields DEF classify, PStates
<1> QED
  BY <1>1, RowFields DEF publication, Projections

LEMMA EngineState ==
    ASSUME EngineTyped, NEW g \in PGens, NEW x \in EngineStates,
           engine' = [engine EXCEPT ![g].st = x]
    PROVE  /\ EngineTyped'
           /\ \A h \in PGens : /\ engine'[h].st = IF h = g THEN x ELSE engine[h].st
                               /\ engine'[h].cancel = engine[h].cancel
BY DEF EngineTyped, EngineTasks, EngineStates

LEMMA EngineCancel ==
    ASSUME EngineTyped, NEW g \in PGens, engine' = [engine EXCEPT ![g].cancel = TRUE]
    PROVE  /\ EngineTyped'
           /\ \A h \in PGens : /\ engine'[h].st = engine[h].st
                               /\ engine'[h].cancel = IF h = g THEN TRUE ELSE engine[h].cancel
BY DEF EngineTyped, EngineTasks

LEMMA EngineGone ==
    ASSUME EngineTyped, NEW g \in PGens,
           engine' = [engine EXCEPT ![g] = [st |-> "none", cancel |-> FALSE]]
    PROVE  /\ EngineTyped'
           /\ \A h \in PGens :
                /\ engine'[h].st = IF h = g THEN "none" ELSE engine[h].st
                /\ engine'[h].cancel = IF h = g THEN FALSE ELSE engine[h].cancel
BY DEF EngineTyped, EngineTasks

\* The row says more than before, or the same, of the same generation.
LEMMA ControlChangeRow ==
    ASSUME Control, ChangeRow
    PROVE  Control'
<1>1. prow'.gen = prow.gen /\ prow'.run = prow.run /\ RowTyped'
  <2> USE RowFields DEF RowTyped, Rows
  <2>1. CASE prow' = [prow EXCEPT !.work = ~@]
    BY <2>1 DEF Control
  <2>2. CASE prow' = [prow EXCEPT !.path = FALSE]
    BY <2>2 DEF Control
  <2>3. ASSUME NEW c \in PChannels,
               prow' = [prow EXCEPT !.chans = IF c \in @ THEN @ \ {c} ELSE @ \cup {c}]
        PROVE  prow'.gen = prow.gen /\ prow'.run = prow.run /\ RowTyped'
    BY <2>3 DEF Control
  <2> QED
    BY <2>1, <2>2, <2>3 DEF ChangeRow
<1> DEFINE q == [kind |-> "reconcile", gen |-> prow.gen, proj |-> {}]
<1>2. q \in Reads /\ q.kind # "open"
  BY RowFields DEF Reads, Control
<1>3. prow.run /\ reads' = reads \cup {q} /\ UNCHANGED <<engine, closing, stopAge>>
  BY DEF ChangeRow, Call
<1> HIDE DEF q
<1>4. EngineTyped' /\ ClosingTyped' /\ ReadsTyped' /\ AgeTyped'
  BY <1>2, <1>3 DEF Control, EngineTyped, ClosingTyped, ReadsTyped, AgeTyped
<1>5. ClosersAreOver' /\ EnginesAreCurrent'
  BY <1>1, <1>3 DEF Control, Ends, ClosersAreOver, EnginesAreCurrent, Over
<1>6. OpensAreEngines'
  BY <1>2, <1>3 DEF Control, Ends, OpensAreEngines
<1>7. AtRest'
  BY <1>3 DEF Control, Ends, AtRest
<1> QED
  BY <1>1, <1>4, <1>5, <1>6, <1>7 DEF Control, Ends

\* A step that takes calls away or lets a reconciliation read the row.
LEMMA ControlReads ==
    ASSUME Control, UNCHANGED <<prow, engine, closing, stopAge>>, ReadsTyped',
           \A r \in reads' : r \in reads \/ (r.kind = "reconcile" /\ reads # {})
    PROVE  Control'
<1>1. RowTyped' /\ EngineTyped' /\ ClosingTyped' /\ AgeTyped'
  BY DEF Control, RowTyped, EngineTyped, ClosingTyped, AgeTyped
<1>2. ClosersAreOver' /\ EnginesAreCurrent'
  BY DEF Control, Ends, ClosersAreOver, EnginesAreCurrent, Over
<1>3. OpensAreEngines'
  BY DEF Control, Ends, OpensAreEngines
<1>4. AtRest'
  BY DEF Control, Ends, AtRest
<1> QED
  BY <1>1, <1>2, <1>3, <1>4 DEF Control, Ends

LEMMA ControlReconcile ==
    ASSUME Control, NEW r \in reads, reconcile_generation(r)
    PROVE  Control'
<1> DEFINE q == [r EXCEPT !.proj = {publication}]
<1>1. r \in Reads /\ r.kind = "reconcile"
  BY DEF Control, ReadsTyped, reconcile_generation
<1>2. publication \in Projections
  BY PublicationTyped DEF Control
<1>3. q \in Reads /\ q.kind = "reconcile"
  BY <1>1, <1>2 DEF Reads
<1>4. reads' \in {(reads \ {r}) \cup {q}, reads \ {r}}
  BY DEF reconcile_generation, ReadRow
<1> HIDE DEF q
<1>5. ReadsTyped' /\ \A x \in reads' : x \in reads \/ (x.kind = "reconcile" /\ reads # {})
  BY <1>3, <1>4 DEF Control, ReadsTyped
<1> QED
  BY <1>5, ControlReads DEF reconcile_generation

LEMMA ControlEngineStarts ==
    ASSUME Control, NEW g \in PGens, EngineStarts(g)
    PROVE  Control'
<1> DEFINE q == [Call("open", g) EXCEPT !.proj = {publication}]
<1>1. publication \in Projections
  BY PublicationTyped DEF Control
<1>2. q \in Reads /\ q.kind = "open" /\ q.gen = g
  BY <1>1 DEF Reads, Call
<1>3. /\ engine[g].st = "starting" /\ engine' = [engine EXCEPT ![g].st = "opening"]
      /\ reads' = reads \cup {q} /\ UNCHANGED <<prow, closing, stopAge>>
  BY DEF EngineStarts
<1> HIDE DEF q
<1>4. /\ EngineTyped'
      /\ \A h \in PGens : /\ engine'[h].st = IF h = g THEN "opening" ELSE engine[h].st
                          /\ engine'[h].cancel = engine[h].cancel
  <2>1. "opening" \in EngineStates
    BY DEF EngineStates
  <2> QED
    BY <1>3, <2>1, EngineState DEF Control
<1>5. RowTyped' /\ ClosingTyped' /\ ReadsTyped' /\ AgeTyped'
  BY <1>2, <1>3 DEF Control, RowTyped, ClosingTyped, ReadsTyped, AgeTyped
<1>6. ClosersAreOver' /\ EnginesAreCurrent'
  BY <1>3, <1>4 DEF Control, Ends, ClosersAreOver, EnginesAreCurrent, Over
<1>7. \A r \in reads : r.gen \in PGens /\ (r.kind = "open" => r.gen # g)
  BY <1>3 DEF Control, ReadsTyped, Reads, Ends, OpensAreEngines
<1>8. OpensAreEngines'
  BY <1>2, <1>3, <1>4, <1>7 DEF Control, Ends, OpensAreEngines
<1>9. AtRest'
  BY <1>3 DEF Control, Ends, AtRest
<1> QED
  BY <1>4, <1>5, <1>6, <1>8, <1>9 DEF Control, Ends

LEMMA ControlDrive ==
    ASSUME Control, NEW r \in reads, drive(r)
    PROVE  Control'
<1>1. r \in Reads /\ reads' = reads \ {r} /\ UNCHANGED <<prow, closing, stopAge>>
  BY DEF Control, ReadsTyped, drive
<1>2. CASE UNCHANGED engine
  <2>1. ReadsTyped' /\ \A x \in reads' : x \in reads
    BY <1>1 DEF Control, ReadsTyped
  <2> QED
    BY <1>1, <1>2, <2>1, ControlReads
<1>3. CASE r.kind = "open" /\ engine' = [engine EXCEPT ![r.gen].st = "up"]
  <2> DEFINE g == r.gen
  <2>1. g \in PGens /\ engine[g].st = "opening"
    BY <1>1, <1>3 DEF Control, Ends, OpensAreEngines, Reads
  <2>2. /\ EngineTyped'
        /\ \A h \in PGens : /\ engine'[h].st = IF h = g THEN "up" ELSE engine[h].st
                            /\ engine'[h].cancel = engine[h].cancel
    <3>1. "up" \in EngineStates
      BY DEF EngineStates
    <3> QED
      BY <1>3, <2>1, <3>1, EngineState DEF Control
  <2>3. RowTyped' /\ ClosingTyped' /\ ReadsTyped' /\ AgeTyped'
    BY <1>1 DEF Control, RowTyped, ClosingTyped, ReadsTyped, AgeTyped
  <2>4. ClosersAreOver' /\ EnginesAreCurrent'
    BY <1>1, <2>1, <2>2 DEF Control, Ends, ClosersAreOver, EnginesAreCurrent, Over
  <2>5. \A x \in reads' : x \in reads /\ x.gen \in PGens /\ (x.kind = "open" => x.gen # g)
    BY <1>1, <1>3 DEF Control, ReadsTyped, Reads, Ends, OpensAreEngines
  <2>6. OpensAreEngines'
    BY <2>2, <2>5 DEF Control, Ends, OpensAreEngines
  <2>7. AtRest'
    BY <1>1 DEF Control, Ends, AtRest
  <2> QED
    BY <2>2, <2>3, <2>4, <2>6, <2>7 DEF Control, Ends
<1> QED
  BY <1>2, <1>3 DEF drive

LEMMA ControlStop ==
    ASSUME Control, stop_generation
    PROVE  Control'
<1> DEFINE g == prow.gen
<1>1. /\ prow.run /\ prow' = [prow EXCEPT !.run = FALSE, !.work = FALSE]
      /\ engine' = [engine EXCEPT ![g].cancel = TRUE] /\ closing' = closing \cup {g}
      /\ UNCHANGED <<reads, stopAge>>
  BY DEF stop_generation
<1>2. RowTyped' /\ prow'.gen = g /\ ~prow'.run /\ g \in PGens
  BY <1>1 DEF Control, RowTyped, Rows
<1>3. /\ EngineTyped'
      /\ \A h \in PGens : /\ engine'[h].st = engine[h].st
                          /\ engine'[h].cancel = IF h = g THEN TRUE ELSE engine[h].cancel
  BY <1>1, <1>2, EngineCancel DEF Control
<1>4. ClosingTyped' /\ ReadsTyped' /\ AgeTyped'
  BY <1>1, <1>2 DEF Control, ClosingTyped, ReadsTyped, AgeTyped
<1>5. ClosersAreOver' /\ EnginesAreCurrent'
  BY <1>1, <1>2, <1>3 DEF Control, Ends, ClosersAreOver, EnginesAreCurrent, Over
<1>6. OpensAreEngines'
  BY <1>1, <1>3 DEF Control, Ends, OpensAreEngines, ReadsTyped, Reads
<1>7. AtRest'
  BY <1>1 DEF Control, Ends, AtRest
<1> QED
  BY <1>2, <1>3, <1>4, <1>5, <1>6, <1>7 DEF Control, Ends

\* A step that leaves row, engines, reads and the clock alone.
LEMMA ControlSame ==
    ASSUME Control, UNCHANGED <<prow, engine, reads, stopAge>>, closing' \subseteq closing
    PROVE  Control'
<1>1. RowTyped' /\ EngineTyped' /\ ClosingTyped' /\ ReadsTyped' /\ AgeTyped'
  BY DEF Control, RowTyped, EngineTyped, ClosingTyped, ReadsTyped, AgeTyped
<1>2. ClosersAreOver' /\ EnginesAreCurrent'
  BY DEF Control, Ends, ClosersAreOver, EnginesAreCurrent, Over
<1>3. OpensAreEngines'
  BY DEF Control, Ends, OpensAreEngines
<1>4. AtRest'
  BY DEF Control, Ends, AtRest
<1> QED
  BY <1>1, <1>2, <1>3, <1>4 DEF Control, Ends

LEMMA ControlEngineEnds ==
    ASSUME Control, NEW g \in PGens, EngineEnds(g)
    PROVE  Control' /\ Over(g)'
<1>1. /\ engine[g].st = "up" /\ UNCHANGED <<reads, stopAge>>
      /\ engine' = [engine EXCEPT ![g] = [st |-> "none", cancel |-> FALSE]]
  BY DEF EngineEnds
<1>2. /\ EngineTyped'
      /\ \A h \in PGens :
           /\ engine'[h].st = IF h = g THEN "none" ELSE engine[h].st
           /\ engine'[h].cancel = IF h = g THEN FALSE ELSE engine[h].cancel
  BY <1>1, EngineGone DEF Control
<1>3. \A r \in reads : r.gen \in PGens /\ (r.kind = "open" => r.gen # g)
  BY <1>1 DEF Control, ReadsTyped, Reads, Ends, OpensAreEngines
<1>4. OpensAreEngines' /\ ReadsTyped' /\ AgeTyped'
  BY <1>1, <1>2, <1>3 DEF Control, Ends, OpensAreEngines, ReadsTyped, AgeTyped
<1>5. stopAge = 0
  BY <1>1 DEF Control, Ends, AtRest, AgeTyped
<1>6. AtRest'
  BY <1>1, <1>5 DEF AtRest
<1>7. CASE engine[g].cancel /\ UNCHANGED <<prow, closing>>
  <2>1. RowTyped' /\ ClosingTyped'
    BY <1>7 DEF Control, RowTyped, ClosingTyped
  <2>2. ClosersAreOver' /\ EnginesAreCurrent' /\ Over(g)'
    BY <1>2, <1>7 DEF Control, Ends, ClosersAreOver, EnginesAreCurrent, Over
  <2> QED
    BY <1>2, <1>4, <1>6, <2>1, <2>2 DEF Control, Ends
<1>8. CASE /\ prow.gen = g /\ prow.run /\ closing' = closing \cup {g}
           /\ prow' = [prow EXCEPT !.run = FALSE, !.work = FALSE]
  <2>1. RowTyped' /\ prow'.gen = g /\ ~prow'.run
    BY <1>8 DEF Control, RowTyped, Rows
  <2>2. ClosingTyped'
    BY <1>8 DEF Control, ClosingTyped
  <2>3. ClosersAreOver' /\ EnginesAreCurrent' /\ Over(g)'
    BY <1>2, <1>8, <2>1 DEF Control, Ends, ClosersAreOver, EnginesAreCurrent, Over
  <2> QED
    BY <1>2, <1>4, <1>6, <2>1, <2>2, <2>3 DEF Control, Ends
<1> QED
  BY <1>7, <1>8 DEF EngineEnds

LEMMA ControlRelaunch ==
    ASSUME Control, Relaunch
    PROVE  Control'
<1> DEFINE g == prow.gen + 1
<1>1. /\ ~prow.run /\ prow.gen < PMaxGen /\ prow' = [prow EXCEPT !.gen = @ + 1, !.run = TRUE]
      /\ engine' = [engine EXCEPT ![g].st = "starting"]
      /\ stopAge' = 0 /\ UNCHANGED <<closing, reads>>
  BY DEF Relaunch
<1>2. g \in PGens /\ prow.gen \in Nat
  BY <1>1, RowFields, Constants DEF Control, PGens
<1>3. RowTyped' /\ prow'.gen = g /\ prow'.run
  BY <1>1, <1>2 DEF Control, RowTyped, Rows
<1>4. /\ EngineTyped'
      /\ \A h \in PGens : /\ engine'[h].st = IF h = g THEN "starting" ELSE engine[h].st
                          /\ engine'[h].cancel = engine[h].cancel
  <2>1. "starting" \in EngineStates
    BY DEF EngineStates
  <2> QED
    BY <1>1, <1>2, <2>1, EngineState DEF Control
<1>5. ClosingTyped' /\ ReadsTyped' /\ AgeTyped'
  BY <1>1, Constants DEF Control, ClosingTyped, ReadsTyped, AgeTyped
<1>6. engine[g].st = "none"
  BY <1>1, <1>2 DEF Control, Ends, ClosersAreOver, EnginesAreCurrent, Over
<1>7. \A r \in reads : r.gen \in PGens /\ (r.kind = "open" => r.gen # g)
  BY <1>6 DEF Control, ReadsTyped, Reads, Ends, OpensAreEngines
<1>8. OpensAreEngines'
  BY <1>1, <1>4, <1>7 DEF Control, Ends, OpensAreEngines
<1>9. \A h \in PGens : h \in Nat
  BY Constants
<1>10. ClosersAreOver'
  BY <1>1, <1>2, <1>3, <1>4, <1>9 DEF Control, Ends, ClosersAreOver, Over
<1>11. EnginesAreCurrent'
  BY <1>1, <1>2, <1>3, <1>4 DEF Control, Ends, EnginesAreCurrent
<1>12. AtRest'
  BY <1>1 DEF AtRest
<1> QED
  BY <1>3, <1>4, <1>5, <1>8, <1>10, <1>11, <1>12 DEF Control, Ends

LEMMA ControlRestart ==
    ASSUME Control, RestartDaemon
    PROVE  Control'
<1>1. closing' = {} /\ reads' = {} /\ UNCHANGED stopAge
  BY DEF RestartDaemon
<1>2. PICK alive \in BOOLEAN :
        /\ prow' = [prow EXCEPT !.run = @ /\ alive, !.work = @ /\ alive]
        /\ engine' = [g \in PGens |-> [st |-> IF g = prow.gen /\ prow.run /\ alive THEN "starting"
                                             ELSE "none", cancel |-> FALSE]]
  BY DEF RestartDaemon
<1>3. RowTyped' /\ prow'.gen = prow.gen /\ prow'.run = (prow.run /\ alive)
  BY <1>2 DEF Control, RowTyped, Rows
<1>4. /\ EngineTyped'
      /\ \A h \in PGens :
           /\ engine'[h].st = IF h = prow.gen /\ prow.run /\ alive THEN "starting" ELSE "none"
           /\ engine'[h].cancel = FALSE
  BY <1>2 DEF EngineTyped, EngineTasks
<1>5. ClosingTyped' /\ ReadsTyped' /\ AgeTyped' /\ OpensAreEngines'
  BY <1>1 DEF Control, ClosingTyped, ReadsTyped, AgeTyped, OpensAreEngines
<1>6. ClosersAreOver'
  BY <1>1, <1>4 DEF ClosersAreOver
<1>7. EnginesAreCurrent'
  BY <1>3, <1>4 DEF EnginesAreCurrent
<1>8. AtRest'
  BY <1>1, <1>3, <1>4 DEF Control, Ends, AtRest
<1> QED
  BY <1>3, <1>4, <1>5, <1>6, <1>7, <1>8 DEF Control, Ends

\* The clock moves only when nobody is under way.
LEMMA ControlTick ==
    ASSUME Control, TickPeriod
    PROVE  Control'
<1>1. /\ UNCHANGED <<prow, engine, closing, reads>> /\ reads = {} /\ closing = {}
      /\ \A g \in PGens : ~engine[g].cancel
      /\ stopAge' = IF prow.run THEN 0 ELSE IF stopAge > LeaseTicks THEN stopAge ELSE stopAge + 1
  BY DEF TickPeriod, Prompt
<1>2. RowTyped' /\ EngineTyped' /\ ClosingTyped' /\ ReadsTyped'
  BY <1>1 DEF Control, RowTyped, EngineTyped, ClosingTyped, ReadsTyped
<1>3. AgeTyped'
  BY <1>1, Constants DEF Control, AgeTyped
<1>4. ClosersAreOver' /\ EnginesAreCurrent'
  BY <1>1 DEF Control, Ends, ClosersAreOver, EnginesAreCurrent, Over
<1>5. OpensAreEngines'
  BY <1>1 DEF OpensAreEngines
<1>6. AtRest'
  BY <1>1 DEF Control, Ends, EnginesAreCurrent, AtRest
<1> QED
  BY <1>2, <1>3, <1>4, <1>5, <1>6 DEF Control, Ends

-----------------------------------------------------------------------------
(* The record and the outcomes.                                            *)

Records == RecTyped /\ OutsSpent

\* Whoever can publish a live status acts before a period of the stop is over.
LEMMA Awake ==
    ASSUME Control, reads # {} \/ closing # {} \/ \E g \in PGens : engine[g].st # "none"
    PROVE  stopAge = 0
BY DEF Control, Ends, AtRest, AgeTyped

LEMMA OutsKept ==
    ASSUME OutsSpent, Published, UNCHANGED stopAge
    PROVE  OutsSpent'
BY DEF OutsSpent, Published, Spent

LEMMA NoneIsOwn ==
    ASSUME ClosesNone
    PROVE  Own
BY DEF ClosesNone, Own

LEMMA OverIsOwn ==
    ASSUME RecTyped, RowTyped', NEW g \in PGens, OnlyCloses(g), Over(g)'
    PROVE  Own
<1>1. prow'.gen \in Nat
  BY Constants DEF RowTyped, Rows
<1>2. \A r \in prec : r.gen \in Nat
  BY RecordGenerations
<1> QED
  BY <1>1, <1>2 DEF OnlyCloses, Own, Over

LEMMA RecordsSame ==
    ASSUME Records, UNCHANGED <<prec, outs, stopAge>>
    PROVE  Records' /\ Own
<1>1. NoOutcome
  BY DEF NoOutcome
<1>2. RecTyped' /\ Published /\ ClosesNone
  BY <1>1, NothingDone DEF Records
<1> QED
  BY <1>2, OutsKept, NoneIsOwn DEF Records

LEMMA RecordsDrive ==
    ASSUME Control, Records, NEW r \in reads, drive(r)
    PROVE  Records' /\ Own
<1>1. stopAge = 0 /\ UNCHANGED stopAge
  BY Awake DEF drive
<1>2. PICK p \in r.proj : \/ r.kind = "open" /\ open(r.gen, p)
                          \/ r.kind = "reconcile" /\ reconcile(r.gen, p)
  BY DEF drive
<1>3. r.gen \in PGens /\ p \in Projections
  BY DEF Control, ReadsTyped, Reads
<1>4. RecTyped' /\ Published /\ ClosesNone
  BY <1>1, <1>2, <1>3, OpenStep, ReconcileStep DEF Records
<1> QED
  BY <1>1, <1>4, OutsKept, NoneIsOwn DEF Records

LEMMA RecordsRenew ==
    ASSUME Control, Records, NEW g \in PGens, Renew(g)
    PROVE  Records' /\ Own
<1>1. stopAge = 0 /\ UNCHANGED stopAge /\ renew(g)
  BY Awake DEF Renew
<1>2. RecTyped' /\ Published /\ ClosesNone
  BY <1>1, RenewStep DEF Records
<1> QED
  BY <1>1, <1>2, OutsKept, NoneIsOwn DEF Records

\* The stop of generation g closes g, which is over.
LEMMA RecordsClose ==
    ASSUME Control, Records, NEW g \in PGens, close_generation(g)
    PROVE  Records' /\ Own
<1>1. stopAge = 0 /\ UNCHANGED <<stopAge, prow>> /\ close(g, 0) /\ g \in closing
  BY Awake DEF close_generation
<1>2. RecTyped' /\ Published /\ OnlyCloses(g)
  BY <1>1, CloseStep DEF Records
<1>3. Over(g)' /\ RowTyped'
  BY <1>1 DEF Control, Ends, ClosersAreOver, Over, RowTyped
<1>4. Own
  BY <1>2, <1>3, OverIsOwn DEF Records
<1> QED
  BY <1>1, <1>2, <1>4, OutsKept DEF Records

LEMMA RecordsEngineEnds ==
    ASSUME Control, Records, NEW g \in PGens, EngineEnds(g)
    PROVE  Records' /\ Own
<1>1. UNCHANGED stopAge /\ close(g, g) /\ engine[g].st # "none"
  BY DEF EngineEnds
<1>2. stopAge = 0
  BY <1>1, Awake
<1>3. RecTyped' /\ Published /\ OnlyCloses(g)
  BY <1>1, <1>2, CloseStep DEF Records
<1>4. Over(g)' /\ RowTyped'
  BY ControlEngineEnds DEF Control
<1>5. Own
  BY <1>3, <1>4, OverIsOwn DEF Records
<1> QED
  BY <1>1, <1>3, <1>5, OutsKept DEF Records

LEMMA RecordsRevoke ==
    ASSUME Control, Records, revoke_operator_session
    PROVE  Records' /\ Own
<1>1. UNCHANGED stopAge /\ revoke(prow.gen) /\ prow.gen \in PGens
  BY RowFields DEF revoke_operator_session, Control
<1>2. RecTyped' /\ Published /\ ClosesNone
  BY <1>1, RevokeStep DEF Records
<1> QED
  BY <1>1, <1>2, OutsKept, NoneIsOwn DEF Records

LEMMA RecordsRelaunch ==
    ASSUME Control, Records, Relaunch
    PROVE  Records' /\ Own
<1>1. stopAge' = 0 /\ UNCHANGED <<prec, outs>>
  BY DEF Relaunch
<1>2. NoOutcome
  BY <1>1 DEF NoOutcome
<1>3. RecTyped' /\ ClosesNone
  BY <1>1, <1>2, NothingDone DEF Records
<1>4. OutsSpent'
  BY <1>1, Constants DEF Records, OutsSpent, Spent, Statuses
<1> QED
  BY <1>3, <1>4, NoneIsOwn DEF Records

LEMMA RecordsRestart ==
    ASSUME RestartDaemon
    PROVE  Records' /\ Own
BY DEF RestartDaemon, Records, RecTyped, OutsSpent, Own

LEMMA RecordsSubmit ==
    ASSUME Records, NEW o \in outs, submit(o)
    PROVE  Records' /\ Own
<1>1. UNCHANGED <<prec, stopAge>> /\ outs' \subseteq outs
  BY DEF submit
<1>2. OutsSpent'
  BY <1>1 DEF Records, OutsSpent, Spent
<1>3. RecTyped'
  BY <1>1 DEF Records, RecTyped
<1>4. Own
  BY <1>1, RecordGenerations DEF Own, Records, RecTyped
<1> QED
  BY <1>2, <1>3, <1>4 DEF Records

LEMMA RecordsTick ==
    ASSUME Records, TickPeriod
    PROVE  Records' /\ Own
<1>1. /\ prec' = {[r EXCEPT !.armed = FALSE] : r \in prec}
      /\ UNCHANGED outs /\ outs = {}
  BY DEF TickPeriod, Prompt
<1>2. OutsSpent'
  BY <1>1 DEF OutsSpent
<1>3. \A n \in prec' : \E r \in prec : n \in Recs /\ n.gen = r.gen /\ n.live = r.live
  BY <1>1 DEF Records, RecTyped, Recs
<1>4. RecTyped'
  BY <1>1, <1>3 DEF Records, RecTyped
<1>5. Own
  BY <1>3, RecordGenerations DEF Own, Records, RecTyped
<1> QED
  BY <1>2, <1>4, <1>5 DEF Records

-----------------------------------------------------------------------------
(* The queue, the relay and the observer.                                  *)

Views == JobsSpent /\ WireTyped /\ WireSpent /\ MirrorTyped /\ MirrorSpent

LEMMA ViewsSame ==
    ASSUME Views, UNCHANGED <<jobs, wire, pmirror, stopAge>>
    PROVE  Views'
<1>1. JobsSpent'
  BY DEF Views, JobsSpent, Spent
<1>2. WireTyped' /\ WireSpent' /\ MirrorTyped' /\ MirrorSpent'
  BY DEF Views, WireTyped, WireSpent, MirrorTyped, MirrorSpent, Spent
<1> QED
  BY <1>1, <1>2 DEF Views

\* What is left of any status fits a session that has just been started.
LEMMA ViewsRelaunch ==
    ASSUME Views, Relaunch
    PROVE  Views'
<1>1. stopAge' = 0 /\ UNCHANGED <<jobs, wire, pmirror>>
  BY DEF Relaunch
<1>2. \A s \in Statuses \cup Mirrored : Spent(s)'
  BY <1>1, Constants DEF Spent, Statuses, Mirrored
<1>3. JobsSpent'
  BY <1>1, <1>2 DEF Views, JobsSpent
<1>4. WireTyped' /\ WireSpent'
  BY <1>1, <1>2 DEF Views, WireTyped, WireSpent, Events
<1>5. MirrorTyped' /\ MirrorSpent'
  BY <1>1, <1>2 DEF Views, MirrorTyped, MirrorSpent
<1> QED
  BY <1>3, <1>4, <1>5 DEF Views

LEMMA NoJobs ==
    ASSUME jobs' = <<>>
    PROVE  JobsSpent'
<1>1. jobs' \in Seq({}) /\ Len(jobs') = 0
  OBVIOUS
<1> QED
  BY <1>1, Constants DEF JobsSpent

LEMMA ViewsRestart ==
    ASSUME Views, RestartDaemon
    PROVE  Views'
<1>1. jobs' = <<>> /\ UNCHANGED <<wire, pmirror, stopAge>>
  BY DEF RestartDaemon
<1>2. WireTyped' /\ WireSpent' /\ MirrorTyped' /\ MirrorSpent'
  BY <1>1 DEF Views, WireTyped, WireSpent, MirrorTyped, MirrorSpent, Spent
<1> QED
  BY <1>1, <1>2, NoJobs DEF Views

\* A full queue drops the outcome.
LEMMA ViewsSubmit ==
    ASSUME Views, OutsSpent, NEW o \in outs, submit(o)
    PROVE  Views'
<1>1. /\ jobs' = IF Len(jobs) < QueueCap THEN Append(jobs, o) ELSE jobs
      /\ UNCHANGED <<wire, pmirror, stopAge>>
  BY DEF submit
<1>2. WireTyped' /\ WireSpent' /\ MirrorTyped' /\ MirrorSpent'
  BY <1>1 DEF Views, WireTyped, WireSpent, MirrorTyped, MirrorSpent, Spent
<1>3. PICK S : jobs \in Seq(S) /\ \A s \in S : s.status \in Statuses /\ Spent(s.status)
  BY DEF Views, JobsSpent
<1> DEFINE T == S \cup {o}
<1>4. \A s \in T : s.status \in Statuses /\ Spent(s.status)
  BY <1>3 DEF OutsSpent
<1>5. jobs \in Seq(T) /\ o \in T
  BY <1>3
<1> HIDE DEF T
<1>6. jobs' \in Seq(T) /\ Len(jobs') <= QueueCap
  BY <1>1, <1>5, Constants DEF Views, JobsSpent
<1>7. JobsSpent'
  BY <1>1, <1>4, <1>6 DEF JobsSpent, Spent
<1> QED
  BY <1>2, <1>7 DEF Views

\* An event changes a channel's row for a row with its own state and lease, or not.
LEMMA Upserted ==
    ASSUME MirrorTyped, NEW e, e.status \in Statuses, e.age \in 0..(AgeCap - 1),
           NEW c \in PChannels
    PROVE  \A m \in upsert_status(c, e) :
             \/ m \in pmirror[c]
             \/ m \in Mirrored /\ m.state = e.status.state /\ m.left = e.status.left
<1> DEFINE s == e.status
           new == [state |-> s.state, age |-> e.age, left |-> s.left]
           old == CHOOSE m \in pmirror[c] : TRUE
<1>1. new \in Mirrored /\ new.state = s.state /\ new.left = s.left
  BY DEF Mirrored, Statuses, AgeCap
<1>2. CASE pmirror[c] = {}
  <2>1. upsert_status(c, e) = {new}
    BY <1>2 DEF upsert_status
  <2> QED
    BY <1>1, <2>1
<1>3. CASE pmirror[c] # {}
  <2>1. old \in Mirrored
    BY <1>3 DEF MirrorTyped
  <2> DEFINE age == IF old.state = s.state THEN old.age ELSE e.age
  <2>2. age \in 0..AgeCap
    BY <2>1 DEF Mirrored, AgeCap
  <2>3. upsert_status(c, e) \in {pmirror[c], {[new EXCEPT !.age = age]}}
    BY <1>3 DEF upsert_status
  <2> HIDE DEF age, new, old
  <2>4. /\ [new EXCEPT !.age = age] \in Mirrored
        /\ [new EXCEPT !.age = age].state = s.state /\ [new EXCEPT !.age = age].left = s.left
    BY <1>1, <2>2 DEF Mirrored
  <2> QED
    BY <2>3, <2>4
<1> QED
  BY <1>2, <1>3

LEMMA Materialized ==
    ASSUME MirrorTyped, MirrorSpent, NEW e, e.status \in Statuses, e.age \in 0..(AgeCap - 1),
           Spent(e.status), pmirror' = materialize_status(e), UNCHANGED stopAge
    PROVE  MirrorTyped' /\ MirrorSpent'
<1>1. /\ DOMAIN pmirror' = PChannels
      /\ pmirror' = [c \in PChannels |-> pmirror'[c]]
      /\ \A c \in PChannels : pmirror'[c] \in {upsert_status(c, e), pmirror[c]}
  BY DEF materialize_status
<1>2. ASSUME NEW c \in PChannels, NEW m \in pmirror'[c]
      PROVE  m \in Mirrored /\ Spent(m)'
  <2>1. \/ m \in pmirror[c]
        \/ m \in Mirrored /\ m.state = e.status.state /\ m.left = e.status.left
    BY <1>1, Upserted
  <2> QED
    BY <2>1 DEF MirrorTyped, MirrorSpent, Spent
<1> QED
  BY <1>1, <1>2 DEF MirrorTyped, MirrorSpent

LEMMA ViewsWork ==
    ASSUME Views, Work
    PROVE  Views'
<1> DEFINE e == [status |-> Head(jobs).status, age |-> 0]
<1>1. /\ jobs # <<>> /\ jobs' = Tail(jobs) /\ UNCHANGED stopAge
      /\ wire' \in {wire, wire \cup {e}}
      /\ pmirror' \in {pmirror, materialize_status(e)}
  BY DEF Work
<1>2. PICK S : jobs \in Seq(S) /\ \A s \in S : s.status \in Statuses /\ Spent(s.status)
  BY DEF Views, JobsSpent
<1>3. Head(jobs) \in S /\ jobs' \in Seq(S) /\ Len(jobs') <= QueueCap
  BY <1>1, <1>2, Constants DEF Views, JobsSpent
<1>4. JobsSpent'
  BY <1>1, <1>2, <1>3 DEF JobsSpent, Spent
<1>5. e.status \in Statuses /\ Spent(e.status) /\ e.age \in 0..(AgeCap - 1) /\ e \in Events
  BY <1>2, <1>3 DEF Events, AgeCap
<1> HIDE DEF e
<1>6. WireTyped' /\ WireSpent'
  BY <1>1, <1>5 DEF Views, WireTyped, WireSpent, Spent
<1>7. MirrorTyped' /\ MirrorSpent'
  <2>1. CASE pmirror' = pmirror
    BY <1>1, <2>1 DEF Views, MirrorTyped, MirrorSpent, Spent
  <2>2. CASE pmirror' = materialize_status(e)
    BY <1>1, <1>5, <2>2, Materialized DEF Views
  <2> QED
    BY <1>1, <2>1, <2>2
<1> QED
  BY <1>4, <1>6, <1>7 DEF Views

LEMMA ViewsDeliver ==
    ASSUME Views, NEW e \in wire, DeliverLate(e)
    PROVE  Views'
<1>1. /\ wire' \subseteq wire /\ pmirror' = materialize_status(e)
      /\ UNCHANGED <<jobs, stopAge>>
  BY DEF DeliverLate
<1>2. JobsSpent'
  BY <1>1 DEF Views, JobsSpent, Spent
<1>3. WireTyped' /\ WireSpent'
  BY <1>1 DEF Views, WireTyped, WireSpent, Spent
<1>4. e.status \in Statuses /\ Spent(e.status) /\ e.age \in 0..(AgeCap - 1)
  BY DEF Views, WireTyped, WireSpent, Events
<1>5. MirrorTyped' /\ MirrorSpent'
  BY <1>1, <1>4, Materialized DEF Views
<1> QED
  BY <1>2, <1>3, <1>5 DEF Views

\* A lease that is counted down with the periods of the stop stays spent.
LEMMA CountedDown ==
    ASSUME TickPeriod, AgeTyped, NEW s, NEW n, Spent(s), s.left \in -1..LeaseTicks,
           n.state = s.state, n.left = IF s.left < 0 THEN s.left ELSE s.left - 1
    PROVE  Spent(n)'
<1>1. stopAge' = IF prow.run THEN 0 ELSE IF stopAge > LeaseTicks THEN stopAge ELSE stopAge + 1
  BY DEF TickPeriod
<1>2. stopAge \in 0..(LeaseTicks + 1) /\ LeaseTicks \in Nat
  BY Constants DEF AgeTyped
<1> QED
  BY <1>1, <1>2 DEF Spent

LEMMA ViewsTick ==
    ASSUME Views, AgeTyped, TickPeriod
    PROVE  Views'
<1>1. /\ jobs' = <<>> /\ wire' = {Older(e) : e \in wire}
      /\ \A e \in wire : e.age + 1 < AgeCap
      /\ pmirror' = [c \in PChannels |->
                       {[m EXCEPT !.age = IF @ < AgeCap THEN @ + 1 ELSE @,
                                  !.left = IF @ < 0 THEN @ ELSE @ - 1] : m \in pmirror[c]}]
  BY DEF TickPeriod, Prompt
<1>2. JobsSpent'
  BY <1>1, NoJobs
<1>3. ASSUME NEW f \in wire'
      PROVE  f \in Events /\ Spent(f.status)'
  <2>1. PICK e \in wire : f = Older(e)
    BY <1>1, <1>3
  <2>2. e \in Events /\ Spent(e.status) /\ e.age + 1 < AgeCap
    BY <1>1 DEF Views, WireTyped, WireSpent
  <2>3. /\ f \in Events /\ f.status.state = e.status.state
        /\ e.status.left \in -1..LeaseTicks
        /\ f.status.left = IF e.status.left < 0 THEN e.status.left ELSE e.status.left - 1
    <3> DEFINE l == IF e.status.left < 0 THEN e.status.left ELSE e.status.left - 1
               t == [e.status EXCEPT !.left = l]
    <3>1. e.status \in Statuses /\ e.age \in 0..(AgeCap - 1) /\ e.age + 1 \in 0..(AgeCap - 1)
      BY <2>2 DEF Events, AgeCap
    <3>2. e.status.left \in -1..LeaseTicks /\ l \in -1..LeaseTicks
      BY <3>1, Constants DEF Statuses
    <3>3. f = [e EXCEPT !.age = e.age + 1, !.status = t]
      BY <2>1, <2>2 DEF Older, Events, Statuses
    <3> HIDE DEF l
    <3>4. t \in Statuses /\ t.state = e.status.state /\ t.left = l
      BY <3>1, <3>2 DEF Statuses
    <3> HIDE DEF t
    <3>5. f \in Events /\ f.status = t
      BY <2>2, <3>1, <3>3, <3>4 DEF Events
    <3> QED
      BY <3>2, <3>4, <3>5 DEF l
  <2> QED
    BY <2>2, <2>3, CountedDown
<1>4. WireTyped' /\ WireSpent'
  BY <1>3 DEF WireTyped, WireSpent
<1>5. ASSUME NEW c \in PChannels, NEW n \in pmirror'[c]
      PROVE  n \in Mirrored /\ Spent(n)'
  <2>1. PICK m \in pmirror[c] : n = [m EXCEPT !.age = IF @ < AgeCap THEN @ + 1 ELSE @,
                                              !.left = IF @ < 0 THEN @ ELSE @ - 1]
    BY <1>1, <1>5
  <2>2. m \in Mirrored /\ Spent(m)
    BY DEF Views, MirrorTyped, MirrorSpent
  <2>3. /\ n \in Mirrored /\ n.state = m.state /\ m.left \in -1..LeaseTicks
        /\ n.left = IF m.left < 0 THEN m.left ELSE m.left - 1
    <3> DEFINE l == IF m.left < 0 THEN m.left ELSE m.left - 1
               a == IF m.age < AgeCap THEN m.age + 1 ELSE m.age
    <3>1. m.left \in -1..LeaseTicks /\ l \in -1..LeaseTicks /\ a \in 0..AgeCap
      BY <2>2, Constants DEF Mirrored, AgeCap
    <3>2. n = [m EXCEPT !.age = a, !.left = l]
      BY <2>1
    <3> HIDE DEF l, a
    <3>3. n \in Mirrored /\ n.state = m.state /\ n.left = l
      BY <2>2, <3>1, <3>2 DEF Mirrored
    <3> QED
      BY <3>1, <3>3 DEF l
  <2> QED
    BY <2>2, <2>3, CountedDown
<1>6. MirrorTyped' /\ MirrorSpent'
  BY <1>1, <1>5 DEF MirrorTyped, MirrorSpent
<1> QED
  BY <1>2, <1>4, <1>6 DEF Views

-----------------------------------------------------------------------------
(* The theorems.                                                           *)

LEMMA Parts == PresenceInv <=> Control /\ Records /\ Views
BY DEF PresenceInv, Types, Leases, Control, Records, Views

LEMMA InvInit == PresenceInit => PresenceInv
<1> SUFFICES ASSUME PresenceInit PROVE Control /\ Records /\ Views
  BY Parts
<1>1. RowTyped /\ prow.gen = 1 /\ prow.run
  BY Constants DEF PresenceInit, RowTyped, Rows
<1>2. /\ EngineTyped
      /\ \A g \in PGens : ~engine[g].cancel /\ (g # 1 => engine[g].st = "none")
  BY DEF PresenceInit, EngineTyped, EngineTasks
<1>3. closing = {} /\ reads = {} /\ stopAge = 0
  BY DEF PresenceInit
<1>4. ClosingTyped /\ ReadsTyped /\ AgeTyped
  BY <1>3, Constants DEF ClosingTyped, ReadsTyped, AgeTyped
<1>5. Ends
  BY <1>1, <1>2, <1>3
     DEF Ends, ClosersAreOver, EnginesAreCurrent, OpensAreEngines, AtRest
<1>6. Records
  BY DEF PresenceInit, Records, RecTyped, OutsSpent
<1>7. JobsSpent
  <2>1. jobs \in Seq({}) /\ Len(jobs) = 0
    BY DEF PresenceInit
  <2> QED
    BY <2>1, Constants DEF JobsSpent
<1>8. WireTyped /\ WireSpent /\ MirrorTyped /\ MirrorSpent
  BY DEF PresenceInit, WireTyped, WireSpent, MirrorTyped, MirrorSpent
<1> QED
  BY <1>1, <1>2, <1>4, <1>5, <1>6, <1>7, <1>8 DEF Control, Views

LEMMA InvNext == PresenceInv /\ [PresenceNext]_pvars => PresenceInv' /\ (Own \/ UNCHANGED pvars)
<1> SUFFICES ASSUME Control, Records, Views, [PresenceNext]_pvars
             PROVE  Control' /\ Records' /\ Views' /\ (Own \/ UNCHANGED pvars)
  <2>1. PresenceInv' <=> (Control /\ Records /\ Views)'
    BY Parts, PTL
  <2> QED
    BY Parts, <2>1
<1>1. CASE ChangeRow
  <2>1. UNCHANGED <<prec, outs, jobs, wire, pmirror, stopAge>>
    BY <1>1 DEF ChangeRow
  <2> QED
    BY <1>1, <2>1, ControlChangeRow, RecordsSame, ViewsSame
<1>2. CASE stop_generation
  <2>1. UNCHANGED <<prec, outs, jobs, wire, pmirror, stopAge>>
    BY <1>2 DEF stop_generation
  <2> QED
    BY <1>2, <2>1, ControlStop, RecordsSame, ViewsSame
<1>3. CASE Relaunch
  BY <1>3, ControlRelaunch, RecordsRelaunch, ViewsRelaunch
<1>4. CASE revoke_operator_session
  <2>1. UNCHANGED <<prow, engine, closing, reads, jobs, wire, pmirror, stopAge>>
    BY <1>4 DEF revoke_operator_session
  <2> QED
    BY <1>4, <2>1, ControlSame, RecordsRevoke, ViewsSame
<1>5. CASE Work
  <2>1. UNCHANGED <<prow, engine, closing, reads, prec, outs, stopAge>>
    BY <1>5 DEF Work
  <2> QED
    BY <1>5, <2>1, ControlSame, RecordsSame, ViewsWork
<1>6. CASE RestartDaemon
  BY <1>6, ControlRestart, RecordsRestart, ViewsRestart
<1>7. CASE TickPeriod
  BY <1>7, ControlTick, RecordsTick, ViewsTick DEF Control
<1>8. ASSUME NEW g \in PGens, EngineStarts(g)
      PROVE  Control' /\ Records' /\ Views' /\ Own
  <2>1. UNCHANGED <<prec, outs, jobs, wire, pmirror, stopAge>>
    BY <1>8 DEF EngineStarts
  <2> QED
    BY <1>8, <2>1, ControlEngineStarts, RecordsSame, ViewsSame
<1>9. ASSUME NEW g \in PGens, Renew(g)
      PROVE  Control' /\ Records' /\ Views' /\ Own
  <2>1. UNCHANGED <<prow, engine, closing, reads, jobs, wire, pmirror, stopAge>>
    BY <1>9 DEF Renew
  <2> QED
    BY <1>9, <2>1, ControlSame, RecordsRenew, ViewsSame
<1>10. ASSUME NEW g \in PGens, close_generation(g)
       PROVE  Control' /\ Records' /\ Views' /\ Own
  <2>1. /\ UNCHANGED <<prow, engine, reads, jobs, wire, pmirror, stopAge>>
        /\ closing' \subseteq closing
    BY <1>10 DEF close_generation
  <2> QED
    BY <1>10, <2>1, ControlSame, RecordsClose, ViewsSame
<1>11. ASSUME NEW g \in PGens, EngineEnds(g)
       PROVE  Control' /\ Records' /\ Views' /\ Own
  <2>1. UNCHANGED <<jobs, wire, pmirror, stopAge>>
    BY <1>11 DEF EngineEnds
  <2> QED
    BY <1>11, <2>1, ControlEngineEnds, RecordsEngineEnds, ViewsSame
<1>12. ASSUME NEW r \in reads, reconcile_generation(r)
       PROVE  Control' /\ Records' /\ Views' /\ Own
  <2>1. UNCHANGED <<prec, outs, jobs, wire, pmirror, stopAge>>
    BY <1>12 DEF reconcile_generation
  <2> QED
    BY <1>12, <2>1, ControlReconcile, RecordsSame, ViewsSame
<1>13. ASSUME NEW r \in reads, drive(r)
       PROVE  Control' /\ Records' /\ Views' /\ Own
  <2>1. UNCHANGED <<jobs, wire, pmirror, stopAge>>
    BY <1>13 DEF drive
  <2> QED
    BY <1>13, <2>1, ControlDrive, RecordsDrive, ViewsSame
<1>14. ASSUME NEW o \in outs, submit(o)
       PROVE  Control' /\ Records' /\ Views' /\ Own
  <2>1. UNCHANGED <<prow, engine, closing, reads, stopAge>>
    BY <1>14 DEF submit
  <2> QED
    BY <1>14, <2>1, ControlSame, RecordsSubmit, ViewsSubmit DEF Records
<1>15. ASSUME NEW e \in wire, DeliverLate(e)
       PROVE  Control' /\ Records' /\ Views' /\ Own
  <2>1. UNCHANGED <<prow, engine, closing, reads, prec, outs, stopAge>>
    BY <1>15 DEF DeliverLate
  <2> QED
    BY <1>15, <2>1, ControlSame, RecordsSame, ViewsDeliver
<1>16. CASE UNCHANGED pvars
  <2>1. UNCHANGED <<prow, engine, closing, reads, prec, outs, jobs, wire, pmirror, stopAge>>
    BY <1>16 DEF pvars
  <2> QED
    BY <2>1, ControlSame, RecordsSame, ViewsSame
<1> QED
  BY <1>1, <1>2, <1>3, <1>4, <1>5, <1>6, <1>7, <1>8, <1>9, <1>10, <1>11, <1>12, <1>13,
     <1>14, <1>15, <1>16 DEF PresenceNext

\* The bookkeeping of generations, revisions and leases holds in every behaviour
\* of the presence publisher (presence_publisher.rs) under the reconciler's
\* supervision (reconcile/status/mod.rs): PresenceSafe and CloseIsOwn rest on it.
THEOREM PresenceInductive == PresenceSpec => []PresenceInv
BY InvInit, InvNext, PTL DEF PresenceSpec

\* The late end of an old engine, a stop that was overtaken by a relaunch and a
\* cancelled engine that is still opening close no presence but their own
\* (StatusReconciler's generation fence, reconcile/status/mod.rs).
THEOREM CloseIsOwnCorrect == PresenceSpec => CloseIsOwn
<1>1. PresenceInv /\ [PresenceNext]_pvars =>
        [\A r \in prec, n \in prec' :
           /\ n.gen >= r.gen
           /\ (n.gen = r.gen /\ r.live /\ ~n.live) => (prow'.gen > r.gen \/ ~prow'.run)]_pvars
  BY InvNext DEF Own
<1> QED
  BY <1>1, PresenceInductive, PTL DEF PresenceSpec, CloseIsOwn

LEMMA InvTypeOK == PresenceInv => PresenceTypeOK
<1> SUFFICES ASSUME PresenceInv PROVE PresenceTypeOK
  OBVIOUS
<1>1. /\ prow \in [gen : PGens, run : BOOLEAN, work : BOOLEAN, path : BOOLEAN, chans : SUBSET PChannels]
      /\ engine \in [PGens -> [st : {"none", "starting", "opening", "up"}, cancel : BOOLEAN]]
      /\ closing \subseteq PGens
      /\ reads \subseteq [kind : {"open", "reconcile"}, gen : PGens, proj : SUBSET Projections]
      /\ prec \subseteq [gen : PGens, proj : Projections, live : BOOLEAN, armed : BOOLEAN]
  BY DEF PresenceInv, Types, RowTyped, Rows, EngineTyped, EngineTasks, ClosingTyped,
         ReadsTyped, Reads, RecTyped, Recs
<1>2. Cardinality(prec) <= 1
  <2>1. CASE prec = {}
    BY <2>1, FS_EmptySet
  <2>2. CASE prec # {}
    <3>1. PICK r \in prec : TRUE
      BY <2>2
    <3>2. \A a, b \in prec : a = b
      BY DEF PresenceInv, Types, RecTyped
    <3>3. prec = {r}
      BY <3>1, <3>2
    <3>4. Cardinality(prec) = 1
      BY <3>3, FS_Singleton
    <3> QED
      BY <3>4
  <2> QED
    BY <2>1, <2>2
<1>3. /\ \A o \in outs : o.status \in Statuses
      /\ Len(jobs) <= QueueCap
  BY DEF PresenceInv, Leases, OutsSpent, JobsSpent
<1>4. \A e \in wire : e.status \in Statuses /\ e.age < AgeCap
  BY DEF PresenceInv, Types, WireTyped, Events, AgeCap
<1>5. \A c \in PChannels : pmirror[c] \subseteq [state : PStates, age : 0..AgeCap, left : -1..LeaseTicks]
  BY DEF PresenceInv, Types, MirrorTyped, Mirrored
<1> QED
  BY <1>1, <1>2, <1>3, <1>4, <1>5 DEF PresenceTypeOK

\* Past the lease, what is not an end has run out.
LEMMA InvOffline == PresenceInv => OfflineWithinLease
<1> SUFFICES ASSUME PresenceInv, stopAge > LeaseTicks, NEW c \in PChannels
             PROVE  RemoteView(c) = "offline"
  BY DEF OfflineWithinLease
<1>1. CASE pmirror[c] = {}
  BY <1>1 DEF RemoteView
<1>2. CASE pmirror[c] # {}
  <2> DEFINE m == CHOOSE x \in pmirror[c] : TRUE
  <2>1. m \in pmirror[c]
    BY <1>2
  <2>2. RemoteView(c) = observed(m)
    BY <1>2 DEF RemoteView
  <2> HIDE DEF m
  <2>3. m.left \in Int /\ Spent(m)
    BY <2>1, Constants
       DEF PresenceInv, Types, MirrorTyped, Mirrored, Leases, MirrorSpent
  <2>4. stopAge \in Nat /\ LeaseTicks \in Nat
    BY Constants DEF PresenceInv, Types, AgeTyped
  <2>5. observed(m) = "offline"
    BY <2>3, <2>4 DEF Spent, observed
  <2> QED
    BY <2>2, <2>5
<1> QED
  BY <1>1, <1>2

LEMMA InvOwnHost == PresenceInv => OwnHostTruth
<1> DEFINE w == [source |-> "local", state |-> publication.state]
           rows == UNION {build_who_snapshot("owner", c) : c \in PChannels}
<1>1. \A c \in PChannels : build_who_snapshot("owner", c) = IF c = Home THEN {w} ELSE {}
  BY DEF build_who_snapshot, local_rows, peer_rows
<1> HIDE DEF w
<1>2. rows = {w}
  BY <1>1, Constants
<1>3. Cardinality(rows) = 1
  BY <1>2, FS_Singleton
<1>4. \A x \in rows : x.state = classify(prow.run, prow.work, prow.path)
  BY <1>2 DEF w, publication
<1> QED
  BY <1>3, <1>4 DEF OwnHostTruth

\* No observer shows a session live that has been stopped for longer than a
\* lease, although its end may never have been published (a daemon that died, a
\* full queue in presence_publisher.rs, a lost event); and its own host lists it
\* once, as its row is (build_who_snapshot).
THEOREM PresenceSafeCorrect == PresenceSpec => []PresenceSafe
BY PresenceInductive, InvTypeOK, InvOffline, InvOwnHost, PTL DEF PresenceSafe
-----------------------------------------------------------------------------
(* Observations: the invariant.                                             *)

Effects == [op : {"open", "close"}, key : Keys]
SyncRecords == [pc : {"idle", "wait", "apply"}, todo : Seq(Effects), want : SUBSET Keys]
Drains == [key : Keys, id : 1..4, todo : BOOLEAN]
Frames == [rows : 0..1, ev : Evidence]
Fetches == [pc : {"idle", "reading", "done"}, latest : SUBSET Frames, quiet : BOOLEAN,
            out : {"none", "error", "empty", "rows"}]
Facts == [roots : SUBSET CChannels, member : SUBSET CChannels, routes : SUBSET CChannels,
          archived : SUBSET CChannels, admins : BOOLEAN]

CovTyped ==
    /\ facts \in Facts /\ sync \in [SyncTasks -> SyncRecords] /\ serial \subseteq SyncTasks
    /\ applied \subseteq Keys /\ wanted \subseteq Keys
    /\ subs \in [Keys -> SUBSET (1..4)] /\ drains \subseteq Drains
    /\ matq \in Seq(Keys) /\ Len(matq) <= MaterialCap
    /\ pull \in Fetches

\* One sync at a time, that which holds the lock.
Serial ==
    /\ \A t \in SyncTasks : sync[t].pc = "apply" <=> t \in serial
    /\ \A t, u \in serial : t = u

\* An observation has one thread, and a thread is that of an observation.
Drained ==
    /\ \A k \in Keys : \A m, n \in subs[k] : m = n
    /\ \A d \in drains : d.id \in subs[d.key]
    /\ \A d, e \in drains : d.key = e.key => d = e
    /\ \A k \in Keys : \A n \in subs[k] : \E d \in drains : d.key = k /\ d.id = n

Believed == \A k \in applied : subs[k] # {}

\* A sync under way still has to open what it wants and has not, and closes nothing of it.
Planned ==
    \A t \in SyncTasks : sync[t].pc = "apply" =>
       /\ sync[t].want = wanted
       /\ \A k \in wanted : k \in applied
                            \/ \E i \in DOMAIN sync[t].todo : sync[t].todo[i] = Effect("open", k)
       /\ \A i \in DOMAIN sync[t].todo : sync[t].todo[i].op = "close" => sync[t].todo[i].key \notin wanted

\* What a read answers, a frame has said.
Heard ==
    /\ pull.pc = "reading" => pull.out = "none"
    /\ EmptyIsAnswered

\* The inductive invariant.
CovInv == CovTyped /\ Serial /\ Drained /\ Believed /\ Planned /\ Heard

-----------------------------------------------------------------------------
(* Observations: the plan of a sync.                                        *)

\* A finite set is put in a sequence with each of its elements.
LEMMA Listed ==
    ASSUME NEW S, IsFiniteSet(S)
    PROVE  /\ KeySeqs!SetToSeq(S) \in Seq(S)
           /\ \A x \in S : \E i \in DOMAIN KeySeqs!SetToSeq(S) : KeySeqs!SetToSeq(S)[i] = x
<1> DEFINE n == Cardinality(S)
           q == KeySeqs!SetToSeq(S)
<1>1. n \in Nat /\ ExistsBijection(1..n, S)
  BY FS_CardinalityType
<1>2. KeySeqs!Cardinality(S) = n
  BY DEF KeySeqs!Cardinality, Cardinality
<1>3. \E f \in [1..n -> S] : IsInjective(f)
  BY <1>1 DEF ExistsBijection, Bijection, Injection
<1>4. q = CHOOSE f \in [1..n -> S] : IsInjective(f)
  BY <1>2 DEF KeySeqs!SetToSeq, IsInjective, KeySeqs!IsInjective
<1> HIDE DEF q, n
<1>5. q \in [1..n -> S] /\ IsInjective(q)
  BY <1>3, <1>4
<1>6. q \in Injection(1..n, S)
  BY <1>5 DEF Injection
<1>7. IsFiniteSet(1..n) /\ Cardinality(1..n) = n
  BY <1>1, FS_Interval
<1>8. q \in Surjection(1..n, S)
  BY <1>6, <1>7, FS_Injection DEF n
<1>9. q \in Seq(S) /\ DOMAIN q = 1..n
  BY <1>1, <1>5
<1> QED
  BY <1>8, <1>9 DEF q, Surjection

\* An image of a finite set is finite.
LEMMA ImageFinite ==
    ASSUME NEW S, IsFiniteSet(S), NEW f
    PROVE  IsFiniteSet({f[x] : x \in S})
<1> DEFINE T == {f[x] : x \in S}
           g == [x \in S |-> f[x]]
<1>1. g \in Surjection(S, T)
  BY DEF Surjection
<1> QED
  BY <1>1, FS_Surjection

LEMMA KeysFinite == IsFiniteSet(Keys)
<1> DEFINE H == {<<"h", c>> : c \in CChannels}
           D == {<<"d", c>> : c \in CChannels}
<1>1. IsFiniteSet(H)
  <2> DEFINE f == [c \in CChannels |-> <<"h", c>>]
  <2>1. H = {f[c] : c \in CChannels}
    OBVIOUS
  <2> HIDE DEF f
  <2> QED
    BY <2>1, CoverageAssumption, ImageFinite
<1>2. IsFiniteSet(D)
  <2> DEFINE f == [c \in CChannels |-> <<"d", c>>]
  <2>1. D = {f[c] : c \in CChannels}
    OBVIOUS
  <2> HIDE DEF f
  <2> QED
    BY <2>1, CoverageAssumption, ImageFinite
<1> HIDE DEF H, D
<1>3. IsFiniteSet(H \cup D)
  BY <1>1, <1>2, FS_Union
<1>4. UNION {ChannelKeys(c) : c \in CChannels} = H \cup D
  BY DEF ChannelKeys, H, D
<1>5. Keys = H \cup D \cup {GlobalKey} \cup {AdminKey} \cup {<<"p", "self">>} \cup {<<"profile", "self">>}
  BY <1>4 DEF Keys, SelfKeys
<1> QED
  BY <1>3, <1>5, FS_AddElement

\* A plan opens each key that is wanted and not applied, and closes none that is wanted.
LEMMA PlanCovers ==
    ASSUME NEW want \in SUBSET Keys, applied \subseteq Keys
    PROVE  /\ plan(want) \in Seq(Effects)
           /\ \A k \in want : k \in applied \/ \E i \in DOMAIN plan(want) : plan(want)[i] = Effect("open", k)
           /\ \A i \in DOMAIN plan(want) : plan(want)[i].op = "close" => plan(want)[i].key \notin want
<1> DEFINE opened == want \ applied
           closed == applied \ want
           opens == {Effect("open", k) : k \in opened}
           closes == {Effect("close", k) : k \in closed}
           p == KeySeqs!SetToSeq(opens)
           q == KeySeqs!SetToSeq(closes)
<1>1. IsFiniteSet(opened) /\ IsFiniteSet(closed)
  BY KeysFinite, FS_Subset
<1>2. IsFiniteSet(opens)
  <2> DEFINE f == [k \in opened |-> Effect("open", k)]
  <2>1. opens = {f[k] : k \in opened}
    OBVIOUS
  <2> HIDE DEF f, opened
  <2> QED
    BY <1>1, <2>1, ImageFinite
<1>3. IsFiniteSet(closes)
  <2> DEFINE f == [k \in closed |-> Effect("close", k)]
  <2>1. closes = {f[k] : k \in closed}
    OBVIOUS
  <2> HIDE DEF f, closed
  <2> QED
    BY <1>1, <2>1, ImageFinite
<1>4. opens \subseteq Effects /\ closes \subseteq Effects
  BY DEF Effects, Effect
<1>5. \A e \in opens : e.op = "open"
  BY DEF Effect
<1>6. \A e \in closes : e.op = "close" /\ e.key \notin want
  BY DEF Effect
<1>7. \A k \in opened : Effect("open", k) \in opens
  OBVIOUS
<1>8. plan(want) = p \o q
  BY DEF plan
<1> HIDE DEF opens, closes
<1>9. p \in Seq(opens) /\ (\A x \in opens : \E i \in DOMAIN p : p[i] = x)
  BY <1>2, Listed
<1>10. q \in Seq(closes)
  BY <1>3, Listed
<1> HIDE DEF p, q
<1>11. p \in Seq(Effects) /\ q \in Seq(Effects)
  BY <1>4, <1>9, <1>10
<1>12. plan(want) \in Seq(Effects)
  BY <1>8, <1>11
<1>13. DOMAIN plan(want) = 1..(Len(p) + Len(q)) /\ Len(p) \in Nat /\ Len(q) \in Nat
  BY <1>8, <1>11
<1>14. \A i \in 1..Len(p) : plan(want)[i] = p[i] /\ p[i] \in opens
  BY <1>8, <1>9, <1>11
<1>15. \A i \in DOMAIN plan(want) : i > Len(p) => plan(want)[i] = q[i - Len(p)] /\ q[i - Len(p)] \in closes
  BY <1>8, <1>10, <1>11, <1>13
<1>16. \A k \in want : k \in applied \/ \E i \in DOMAIN plan(want) : plan(want)[i] = Effect("open", k)
  <2> SUFFICES ASSUME NEW k \in opened
               PROVE \E i \in DOMAIN plan(want) : plan(want)[i] = Effect("open", k)
    OBVIOUS
  <2>1. PICK i \in DOMAIN p : p[i] = Effect("open", k)
    BY <1>7, <1>9
  <2>2. i \in 1..Len(p)
    BY <1>11
  <2> QED
    BY <1>13, <1>14, <2>1, <2>2
<1>17. \A i \in DOMAIN plan(want) : plan(want)[i].op = "close" => plan(want)[i].key \notin want
  <2> SUFFICES ASSUME NEW i \in DOMAIN plan(want), plan(want)[i].op = "close"
               PROVE plan(want)[i].key \notin want
    OBVIOUS
  <2>1. CASE i \in 1..Len(p)
    BY <1>5, <1>14, <2>1
  <2>2. CASE i > Len(p)
    BY <1>6, <1>15, <2>2
  <2> QED
    BY <1>13, <2>1, <2>2
<1> QED
  BY <1>12, <1>16, <1>17

-----------------------------------------------------------------------------
(* Observations: opening and closing one.                                   *)

\* What NmpHost keeps: the observations, their threads, and one for the other.
Hosted ==
    /\ subs \in [Keys -> SUBSET (1..4)] /\ drains \subseteq Drains
    /\ Drained

\* A key has at most one thread, so that an id is free.
LEMMA FreshIdIsFree ==
    ASSUME Hosted, NEW k \in Keys
    PROVE  FreshId(k) \in 1..4 /\ \A d \in drains : d.key = k => d.id # FreshId(k)
<1>1. \E n \in 1..4 : \A d \in drains : d.key = k => d.id # n
  <2>1. CASE \E d \in drains : d.key = k
    <3>1. PICK d \in drains : d.key = k
      BY <2>1
    <3>2. \A e \in drains : e.key = k => e = d
      BY <3>1 DEF Hosted, Drained
    <3>3. d.id # 1 \/ d.id # 2
      OBVIOUS
    <3> QED
      BY <3>2, <3>3
  <2>2. CASE \A d \in drains : d.key # k
    BY <2>2
  <2> QED
    BY <2>1, <2>2
<1> QED
  BY <1>1 DEF FreshId

\* An observation opened or replaced has its own thread and no other; the rest stay.
LEMMA Opened ==
    ASSUME Hosted, NEW k \in Keys, open_subscription(k)
    PROVE  Hosted' /\ subs'[k] # {} /\ \A j \in Keys : j # k => subs'[j] = subs[j]
<1> DEFINE n == FreshId(k)
           new == Drain(k, n)
<1>1. n \in 1..4
  BY FreshIdIsFree
<1>2. subs' = [subs EXCEPT ![k] = {n}]
  BY DEF open_subscription
<1>3. drains' = {d \in drains : d.key # k \/ d.id \notin subs[k]} \cup {new}
  BY DEF open_subscription
<1>4. new \in Drains /\ new.key = k /\ new.id = n
  BY <1>1 DEF Drain, Drains
<1> HIDE DEF n, new
<1>5. \A d \in drains : d.key = k => d.id \in subs[k]
  BY DEF Hosted, Drained
<1>6. \A d \in drains' : (d \in drains /\ d.key # k) \/ d = new
  BY <1>3, <1>5
<1>7. \A d \in drains : d.key # k => d \in drains'
  BY <1>3
<1>8. new \in drains'
  BY <1>3
<1>9. subs' \in [Keys -> SUBSET (1..4)] /\ subs'[k] = {n} /\ \A j \in Keys : j # k => subs'[j] = subs[j]
  BY <1>1, <1>2 DEF Hosted
<1>10. drains' \subseteq Drains
  BY <1>4, <1>6 DEF Hosted
<1>11. \A j \in Keys : \A m, l \in subs'[j] : m = l
  BY <1>9 DEF Hosted, Drained
<1>12. \A d \in drains' : d.id \in subs'[d.key]
  <2> SUFFICES ASSUME NEW d \in drains' PROVE d.id \in subs'[d.key]
    OBVIOUS
  <2>1. d \in drains /\ d.key # k => d.key \in Keys /\ d.id \in subs[d.key]
    BY DEF Hosted, Drained, Drains
  <2> QED
    BY <1>4, <1>6, <1>9, <2>1
<1>13. \A d, e \in drains' : d.key = e.key => d = e
  BY <1>4, <1>6 DEF Hosted, Drained
<1>14. \A j \in Keys : \A m \in subs'[j] : \E d \in drains' : d.key = j /\ d.id = m
  <2> SUFFICES ASSUME NEW j \in Keys, NEW m \in subs'[j] PROVE \E d \in drains' : d.key = j /\ d.id = m
    OBVIOUS
  <2>1. CASE j = k
    BY <1>4, <1>8, <1>9, <2>1
  <2>2. CASE j # k
    BY <1>7, <1>9, <2>2 DEF Hosted, Drained
  <2> QED
    BY <2>1, <2>2
<1> QED
  BY <1>9, <1>10, <1>11, <1>12, <1>13, <1>14 DEF Hosted, Drained

\* An observation closed has no thread; the rest stay.
LEMMA Closed ==
    ASSUME Hosted, NEW k \in Keys, close_subscription(k)
    PROVE  Hosted' /\ \A j \in Keys : j # k => subs'[j] = subs[j]
<1>1. subs' = [subs EXCEPT ![k] = {}]
  BY DEF close_subscription
<1>2. drains' = {d \in drains : d.key # k \/ d.id \notin subs[k]}
  BY DEF close_subscription
<1>3. \A d \in drains : d.key = k => d.id \in subs[k]
  BY DEF Hosted, Drained
<1>4. drains' = {d \in drains : d.key # k}
  BY <1>2, <1>3
<1>5. subs' \in [Keys -> SUBSET (1..4)] /\ subs'[k] = {} /\ \A j \in Keys : j # k => subs'[j] = subs[j]
  BY <1>1 DEF Hosted
<1>6. drains' \subseteq Drains
  BY <1>4 DEF Hosted
<1>7. \A j \in Keys : \A m, l \in subs'[j] : m = l
  BY <1>5 DEF Hosted, Drained
<1>8. \A d \in drains' : d.id \in subs'[d.key]
  <2> SUFFICES ASSUME NEW d \in drains' PROVE d.id \in subs'[d.key]
    OBVIOUS
  <2>1. d \in drains /\ d.key # k /\ d.key \in Keys /\ d.id \in subs[d.key]
    BY <1>4 DEF Hosted, Drained, Drains
  <2> QED
    BY <1>5, <2>1
<1>9. \A d, e \in drains' : d.key = e.key => d = e
  BY <1>4 DEF Hosted, Drained
<1>10. \A j \in Keys : \A m \in subs'[j] : \E d \in drains' : d.key = j /\ d.id = m
  BY <1>4, <1>5 DEF Hosted, Drained
<1> QED
  BY <1>5, <1>6, <1>7, <1>8, <1>9, <1>10 DEF Hosted, Drained

-----------------------------------------------------------------------------
(* Observations: every action preserves the invariant.                      *)

\* The policy, the host and the reads, each with what its conjuncts speak of.
Policy == <<sync, serial, applied, wanted>>
Host == <<subs, drains>>

LEMMA HostOfInv == CovInv => Hosted
  BY DEF CovInv, CovTyped, Hosted

LEMMA PolicyKept ==
    ASSUME CovInv, UNCHANGED <<Policy, Host>>
    PROVE  Serial' /\ Drained' /\ Believed' /\ Planned'
<1>1. Serial'
  BY DEF CovInv, Serial, Policy
<1>2. Drained'
  BY DEF CovInv, Drained, Host
<1>3. Believed'
  BY DEF CovInv, Believed, Policy, Host
<1>4. Planned'
  BY DEF CovInv, Planned, Policy
<1> QED
  BY <1>1, <1>2, <1>3, <1>4

LEMMA HeardKept ==
    ASSUME CovInv, UNCHANGED pull
    PROVE  Heard'
  BY DEF CovInv, Heard, EmptyIsAnswered

\* An event: the threads of its key have something to send.
LEMMA EventArrivesInv == ASSUME CovInv, EventArrives PROVE CovInv'
<1>1. PICK c \in CChannels :
        drains' = {IF d.key = <<"h", c>> THEN [d EXCEPT !.todo = TRUE] ELSE d : d \in drains}
  BY DEF EventArrives
<1>2. UNCHANGED <<facts, sync, serial, applied, wanted, subs, matq, pull>>
  BY DEF EventArrives
<1> DEFINE f(d) == IF d.key = <<"h", c>> THEN [d EXCEPT !.todo = TRUE] ELSE d
<1>3. \A d \in drains : f(d) \in Drains /\ f(d).key = d.key /\ f(d).id = d.id
  BY DEF CovInv, CovTyped, Drains
<1>4. (\A e \in drains' : \E d \in drains : e = f(d)) /\ (\A d \in drains : f(d) \in drains')
  BY <1>1
<1> HIDE DEF f
<1>5. CovTyped'
  BY <1>2, <1>3, <1>4 DEF CovInv, CovTyped
<1>6. Serial'
  BY <1>2 DEF CovInv, Serial
<1>7. \A d \in drains' : d.id \in subs'[d.key]
  BY <1>2, <1>3, <1>4 DEF CovInv, Drained
<1>8. \A d, e \in drains' : d.key = e.key => d = e
  BY <1>3, <1>4 DEF CovInv, Drained
<1>9. \A k \in Keys : \A n \in subs'[k] : \E d \in drains' : d.key = k /\ d.id = n
  BY <1>2, <1>3, <1>4 DEF CovInv, Drained
<1>10. Drained'
  BY <1>2, <1>7, <1>8, <1>9 DEF CovInv, Drained
<1>11. Believed'
  BY <1>2 DEF CovInv, Believed
<1>12. Planned'
  BY <1>2 DEF CovInv, Planned
<1>13. Heard'
  BY <1>2, HeardKept
<1> QED
  BY <1>5, <1>6, <1>10, <1>11, <1>12, <1>13 DEF CovInv

\* A thread that has sent is still the thread of its observation.
LEMMA DrainSendsInv == ASSUME CovInv, NEW d \in drains, DrainSends(d) PROVE CovInv'
<1> DEFINE s == [d EXCEPT !.todo = FALSE]
<1>1. drains' = (drains \ {d}) \cup {s} /\ matq' = Append(matq, d.key) /\ Len(matq) < MaterialCap
  BY DEF DrainSends
<1>2. UNCHANGED <<facts, sync, serial, applied, wanted, subs, pull>>
  BY DEF DrainSends
<1>3. d \in Drains /\ s \in Drains /\ s.key = d.key /\ s.id = d.id
  BY DEF CovInv, CovTyped, Drains
<1> HIDE DEF s
<1>4. matq' \in Seq(Keys) /\ Len(matq') <= MaterialCap
  BY <1>1, <1>3, CoverageAssumption DEF CovInv, CovTyped, Drains
<1>5. CovTyped'
  BY <1>1, <1>2, <1>3, <1>4 DEF CovInv, CovTyped
<1>6. Serial'
  BY <1>2 DEF CovInv, Serial
<1>7. \A e \in drains' : e = s \/ (e \in drains /\ e # d)
  BY <1>1
<1>8. \A e \in drains' : e.id \in subs'[e.key]
  BY <1>2, <1>3, <1>7 DEF CovInv, Drained
<1>9. \A e, g \in drains' : e.key = g.key => e = g
  BY <1>3, <1>7 DEF CovInv, Drained
<1>10. \A k \in Keys : \A n \in subs'[k] : \E e \in drains' : e.key = k /\ e.id = n
  BY <1>1, <1>2, <1>3 DEF CovInv, Drained
<1>11. Drained'
  BY <1>2, <1>8, <1>9, <1>10 DEF CovInv, Drained
<1>12. Believed'
  BY <1>2 DEF CovInv, Believed
<1>13. Planned'
  BY <1>2 DEF CovInv, Planned
<1>14. Heard'
  BY <1>2, HeardKept
<1> QED
  BY <1>5, <1>6, <1>11, <1>12, <1>13, <1>14 DEF CovInv

LEMMA MaterializeInv == ASSUME CovInv, Materialize PROVE CovInv'
<1>1. UNCHANGED <<facts, sync, serial, applied, wanted, subs, drains, pull>>
  BY DEF Materialize
<1>2. matq' \in Seq(Keys) /\ Len(matq') <= MaterialCap
  BY CoverageAssumption DEF CovInv, CovTyped, Materialize
<1>3. CovTyped'
  BY <1>1, <1>2 DEF CovInv, CovTyped
<1>4. Heard'
  BY <1>1, HeardKept
<1>5. Serial' /\ Drained' /\ Believed' /\ Planned'
  BY <1>1, PolicyKept DEF Policy, Host
<1> QED
  BY <1>3, <1>4, <1>5 DEF CovInv

\* A change is followed by a sync, which waits for the lock.
LEMMA FactChangesInv == ASSUME CovInv, NEW t \in SyncTasks, FactChanges(t) PROVE CovInv'
<1>1. UNCHANGED <<serial, applied, wanted, subs, drains, matq, pull>>
  BY DEF FactChanges
<1>2. sync' = [sync EXCEPT ![t].pc = "wait"] /\ sync[t].pc = "idle"
  BY DEF FactChanges
<1>3. facts' \in Facts
  <2>1. facts \in Facts
    BY DEF CovInv, CovTyped
  <2>2. \A S \in SUBSET CChannels : \A c \in CChannels : Toggled(S, c) \in SUBSET CChannels
    BY DEF Toggled
  <2>3. ASSUME NEW c \in CChannels, NEW f \in {"routes", "archived"}, facts' = [facts EXCEPT ![f] = Toggled(@, c)]
        PROVE facts' \in Facts
    BY <2>1, <2>2, <2>3 DEF Facts
  <2>4. ASSUME NEW c \in CChannels, facts' = [facts EXCEPT !.roots = @ \cup {c}] PROVE facts' \in Facts
    BY <2>1, <2>4 DEF Facts
  <2>5. ASSUME NEW c \in CChannels, facts' = [facts EXCEPT !.member = Toggled(@, c)] PROVE facts' \in Facts
    <3>1. Toggled(facts.member, c) \in SUBSET CChannels
      BY <2>1, <2>2 DEF Facts
    <3> QED
      BY <2>1, <2>5, <3>1 DEF Facts
  <2>6. CASE facts' = [facts EXCEPT !.admins = ~@]
    BY <2>1, <2>6 DEF Facts
  <2> QED
    BY <2>3, <2>4, <2>5, <2>6 DEF FactChanges
<1>4. sync' \in [SyncTasks -> SyncRecords] /\ sync'[t].pc = "wait"
      /\ \A u \in SyncTasks : u # t => sync'[u] = sync[u]
  BY <1>2 DEF CovInv, CovTyped, SyncRecords
<1>5. CovTyped'
  BY <1>1, <1>3, <1>4 DEF CovInv, CovTyped
<1>6. Serial'
  BY <1>1, <1>2, <1>4 DEF CovInv, Serial
<1>7. Drained'
  BY <1>1 DEF CovInv, Drained
<1>8. Believed'
  BY <1>1 DEF CovInv, Believed
<1>9. Planned'
  BY <1>1, <1>4 DEF CovInv, Planned
<1>10. Heard'
  BY <1>1, HeardKept
<1> QED
  BY <1>5, <1>6, <1>7, <1>8, <1>9, <1>10 DEF CovInv

LEMMA OwnersAreKeys == ASSUME CovTyped PROVE desired_owners \subseteq Keys
<1> DEFINE chans == (facts.roots \cup facts.member \cup facts.routes) \ facts.archived
           some == UNION {ChannelKeys(c) : c \in chans}
           all == UNION {ChannelKeys(c) : c \in CChannels}
           admin == IF facts.admins THEN {AdminKey} ELSE {}
<1>1. chans \subseteq CChannels
  BY DEF CovTyped, Facts
<1>2. desired_owners = {GlobalKey} \cup SelfKeys \cup some \cup admin
  BY DEF desired_owners
<1>3. admin \subseteq {AdminKey}
  BY Zenon
<1>4. Keys = {GlobalKey, AdminKey} \cup SelfKeys \cup all
  BY DEF Keys
<1> HIDE DEF chans, admin
<1>5. some \subseteq all
  BY <1>1
<1> HIDE DEF some, all
<1> QED
  BY <1>2, <1>3, <1>4, <1>5

\* A sync that has the lock plans from what is applied and what is now wanted.
LEMMA PlanSyncInv == ASSUME CovInv, NEW t \in SyncTasks, PlanSync(t) PROVE CovInv'
<1> DEFINE want == desired_owners
           todo == plan(want)
<1>1. UNCHANGED <<facts, applied, subs, drains, matq, pull>>
  BY DEF PlanSync
<1>2. wanted' = want /\ sync' = [sync EXCEPT ![t] = [pc |-> "apply", todo |-> todo, want |-> want]]
  BY DEF PlanSync
<1>3. serial = {} /\ serial' = {t} /\ sync[t].pc = "wait"
  BY DEF PlanSync, acquire_sync
<1>4. want \in SUBSET Keys
  BY OwnersAreKeys DEF CovInv
<1> HIDE DEF want
<1>5. /\ todo \in Seq(Effects)
      /\ \A k \in want : k \in applied \/ \E i \in DOMAIN todo : todo[i] = Effect("open", k)
      /\ \A i \in DOMAIN todo : todo[i].op = "close" => todo[i].key \notin want
  BY <1>4, PlanCovers DEF CovInv, CovTyped
<1> HIDE DEF todo
<1>6. /\ sync' \in [SyncTasks -> SyncRecords]
      /\ sync'[t].pc = "apply" /\ sync'[t].todo = todo /\ sync'[t].want = want
      /\ \A u \in SyncTasks : u # t => sync'[u] = sync[u]
  BY <1>2, <1>4, <1>5 DEF CovInv, CovTyped, SyncRecords
<1>7. \A u \in SyncTasks : sync[u].pc # "apply"
  BY <1>3 DEF CovInv, Serial
<1>8. CovTyped'
  BY <1>1, <1>2, <1>3, <1>4, <1>6 DEF CovInv, CovTyped
<1>9. Serial'
  BY <1>3, <1>6, <1>7 DEF Serial
<1>10. Drained'
  BY <1>1 DEF CovInv, Drained
<1>11. Believed'
  BY <1>1 DEF CovInv, Believed
<1>12. Planned'
  BY <1>1, <1>2, <1>5, <1>6, <1>7 DEF Planned
<1>13. Heard'
  BY <1>1, HeardKept
<1> QED
  BY <1>8, <1>9, <1>10, <1>11, <1>12, <1>13 DEF CovInv

\* An effect of the plan, applied and confirmed: the rest is still to be done.
LEMMA EffectApplied ==
    ASSUME CovInv, NEW t \in SyncTasks, ApplyEffect(t),
           apply(Head(sync[t].todo)), confirm(Head(sync[t].todo)),
           sync' = [sync EXCEPT ![t].todo = Tail(@)], serial' = serial
    PROVE  CovInv'
<1> DEFINE q == sync[t].todo
           e == Head(q)
<1>1. UNCHANGED <<facts, wanted, matq, pull>>
  BY DEF ApplyEffect
<1>2. sync[t].pc = "apply" /\ q # <<>> /\ t \in serial
  BY DEF ApplyEffect, CovInv, Serial
<1>3. q \in Seq(Effects)
  BY DEF CovInv, CovTyped, SyncRecords
<1>4. apply(e) /\ confirm(e) /\ sync' = [sync EXCEPT ![t].todo = Tail(@)]
  OBVIOUS
<1> DEFINE rest == [sync[t] EXCEPT !.todo = Tail(q)]
<1>5. sync' \in [SyncTasks -> SyncRecords] /\ sync'[t] = rest /\ \A u \in SyncTasks : u # t => sync'[u] = sync[u]
  <2>1. Tail(q) \in Seq(Effects)
    BY <1>2, <1>3
  <2>2. rest \in SyncRecords
    BY <2>1 DEF CovInv, CovTyped, SyncRecords
  <2>3. sync' = [sync EXCEPT ![t] = rest]
    BY <1>4
  <2> HIDE DEF rest, q
  <2> QED
    BY <2>2, <2>3 DEF CovInv, CovTyped
<1>6. sync'[t].pc = "apply" /\ sync'[t].todo = Tail(q) /\ sync'[t].want = sync[t].want
  BY <1>2, <1>5 DEF CovInv, CovTyped, SyncRecords
<1>7. /\ sync[t].want = wanted
      /\ \A k \in wanted : k \in applied \/ \E i \in DOMAIN q : q[i] = Effect("open", k)
      /\ \A i \in DOMAIN q : q[i].op = "close" => q[i].key \notin wanted
  BY <1>2 DEF CovInv, Planned
<1> HIDE DEF q
<1>8. e \in Effects /\ e = q[1] /\ 1 \in DOMAIN q
  BY <1>2, <1>3
<1>9. /\ \A i \in DOMAIN q : i = 1 \/ (i - 1 \in DOMAIN Tail(q) /\ Tail(q)[i - 1] = q[i])
      /\ \A i \in DOMAIN Tail(q) : i + 1 \in DOMAIN q /\ Tail(q)[i] = q[i + 1]
  BY <1>2, <1>3
<1> HIDE DEF e
<1>10. e.key \in Keys /\ e.op \in {"open", "close"}
  BY <1>8 DEF Effects
<1>11. Hosted
  BY HostOfInv
<1>12. Hosted' /\ (\A j \in Keys : j # e.key => subs'[j] = subs[j]) /\ (e.op = "open" => subs'[e.key] # {})
  <2>1. CASE e.op = "close"
    <3>1. close_subscription(e.key)
      BY <1>4, <2>1 DEF apply
    <3> QED
      BY <1>10, <1>11, <2>1, <3>1, Closed
  <2>2. CASE e.op = "open"
    <3>1. open_subscription(e.key)
      BY <1>4, <2>2 DEF apply
    <3> QED
      BY <1>10, <1>11, <2>2, <3>1, Opened
  <2> QED
    BY <1>10, <2>1, <2>2
<1>13. applied' = IF e.op = "close" THEN applied \ {e.key}
                  ELSE IF e.key \in wanted THEN applied \cup {e.key} ELSE applied
  BY <1>4 DEF confirm
<1>14. applied' \subseteq Keys
  BY <1>10, <1>13 DEF CovInv, CovTyped
<1>15. CovTyped'
  BY <1>1, <1>5, <1>12, <1>14 DEF CovInv, CovTyped, Hosted
<1>16. Serial'
  BY <1>2, <1>5, <1>6 DEF CovInv, Serial
<1>17. Drained'
  BY <1>12 DEF Hosted
<1>18. Believed'
  BY <1>10, <1>12, <1>13, <1>14 DEF CovInv, CovTyped, Believed
<1>19. \A k \in wanted : k \in applied' \/ \E i \in DOMAIN Tail(q) : Tail(q)[i] = Effect("open", k)
  <2> SUFFICES ASSUME NEW k \in wanted
               PROVE k \in applied' \/ \E i \in DOMAIN Tail(q) : Tail(q)[i] = Effect("open", k)
    OBVIOUS
  <2>1. CASE k \in applied
    <3>1. e.op = "close" => e.key # k
      BY <1>7, <1>8
    <3> QED
      BY <1>13, <2>1, <3>1
  <2>2. CASE \E i \in DOMAIN q : q[i] = Effect("open", k)
    <3>1. PICK i \in DOMAIN q : q[i] = Effect("open", k)
      BY <2>2
    <3>2. CASE i = 1
      <4>1. e.op = "open" /\ e.key = k
        BY <1>8, <3>1, <3>2 DEF Effect
      <4> QED
        BY <1>13, <4>1
    <3>3. CASE i # 1
      BY <1>9, <3>1, <3>3
    <3> QED
      BY <3>2, <3>3
  <2> QED
    BY <1>7, <2>1, <2>2
<1>20. \A i \in DOMAIN Tail(q) : Tail(q)[i].op = "close" => Tail(q)[i].key \notin wanted
  BY <1>7, <1>9
<1>21. \A u \in SyncTasks : u # t => sync'[u].pc # "apply"
  BY <1>2, <1>5 DEF CovInv, Serial
<1>22. Planned'
  <2>1. wanted' = wanted /\ sync'[t].want = wanted'
    BY <1>1, <1>6, <1>7
  <2>2. \A k \in wanted' : k \in applied'
                           \/ \E i \in DOMAIN sync'[t].todo : sync'[t].todo[i] = Effect("open", k)
    BY <1>6, <1>19, <2>1
  <2>3. \A i \in DOMAIN sync'[t].todo : sync'[t].todo[i].op = "close" => sync'[t].todo[i].key \notin wanted'
    BY <1>6, <1>20, <2>1
  <2> QED
    BY <1>21, <2>1, <2>2, <2>3, Zenon DEF Planned
<1>23. Heard'
  BY <1>1, HeardKept
<1> QED
  BY <1>15, <1>16, <1>17, <1>18, <1>22, <1>23 DEF CovInv

\* A sync that ends, whether its plan is done or an observation was refused.
LEMMA SyncEndsInv ==
    ASSUME CovInv, NEW t \in SyncTasks, sync' = [sync EXCEPT ![t] = SyncIdle], serial' = serial \ {t},
           UNCHANGED <<facts, applied, wanted, subs, drains, matq, pull>>
    PROVE  CovInv'
<1>1. SyncIdle \in SyncRecords /\ SyncIdle.pc = "idle"
  BY DEF SyncIdle, SyncRecords
<1>2. sync' \in [SyncTasks -> SyncRecords] /\ sync'[t].pc = "idle" /\ \A u \in SyncTasks : u # t => sync'[u] = sync[u]
  BY <1>1 DEF CovInv, CovTyped
<1>3. CovTyped'
  BY <1>2 DEF CovInv, CovTyped
<1>4. Serial'
  BY <1>2 DEF CovInv, Serial
<1>5. Drained'
  BY DEF CovInv, Drained
<1>6. Believed'
  BY DEF CovInv, Believed
<1>7. Planned'
  BY <1>2 DEF CovInv, Planned
<1>8. Heard'
  BY HeardKept
<1> QED
  BY <1>3, <1>4, <1>5, <1>6, <1>7, <1>8 DEF CovInv

LEMMA ApplyEffectInv == ASSUME CovInv, NEW t \in SyncTasks, ApplyEffect(t) PROVE CovInv'
<1>1. CASE /\ apply(Head(sync[t].todo)) /\ confirm(Head(sync[t].todo))
           /\ sync' = [sync EXCEPT ![t].todo = Tail(@)] /\ UNCHANGED <<serial, cfaults>>
  BY <1>1, EffectApplied
<1>2. CASE /\ sync' = [sync EXCEPT ![t] = SyncIdle] /\ serial' = serial \ {t}
           /\ UNCHANGED <<subs, drains, applied>>
  <2>1. UNCHANGED <<facts, wanted, matq, pull>>
    BY DEF ApplyEffect
  <2> QED
    BY <1>2, <2>1, SyncEndsInv
<1> QED
  BY <1>1, <1>2 DEF ApplyEffect

LEMMA SyncReturnsInv == ASSUME CovInv, NEW t \in SyncTasks, SyncReturns(t) PROVE CovInv'
  BY SyncEndsInv DEF SyncReturns

\* A replay replaces an observation without the lock: what the policy believes stays so.
LEMMA ReplayInv == ASSUME CovInv, NEW c \in CChannels, replay_channel_chat(c) PROVE CovInv'
<1>1. UNCHANGED <<facts, sync, serial, applied, wanted, matq, pull>>
  BY DEF replay_channel_chat
<1>2. CASE open_subscription(<<"h", c>>)
  <2> DEFINE k == <<"h", c>>
  <2>1. k \in Keys
    BY DEF Keys, ChannelKeys
  <2> HIDE DEF k
  <2>2. open_subscription(k)
    BY <1>2 DEF k
  <2>3. Hosted' /\ subs'[k] # {} /\ \A j \in Keys : j # k => subs'[j] = subs[j]
    BY <2>1, <2>2, HostOfInv, Opened
  <2>4. CovTyped'
    BY <1>1, <2>3 DEF CovInv, CovTyped, Hosted
  <2>5. Serial'
    BY <1>1 DEF CovInv, Serial
  <2>6. Drained'
    BY <2>3 DEF Hosted
  <2>7. Believed'
    BY <1>1, <2>3 DEF CovInv, CovTyped, Believed
  <2>8. Planned'
    BY <1>1 DEF CovInv, Planned
  <2>9. Heard'
    BY <1>1, HeardKept
  <2> QED
    BY <2>4, <2>5, <2>6, <2>7, <2>8, <2>9 DEF CovInv
<1>3. CASE UNCHANGED <<subs, drains>>
  <2>1. CovTyped'
    BY <1>1, <1>3 DEF CovInv, CovTyped
  <2>2. Heard'
    BY <1>1, HeardKept
  <2>3. Serial' /\ Drained' /\ Believed' /\ Planned'
    BY <1>1, <1>3, PolicyKept DEF Policy, Host
  <2> QED
    BY <2>1, <2>2, <2>3 DEF CovInv
<1> QED
  BY <1>2, <1>3 DEF replay_channel_chat

\* Where only the reads move.
LEMMA OthersKept ==
    ASSUME CovInv, UNCHANGED <<facts, sync, serial, applied, wanted, subs, drains, matq>>, pull' \in Fetches, Heard'
    PROVE  CovInv'
<1>1. CovTyped'
  BY DEF CovInv, CovTyped
<1>2. Serial' /\ Drained' /\ Believed' /\ Planned'
  BY PolicyKept DEF Policy, Host
<1> QED
  BY <1>1, <1>2 DEF CovInv

\* An answer without rows is one that a frame allows.
LEMMA FinishAnswers ==
    ASSUME NEW latest \in SUBSET Frames
    PROVE  /\ finish_latest(latest) \in {"error", "empty", "rows"}
           /\ finish_latest(latest) = "empty" => \E f \in latest : f.ev \in {"ready", "active"}
<1>1. CASE latest = {}
  BY <1>1 DEF finish_latest
<1>2. CASE latest # {}
  <2> DEFINE f == CHOOSE x \in latest : TRUE
  <2>1. f \in latest
    BY <1>2
  <2>2. finish_latest(latest) = IF f.rows = 0 /\ ~empty_result_usable(f.ev) THEN "error"
                                ELSE IF f.rows = 0 THEN "empty" ELSE "rows"
    BY <1>2 DEF finish_latest
  <2> HIDE DEF f
  <2>3. finish_latest(latest) = "empty" => f.ev \in {"ready", "active"}
    BY <2>2 DEF empty_result_usable, acquisition_ready, acquisition_active
  <2> QED
    BY <2>1, <2>2, <2>3
<1> QED
  BY <1>1, <1>2

LEMMA ReadInv ==
    ASSUME CovInv, fetch_from \/ ReadEnds \/ ReadDelivered \/ \E rows \in 0..1, ev \in Evidence : Frame(rows, ev)
    PROVE  CovInv'
<1>1. UNCHANGED <<facts, sync, serial, applied, wanted, subs, drains, matq>>
  BY DEF fetch_from, ReadEnds, ReadDelivered, Frame, CUnread
<1>2. NoRead \in Fetches /\ pull \in Fetches
  BY DEF CovInv, CovTyped, NoRead, Fetches
<1>3. pull' \in Fetches /\ Heard'
  <2>1. CASE fetch_from
    <3>1. pull' = [NoRead EXCEPT !.pc = "reading"]
      BY <2>1 DEF fetch_from
    <3>2. pull' \in Fetches /\ pull'.out = "none"
      BY <3>1 DEF NoRead, Fetches
    <3> QED
      BY <3>2 DEF Heard, EmptyIsAnswered
  <2>2. CASE ReadEnds
    <3>1. pull' = [pull EXCEPT !.pc = "done", !.out = finish_latest(pull.latest)]
      BY <2>2 DEF ReadEnds
    <3>2. /\ finish_latest(pull.latest) \in {"error", "empty", "rows"}
          /\ finish_latest(pull.latest) = "empty" => \E f \in pull.latest : f.ev \in {"ready", "active"}
      BY <1>2, FinishAnswers DEF Fetches
    <3>3. pull' \in Fetches /\ pull'.pc = "done" /\ pull'.out = finish_latest(pull.latest) /\ pull'.latest = pull.latest
      BY <1>2, <3>1, <3>2 DEF Fetches
    <3> QED
      BY <3>2, <3>3 DEF Heard, EmptyIsAnswered
  <2>3. CASE ReadDelivered
    <3>1. pull' = NoRead
      BY <2>3 DEF ReadDelivered
    <3>2. pull' \in Fetches /\ pull'.out = "none"
      BY <3>1 DEF NoRead, Fetches
    <3> QED
      BY <3>2 DEF Heard, EmptyIsAnswered
  <2>4. CASE \E rows \in 0..1, ev \in Evidence : Frame(rows, ev)
    <3>1. PICK rows \in 0..1, ev \in Evidence : Frame(rows, ev)
      BY <2>4
    <3> DEFINE latest == {[rows |-> rows, ev |-> ev]}
    <3>2. latest \in SUBSET Frames
      BY DEF Frames
    <3>3. /\ pull.pc = "reading"
          /\ pull' = IF acquisition_ready(ev)
                     THEN [pull EXCEPT !.pc = "done", !.latest = latest, !.quiet = FALSE, !.out = finish_latest(latest)]
                     ELSE [pull EXCEPT !.latest = latest, !.quiet = acquisition_active(ev)]
      BY <3>1 DEF Frame
    <3> HIDE DEF latest
    <3>4. /\ finish_latest(latest) \in {"error", "empty", "rows"}
          /\ finish_latest(latest) = "empty" => \E f \in latest : f.ev \in {"ready", "active"}
      BY <3>2, FinishAnswers
    <3>5. CASE acquisition_ready(ev)
      <4>1. pull' = [pull EXCEPT !.pc = "done", !.latest = latest, !.quiet = FALSE, !.out = finish_latest(latest)]
        BY <3>3, <3>5
      <4>2. pull' \in Fetches /\ pull'.pc = "done" /\ pull'.out = finish_latest(latest) /\ pull'.latest = latest
        BY <1>2, <3>2, <3>4, <4>1 DEF Fetches
      <4> QED
        BY <3>4, <4>2 DEF Heard, EmptyIsAnswered
    <3>6. CASE ~acquisition_ready(ev)
      <4>1. pull' = [pull EXCEPT !.latest = latest, !.quiet = acquisition_active(ev)]
        BY <3>3, <3>6
      <4>2. pull' \in Fetches /\ pull'.out = pull.out
        BY <1>2, <3>2, <4>1 DEF Fetches, acquisition_active
      <4>3. pull.out = "none"
        BY <3>3 DEF CovInv, Heard
      <4> QED
        BY <4>2, <4>3 DEF Heard, EmptyIsAnswered
    <3> QED
      BY <3>5, <3>6
  <2> QED
    BY <2>1, <2>2, <2>3, <2>4
<1> QED
  BY <1>1, <1>3, OthersKept

\* The backend profile and a scheduled replay leave all of this alone.
LEMMA ElsewhereInv ==
    ASSUME CovInv, UNCHANGED <<facts, sync, serial, applied, wanted, subs, drains, matq, pull>>
    PROVE  CovInv'
<1>1. Heard'
  BY HeardKept
<1>2. pull' \in Fetches
  BY DEF CovInv, CovTyped
<1> QED
  BY <1>1, <1>2, OthersKept

-----------------------------------------------------------------------------
(* Observations: the theorems.                                              *)

LEMMA CovInit == ASSUME CoverageInit PROVE CovInv
<1> DEFINE first == {GlobalKey} \cup SelfKeys
<1>1. first \subseteq Keys
  BY DEF Keys
<1>2. applied = first /\ wanted = first /\ serial = {} /\ matq = <<>>
  BY DEF CoverageInit
<1>3. drains = {[key |-> k, id |-> 1, todo |-> FALSE] : k \in first}
  BY DEF CoverageInit
<1>4. subs = [k \in Keys |-> IF k \in first THEN {1} ELSE {}]
  BY DEF CoverageInit
<1> HIDE DEF first
<1> DEFINE thread(k) == [key |-> k, id |-> 1, todo |-> FALSE]
<1>21. \A k \in first : thread(k) \in Drains /\ thread(k).key = k /\ thread(k).id = 1
  BY <1>1 DEF Drains
<1>22. drains = {thread(k) : k \in first}
  BY <1>3
<1> HIDE DEF thread
<1>5. sync \in [SyncTasks -> SyncRecords] /\ \A t \in SyncTasks : sync[t].pc = "idle"
  BY DEF CoverageInit, SyncIdle, SyncRecords
<1>6. facts \in Facts
  BY DEF CoverageInit, Facts
<1>7. pull \in Fetches /\ pull.pc = "idle" /\ pull.out = "none"
  BY DEF CoverageInit, NoRead, Fetches
<1>8. \A d \in drains : d \in Drains /\ d.key \in first /\ d.id = 1
  BY <1>21, <1>22
<1>9. \A k \in first : \E d \in drains : d.key = k /\ d.id = 1
  BY <1>21, <1>22
<1>10. subs \in [Keys -> SUBSET (1..4)]
  BY <1>4
<1>11. matq \in Seq(Keys) /\ Len(matq) <= MaterialCap
  BY <1>2, CoverageAssumption
<1>12. CovTyped
  BY <1>1, <1>2, <1>5, <1>6, <1>7, <1>8, <1>10, <1>11 DEF CovTyped
<1>13. Serial
  BY <1>2, <1>5 DEF Serial
<1>14. \A d, e \in drains : d.key = e.key => d = e
  BY <1>21, <1>22
<1>15. \A d \in drains : d.id \in subs[d.key]
  BY <1>1, <1>4, <1>8
<1>16. \A k \in Keys : \A m \in subs[k] : m = 1 /\ k \in first
  BY <1>4
<1>17. Drained
  BY <1>9, <1>14, <1>15, <1>16 DEF Drained
<1>18. Believed
  BY <1>1, <1>2, <1>4 DEF Believed
<1>19. Planned
  BY <1>5 DEF Planned
<1>20. Heard
  BY <1>7 DEF Heard, EmptyIsAnswered
<1> QED
  BY <1>12, <1>13, <1>17, <1>18, <1>19, <1>20 DEF CovInv

LEMMA CovStep == ASSUME CovInv, [CoverageNext]_cvars PROVE CovInv'
<1>1. CASE EventArrives
  BY <1>1, EventArrivesInv
<1>2. CASE Materialize
  BY <1>2, MaterializeInv
<1>3. CASE \E d \in drains : DrainSends(d)
  BY <1>3, DrainSendsInv
<1>4. CASE \E t \in SyncTasks : FactChanges(t) \/ PlanSync(t) \/ ApplyEffect(t) \/ SyncReturns(t)
  BY <1>4, FactChangesInv, PlanSyncInv, ApplyEffectInv, SyncReturnsInv
<1>5. CASE \E c \in CChannels : ScheduleReplay(c)
  BY <1>5, ElsewhereInv DEF ScheduleReplay
<1>6. CASE \E c \in CChannels : replay_channel_chat(c)
  BY <1>6, ReplayInv
<1>7. CASE fetch_from \/ ReadEnds \/ ReadDelivered \/ \E rows \in 0..1, ev \in Evidence : Frame(rows, ev)
  BY <1>7, ReadInv
<1>8. CASE schedule_backend_profile_refresh \/ Second
  BY <1>8, ElsewhereInv DEF schedule_backend_profile_refresh, Second, CUnadv
<1>9. CASE \E t \in adv.tasks : backend_profile_snapshot(t) \/ publish_backend_profile(t)
  BY <1>9, ElsewhereInv DEF backend_profile_snapshot, publish_backend_profile, CUnadv
<1>10. CASE UNCHANGED cvars
  BY <1>10, ElsewhereInv DEF cvars
<1> QED
  BY <1>1, <1>2, <1>3, <1>4, <1>5, <1>6, <1>7, <1>8, <1>9, <1>10 DEF CoverageNext

\* A set whose elements are all one has at most one.
LEMMA OneAtMost ==
    ASSUME NEW S, \A x, y \in S : x = y
    PROVE  IsFiniteSet(S) /\ Cardinality(S) = IF S = {} THEN 0 ELSE 1
<1>1. CASE S = {}
  BY <1>1, FS_EmptySet
<1>2. CASE S # {}
  <2>1. PICK x \in S : S = {x}
    BY <1>2
  <2> QED
    BY <1>2, <2>1, FS_Singleton
<1> QED
  BY <1>1, <1>2

LEMMA CovSafe == ASSUME CovInv PROVE CoverageSafe
<1>1. Cardinality(serial) <= 1
  <2>1. \A x, y \in serial : x = y
    BY DEF CovInv, Serial
  <2>2. Cardinality(serial) = IF serial = {} THEN 0 ELSE 1
    BY <2>1, OneAtMost
  <2> QED
    BY <2>2
<1>2. \A t \in SyncTasks : sync[t].pc \in {"idle", "wait", "apply"} /\ (sync[t].pc = "apply") = (t \in serial)
  <2> SUFFICES ASSUME NEW t \in SyncTasks
               PROVE sync[t].pc \in {"idle", "wait", "apply"} /\ (sync[t].pc = "apply") = (t \in serial)
    OBVIOUS
  <2>1. sync[t] \in SyncRecords /\ (sync[t].pc = "apply" <=> t \in serial)
    BY DEF CovInv, CovTyped, Serial
  <2> QED
    BY <2>1 DEF SyncRecords
<1>3. CoverageTypeOK
  BY <1>1, <1>2 DEF CovInv, CovTyped, CoverageTypeOK, Facts
<1>4. applied \subseteq Observed
  BY DEF CovInv, CovTyped, Believed, Observed
<1>5. \A k \in Keys : Cardinality({d \in drains : d.key = k}) = Cardinality(subs[k])
  <2> SUFFICES ASSUME NEW k \in Keys
               PROVE Cardinality({d \in drains : d.key = k}) = Cardinality(subs[k])
    OBVIOUS
  <2> DEFINE T == {d \in drains : d.key = k}
  <2>1. \A x, y \in T : x = y
    BY DEF CovInv, Drained
  <2>2. \A x, y \in subs[k] : x = y
    BY DEF CovInv, Drained
  <2>3. T = {} <=> subs[k] = {}
    BY DEF CovInv, Drained
  <2>4. Cardinality(T) = IF T = {} THEN 0 ELSE 1
    BY <2>1, OneAtMost
  <2>5. Cardinality(subs[k]) = IF subs[k] = {} THEN 0 ELSE 1
    BY <2>2, OneAtMost
  <2> QED
    BY <2>3, <2>4, <2>5
<1>6. EmptyIsAnswered
  BY DEF CovInv, Heard
<1> QED
  BY <1>3, <1>4, <1>5, <1>6 DEF CoverageSafe, OneDrainEach

\* For every set of channels and tasks, every queue and any number of changes and
\* refusals: what the subscription policy believes applied is observed by exactly one
\* thread, syncs are serialised, and no read takes silence for an empty group.
THEOREM CoverageSafeCorrect == CoverageSpec => []CoverageSafe
<1>1. CoverageInit => CovInv
  BY CovInit
<1>2. CovInv /\ [CoverageNext]_cvars => CovInv'
  BY CovStep
<1>3. CovInv => CoverageSafe
  BY CovSafe
<1> QED
  BY <1>1, <1>2, <1>3, PTL DEF CoverageSpec

\* A sync that returns successfully has everything it planned to cover observed,
\* whatever unserialised replays, changes and refused observations came between.
THEOREM SyncedCoversCorrect == CoverageSpec => SyncedCovers
<1> DEFINE Covers == \A t \in SyncTasks : SyncReturns(t) => sync[t].want \subseteq Observed
<1>1. CoverageInit => CovInv
  BY CovInit
<1>2. CovInv /\ [CoverageNext]_cvars => CovInv'
  BY CovStep
<1>3. CovInv => Covers
  <2> SUFFICES ASSUME CovInv, NEW t \in SyncTasks, SyncReturns(t), NEW k \in sync[t].want
               PROVE k \in Observed
    OBVIOUS
  <2>1. sync[t].pc = "apply" /\ sync[t].todo = <<>>
    BY DEF SyncReturns
  <2>2. DOMAIN sync[t].todo = {}
    BY <2>1
  <2>3. k \in applied
    BY <2>1, <2>2 DEF CovInv, Planned
  <2> QED
    BY <2>3 DEF CovInv, CovTyped, Believed, Observed
<1>4. CovInv /\ [CoverageNext]_cvars => [Covers]_cvars
  BY <1>3
<1> HIDE DEF Covers
<1>5. CoverageSpec => [][Covers]_cvars
  BY <1>1, <1>2, <1>4, PTL DEF CoverageSpec
<1> QED
  BY <1>5 DEF SyncedCovers, Covers

-----------------------------------------------------------------------------
(* Standing.                                                                *)

USE StandingAssumption

Task == [pc: TaskPc, h: Held, due: Standing, listed: BOOLEAN]

-----------------------------------------------------------------------------
(* Types of the store's transactions.                                      *)

\* The fields a task takes from a row are of their types.
LEMMA HeldType == ASSUME NEW r \in Session PROVE Hold(r) \in Held
  BY DEF Hold, Held, Session

\* The initial values are of the types.
LEMMA InitialValues == NoSession \in Session /\ NoStanding \in Standing /\ Idle \in Task
<1>1. NoSession \in Session
  BY DEF NoSession, Session, RuntimeState, PresentationState, WorkState, RecoveryState,
         StopReason
<1>2. NoStanding \in Standing
  BY DEF NoStanding, Standing
<1> QED BY <1>1, <1>2, HeldType DEF Idle, Task, TaskPc

\* The standing transactions (retain, revoke, mark absent, schedule cleanup)
\* write standing rows.
LEMMA StandingTypes ==
  ASSUME NEW s \in Standing, NEW le \in Nat, NEW until \in Nat, NEW d \in Standing,
         now \in Nat
  PROVE  /\ Initialized(s, le) \in Standing /\ WithRow(s, le) \in Standing
         /\ Retain(s, le, until) \in Standing /\ RevokeStanding(s, le) \in Standing
         /\ MarkAbsent(s, d) \in Standing /\ CleanupDue(s, le) \in Standing
<1>1. Initialized(s, le) \in Standing
  BY DEF Initialized, Standing
<1>2. WithRow(s, le) \in Standing
  BY <1>1 DEF WithRow
<1>3. Retain(s, le, until) \in Standing
  <2> DEFINE t == WithRow(s, le)
  <2>1. t \in Standing /\ Retain(s, le, until) =
          IF t.st = "member"
          THEN [st |-> "retained", until |-> until, se |-> t.se + 1, le |-> le] ELSE t
    BY <1>2 DEF Retain
  <2> HIDE DEF t
  <2> QED BY <2>1 DEF Standing
<1>4. RevokeStanding(s, le) \in Standing
  <2> DEFINE t == WithRow(s, le)
  <2>1. t \in Standing /\ RevokeStanding(s, le) =
          IF t.st = "none" THEN t
          ELSE [st |-> IF t.st = "absent" THEN "absent" ELSE "retained",
                until |-> IF t.st = "absent" THEN 0 ELSE now, se |-> t.se + 1, le |-> le]
    BY <1>2 DEF RevokeStanding
  <2> HIDE DEF t
  <2> QED BY <2>1 DEF Standing
<1>5. MarkAbsent(s, d) \in Standing
  <2> DEFINE n == s.se + 1
  <2>1. n \in Nat
    BY DEF Standing
  <2>2. \/ MarkAbsent(s, d) = s
        \/ MarkAbsent(s, d) = [s EXCEPT !.st = "absent", !.until = 0, !.se = n]
    BY DEF MarkAbsent
  <2>3. ASSUME NEW m \in Nat
        PROVE  [s EXCEPT !.st = "absent", !.until = 0, !.se = m] \in Standing
    BY DEF Standing
  <2> HIDE DEF n
  <2> QED BY <2>1, <2>2, <2>3
<1>6. CleanupDue(s, le) \in Standing
  BY DEF CleanupDue, Standing
<1> QED BY <1>1, <1>2, <1>3, <1>4, <1>5, <1>6

\* A reserved and a cancelled eviction are rows again.
LEMMA EvictionTypes ==
  ASSUME NEW r \in Session, NEW t \in Nat
  PROVE  /\ ReserveEviction(r) \in Session
         /\ CancelEviction(r, r.gen, r.le, r.ae, "unavailable", t) \in Session
<1>1. r.le + 1 \in Nat
  BY DEF Session
<1>2. ReserveEviction(r) \in Session
  BY <1>1, Vocabulary DEF ReserveEviction, Session
<1>3. CancelEviction(r, r.gen, r.le, r.ae, "unavailable", t) \in Session
  BY <1>1, Vocabulary DEF CancelEviction, Session
<1> QED BY <1>2, <1>3

\* The steps of the session row (reserve, stop, evict) keep the types.
LEMMA RuntimeTypes ==
  ASSUME TypeOK, Runtime PROVE TypeOK'
<1>0. now \in Nat /\ row \in Session /\ standing \in Standing /\ Retention \in Nat
  BY DEF TypeOK
<1>1. \A reason : RetainUntil(reason) \in Nat
  BY <1>0 DEF RetainUntil
<1>2. ASSUME row' \in Session, standing' \in Standing, route' \in BOOLEAN,
             UNCHANGED <<now, relay, lane, task, spent>>
      PROVE  TypeOK'
  BY <1>2 DEF TypeOK
<1>3. CASE Launch
  <2>1. row' \in Session
    <3>1. row.gen + 1 \in Nat /\ row.le + 1 \in Nat
      BY <1>0 DEF Session
    <3> QED BY <1>0, <1>3, <3>1, Vocabulary DEF Launch, ReserveGeneration, Session
  <2>2. Initialized(standing, row'.le) \in Standing
    BY <1>0, <2>1, StandingTypes DEF Session
  <2>3. standing' \in Standing /\ route' \in BOOLEAN
    BY <1>0, <1>3, <2>2 DEF Launch, TypeOK
  <2> QED BY <1>2, <1>3, <2>1, <2>3 DEF Launch
<1>4. CASE RuntimeStops
  <2>1. PICK reason \in {"crash", "attached_clean_exit"} :
          /\ row' = MarkRuntimeStopped(row, row.gen, reason)
          /\ standing' = Retain(standing, row'.le, RetainUntil(reason))
    BY <1>4 DEF RuntimeStops
  <2>2. row' \in Session
    <3>1. reason \in StopReason
      BY DEF StopReason
    <3> QED BY <1>0, <2>1, <3>1, StoppedLemma DEF MarkRuntimeStopped
  <2>3. standing' \in Standing
    BY <1>0, <1>1, <2>1, <2>2, StandingTypes DEF Session
  <2> QED BY <1>2, <1>4, <2>2, <2>3 DEF RuntimeStops, TypeOK
<1>5. CASE EvictionReserved
  BY <1>0, <1>2, <1>5, EvictionTypes DEF EvictionReserved, TypeOK
<1>6. CASE EvictionCancelled
  BY <1>0, <1>2, <1>6, EvictionTypes DEF EvictionCancelled, TypeOK
<1>7. CASE EvictionFinalized
  <2>1. row' \in Session
    BY <1>0, <1>7, StoppedLemma, Vocabulary DEF EvictionFinalized, FinalizeRuntimeStopped
  <2>2. standing' \in Standing
    BY <1>0, <1>1, <1>7, <2>1, StandingTypes DEF EvictionFinalized, Session
  <2> QED BY <1>2, <1>7, <2>1, <2>2 DEF EvictionFinalized, TypeOK
<1> QED BY <1>3, <1>4, <1>5, <1>6, <1>7 DEF Runtime

-----------------------------------------------------------------------------
(* Types of the tasks.                                                     *)

\* A step that leaves the row and the standing alone and moves one task.
LEMMA TaskMove ==
  ASSUME TypeOK, NEW t \in Tasks, NEW x \in Task, task' = [task EXCEPT ![t] = x],
         lane' \in Tasks \cup {"none"}, relay' \in BOOLEAN, route' \in BOOLEAN,
         row' \in Session, standing' \in Standing, now' = now,
         \/ UNCHANGED spent
         \/ \E k \in DOMAIN Budget : spent' = [spent EXCEPT ![k] = @ + 1]
  PROVE  TypeOK'
<1>1. task' \in [Tasks -> Task]
  BY DEF TypeOK, Task
<1>2. spent' \in [DOMAIN Budget -> Nat]
  BY DEF TypeOK
<1> QED BY <1>1, <1>2 DEF TypeOK, Task

\* What Go and Release do to a task, as an update of the whole record.
LEMMA Moves ==
  ASSUME TypeOK, NEW t \in Tasks, NEW pc \in TaskPc
  PROVE  /\ Idle \in Task /\ [task[t] EXCEPT !.pc = pc] \in Task
         /\ Go(t, pc) => task' = [task EXCEPT ![t] = [task[t] EXCEPT !.pc = pc]]
         /\ Release(t) => task' = [task EXCEPT ![t] = Idle] /\ lane' = "none"
<1>1. task[t] \in Task
  BY DEF TypeOK, Task
<1> QED BY <1>1, InitialValues DEF Go, Release, Task

\* Spending is counting.
LEMMA Spending ==
  ASSUME NEW k \in DOMAIN Budget, Spend(k)
  PROVE  \E j \in DOMAIN Budget : spent' = [spent EXCEPT ![j] = @ + 1]
  BY DEF Spend

\* The keys of the budget.
LEMMA BudgetKeys ==
  DOMAIN Budget = {"requests", "rejected", "grants", "removals", "errors", "crashes",
                   "forgets", "leaves"}
  BY DEF Budget

\* The program counters the tasks go through.
LEMMA Stages ==
  /\ "idle" \in TaskPc /\ "wait" \in TaskPc /\ "grant" \in TaskPc /\ "commit" \in TaskPc
  /\ "fallback" \in TaskPc /\ "remove" \in TaskPc /\ "mark" \in TaskPc
  /\ "terminate" \in TaskPc /\ "finalize" \in TaskPc
  BY DEF TaskPc

\* A stale admission (CleanupDue, Superseded) keeps the types.
LEMMA StaleTypes ==
  ASSUME TypeOK, NEW t \in Tasks, Stale(t)
  PROVE  /\ standing' \in Standing /\ lane' \in Tasks \cup {"none"}
         /\ \E x \in Task : task' = [task EXCEPT ![t] = x]
<1>0. now \in Nat /\ standing \in Standing /\ task[t] \in Task /\ task[t].h.le \in Nat
  BY DEF TypeOK, Task, Held
<1>1. CASE NewerMember(standing, task[t].h.le)
  BY <1>0, <1>1, Moves, Stages DEF Stale, TypeOK
<1>2. CASE ~NewerMember(standing, task[t].h.le)
  <2>1. /\ standing' = CleanupDue(standing, task[t].h.le)
        /\ task' = [task EXCEPT ![t].pc = "remove", ![t].due = standing']
        /\ UNCHANGED lane
    BY <1>2 DEF Stale
  <2>2. standing' \in Standing
    BY <1>0, <2>1, StandingTypes
  <2>3. [task[t] EXCEPT !.pc = "remove", !.due = standing'] \in Task
    BY <1>0, <2>2, Stages DEF Task
  <2>4. task' = [task EXCEPT ![t] = [task[t] EXCEPT !.pc = "remove", !.due = standing']]
    BY <2>1
  <2> QED BY <2>1, <2>2, <2>3, <2>4 DEF TypeOK
<1> QED BY <1>1, <1>2

\* The steps of a task in the lane (grant, commit, remove, mark) keep the types.
LEMMA LaneTypes ==
  ASSUME TypeOK, NEW t \in Tasks, Step(t) PROVE TypeOK'
<1>0. /\ now \in Nat /\ row \in Session /\ route \in BOOLEAN /\ standing \in Standing
      /\ relay \in BOOLEAN /\ lane \in Tasks \cup {"none"} /\ task[t] \in Task
  BY DEF TypeOK, Task
<1>h. task[t].h.le \in Nat /\ task[t].due \in Standing /\ row.le \in Nat /\ standing.se \in Nat
  BY <1>0 DEF Task, Held, Session, Standing
<1> HIDE DEF Task
<1>1. CASE AdmitLock(t)
  BY <1>0, <1>1, Moves, Stages, TaskMove DEF AdmitLock
<1>2. CASE Grant(t)
  <2>1. \/ UNCHANGED spent
        \/ \E k \in DOMAIN Budget : spent' = [spent EXCEPT ![k] = @ + 1]
    BY <1>2, BudgetKeys DEF Grant, Spend
  <2>2. /\ relay' \in BOOLEAN /\ lane' \in Tasks \cup {"none"}
        /\ \E x \in Task : task' = [task EXCEPT ![t] = x]
    BY <1>0, <1>2, Moves, Stages DEF Grant
  <2> QED BY <1>0, <1>2, <2>1, <2>2, TaskMove DEF Grant
<1>3. CASE Remove(t)
  <2>1. \/ UNCHANGED spent
        \/ \E k \in DOMAIN Budget : spent' = [spent EXCEPT ![k] = @ + 1]
    BY <1>3, BudgetKeys DEF Remove, Spend
  <2>2. /\ relay' \in BOOLEAN /\ lane' \in Tasks \cup {"none"}
        /\ \E x \in Task : task' = [task EXCEPT ![t] = x]
    BY <1>0, <1>3, Moves, Stages DEF Remove
  <2> QED BY <1>0, <1>3, <2>1, <2>2, TaskMove DEF Remove
<1>4. CASE Mark(t)
  <2>1. \/ UNCHANGED spent
        \/ \E k \in DOMAIN Budget : spent' = [spent EXCEPT ![k] = @ + 1]
    BY <1>4, BudgetKeys DEF Mark, Spend
  <2>2. /\ MarkAbsent(standing, task[t].due) \in Standing
        /\ [st |-> "absent", until |-> 0, se |-> standing.se + 1, le |-> row.le] \in Standing
    <3>1. MarkAbsent(standing, task[t].due) \in Standing
      BY <1>0, <1>h, StandingTypes
    <3> QED BY <1>h, <3>1 DEF Standing
  <2>3. standing' \in Standing /\ route' \in BOOLEAN
    BY <1>0, <1>4, <2>2 DEF Mark
  <2>4. /\ lane' \in Tasks \cup {"none"}
        /\ \E x \in Task : task' = [task EXCEPT ![t] = x]
    BY <1>0, <1>4, Moves, Stages DEF Mark
  <2> QED BY <1>0, <1>4, <2>1, <2>3, <2>4, TaskMove DEF Mark
<1>5. ASSUME Admit(t) PROVE standing' \in Standing /\ route' \in BOOLEAN
  BY <1>5, <1>h DEF Admit, Standing
<1>6. CASE Commit(t)
  <2>1. \/ UNCHANGED spent
        \/ \E k \in DOMAIN Budget : spent' = [spent EXCEPT ![k] = @ + 1]
    BY <1>6, BudgetKeys DEF Commit, Spend
  <2>2. /\ standing' \in Standing /\ route' \in BOOLEAN /\ lane' \in Tasks \cup {"none"}
        /\ \E x \in Task : task' = [task EXCEPT ![t] = x]
    BY <1>0, <1>5, <1>6, Moves, Stages, StaleTypes DEF Commit
  <2> QED BY <1>0, <1>6, <2>1, <2>2, TaskMove DEF Commit
<1>7. CASE Fallback(t)
  <2>1. \/ UNCHANGED spent
        \/ \E k \in DOMAIN Budget : spent' = [spent EXCEPT ![k] = @ + 1]
    BY <1>7, BudgetKeys DEF Fallback, Spend
  <2>2. /\ standing' \in Standing /\ lane' \in Tasks \cup {"none"}
        /\ \E x \in Task : task' = [task EXCEPT ![t] = x]
    BY <1>0, <1>7, Moves, Stages, StaleTypes DEF Fallback
  <2> QED BY <1>0, <1>7, <2>1, <2>2, TaskMove DEF Fallback
<1> QED BY <1>1, <1>2, <1>3, <1>4, <1>6, <1>7 DEF Step

\* The steps outside the lane (requests, repair, expiry, leave, forget, crash)
\* keep the types.
LEMMA TaskTypes ==
  ASSUME TypeOK,
         \/ Tick \/ Crash \/ Repair \/ Expire \/ Leave \/ LeaveLock \/ ForgetRevoke
         \/ ForgetTerminate \/ ForgetFinalize \/ ForgetLock
         \/ \E t \in Callers : Request(t) \/ RecoveryRequest(t)
  PROVE  TypeOK'
<1>0. /\ now \in Nat /\ row \in Session /\ route \in BOOLEAN /\ standing \in Standing
      /\ relay \in BOOLEAN /\ lane \in Tasks \cup {"none"}
      /\ \A t \in Tasks : task[t] \in Task
      /\ "tick" \in Tasks /\ "leave" \in Tasks /\ "forget" \in Tasks /\ Callers \subseteq Tasks
  BY DEF TypeOK, Task, Tasks
<1>h. Hold(row) \in Held /\ Idle \in Task
  BY <1>0, HeldType, InitialValues
<1>1. CASE Tick
  BY <1>1 DEF Tick, TypeOK
<1>2. CASE Crash
  <2>1. task' \in [Tasks -> Task]
    BY <1>2, <1>h DEF Crash
  <2>2. spent' \in [DOMAIN Budget -> Nat]
    BY <1>2, BudgetKeys DEF Crash, Spend, TypeOK
  <2> QED BY <1>2, <2>1, <2>2 DEF Crash, TypeOK, Task
<1>3. ASSUME NEW pc \in TaskPc PROVE [Idle EXCEPT !.pc = pc, !.h = Hold(row)] \in Task
  BY <1>h DEF Task
<1>4. CASE \E t \in Callers : Request(t)
  <2>1. PICK t \in Callers : Request(t)
    BY <1>4
  <2>2. [Idle EXCEPT !.pc = "wait", !.h = Hold(row)] \in Task
    BY <1>3, Stages
  <2>3. \E k \in DOMAIN Budget : spent' = [spent EXCEPT ![k] = @ + 1]
    BY <2>1, BudgetKeys DEF Request, Spend
  <2> QED BY <1>0, <2>1, <2>2, <2>3, TaskMove DEF Request
<1>5. CASE \E t \in Callers : RecoveryRequest(t)
  <2>1. PICK t \in Callers : RecoveryRequest(t)
    BY <1>5
  <2>2. [Idle EXCEPT !.pc = "grant", !.h = Hold(row)] \in Task
    BY <1>3, Stages
  <2>3. \E k \in DOMAIN Budget : spent' = [spent EXCEPT ![k] = @ + 1]
    BY <2>1, BudgetKeys DEF RecoveryRequest, Spend
  <2> QED BY <1>0, <2>1, <2>2, <2>3, TaskMove DEF RecoveryRequest
<1>6. CASE Repair
  <2>1. [Idle EXCEPT !.pc = "wait", !.h = Hold(row)] \in Task
    BY <1>3, Stages
  <2> QED BY <1>0, <1>6, <2>1, TaskMove DEF Repair
<1>7. CASE Expire
  <2>1. [Idle EXCEPT !.pc = "remove", !.due = standing] \in Task
    BY <1>0, <1>h, Stages DEF Task
  <2> QED BY <1>0, <1>7, <2>1, TaskMove DEF Expire
<1>8. CASE Leave
  <2>1. \E k \in DOMAIN Budget : spent' = [spent EXCEPT ![k] = @ + 1]
    BY <1>8, BudgetKeys DEF Leave, Spend
  <2> QED BY <1>0, <1>8, <2>1, Moves, Stages, TaskMove DEF Leave
<1>9. CASE LeaveLock
  BY <1>0, <1>9, Moves, Stages, TaskMove DEF LeaveLock
<1>10. CASE ForgetRevoke
  <2> DEFINE x == [Idle EXCEPT !.pc = "terminate", !.h = Hold(row),
                               !.listed = route \/ standing.st \in {"member", "retained"}]
  <2>1. x \in Task
    BY <1>h, Stages DEF Task
  <2>2. row' \in Session
    BY <1>0, <1>10, Vocabulary DEF ForgetRevoke, RevokeRecovery, Session
  <2>3. \E k \in DOMAIN Budget : spent' = [spent EXCEPT ![k] = @ + 1]
    BY <1>10, BudgetKeys DEF ForgetRevoke, Spend
  <2>4. task' = [task EXCEPT !["forget"] = x]
    BY <1>10 DEF ForgetRevoke
  <2> HIDE DEF x
  <2> QED BY <1>0, <1>10, <2>1, <2>2, <2>3, <2>4, TaskMove DEF ForgetRevoke
<1>11. CASE ForgetTerminate
  BY <1>0, <1>11, Moves, Stages, TaskMove DEF ForgetTerminate
<1>12. CASE ForgetFinalize
  <2>1. row' \in Session
    BY <1>0, <1>12, StoppedLemma, Vocabulary DEF ForgetFinalize, FinalizeRevocation
  <2>2. standing' \in Standing
    BY <1>0, <1>12, <2>1, StandingTypes DEF ForgetFinalize, Session
  <2>3. [task["forget"] EXCEPT !.pc = "wait"] \in Task
    BY <1>0, Stages, Moves
  <2>4. \E x \in Task : task' = [task EXCEPT !["forget"] = x]
    BY <1>h, <1>12, <2>3 DEF ForgetFinalize
  <2> QED BY <1>0, <1>12, <2>1, <2>2, <2>4, TaskMove DEF ForgetFinalize
<1>13. CASE ForgetLock
  <2>1. [task["forget"] EXCEPT !.pc = "remove", !.due = standing] \in Task
    BY <1>0, Stages DEF Task
  <2>2. task' = [task EXCEPT !["forget"] =
                   [task["forget"] EXCEPT !.pc = "remove", !.due = standing]]
    BY <1>13 DEF ForgetLock
  <2> QED BY <1>0, <1>13, <2>1, <2>2, TaskMove DEF ForgetLock
<1> QED BY <1>1, <1>2, <1>4, <1>5, <1>6, <1>7, <1>8, <1>9, <1>10, <1>11, <1>12, <1>13

\* Every step of the specification keeps the types.
LEMMA TypeStep == TypeOK /\ [Next]_vars => TypeOK'
<1> SUFFICES ASSUME TypeOK, [Next]_vars PROVE TypeOK'
  OBVIOUS
<1>1. CASE UNCHANGED vars
  BY <1>1 DEF vars, TypeOK
<1>2. CASE Runtime
  BY <1>2, RuntimeTypes
<1>3. CASE \E t \in Tasks : Step(t)
  BY <1>3, LaneTypes
<1> QED
  BY <1>1, <1>2, <1>3, TaskTypes
  DEF Next, TickStep, LeaveStep, ForgetStep, Tasks

-----------------------------------------------------------------------------
(* A recorded member is a member on the relay.  Only the holder of the     *)
(* lane changes the relay or records a member; a commit follows a          *)
(* confirmed grant, and whoever removes, except a leave, does so for a     *)
(* standing that is not "member".                                          *)

InLane == {"grant", "commit", "fallback", "remove", "mark"}

Serialized == \A t \in Tasks : task[t].pc \in InLane => lane = t

Granted == \A t \in Tasks : task[t].pc \in {"commit", "fallback"} => relay

Removing ==
  \A t \in Tasks \ {"leave"} : task[t].pc \in {"remove", "mark"} => standing.st # "member"

Forgetting ==
  /\ task["forget"].pc # "idle" => row.rec = "revoked"
  /\ task["forget"].pc = "wait" => standing.st # "member"

Leaving == task["leave"].pc # "idle" \/ lane = "leave" => ~NobodyLeft

LaneInv ==
  /\ Serialized /\ Granted /\ Removing /\ Forgetting /\ Leaving
  /\ MemberOnRelay

\* A step of the row alone keeps the invariant: no reducer of the sessions row
\* records a member or gives a revoked session back.
LEMMA RowOnly ==
  ASSUME TypeOK, LaneInv, UNCHANGED <<relay, lane, task, spent>>,
         standing'.st = "member" => standing.st = "member",
         row.rec = "revoked" => row'.rec = "revoked"
  PROVE  LaneInv'
  BY DEF LaneInv, Serialized, Granted, Removing, Forgetting, NobodyLeft, Leaving,
         MemberOnRelay, Tasks

\* A step of one task keeps the invariant, if it keeps to the rules of the lane.
LEMMA OneTask ==
  ASSUME TypeOK, LaneInv, NEW t \in Tasks, NEW x \in Task,
         task' = [task EXCEPT ![t] = x],
         x.pc \in InLane => lane' = t,
         \/ lane' = lane
         \/ lane = t /\ lane' = "none"
         \/ lane = "none" /\ lane' = t /\ x.pc \in InLane,
         relay' = relay \/ lane = t,
         x.pc \in {"commit", "fallback"} => relay',
         standing'.st = "member" =>
           standing.st = "member" \/ (lane = t /\ row.rec # "revoked"),
         t # "leave" /\ x.pc \in {"remove", "mark"} => standing'.st # "member",
         row.rec = "revoked" => row'.rec = "revoked",
         t = "forget" /\ x.pc # "idle" => row'.rec = "revoked",
         t = "forget" /\ x.pc = "wait" => standing'.st # "member",
         spent'["leaves"] = 0 => spent["leaves"] = 0,
         t = "leave" /\ x.pc # "idle" => spent'["leaves"] # 0,
         MemberOnRelay'
  PROVE  LaneInv'
<1>0. /\ \A u \in Tasks : u # t => task'[u] = task[u]
      /\ task'[t] = x
      /\ "none" \notin Tasks /\ "forget" \in Tasks /\ "leave" \in Tasks
  BY DEF TypeOK, Tasks
<1>1. ASSUME NEW u \in Tasks, u # t, task[u].pc \in InLane
      PROVE  lane' = u /\ lane # t
  BY <1>0, <1>1 DEF LaneInv, Serialized
<1>2. Serialized'
  BY <1>0, <1>1 DEF Serialized
<1>3. Granted'
  BY <1>0, <1>1 DEF Granted, LaneInv, InLane
<1>4. Removing'
  BY <1>0, <1>1 DEF Removing, LaneInv, InLane
<1>5. Forgetting'
  BY <1>0 DEF Forgetting, LaneInv
<1>6. Leaving'
  BY <1>0 DEF Leaving, LaneInv, NobodyLeft, InLane
<1> QED BY <1>2, <1>3, <1>4, <1>5, <1>6 DEF LaneInv

\* Of the standing transactions, none but the commit of an admission records a
\* member, and a stop or a revocation leaves none behind.
LEMMA NoNewMember ==
  ASSUME NEW s \in Standing, NEW le, NEW until, NEW d
  PROVE  /\ Initialized(s, le).st = "member" => s.st = "member"
         /\ Retain(s, le, until).st # "member" /\ RevokeStanding(s, le).st # "member"
         /\ MarkAbsent(s, d).st = "member" => s.st = "member"
         /\ CleanupDue(s, le).st # "member"
<1>1. Initialized(s, le).st = "member" => s.st = "member"
  BY DEF Initialized
<1>2. Retain(s, le, until).st # "member"
  BY DEF Retain
<1>3. RevokeStanding(s, le).st # "member"
  BY DEF RevokeStanding
<1>4. MarkAbsent(s, d).st = "member" => s.st = "member"
  BY DEF MarkAbsent, Standing
<1>5. CleanupDue(s, le).st # "member"
  BY DEF CleanupDue
<1> QED BY <1>1, <1>2, <1>3, <1>4, <1>5

\* The row steps (launch, stop, eviction) keep the invariant.
LEMMA RuntimeInv ==
  ASSUME TypeOK, LaneInv, Runtime PROVE LaneInv'
<1>0. row \in Session /\ standing \in Standing
  BY DEF TypeOK
<1>1. UNCHANGED <<relay, lane, task, spent>>
  BY DEF Runtime, Launch, RuntimeStops, EvictionReserved, EvictionCancelled,
         EvictionFinalized
<1>2. standing'.st = "member" => standing.st = "member"
  BY <1>0, NoNewMember DEF Runtime, Launch, RuntimeStops, EvictionReserved,
         EvictionCancelled, EvictionFinalized
<1>3. row.rec = "revoked" => row'.rec = "revoked"
  BY <1>0 DEF Runtime, Launch, RuntimeStops, EvictionReserved, EvictionCancelled,
         EvictionFinalized, CanReserve, MarkRuntimeStopped, Stopped, ReserveEviction,
         CancelEviction, FinalizeRuntimeStopped, Session
<1> QED BY <1>1, <1>2, <1>3, RowOnly

\* A stale admission only ever ends or turns into a removal that is due.
LEMMA StaleInv ==
  ASSUME TypeOK, NEW t \in Tasks, Stale(t)
  PROVE  \/ task' = [task EXCEPT ![t] = Idle] /\ lane' = "none" /\ standing' = standing
         \/ /\ task' = [task EXCEPT ![t] = [task[t] EXCEPT !.pc = "remove", !.due = standing']]
            /\ lane' = lane /\ standing'.st = "retained"
<1>1. CASE NewerMember(standing, task[t].h.le)
  BY <1>1 DEF Stale, Release
<1>2. CASE ~NewerMember(standing, task[t].h.le)
  <2>1. /\ standing' = CleanupDue(standing, task[t].h.le)
        /\ task' = [task EXCEPT ![t].pc = "remove", ![t].due = standing']
        /\ lane' = lane
    BY <1>2 DEF Stale
  <2>2. standing'.st = "retained"
    BY <2>1 DEF CleanupDue
  <2>3. task' = [task EXCEPT ![t] = [task[t] EXCEPT !.pc = "remove", !.due = standing']]
    BY <2>1
  <2> QED BY <2>1, <2>2, <2>3
<1> QED BY <1>1, <1>2

\* The steps of a task in the lane keep the invariant.
LEMMA StepInv ==
  ASSUME TypeOK, LaneInv, NEW t \in Tasks, Step(t) PROVE LaneInv'
<1>0. /\ task \in [Tasks -> Task] /\ task[t] \in Task /\ standing \in Standing
      /\ Idle \in Task /\ Idle.pc = "idle"
  BY InitialValues DEF TypeOK, Task, Idle
<1>1. task[t].pc \in InLane => lane = t
  BY DEF LaneInv, Serialized
<1>2. t = "leave" /\ task[t].pc # "idle" => spent["leaves"] # 0
  BY DEF LaneInv, Leaving, NobodyLeft
<1>3. t = "forget" /\ task[t].pc # "idle" => row.rec = "revoked"
  BY DEF LaneInv, Forgetting
<1>4. ASSUME NEW k \in DOMAIN Budget, Spend(k)
      PROVE  spent'["leaves"] = 0 => spent["leaves"] = 0
  BY <1>4, BudgetKeys DEF Spend, TypeOK
<1>5. ASSUME NEW pc \in TaskPc
      PROVE  [task[t] EXCEPT !.pc = pc] \in Task /\ [task[t] EXCEPT !.pc = pc].pc = pc
  BY <1>0 DEF Task
<1>6. MemberOnRelay
  BY DEF LaneInv
<1>7. CASE AdmitLock(t)
  <2>1. /\ task' = [task EXCEPT ![t] = [task[t] EXCEPT !.pc = "grant"]] /\ lane' = t
        /\ lane = "none" /\ t # "leave" /\ t # "forget"
        /\ UNCHANGED <<row, standing, relay, spent>>
    BY <1>7 DEF AdmitLock, Go, LaneFree, Tasks
  <2>2. MemberOnRelay'
    BY <1>6, <2>1 DEF NobodyLeft, MemberOnRelay
  <2> QED BY <1>5, <2>1, <2>2, Stages, OneTask DEF InLane
<1>8. CASE Grant(t)
  <2>1. /\ UNCHANGED <<row, standing>> /\ lane = t /\ task[t].pc = "grant"
        /\ spent'["leaves"] = 0 => spent["leaves"] = 0
    BY <1>1, <1>4, <1>8, BudgetKeys DEF Grant, InLane
  <2>2. CASE relay' = TRUE /\ Go(t, "commit") /\ UNCHANGED lane
    <3>1. MemberOnRelay'
      BY <2>2 DEF MemberOnRelay
    <3> QED BY <1>2, <1>3, <1>5, <2>1, <2>2, <3>1, Stages, OneTask DEF Go, InLane
  <2>3. CASE Release(t) /\ relay' \in {relay, TRUE}
    <3>1. relay => relay'
      BY <2>3
    <3>2. MemberOnRelay'
      BY <1>2, <1>6, <2>1, <3>1 DEF NobodyLeft, MemberOnRelay
    <3> QED BY <1>0, <2>1, <2>3, <3>2, OneTask DEF Release, InLane
  <2> QED BY <1>8, <2>2, <2>3 DEF Grant
<1>9. CASE Remove(t)
  <2>1. /\ UNCHANGED <<row, standing>> /\ lane = t /\ task[t].pc = "remove"
        /\ spent'["leaves"] = 0 => spent["leaves"] = 0
    BY <1>1, <1>4, <1>9, BudgetKeys DEF Remove, InLane
  <2>2. t # "leave" => standing.st # "member"
    BY <2>1 DEF LaneInv, Removing
  <2>3. MemberOnRelay'
    BY <1>2, <2>1, <2>2 DEF NobodyLeft, MemberOnRelay
  <2>4. CASE Go(t, "mark") /\ UNCHANGED lane
    BY <1>2, <1>3, <1>5, <2>1, <2>2, <2>3, <2>4, Stages, OneTask DEF Go, InLane
  <2>5. CASE Release(t)
    BY <1>0, <2>1, <2>3, <2>5, OneTask DEF Release, InLane
  <2> QED BY <1>9, <2>4, <2>5 DEF Remove
<1>10. CASE Mark(t)
  <2>1. /\ UNCHANGED <<row, relay>> /\ lane = t /\ task[t].pc = "mark" /\ Release(t)
        /\ spent'["leaves"] = 0 => spent["leaves"] = 0
    BY <1>1, <1>4, <1>10, BudgetKeys DEF Mark, InLane
  <2>2. standing'.st = "member" => standing.st = "member"
    BY <1>0, <1>10, NoNewMember DEF Mark
  <2>3. t # "leave" => standing.st # "member"
    BY <2>1 DEF LaneInv, Removing
  <2>4. MemberOnRelay'
    BY <1>2, <2>1, <2>2, <2>3 DEF NobodyLeft, MemberOnRelay
  <2> QED BY <1>0, <2>1, <2>2, <2>4, OneTask DEF Release, InLane
<1>11. ASSUME task[t].pc \in {"commit", "fallback"}, UNCHANGED <<row, relay>>, Stale(t),
              spent'["leaves"] = 0 => spent["leaves"] = 0
       PROVE  LaneInv'
  <2>1. relay /\ relay' /\ lane = t
    BY <1>1, <1>11 DEF LaneInv, Granted, InLane
  <2>2. MemberOnRelay'
    BY <2>1 DEF MemberOnRelay
  <2>3. CASE task' = [task EXCEPT ![t] = Idle] /\ lane' = "none" /\ standing' = standing
    BY <1>0, <1>11, <2>1, <2>2, <2>3, OneTask DEF InLane
  <2>4. CASE /\ task' = [task EXCEPT ![t] =
                           [task[t] EXCEPT !.pc = "remove", !.due = standing']]
             /\ lane' = lane /\ standing'.st = "retained"
    <3> DEFINE x == [task[t] EXCEPT !.pc = "remove", !.due = standing']
    <3>1. standing' \in Standing
      BY <1>11, StaleTypes
    <3>2. x \in Task /\ x.pc = "remove"
      BY <1>0, <3>1, Stages DEF Task
    <3> HIDE DEF x
    <3>3. task' = [task EXCEPT ![t] = x]
      BY <2>4 DEF x
    <3> QED BY <1>2, <1>3, <1>11, <2>1, <2>2, <2>4, <3>2, <3>3, OneTask DEF InLane
  <2> QED BY <1>11, <2>3, <2>4, StaleInv
<1>12. CASE Commit(t)
  <2>1. /\ UNCHANGED <<row, relay>> /\ lane = t /\ task[t].pc = "commit" /\ relay
        /\ spent'["leaves"] = 0 => spent["leaves"] = 0
    BY <1>1, <1>4, <1>12, BudgetKeys DEF Commit, InLane, LaneInv, Granted
  <2>2. MemberOnRelay'
    BY <2>1 DEF MemberOnRelay
  <2>3. CASE Stale(t)
    BY <1>11, <2>1, <2>3
  <2>4. CASE (row.rec # "revoked" \/ standing' = standing) /\ Release(t)
    BY <1>0, <2>1, <2>2, <2>4, OneTask DEF Release, InLane
  <2>5. CASE (row.rec # "revoked" \/ standing' = standing) /\ Go(t, "fallback") /\ UNCHANGED lane
    BY <1>2, <1>3, <1>5, <2>1, <2>2, <2>5, Stages, OneTask DEF Go, InLane
  <2> QED BY <1>12, <2>3, <2>4, <2>5 DEF Commit, Requested
<1>13. CASE Fallback(t)
  <2>1. /\ UNCHANGED <<row, relay>> /\ lane = t /\ task[t].pc = "fallback" /\ relay
        /\ spent'["leaves"] = 0 => spent["leaves"] = 0
    BY <1>1, <1>4, <1>13, BudgetKeys DEF Fallback, InLane, LaneInv, Granted
  <2>2. MemberOnRelay'
    BY <2>1 DEF MemberOnRelay
  <2>3. CASE Stale(t)
    BY <1>11, <2>1, <2>3
  <2>4. CASE standing' = standing /\ Release(t)
    BY <1>0, <2>1, <2>2, <2>4, OneTask DEF Release, InLane
  <2> QED BY <1>13, <2>3, <2>4 DEF Fallback
<1> QED BY <1>7, <1>8, <1>9, <1>10, <1>12, <1>13 DEF Step

\* The steps outside the lane keep the invariant.
LEMMA OutsideInv ==
  ASSUME TypeOK, LaneInv,
         \/ Tick \/ Crash \/ Repair \/ Expire \/ Leave \/ LeaveLock \/ ForgetRevoke
         \/ ForgetTerminate \/ ForgetFinalize \/ ForgetLock
         \/ \E t \in Callers : Request(t) \/ RecoveryRequest(t)
  PROVE  LaneInv'
<1>0. /\ \A t \in Tasks : task[t] \in Task
      /\ standing \in Standing /\ row \in Session
      /\ "tick" \in Tasks /\ "leave" \in Tasks /\ "forget" \in Tasks /\ Callers \subseteq Tasks
      /\ "leave" \notin Callers /\ "forget" \notin Callers
  BY DEF TypeOK, Task, Tasks
<1>h. Hold(row) \in Held /\ Idle \in Task /\ Idle.pc = "idle"
  BY <1>0, HeldType, InitialValues DEF Idle
<1>i. MemberOnRelay
  BY DEF LaneInv
<1>j. ASSUME UNCHANGED <<standing, relay>>, lane' # lane => lane = "none",
             spent'["leaves"] = 0 => spent["leaves"] = 0
      PROVE  MemberOnRelay'
  BY <1>i, <1>j DEF NobodyLeft, MemberOnRelay
<1>s. ASSUME NEW k \in DOMAIN Budget, Spend(k)
      PROVE  /\ spent'["leaves"] = 0 => spent["leaves"] = 0
             /\ k = "leaves" => spent'["leaves"] # 0
  BY <1>s, BudgetKeys DEF Spend, TypeOK
<1>1. CASE Tick
  BY <1>1, RowOnly DEF Tick
<1>2. CASE Crash
  <2>1. /\ \A t \in Tasks : task'[t].pc = "idle"
        /\ UNCHANGED <<row, standing, relay>>
        /\ spent'["leaves"] = 0 => spent["leaves"] = 0
    BY <1>2, <1>h, <1>s, BudgetKeys DEF Crash
  <2>2. MemberOnRelay'
    BY <1>i, <2>1 DEF LaneInv, Leaving, NobodyLeft, MemberOnRelay
  <2>3. lane' = "none"
    BY <1>2 DEF Crash
  <2> QED BY <1>0, <2>1, <2>2, <2>3
          DEF LaneInv, Serialized, Granted, Removing, Forgetting, Leaving, InLane
<1>3. ASSUME NEW pc \in TaskPc
      PROVE  LET x == [Idle EXCEPT !.pc = pc, !.h = Hold(row)] IN x \in Task /\ x.pc = pc
  BY <1>h DEF Task
<1>4. CASE \E t \in Callers : Request(t)
  <2>1. PICK t \in Callers : Request(t)
    BY <1>4
  <2>2. /\ UNCHANGED <<row, standing, relay, lane>>
        /\ task' = [task EXCEPT ![t] = [Idle EXCEPT !.pc = "wait", !.h = Hold(row)]]
        /\ spent'["leaves"] = 0 => spent["leaves"] = 0
    BY <1>s, <2>1, BudgetKeys DEF Request
  <2>3. MemberOnRelay'
    BY <1>j, <2>2
  <2> QED BY <1>0, <1>3, <2>2, <2>3, Stages, OneTask DEF InLane
<1>5. CASE \E t \in Callers : RecoveryRequest(t)
  <2>1. PICK t \in Callers : RecoveryRequest(t)
    BY <1>5
  <2>2. /\ UNCHANGED <<row, standing, relay>> /\ lane = "none" /\ lane' = t
        /\ task' = [task EXCEPT ![t] = [Idle EXCEPT !.pc = "grant", !.h = Hold(row)]]
        /\ spent'["leaves"] = 0 => spent["leaves"] = 0
    BY <1>s, <2>1, BudgetKeys DEF RecoveryRequest, LaneFree
  <2>3. MemberOnRelay'
    BY <1>j, <2>2
  <2> QED BY <1>0, <1>3, <2>2, <2>3, Stages, OneTask DEF InLane
<1>6. CASE Repair
  <2>1. /\ UNCHANGED <<row, standing, relay, lane, spent>>
        /\ task' = [task EXCEPT !["tick"] = [Idle EXCEPT !.pc = "wait", !.h = Hold(row)]]
    BY <1>6 DEF Repair
  <2>2. MemberOnRelay'
    BY <1>j, <2>1
  <2> QED BY <1>0, <1>3, <2>1, <2>2, Stages, OneTask DEF InLane
<1>7. CASE Expire
  <2> DEFINE x == [Idle EXCEPT !.pc = "remove", !.due = standing]
  <2>1. /\ UNCHANGED <<row, standing, relay, spent>> /\ lane = "none" /\ lane' = "tick"
        /\ task' = [task EXCEPT !["tick"] = x] /\ standing.st = "retained"
    BY <1>7 DEF Expire, LaneFree
  <2>2. x \in Task /\ x.pc = "remove"
    BY <1>0, <1>h, Stages DEF Task
  <2>3. MemberOnRelay'
    BY <1>j, <2>1
  <2> HIDE DEF x
  <2> QED BY <1>0, <2>1, <2>2, <2>3, OneTask DEF InLane
<1>8. ASSUME NEW t \in Tasks, NEW pc \in TaskPc
      PROVE  LET x == [task[t] EXCEPT !.pc = pc] IN x \in Task /\ x.pc = pc
  BY <1>0 DEF Task
<1>9. CASE Leave
  <2> DEFINE x == [task["leave"] EXCEPT !.pc = "wait"]
  <2>1. /\ UNCHANGED <<row, standing, relay, lane>>
        /\ task' = [task EXCEPT !["leave"] = x] /\ spent'["leaves"] # 0
    BY <1>s, <1>9, BudgetKeys DEF Leave, Go
  <2>2. MemberOnRelay'
    BY <2>1 DEF NobodyLeft, MemberOnRelay
  <2>3. x \in Task /\ x.pc = "wait"
    BY <1>0, <1>8, Stages
  <2> HIDE DEF x
  <2> QED BY <1>0, <2>1, <2>2, <2>3, OneTask DEF InLane
<1>10. CASE LeaveLock
  <2> DEFINE x == [task["leave"] EXCEPT !.pc = "remove"]
  <2>1. /\ UNCHANGED <<row, standing, relay, spent>> /\ lane = "none" /\ lane' = "leave"
        /\ task' = [task EXCEPT !["leave"] = x] /\ spent["leaves"] # 0
    BY <1>10 DEF LeaveLock, LaneFree, Go, LaneInv, Leaving, NobodyLeft
  <2>2. MemberOnRelay'
    BY <2>1 DEF NobodyLeft, MemberOnRelay
  <2>3. x \in Task /\ x.pc = "remove"
    BY <1>0, <1>8, Stages
  <2> HIDE DEF x
  <2> QED BY <1>0, <2>1, <2>2, <2>3, OneTask DEF InLane
<1>11. CASE ForgetRevoke
  <2> DEFINE x == [Idle EXCEPT !.pc = "terminate", !.h = Hold(row),
                               !.listed = route \/ standing.st \in {"member", "retained"}]
  <2>1. x \in Task /\ x.pc = "terminate"
    BY <1>h, Stages DEF Task
  <2>2. /\ UNCHANGED <<standing, relay, lane>> /\ task' = [task EXCEPT !["forget"] = x]
        /\ spent'["leaves"] = 0 => spent["leaves"] = 0
    BY <1>s, <1>11, BudgetKeys DEF ForgetRevoke
  <2>3. row'.rec = "revoked"
    BY <1>0, <1>11 DEF ForgetRevoke, RevokeRecovery, Session
  <2>4. MemberOnRelay'
    BY <1>j, <2>2
  <2> HIDE DEF x
  <2> QED BY <1>0, <2>1, <2>2, <2>3, <2>4, OneTask DEF InLane
<1>12. CASE ForgetTerminate
  <2>1. /\ UNCHANGED <<row, standing, relay, lane, spent>> /\ row.rec = "revoked"
    BY <1>12 DEF ForgetTerminate, LaneInv, Forgetting
  <2>2. MemberOnRelay'
    BY <1>j, <2>1
  <2>3. CASE task' = [task EXCEPT !["forget"] = Idle]
    BY <1>0, <1>h, <2>1, <2>2, <2>3, OneTask DEF InLane
  <2>4. CASE task' = [task EXCEPT !["forget"] = [task["forget"] EXCEPT !.pc = "finalize"]]
    <3> DEFINE x == [task["forget"] EXCEPT !.pc = "finalize"]
    <3>1. x \in Task /\ x.pc = "finalize"
      BY <1>0, <1>8, Stages
    <3>2. task' = [task EXCEPT !["forget"] = x]
      BY <2>4
    <3> HIDE DEF x
    <3> QED BY <1>0, <2>1, <2>2, <3>1, <3>2, OneTask DEF InLane
  <2> QED BY <1>12, <2>3, <2>4 DEF ForgetTerminate, Go
<1>13. CASE ForgetFinalize
  <2>1. UNCHANGED <<relay, lane, spent>> /\ row.rec = "revoked"
    BY <1>13 DEF ForgetFinalize, LaneInv, Forgetting
  <2>2. row'.rec = "revoked"
    BY <1>0, <1>13, <2>1 DEF ForgetFinalize, FinalizeRevocation, Stopped, Session
  <2>3. standing'.st # "member"
    BY <1>0, <1>13, NoNewMember DEF ForgetFinalize
  <2>4. MemberOnRelay'
    BY <2>3 DEF MemberOnRelay
  <2>5. CASE task' = [task EXCEPT !["forget"] = Idle]
    BY <1>0, <1>h, <2>1, <2>2, <2>3, <2>4, <2>5, OneTask DEF InLane
  <2>6. CASE task' = [task EXCEPT !["forget"] = [task["forget"] EXCEPT !.pc = "wait"]]
    <3> DEFINE x == [task["forget"] EXCEPT !.pc = "wait"]
    <3>1. x \in Task /\ x.pc = "wait"
      BY <1>0, <1>8, Stages
    <3>2. task' = [task EXCEPT !["forget"] = x]
      BY <2>6
    <3> HIDE DEF x
    <3> QED BY <1>0, <2>1, <2>2, <2>3, <2>4, <3>1, <3>2, OneTask DEF InLane
  <2> QED BY <1>13, <2>5, <2>6 DEF ForgetFinalize
<1>14. CASE ForgetLock
  <2> DEFINE x == [task["forget"] EXCEPT !.pc = "remove", !.due = standing]
  <2>1. /\ UNCHANGED <<row, standing, relay, spent>> /\ lane = "none" /\ lane' = "forget"
        /\ task' = [task EXCEPT !["forget"] = x]
        /\ row.rec = "revoked" /\ standing.st # "member"
    BY <1>14 DEF ForgetLock, LaneFree, LaneInv, Forgetting
  <2>2. x \in Task /\ x.pc = "remove"
    BY <1>0, Stages DEF Task
  <2>3. MemberOnRelay'
    BY <1>j, <2>1
  <2> HIDE DEF x
  <2> QED BY <1>0, <2>1, <2>2, <2>3, OneTask DEF InLane
<1> QED BY <1>1, <1>2, <1>4, <1>5, <1>6, <1>7, <1>9, <1>10, <1>11, <1>12, <1>13, <1>14

\* Types and lane rules hold at the start.
LEMMA InitStanding == Init => TypeOK /\ LaneInv
<1> SUFFICES ASSUME Init PROVE TypeOK /\ LaneInv
  OBVIOUS
<1>1. \A t \in Tasks : task[t] = Idle /\ task[t].pc = "idle"
  BY DEF Init, Idle
<1>2. task \in [Tasks -> Task] /\ spent \in [DOMAIN Budget -> Nat]
  BY InitialValues DEF Init
<1>3. TypeOK
  BY <1>2, InitialValues DEF Init, TypeOK, Task
<1>4. standing.st # "member" /\ lane = "none"
  BY DEF Init, NoStanding
<1>5. LaneInv
  BY <1>1, <1>4 DEF LaneInv, Serialized, Granted, Removing, Forgetting, Leaving,
     MemberOnRelay, InLane, Tasks
<1> QED BY <1>3, <1>5

\* Types and lane rules are kept by every step.
LEMMA StandingStep == TypeOK /\ LaneInv /\ [Next]_vars => LaneInv'
<1> SUFFICES ASSUME TypeOK, LaneInv, [Next]_vars PROVE LaneInv'
  OBVIOUS
<1>1. CASE UNCHANGED vars
  BY <1>1, RowOnly DEF vars
<1>2. CASE Runtime
  BY <1>2, RuntimeInv
<1>3. CASE \E t \in Tasks : Step(t)
  BY <1>3, StepInv
<1> QED
  BY <1>1, <1>2, <1>3, OutsideInv
  DEF Next, TickStep, LeaveStep, ForgetStep, Tasks

-----------------------------------------------------------------------------
(* Every membership is answered for.  Between a confirmed grant and its    *)
(* record there is a task that will write the record; a removal is         *)
(* recorded only after the relay has confirmed it; and a fallback that     *)
(* fails is the second store error.                                        *)

AnsweredBy == {"member", "retained"}

Recording(t) == task[t].pc \in {"commit", "fallback"}

Marking == \A t \in Tasks : task[t].pc = "mark" => ~relay

Failing == \A t \in Tasks : task[t].pc = "fallback" => spent["errors"] >= 1

Answered ==
  Reliable /\ relay => standing.st \in AnsweredBy \/ \E t \in Tasks : Recording(t)

AccountInv == Marking /\ Failing /\ Answered

\* What is spent stays spent.
SpentGrows ==
  /\ spent["crashes"] <= spent'["crashes"] /\ spent["grants"] <= spent'["grants"]
  /\ spent["errors"] <= spent'["errors"]

\* A unit of any budget is spent or none is, and nothing is given back.
LEMMA SpentLemma ==
  ASSUME TypeOK
  PROVE  /\ UNCHANGED spent => SpentGrows
         /\ \A k \in DOMAIN Budget : Spend(k) =>
              SpentGrows /\ spent'[k] = spent[k] + 1 /\ spent[k] \in Nat
<1>1. \A k \in DOMAIN Budget : spent[k] \in Nat
  BY DEF TypeOK
<1>2. UNCHANGED spent => SpentGrows
  BY <1>1, BudgetKeys DEF SpentGrows
<1>3. ASSUME NEW k \in DOMAIN Budget, Spend(k)
      PROVE  SpentGrows /\ spent'[k] = spent[k] + 1 /\ spent[k] \in Nat
  <2>1. /\ spent'[k] = spent[k] + 1
        /\ \A j \in DOMAIN Budget : j # k => spent'[j] = spent[j]
    BY <1>3 DEF Spend, TypeOK
  <2> QED BY <1>1, <2>1, BudgetKeys DEF SpentGrows
<1> QED BY <1>2, <1>3

\* When nothing is given back, what is reliable now was reliable before.
LEMMA ReliableBefore ==
  ASSUME TypeOK, TypeOK', SpentGrows PROVE Reliable' => Reliable
<1>1. /\ spent["crashes"] \in Nat /\ spent["grants"] \in Nat /\ spent["errors"] \in Nat
      /\ spent'["crashes"] \in Nat /\ spent'["grants"] \in Nat /\ spent'["errors"] \in Nat
  BY BudgetKeys DEF TypeOK
<1> QED BY <1>1 DEF SpentGrows, Reliable

\* A step of the row alone keeps the account: a standing that answers for the
\* membership still does.
LEMMA RowOnlyAccount ==
  ASSUME TypeOK, AccountInv, UNCHANGED <<relay, task, spent>>,
         standing.st \in AnsweredBy => standing'.st \in AnsweredBy
  PROVE  AccountInv'
<1>1. Marking' /\ Failing'
  BY DEF AccountInv, Marking, Failing
<1>2. Answered'
  BY DEF AccountInv, Answered, Reliable, Recording
<1> QED BY <1>1, <1>2 DEF AccountInv

\* A step of one task keeps the account, if the task leaves a record, is about to
\* write one, or was not the one to write it.
LEMMA OneTaskAccount ==
  ASSUME TypeOK, TypeOK', LaneInv, AccountInv, NEW t \in Tasks, NEW x \in Task,
         task' = [task EXCEPT ![t] = x],
         relay' # relay => lane = t,
         SpentGrows,
         x.pc = "mark" => ~relay',
         x.pc = "fallback" => spent'["errors"] >= 1,
         \/ ~Reliable'
         \/ ~relay'
         \/ standing'.st \in AnsweredBy
         \/ x.pc \in {"commit", "fallback"}
         \/ /\ relay /\ ~Recording(t)
            /\ standing.st \in AnsweredBy => standing'.st \in AnsweredBy
  PROVE  AccountInv'
<1>0. /\ \A u \in Tasks : u # t => task'[u] = task[u]
      /\ task'[t] = x
      /\ spent["errors"] \in Nat /\ spent'["errors"] \in Nat
  BY BudgetKeys DEF TypeOK
<1>1. ASSUME NEW u \in Tasks, u # t, task[u].pc = "mark" PROVE relay' = relay
  BY <1>1 DEF LaneInv, Serialized, InLane
<1>2. Marking'
  BY <1>0, <1>1 DEF AccountInv, Marking
<1>3. Failing'
  BY <1>0 DEF AccountInv, Failing, SpentGrows
<1>4. Answered'
  <2>1. CASE x.pc \in {"commit", "fallback"}
    BY <1>0, <2>1 DEF Answered, Recording
  <2>2. CASE /\ relay /\ ~Recording(t)
             /\ standing.st \in AnsweredBy => standing'.st \in AnsweredBy
    <3>1. ASSUME NEW u \in Tasks, Recording(u) PROVE Recording(u)'
      BY <1>0, <2>2, <3>1 DEF Recording
    <3> QED BY <2>2, <3>1, ReliableBefore DEF AccountInv, Answered
  <2> QED BY <2>1, <2>2 DEF Answered
<1> QED BY <1>2, <1>3, <1>4 DEF AccountInv

\* A stop and a revocation put a membership up for removal; they do not lose it.
LEMMA KeepsAnswer ==
  ASSUME NEW s \in Standing, NEW le, NEW until
  PROVE  s.st \in AnsweredBy =>
           /\ Initialized(s, le).st \in AnsweredBy
           /\ Retain(s, le, until).st \in AnsweredBy
           /\ RevokeStanding(s, le).st \in AnsweredBy
<1> SUFFICES ASSUME s.st \in AnsweredBy
             PROVE  /\ Initialized(s, le).st \in AnsweredBy
                    /\ Retain(s, le, until).st \in AnsweredBy
                    /\ RevokeStanding(s, le).st \in AnsweredBy
  OBVIOUS
<1>1. Initialized(s, le) = s /\ WithRow(s, le) = s
  BY DEF Initialized, WithRow, AnsweredBy
<1>2. Retain(s, le, until).st \in AnsweredBy
  BY <1>1 DEF Retain, AnsweredBy
<1>3. RevokeStanding(s, le).st \in AnsweredBy
  BY <1>1 DEF RevokeStanding, AnsweredBy
<1> QED BY <1>1, <1>2, <1>3

\* The row steps (launch, stop, eviction) keep the account.
LEMMA RuntimeAccount ==
  ASSUME TypeOK, AccountInv, Runtime PROVE AccountInv'
<1>0. row \in Session /\ standing \in Standing
  BY DEF TypeOK
<1>1. UNCHANGED <<relay, task, spent>>
  BY DEF Runtime, Launch, RuntimeStops, EvictionReserved, EvictionCancelled,
         EvictionFinalized
<1>2. standing.st \in AnsweredBy => standing'.st \in AnsweredBy
  BY <1>0, KeepsAnswer DEF Runtime, Launch, RuntimeStops, EvictionReserved,
         EvictionCancelled, EvictionFinalized
<1> QED BY <1>1, <1>2, RowOnlyAccount

\* The steps of a task in the lane keep the account.
LEMMA StepAccount ==
  ASSUME TypeOK, TypeOK', LaneInv, AccountInv, NEW t \in Tasks, Step(t)
  PROVE  AccountInv'
<1>0. /\ task[t] \in Task /\ Idle \in Task /\ Idle.pc = "idle"
      /\ relay \in BOOLEAN /\ relay' \in BOOLEAN
  BY InitialValues DEF TypeOK, Task, Idle
<1>1. task[t].pc \in InLane => lane = t
  BY DEF LaneInv, Serialized
<1>2. ASSUME NEW pc \in TaskPc
      PROVE  [task[t] EXCEPT !.pc = pc] \in Task /\ [task[t] EXCEPT !.pc = pc].pc = pc
  BY <1>0 DEF Task
<1>3. CASE AdmitLock(t)
  <2>1. /\ task' = [task EXCEPT ![t] = [task[t] EXCEPT !.pc = "grant"]]
        /\ task[t].pc = "wait" /\ UNCHANGED <<standing, relay, spent>>
    BY <1>3 DEF AdmitLock, Go
  <2> QED BY <1>2, <2>1, Stages, SpentLemma, OneTaskAccount DEF Recording
<1>4. CASE Grant(t)
  <2>1. UNCHANGED standing /\ lane = t /\ task[t].pc = "grant"
    BY <1>1, <1>4 DEF Grant, InLane
  <2>2. CASE relay' = TRUE /\ Go(t, "commit") /\ UNCHANGED spent
    BY <1>2, <2>1, <2>2, Stages, SpentLemma, OneTaskAccount DEF Go
  <2>3. CASE Spend("rejected") /\ Release(t) /\ UNCHANGED relay
    BY <1>0, <2>1, <2>3, BudgetKeys, SpentLemma, OneTaskAccount DEF Release, Recording
  <2>4. CASE Spend("grants") /\ Release(t)
    <3>1. SpentGrows /\ ~Reliable'
      BY <2>4, BudgetKeys, SpentLemma DEF Reliable
    <3> QED BY <1>0, <2>1, <2>4, <3>1, OneTaskAccount DEF Release
  <2> QED BY <1>4, <2>2, <2>3, <2>4 DEF Grant
<1>5. CASE Remove(t)
  <2>1. UNCHANGED standing /\ lane = t /\ task[t].pc = "remove" /\ (relay' => relay)
    BY <1>0, <1>1, <1>5 DEF Remove, InLane
  <2>2. CASE relay' = FALSE /\ Go(t, "mark") /\ UNCHANGED spent
    BY <1>2, <2>1, <2>2, Stages, SpentLemma, OneTaskAccount DEF Go
  <2>3. CASE (Spend("rejected") \/ Spend("removals")) /\ Release(t)
    <3>1. SpentGrows
      BY <2>3, BudgetKeys, SpentLemma
    <3> QED BY <1>0, <2>1, <2>3, <3>1, OneTaskAccount DEF Release, Recording
  <2> QED BY <1>5, <2>2, <2>3 DEF Remove
<1>6. CASE Mark(t)
  <2>1. UNCHANGED relay /\ task[t].pc = "mark" /\ Release(t) /\ ~relay
    BY <1>6 DEF Mark, AccountInv, Marking
  <2>2. SpentGrows
    BY <1>6, BudgetKeys, SpentLemma DEF Mark
  <2> QED BY <1>0, <2>1, <2>2, OneTaskAccount DEF Release
<1>7. ASSUME Stale(t), UNCHANGED relay, SpentGrows PROVE AccountInv'
  <2>1. CASE NewerMember(standing, task[t].h.le)
    <3>1. standing'.st \in AnsweredBy /\ task' = [task EXCEPT ![t] = Idle]
      BY <1>7, <2>1 DEF Stale, NewerMember, AnsweredBy, Release
    <3> QED BY <1>0, <1>7, <3>1, OneTaskAccount
  <2>2. CASE ~NewerMember(standing, task[t].h.le)
    <3> DEFINE x == [task[t] EXCEPT !.pc = "remove", !.due = standing']
    <3>1. standing'.st \in AnsweredBy /\ standing' \in Standing
      BY <1>7, <2>2, StaleTypes DEF Stale, CleanupDue, AnsweredBy
    <3>2. x \in Task /\ x.pc = "remove"
      BY <1>0, <3>1, Stages DEF Task
    <3>3. task' = [task EXCEPT ![t] = x]
      BY <1>7, <2>2 DEF Stale
    <3> HIDE DEF x
    <3> QED BY <1>7, <3>1, <3>2, <3>3, OneTaskAccount
  <2> QED BY <2>1, <2>2
<1>8. CASE Commit(t)
  <2>1. UNCHANGED relay
    BY <1>8 DEF Commit
  <2>2. SpentGrows
    BY <1>8, BudgetKeys, SpentLemma DEF Commit
  <2>3. CASE Stale(t)
    BY <1>7, <2>1, <2>2, <2>3
  <2>4. CASE Admit(t) /\ Release(t)
    <3>1. standing'.st \in AnsweredBy
      BY <2>4 DEF Admit, AnsweredBy
    <3> QED BY <1>0, <2>1, <2>2, <2>4, <3>1, OneTaskAccount DEF Release
  <2>5. CASE Spend("errors") /\ Go(t, "fallback")
    <3>1. spent'["errors"] >= 1
      BY <2>5, BudgetKeys, SpentLemma
    <3> QED BY <1>2, <2>1, <2>2, <2>5, <3>1, Stages, OneTaskAccount DEF Go
  <2> QED BY <1>8, <2>3, <2>4, <2>5 DEF Commit
<1>9. CASE Fallback(t)
  <2>1. UNCHANGED relay /\ task[t].pc = "fallback"
    BY <1>9 DEF Fallback
  <2>2. SpentGrows
    BY <1>9, BudgetKeys, SpentLemma DEF Fallback
  <2>3. CASE Stale(t)
    BY <1>7, <2>1, <2>2, <2>3
  <2>4. CASE standing.st = "member" /\ Release(t) /\ UNCHANGED standing
    <3>1. standing'.st \in AnsweredBy
      BY <2>4 DEF AnsweredBy
    <3> QED BY <1>0, <2>1, <2>2, <2>4, <3>1, OneTaskAccount DEF Release
  <2>5. CASE Spend("errors") /\ Release(t)
    <3>1. spent["errors"] >= 1
      BY <2>1 DEF AccountInv, Failing
    <3>2. ~Reliable'
      BY <2>5, <3>1, BudgetKeys, SpentLemma DEF Reliable
    <3> QED BY <1>0, <2>1, <2>2, <2>5, <3>2, OneTaskAccount DEF Release
  <2> QED BY <1>9, <2>3, <2>4, <2>5 DEF Fallback
<1> QED BY <1>3, <1>4, <1>5, <1>6, <1>8, <1>9 DEF Step

\* The steps outside the lane keep the account.
LEMMA OutsideAccount ==
  ASSUME TypeOK, TypeOK', LaneInv, AccountInv,
         \/ Tick \/ Crash \/ Repair \/ Expire \/ Leave \/ LeaveLock \/ ForgetRevoke
         \/ ForgetTerminate \/ ForgetFinalize \/ ForgetLock
         \/ \E t \in Callers : Request(t) \/ RecoveryRequest(t)
  PROVE  AccountInv'
<1>0. /\ \A t \in Tasks : task[t] \in Task /\ task'[t] \in Task
      /\ standing \in Standing /\ relay \in BOOLEAN
      /\ "tick" \in Tasks /\ "leave" \in Tasks /\ "forget" \in Tasks /\ Callers \subseteq Tasks
  BY DEF TypeOK, Task, Tasks
<1>1. CASE Tick
  BY <1>1, RowOnlyAccount DEF Tick
<1>2. CASE Crash
  <2>1. spent'["crashes"] = spent["crashes"] + 1 /\ spent["crashes"] \in Nat
    BY <1>2, BudgetKeys, SpentLemma DEF Crash
  <2>2. ~Reliable'
    BY <2>1 DEF Reliable
  <2>3. \A t \in Tasks : task'[t].pc = "idle"
    BY <1>2 DEF Crash, Idle
  <2> QED BY <2>2, <2>3 DEF AccountInv, Marking, Failing, Answered
<1>3. ASSUME NEW t \in Tasks, ~Recording(t), UNCHANGED relay, SpentGrows,
             NEW x, task' = [task EXCEPT ![t] = x], x.pc \notin {"mark", "fallback"},
             standing.st \in AnsweredBy => standing'.st \in AnsweredBy
      PROVE  AccountInv'
  <2>1. x \in Task
    BY <1>0, <1>3 DEF TypeOK
  <2> QED BY <1>0, <1>3, <2>1, OneTaskAccount
<1>4. ASSUME NEW t \in Tasks, NEW pc, pc \notin {"mark", "fallback"}
      PROVE  /\ [task[t] EXCEPT !.pc = pc].pc \notin {"mark", "fallback"}
             /\ [Idle EXCEPT !.pc = pc, !.h = Hold(row)].pc \notin {"mark", "fallback"}
             /\ Idle.pc \notin {"mark", "fallback"}
  BY <1>0, <1>4 DEF Task, Idle
<1>5. CASE \E t \in Callers : Request(t) \/ RecoveryRequest(t)
  <2>1. PICK t \in Callers : Request(t) \/ RecoveryRequest(t)
    BY <1>5
  <2>2. UNCHANGED <<standing, relay>> /\ Spend("requests") /\ ~Recording(t)
    BY <2>1 DEF Request, RecoveryRequest, Recording
  <2>3. SpentGrows
    BY <2>2, BudgetKeys, SpentLemma
  <2>4. \E pc \in {"wait", "grant"} :
          task' = [task EXCEPT ![t] = [Idle EXCEPT !.pc = pc, !.h = Hold(row)]]
    BY <2>1 DEF Request, RecoveryRequest
  <2> QED BY <1>0, <1>3, <1>4, <2>2, <2>3, <2>4
<1>6. CASE Repair
  <2>1. UNCHANGED <<standing, relay, spent>> /\ ~Recording("tick")
        /\ task' = [task EXCEPT !["tick"] = [Idle EXCEPT !.pc = "wait", !.h = Hold(row)]]
    BY <1>6 DEF Repair, Recording
  <2> QED BY <1>0, <1>3, <1>4, <2>1, SpentLemma
<1>7. CASE Expire
  <2>1. UNCHANGED <<standing, relay, spent>> /\ ~Recording("tick")
        /\ task' = [task EXCEPT !["tick"] = [Idle EXCEPT !.pc = "remove", !.due = standing]]
    BY <1>7 DEF Expire, Recording
  <2>2. [Idle EXCEPT !.pc = "remove", !.due = standing].pc = "remove"
    BY DEF Idle
  <2> QED BY <1>0, <1>3, <2>1, <2>2, SpentLemma
<1>8. CASE Leave
  <2>1. UNCHANGED <<standing, relay>> /\ ~Recording("leave") /\ Spend("leaves")
        /\ task' = [task EXCEPT !["leave"] = [task["leave"] EXCEPT !.pc = "wait"]]
    BY <1>8 DEF Leave, Recording, Go
  <2>2. SpentGrows
    BY <2>1, BudgetKeys, SpentLemma
  <2> QED BY <1>0, <1>3, <1>4, <2>1, <2>2
<1>9. CASE LeaveLock
  <2>1. UNCHANGED <<standing, relay, spent>> /\ ~Recording("leave")
        /\ task' = [task EXCEPT !["leave"] = [task["leave"] EXCEPT !.pc = "remove"]]
    BY <1>9 DEF LeaveLock, Recording, Go
  <2> QED BY <1>0, <1>3, <1>4, <2>1, SpentLemma
<1>10. CASE ForgetRevoke
  <2> DEFINE x == [Idle EXCEPT !.pc = "terminate", !.h = Hold(row),
                               !.listed = route \/ standing.st \in {"member", "retained"}]
  <2>1. UNCHANGED <<standing, relay>> /\ ~Recording("forget") /\ Spend("forgets")
        /\ task' = [task EXCEPT !["forget"] = x] /\ x.pc = "terminate"
    BY <1>10 DEF ForgetRevoke, Recording, Idle
  <2>2. SpentGrows
    BY <2>1, BudgetKeys, SpentLemma
  <2> HIDE DEF x
  <2> QED BY <1>0, <1>3, <2>1, <2>2
<1>11. CASE ForgetTerminate
  <2>1. UNCHANGED <<standing, relay, spent>> /\ ~Recording("forget")
    BY <1>11 DEF ForgetTerminate, Recording
  <2>2. \/ task' = [task EXCEPT !["forget"] = [task["forget"] EXCEPT !.pc = "finalize"]]
        \/ task' = [task EXCEPT !["forget"] = Idle]
    BY <1>11 DEF ForgetTerminate, Go
  <2> QED BY <1>0, <1>3, <1>4, <2>1, <2>2, SpentLemma
<1>12. CASE ForgetFinalize
  <2>1. UNCHANGED <<relay, spent>> /\ ~Recording("forget")
    BY <1>12 DEF ForgetFinalize, Recording
  <2>2. standing.st \in AnsweredBy => standing'.st \in AnsweredBy
    BY <1>0, <1>12, KeepsAnswer DEF ForgetFinalize
  <2>3. \/ task' = [task EXCEPT !["forget"] = [task["forget"] EXCEPT !.pc = "wait"]]
        \/ task' = [task EXCEPT !["forget"] = Idle]
    BY <1>12 DEF ForgetFinalize
  <2> QED BY <1>0, <1>3, <1>4, <2>1, <2>2, <2>3, SpentLemma
<1>13. CASE ForgetLock
  <2> DEFINE x == [task["forget"] EXCEPT !.pc = "remove", !.due = standing]
  <2>1. UNCHANGED <<standing, relay, spent>> /\ ~Recording("forget")
        /\ task' = [task EXCEPT !["forget"] = x]
    BY <1>13 DEF ForgetLock, Recording
  <2>2. x.pc = "remove"
    BY <1>0 DEF Task
  <2> HIDE DEF x
  <2> QED BY <1>0, <1>3, <2>1, <2>2, SpentLemma
<1> QED BY <1>1, <1>2, <1>5, <1>6, <1>7, <1>8, <1>9, <1>10, <1>11, <1>12, <1>13

\* The account is kept by every step.
LEMMA AccountStep == TypeOK /\ LaneInv /\ AccountInv /\ [Next]_vars => AccountInv'
<1> SUFFICES ASSUME TypeOK, LaneInv, AccountInv, [Next]_vars PROVE AccountInv'
  OBVIOUS
<1>0. TypeOK'
  BY TypeStep
<1>1. CASE UNCHANGED vars
  BY <1>1, RowOnlyAccount DEF vars
<1>2. CASE Runtime
  BY <1>2, RuntimeAccount
<1>3. CASE \E t \in Tasks : Step(t)
  BY <1>0, <1>3, StepAccount
<1> QED
  BY <1>0, <1>1, <1>2, <1>3, OutsideAccount
  DEF Next, TickStep, LeaveStep, ForgetStep, Tasks

-----------------------------------------------------------------------------
(* No stale removal.  A task holds the lifecycle it read: an epoch that is *)
(* not ahead of the row, and the same epoch only with the same generation. *)
(* So an admission whose epoch is still the row's owns the lifecycle.      *)

Behind(h, r) == h.le <= r.le /\ (h.le = r.le => h.gen = r.gen)

Fenced ==
  /\ row.le = 0 => row.gen = 0
  /\ \A t \in Tasks : Behind(task[t].h, row)

\* The epochs of a row move forward, and the generation with the epoch.
Forward(r, q) == q.le >= r.le /\ (q.le = r.le => q.gen = r.gen)

\* Every step moves the row forward.
LEMMA RowForward == TypeOK /\ [Next]_vars => Forward(row, row')
<1> SUFFICES ASSUME TypeOK, [Next]_vars PROVE Forward(row, row')
  OBVIOUS
<1>0. row \in Session /\ row.le \in Nat
  BY DEF TypeOK, Session
<1>1. row' = row => Forward(row, row')
  BY <1>0 DEF Forward
<1>2. CASE Launch
  BY <1>0, <1>2 DEF Launch, ReserveGeneration, Forward, Session
<1>3. ASSUME NEW why PROVE Forward(row, Stopped(row, why))
  BY <1>0 DEF Stopped, Forward, Session
<1>4. CASE RuntimeStops
  BY <1>1, <1>3, <1>4 DEF RuntimeStops, MarkRuntimeStopped
<1>5. CASE EvictionReserved
  BY <1>0, <1>5 DEF EvictionReserved, ReserveEviction, Forward, Session
<1>6. CASE EvictionCancelled
  BY <1>0, <1>6 DEF EvictionCancelled, CancelEviction, Forward, Session
<1>7. CASE EvictionFinalized
  BY <1>1, <1>3, <1>7 DEF EvictionFinalized, FinalizeRuntimeStopped
<1>8. CASE ForgetRevoke
  BY <1>0, <1>8 DEF ForgetRevoke, RevokeRecovery, Forward, Session
<1>9. CASE ForgetFinalize
  BY <1>1, <1>3, <1>9 DEF ForgetFinalize, FinalizeRevocation
<1>10. row' = row \/ Runtime \/ ForgetRevoke \/ ForgetFinalize
  BY DEF Next, TickStep, LeaveStep, ForgetStep, Step, vars, Tick, Crash, Request,
         RecoveryRequest, Repair, Expire, Leave, LeaveLock, ForgetTerminate, ForgetLock,
         AdmitLock, Grant, Commit, Fallback, Remove, Mark
<1> QED BY <1>1, <1>2, <1>4, <1>5, <1>6, <1>7, <1>8, <1>9, <1>10 DEF Runtime

\* A step gives a task the row's lifecycle, none, or leaves it what it has.
LEMMA HeldStep ==
  TypeOK /\ [Next]_vars =>
    \A t \in Tasks : task'[t].h \in {task[t].h, Hold(row), Hold(NoSession)}
<1> SUFFICES ASSUME TypeOK, [Next]_vars, NEW t \in Tasks
             PROVE  task'[t].h \in {task[t].h, Hold(row), Hold(NoSession)}
  OBVIOUS
<1>0. task \in [Tasks -> Task] /\ Idle.h = Hold(NoSession) /\ task[t] \in Task
  BY DEF TypeOK, Task, Idle
<1>1. task' = task => task'[t].h \in {task[t].h, Hold(row), Hold(NoSession)}
  OBVIOUS
<1>2. ASSUME NEW u \in Tasks, NEW x, task' = [task EXCEPT ![u] = x],
             x.h \in {task[u].h, Hold(row), Hold(NoSession)}
      PROVE  task'[t].h \in {task[t].h, Hold(row), Hold(NoSession)}
  BY <1>0, <1>2
<1>3. ASSUME NEW u \in Tasks, NEW pc, NEW d
      PROVE  /\ [task[u] EXCEPT !.pc = pc].h = task[u].h
             /\ [task[u] EXCEPT !.pc = pc, !.due = d].h = task[u].h
             /\ [Idle EXCEPT !.pc = pc, !.h = Hold(row)].h = Hold(row)
             /\ [Idle EXCEPT !.pc = pc, !.due = d].h = Hold(NoSession)
  BY <1>0 DEF Task, Idle
<1>4. ASSUME NEW u \in Tasks, NEW pc, Go(u, pc)
      PROVE  task'[t].h \in {task[t].h, Hold(row), Hold(NoSession)}
  BY <1>2, <1>3, <1>4 DEF Go
<1>5. ASSUME NEW u \in Tasks, task' = [task EXCEPT ![u] = Idle]
      PROVE  task'[t].h \in {task[t].h, Hold(row), Hold(NoSession)}
  BY <1>0, <1>2, <1>5
<1>a. ASSUME NEW u \in Tasks, NEW pc, NEW d,
             \/ task' = [task EXCEPT ![u] = [task[u] EXCEPT !.pc = pc]]
             \/ task' = [task EXCEPT ![u] = [task[u] EXCEPT !.pc = pc, !.due = d]]
      PROVE  task'[t].h \in {task[t].h, Hold(row), Hold(NoSession)}
  <2>1. CASE task' = [task EXCEPT ![u] = [task[u] EXCEPT !.pc = pc]]
    <3> DEFINE x == [task[u] EXCEPT !.pc = pc]
    <3>1. task' = [task EXCEPT ![u] = x] /\ x.h = task[u].h
      BY <1>3, <2>1
    <3> HIDE DEF x
    <3> QED BY <1>2, <3>1
  <2>2. CASE task' = [task EXCEPT ![u] = [task[u] EXCEPT !.pc = pc, !.due = d]]
    <3> DEFINE x == [task[u] EXCEPT !.pc = pc, !.due = d]
    <3>1. task' = [task EXCEPT ![u] = x] /\ x.h = task[u].h
      BY <1>3, <2>2
    <3> HIDE DEF x
    <3> QED BY <1>2, <3>1
  <2> QED BY <1>a, <2>1, <2>2
<1>b. ASSUME NEW u \in Tasks, NEW pc, NEW d,
             \/ task' = [task EXCEPT ![u] = [Idle EXCEPT !.pc = pc, !.h = Hold(row)]]
             \/ task' = [task EXCEPT ![u] = [Idle EXCEPT !.pc = pc, !.due = d]]
      PROVE  task'[t].h \in {task[t].h, Hold(row), Hold(NoSession)}
  <2>1. CASE task' = [task EXCEPT ![u] = [Idle EXCEPT !.pc = pc, !.h = Hold(row)]]
    <3> DEFINE x == [Idle EXCEPT !.pc = pc, !.h = Hold(row)]
    <3>1. task' = [task EXCEPT ![u] = x] /\ x.h = Hold(row)
      BY <1>3, <2>1
    <3> HIDE DEF x
    <3> QED BY <1>2, <3>1
  <2>2. CASE task' = [task EXCEPT ![u] = [Idle EXCEPT !.pc = pc, !.due = d]]
    <3> DEFINE x == [Idle EXCEPT !.pc = pc, !.due = d]
    <3>1. task' = [task EXCEPT ![u] = x] /\ x.h = Hold(NoSession)
      BY <1>3, <2>2
    <3> HIDE DEF x
    <3> QED BY <1>2, <3>1
  <2> QED BY <1>b, <2>1, <2>2
<1>6. ASSUME NEW u \in Tasks, Stale(u)
      PROVE  task'[t].h \in {task[t].h, Hold(row), Hold(NoSession)}
  <2>1. \/ task' = [task EXCEPT ![u] = Idle]
        \/ task' = [task EXCEPT ![u] = [task[u] EXCEPT !.pc = "remove", !.due = standing']]
    BY <1>6, StaleInv
  <2> DEFINE d == standing'
  <2>2. CASE task' = [task EXCEPT ![u] = [task[u] EXCEPT !.pc = "remove", !.due = d]]
    <3>1. [task[u] EXCEPT !.pc = "remove", !.due = d].h = task[u].h
      BY <1>0 DEF Task
    <3> QED BY <1>0, <2>2, <3>1
  <2> QED BY <1>5, <2>1, <2>2
<1>7. ASSUME NEW u \in Tasks, Step(u)
      PROVE  task'[t].h \in {task[t].h, Hold(row), Hold(NoSession)}
  BY <1>4, <1>5, <1>6, <1>7
  DEF Step, AdmitLock, Grant, Commit, Fallback, Remove, Mark, Release
<1>8. "tick" \in Tasks /\ "leave" \in Tasks /\ "forget" \in Tasks /\ Callers \subseteq Tasks
  BY DEF Tasks
<1>9. CASE Crash
  BY <1>0, <1>9 DEF Crash
<1>10. CASE Tick \/ Runtime \/ UNCHANGED vars
  BY <1>1, <1>10 DEF Tick, Runtime, Launch, RuntimeStops, EvictionReserved,
     EvictionCancelled, EvictionFinalized, vars
<1>11. CASE \E u \in Callers : Request(u) \/ RecoveryRequest(u)
  BY <1>b, <1>8, <1>11 DEF Request, RecoveryRequest
<1>12. CASE Repair \/ Expire
  <2>1. \/ task' = [task EXCEPT !["tick"] = [Idle EXCEPT !.pc = "wait", !.h = Hold(row)]]
        \/ task' = [task EXCEPT !["tick"] = [Idle EXCEPT !.pc = "remove", !.due = standing]]
    BY <1>12 DEF Repair, Expire
  <2> QED BY <1>b, <1>8, <2>1
<1>13. CASE Leave \/ LeaveLock
  BY <1>4, <1>8, <1>13 DEF Leave, LeaveLock
<1>14. CASE ForgetRevoke
  <2> DEFINE x == [Idle EXCEPT !.pc = "terminate", !.h = Hold(row),
                               !.listed = route \/ standing.st \in {"member", "retained"}]
  <2>1. task' = [task EXCEPT !["forget"] = x] /\ x.h = Hold(row)
    BY <1>14 DEF ForgetRevoke, Idle
  <2> HIDE DEF x
  <2> QED BY <1>2, <1>8, <2>1
<1>15. CASE ForgetTerminate
  BY <1>4, <1>5, <1>8, <1>15 DEF ForgetTerminate
<1>16. CASE ForgetFinalize
  <2>1. \/ task' = [task EXCEPT !["forget"] = [task["forget"] EXCEPT !.pc = "wait"]]
        \/ task' = [task EXCEPT !["forget"] = Idle]
    BY <1>16 DEF ForgetFinalize
  <2> QED BY <1>a, <1>5, <1>8, <2>1
<1>17. CASE ForgetLock
  <2>1. task' = [task EXCEPT !["forget"] =
                   [task["forget"] EXCEPT !.pc = "remove", !.due = standing]]
    BY <1>17 DEF ForgetLock
  <2> QED BY <1>2, <1>3, <1>8, <2>1
<1> QED BY <1>7, <1>8, <1>9, <1>10, <1>11, <1>12, <1>13, <1>14, <1>15, <1>16, <1>17
        DEF Next, TickStep, LeaveStep, ForgetStep

\* Every step keeps the fence.
LEMMA FencedStep == TypeOK /\ Fenced /\ [Next]_vars => Fenced'
<1> SUFFICES ASSUME TypeOK, Fenced, [Next]_vars PROVE Fenced'
  OBVIOUS
<1>0. TypeOK' /\ Forward(row, row')
  BY TypeStep, RowForward
<1>1. /\ row.le \in Nat /\ row'.le \in Nat
      /\ \A t \in Tasks : task[t].h.le \in Nat
  BY <1>0 DEF TypeOK, Session, Held
<1>2. row'.le = 0 => row'.gen = 0
  BY <1>0, <1>1 DEF Forward, Fenced
<1>3. ASSUME NEW t \in Tasks PROVE Behind(task'[t].h, row')
  <2>1. CASE task'[t].h = task[t].h
    BY <1>0, <1>1, <2>1 DEF Behind, Forward, Fenced
  <2>2. CASE task'[t].h = Hold(row)
    BY <1>0, <1>1, <2>2 DEF Behind, Forward, Hold
  <2>3. CASE task'[t].h = Hold(NoSession)
    BY <1>1, <1>2, <2>3 DEF Behind, Hold, NoSession
  <2> QED BY <2>1, <2>2, <2>3, HeldStep
<1> QED BY <1>2, <1>3 DEF Fenced

\* What NoStaleRemoval says of one step.
KeepsMember ==
  /\ standing.st = "member" /\ standing.le = row'.le /\ route'
  /\ row'.rt = "running" /\ row'.rec # "revoked"
  => standing'.st = "member"

\* Only a step that stops the session, takes the route or ends a stale admission
\* takes a member's standing, and none of a lifecycle that is still the row's.
LEMMA StaleStep ==
  TypeOK /\ LaneInv /\ Fenced /\ [Next]_vars => KeepsMember
<1> SUFFICES ASSUME TypeOK, LaneInv, Fenced, [Next]_vars,
                    standing.st = "member", standing.le = row'.le, route',
                    row'.rt = "running", row'.rec # "revoked"
             PROVE  standing'.st = "member"
  BY DEF KeepsMember
<1>0. row \in Session /\ standing \in Standing
  BY DEF TypeOK
<1>1. CASE Launch
  BY <1>1 DEF Launch, Initialized
<1>2. CASE RuntimeStops
  BY <1>0, <1>2 DEF RuntimeStops, MarkRuntimeStopped, Owns, Stopped, Session
<1>3. CASE EvictionFinalized
  BY <1>0, <1>3 DEF EvictionFinalized, FinalizeRuntimeStopped, FinalizeApplies, Stopped,
     Session
<1>4. CASE ForgetFinalize
  BY <1>4 DEF ForgetFinalize
<1>5. ASSUME NEW t \in Tasks, Stale(t), UNCHANGED row, ~Requested(task[t].h)
      PROVE  standing'.st = "member"
  <2>1. CASE NewerMember(standing, task[t].h.le)
    BY <1>5, <2>1 DEF Stale
  <2>2. CASE ~NewerMember(standing, task[t].h.le)
    <3>1. task[t].h.le = row.le
      BY <1>5, <2>2 DEF NewerMember
    <3>2. task[t].h.gen = row.gen
      BY <3>1 DEF Fenced, Behind
    <3> QED BY <1>5, <3>1, <3>2 DEF Requested
  <2> QED BY <2>1, <2>2
<1>6. ASSUME NEW t \in Tasks, Commit(t) PROVE standing'.st = "member"
  <2>1. CASE Admit(t)
    BY <2>1 DEF Admit
  <2>2. CASE ~Requested(task[t].h) /\ Stale(t) /\ UNCHANGED row
    BY <1>5, <2>2
  <2>3. CASE UNCHANGED standing
    BY <2>3
  <2> QED BY <1>6, <2>1, <2>2, <2>3 DEF Commit
<1>7. ASSUME NEW t \in Tasks, Fallback(t) PROVE standing'.st = "member"
  <2>1. UNCHANGED <<row, route>>
    BY <1>7 DEF Fallback
  <2>2. CASE ~Requested(task[t].h) /\ Stale(t)
    BY <1>5, <2>1, <2>2
  <2>3. CASE standing.le # task[t].h.le /\ Stale(t)
    BY <2>3 DEF Stale, NewerMember
  <2>4. CASE UNCHANGED standing
    BY <2>4
  <2> QED BY <1>7, <2>1, <2>2, <2>3, <2>4 DEF Fallback
<1>8. ASSUME NEW t \in Tasks, Mark(t) PROVE standing'.st = "member"
  BY <1>8 DEF Mark, LaneInv, Removing
<1>9. \/ UNCHANGED standing
      \/ Launch \/ RuntimeStops \/ EvictionFinalized \/ ForgetFinalize
      \/ \E t \in Tasks : Commit(t) \/ Fallback(t) \/ Mark(t)
  BY DEF Next, Runtime, TickStep, LeaveStep, ForgetStep, Step, vars, Tick, Crash, Request,
         RecoveryRequest, Repair, Expire, Leave, LeaveLock, ForgetRevoke, ForgetTerminate,
         ForgetLock, AdmitLock, Grant, Remove, EvictionReserved, EvictionCancelled, Tasks
<1> QED BY <1>1, <1>2, <1>3, <1>4, <1>6, <1>7, <1>8, <1>9

-----------------------------------------------------------------------------
(* The theorems.                                                           *)

\* Every variable of the standing model keeps its type in every behaviour.
THEOREM StandingTypeCorrect == Spec => []TypeOK
<1>1. Init => TypeOK
  BY InitStanding
<1> QED BY <1>1, TypeStep, PTL DEF Spec

\* Until somebody leaves the channel, a standing the store records as member
\* (commit_confirmed_session_admission) is a membership the relay has: for any
\* number of callers of the lane, lost answers, store errors, crashes, stops,
\* relaunches and forgets.
THEOREM MemberCorrect == Spec => []MemberOnRelay
<1>1. Init => TypeOK /\ LaneInv
  BY InitStanding
<1>2. TypeOK /\ LaneInv /\ [Next]_vars => (TypeOK /\ LaneInv)'
  BY TypeStep, StandingStep
<1>3. LaneInv => MemberOnRelay
  BY DEF LaneInv
<1> QED BY <1>1, <1>2, <1>3, PTL DEF Spec

\* Somebody answers for every membership: as long as no daemon crash and no lost
\* grant intervened and at most one store write failed, a pubkey that the relay has
\* as a member while no task is in the lane is recorded as a member or as due for
\* removal (commit_confirmed_admission, its fallback and the compensation), for any
\* number of callers, refused or lost removals, stops, relaunches and forgets.
THEOREM AccountedCorrect == Spec => []Accounted
<1> DEFINE IInv == TypeOK /\ LaneInv /\ AccountInv
<1>1. Init => IInv
  <2>1. Init => AccountInv
    BY DEF Init, Idle, AccountInv, Marking, Failing, Answered
  <2> QED BY <2>1, InitStanding
<1>2. IInv /\ [Next]_vars => IInv'
  BY TypeStep, StandingStep, AccountStep
<1>3. IInv => Accounted
  <2> SUFFICES ASSUME IInv, Reliable, lane = "none", relay
               PROVE  standing.st \in {"member", "retained"}
    BY DEF Accounted
  <2>1. "none" \notin Tasks
    BY DEF Tasks
  <2>2. \A t \in Tasks : ~Recording(t)
    BY <2>1 DEF LaneInv, Serialized, InLane, Recording
  <2> QED BY <2>2 DEF AccountInv, Answered, AnsweredBy
<1> QED BY <1>1, <1>2, <1>3, PTL DEF Spec

\* An admission, a compensation or an expiry of an earlier lifecycle never takes the
\* standing of a running session that its current lifecycle admitted: the epoch that
\* commit_confirmed_admission compares fences every task that read the row before.
THEOREM NoStaleRemovalCorrect == Spec => NoStaleRemoval
<1> DEFINE IInv == TypeOK /\ LaneInv /\ Fenced
<1>1. Init => IInv
  <2>1. Init => Fenced
    BY DEF Init, Idle, Fenced, Behind, Hold, NoSession
  <2> QED BY <2>1, InitStanding
<1>2. IInv /\ [Next]_vars => IInv'
  BY TypeStep, StandingStep, FencedStep
<1>3. IInv /\ [Next]_vars => [KeepsMember]_vars
  BY StaleStep
<1>4. NoStaleRemoval <=> [][KeepsMember]_vars
  BY PTL DEF NoStaleRemoval, KeepsMember
<1> QED BY <1>1, <1>2, <1>3, <1>4, PTL DEF Spec
=============================================================================
