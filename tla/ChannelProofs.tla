--------------------------- MODULE ChannelProofs ---------------------------
(***************************************************************************)
(* That a readiness check may be relied on, for every set of handlers, every *)
(* traffic, every list of minted ids and every number of faults.            *)
(*                                                                         *)
(* ReadinessSafe is not inductive: a grant is recorded in the mirror by a   *)
(* check that read the relay some steps before, while other checks of the   *)
(* channel and of its parent run. RInv adds what each check knows at its    *)
(* place. A handler has one check, or a check and over it its parent's, and *)
(* a check past the lock is the only one of its channel. The admins of a    *)
(* channel only grow, so a role that was read still holds when it is used;  *)
(* a member that is missing where it was believed is one whose snapshot has *)
(* yet to come, or was removed while a check ran. An id that was not handed *)
(* out is unknown to everybody, and a create is alone on its channel until  *)
(* the channel has a row, so the create finds its own parent there.         *)
(***************************************************************************)
EXTENDS ChannelReadiness, FiniteSetTheorems, SequenceTheorems, TLAPS

-----------------------------------------------------------------------------
(* Readiness: the invariant.                                                *)

Pcs == {"check", "fetch", "create", "selfgrant", "poll", "parent", "admins", "member", "mark"}
Parents == {{}, {Root}}
Names == {Root, Name, ""}
Groups == [parent : Parents, name : Names, admins : SUBSET Keys, members : SUBSET Keys]
Metas == [parent : Parents, name : Names]
Rosters == [admins : SUBSET Keys, members : SUBSET Keys, snap : BOOLEAN]
Checks == [ch : Channels, mem : Keys, hint : Parents, pc : Pcs, roles : SUBSET Keys,
           mems : SUBSET Keys, padm : SUBSET Keys]
Handlers == [op : {"none", "resolve", "create", "start"}, st : {"idle", "open", "gated", "done"},
             id : SUBSET Channels, got : SUBSET Channels, frames : Seq(Checks)]

\* The workspace has two levels.
ParentOf(c) == IF c = Root THEN {} ELSE {Root}

GroupTyped ==
    /\ group \in [Channels -> SUBSET Groups]
    /\ \A c \in Channels : \A g, h \in group[c] : g = h
    /\ \A c \in Channels : \A g \in group[c] : g.parent = ParentOf(c) /\ g.admins \cap g.members = {}
RowTyped ==
    /\ row \in [Channels -> SUBSET Metas]
    /\ \A c \in Channels : \A m, n \in row[c] : m = n
    /\ \A c \in Channels : \A m \in row[c] : m.parent = ParentOf(c)
MirrorTyped ==
    /\ mirror \in [Channels -> Rosters]
    /\ \A c \in Channels : mirror[c].admins \cap mirror[c].members = {}
LockTyped ==
    /\ lock \in [Channels -> SUBSET Callers]
    /\ \A c \in Channels : \A p, q \in lock[c] : p = q
MintTyped ==
    /\ intent \subseteq Channels /\ (\A c, d \in intent : c = d) /\ minted \in 0..Len(Ids)
FlagsTyped ==
    /\ ready \subseteq Channels \X Keys
    /\ undelivered \subseteq Channels /\ raced \subseteq Channels /\ faults \in 0..MaxFaults
StoreTyped == GroupTyped /\ RowTyped /\ MirrorTyped /\ LockTyped /\ MintTyped /\ FlagsTyped

CallTyped == call \in [Callers -> Handlers]

\* The mirror and the cache say what the relay says, or a snapshot has yet to come, or one
\* came in the middle of a check.
Doubtful(c) == c \in undelivered \cup raced
MirrorBacked ==
    \A c \in Channels : /\ mirror[c].admins \subseteq Admins(c)
                        /\ \A k \in mirror[c].members : OnRelay(c, k) \/ Doubtful(c)
Backed == MirrorBacked /\ ReadyBacked /\ Governed

\* Nobody has to do with a channel yet.
Fresh(c) == group[c] = {} /\ row[c] = {} /\ c \notin intent /\ \A k \in Keys : <<c, k>> \notin ready

\* What has not been handed out is fresh; what a create was given is given to no one else
\* before it has a row.
Unminted == \A i \in (minted + 1)..Len(Ids) : Fresh(Ids[i]) /\ \A p \in Callers : Ids[i] \notin call[p].id
Sole ==
    \A p \in Callers : call[p].op = "create" =>
       /\ \A c \in call[p].id : c \notin intent
       /\ \A q \in Callers \ {p} : \A c \in call[p].id \cap call[q].id : row[c] # {}

\* The checks of a handler: at most a channel's and, over it, its parent's; a check past the
\* cache holds its channel's lock, and so does one that waits for its parent.
Stacked(p) ==
    LET fs == call[p].frames IN
    /\ Len(fs) <= 2
    /\ fs # <<>> => call[p].st = "open" /\ call[p].id = {fs[Len(fs)].ch}
    /\ \A i \in DOMAIN fs : /\ fs[i].hint = ParentOf(fs[i].ch)
                            /\ fs[i].pc = "check" => fs[i].roles = {} /\ fs[i].mems = {}
    /\ Len(fs) = 2 => fs[1].ch = Root /\ fs[2].ch # Root /\ fs[2].pc = "check" /\ lock[fs[2].ch] = {p}
    /\ fs # <<>> /\ fs[1].pc # "check" => lock[fs[1].ch] = {p}

\* What the check of a channel has seen and done so far.
Checked(p) ==
    LET f == Top(p) IN
    Running(p) /\ f.pc # "check" =>
       /\ f.roles \subseteq Admins(f.ch)
       /\ (\A k \in f.mems : OnRelay(f.ch, k)) \/ Doubtful(f.ch)
       /\ f.pc \in {"member", "mark"} => required_admins(f) \subseteq Admins(f.ch)
       /\ f.pc = "mark" => OnRelay(f.ch, f.mem) \/ Doubtful(f.ch)

\* A create works on a fresh channel until it has founded the group, and has seen its row
\* when it goes on.
Outer(p) == call[p].frames[Len(call[p].frames)]
Creating(p) ==
    call[p].op = "create" =>
       /\ call[p].got \subseteq call[p].id /\ (call[p].st # "done" => call[p].got = {})
       /\ \A c \in call[p].id :
            /\ c # Root
            /\ call[p].st \in {"gated", "done"} => row[c] # {}
            /\ Running(p) /\ Outer(p).pc \in {"check", "fetch", "create"} => Fresh(c)
            /\ Running(p) /\ Outer(p).pc \in {"selfgrant", "parent", "admins", "member", "mark"} => row[c] # {}

CallOK(p) == Stacked(p) /\ Checked(p) /\ Creating(p)

\* The inductive invariant.
RInv ==
    /\ StoreTyped /\ CallTyped /\ Backed /\ Unminted /\ Sole
    /\ \A p \in Callers : CallOK(p)

-----------------------------------------------------------------------------
(* Readiness: what the invariant says of groups, rows and checks.           *)

LEMMA IdsApart ==
    /\ Len(Ids) \in Nat
    /\ \A i \in 1..Len(Ids) : Ids[i] \in Channels /\ Ids[i] # Root
    /\ \A i, j \in 1..Len(Ids) : Ids[i] = Ids[j] => i = j
    /\ \A c \in Channels : c # Root => \E i \in 1..Len(Ids) : c = Ids[i]
  BY ReadinessConstants DEF Channels, Root

\* The state of a group is the one there is.
LEMMA TheGroup ==
    ASSUME GroupTyped, NEW c \in Channels
    PROVE  /\ \A g \in group[c] : Of(c) = g /\ Admins(c) = g.admins /\ Members(c) = g.members
           /\ group[c] = {} => Admins(c) = {} /\ Members(c) = {}
           /\ Exists(c) => Of(c) \in group[c] /\ Of(c) \in Groups
           /\ Admins(c) \subseteq Keys /\ Members(c) \subseteq Keys /\ Admins(c) \cap Members(c) = {}
<1>1. \A g \in group[c] : Of(c) = g /\ g \in Groups /\ g.admins \cap g.members = {}
  BY DEF GroupTyped, Of
<1>2. CASE group[c] = {}
  BY <1>2 DEF Exists, Admins, Members
<1>3. CASE group[c] # {}
  <2>1. PICK g \in group[c] : TRUE
    BY <1>3
  <2>2. Of(c) = g /\ g \in Groups /\ g.admins \cap g.members = {}
    BY <1>1
  <2>3. Admins(c) = g.admins /\ Members(c) = g.members
    BY <1>3, <2>2 DEF Exists, Admins, Members
  <2>4. g.admins \subseteq Keys /\ g.members \subseteq Keys
    BY <2>2 DEF Groups
  <2>5. \A h \in group[c] : h = g
    BY <1>1, <2>2
  <2> QED
    BY <1>3, <2>1, <2>2, <2>3, <2>4, <2>5
<1> QED
  BY <1>2, <1>3

\* A hint is the parent of the channel, whoever gives it.
LEMMA HintIsParent ==
    ASSUME RowTyped, NEW c \in Channels
    PROVE  /\ effective_parent_hint(c, {Root}) = ParentOf(c)
           /\ effective_parent_hint(Root, {}) = {}
           /\ Root \in Channels
<1>1. \A d \in Channels : row[d] # {} => (CHOOSE m \in row[d] : TRUE).parent = ParentOf(d)
  BY DEF RowTyped
<1>2. Root \in Channels
  BY DEF Channels
<1>3. effective_parent_hint(c, {Root}) = ParentOf(c)
  <2>1. CASE row[c] # {}
    BY <1>1, <2>1 DEF effective_parent_hint
  <2>2. CASE row[c] = {}
    BY <2>2 DEF effective_parent_hint, pending_parent, ParentOf
  <2> QED
    BY <2>1, <2>2
<1>4. effective_parent_hint(Root, {}) = {}
  <2>1. CASE row[Root] # {}
    BY <1>1, <1>2, <2>1 DEF effective_parent_hint, ParentOf
  <2>2. CASE row[Root] = {}
    BY <2>2 DEF effective_parent_hint, pending_parent
  <2> QED
    BY <2>1, <2>2
<1> QED
  BY <1>2, <1>3, <1>4

\* The checks of a handler are one, or a channel's under that of the root.
LEMMA TheChecks ==
    ASSUME RInv, NEW p \in Callers, Running(p)
    PROVE  /\ call[p] \in Handlers /\ call[p].frames \in Seq(Checks)
           /\ Top(p) = call[p].frames[1] /\ Top(p) \in Checks
           /\ Len(call[p].frames) = 1 => Outer(p) = Top(p) /\ call[p].id = {Top(p).ch}
           /\ Len(call[p].frames) = 2 => /\ Outer(p) = call[p].frames[2] /\ Outer(p) \in Checks
                                         /\ Top(p).ch = Root /\ Outer(p).ch # Root
                                         /\ call[p].id = {Outer(p).ch}
           /\ Len(call[p].frames) \in {1, 2}
           /\ Top(p).hint = ParentOf(Top(p).ch)
           /\ Top(p).pc = "check" => Top(p).roles = {} /\ Top(p).mems = {}
           /\ Top(p).pc # "check" => lock[Top(p).ch] = {p}
<1> DEFINE fs == call[p].frames
<1>1. call[p] \in Handlers
  BY DEF RInv, CallTyped
<1>2. fs \in Seq(Checks)
  BY <1>1 DEF Handlers
<1>3. /\ Len(fs) <= 2
      /\ fs # <<>> => call[p].st = "open" /\ call[p].id = {fs[Len(fs)].ch}
      /\ \A i \in DOMAIN fs : /\ fs[i].hint = ParentOf(fs[i].ch)
                              /\ fs[i].pc = "check" => fs[i].roles = {} /\ fs[i].mems = {}
      /\ Len(fs) = 2 => fs[1].ch = Root /\ fs[2].ch # Root /\ fs[2].pc = "check" /\ lock[fs[2].ch] = {p}
      /\ fs # <<>> /\ fs[1].pc # "check" => lock[fs[1].ch] = {p}
  <2>1. Stacked(p)
    BY DEF RInv, CallOK
  <2> QED
    BY <2>1 DEF Stacked
<1>4. fs # <<>>
  BY DEF Running
<1>5. Top(p) = Head(fs) /\ Outer(p) = fs[Len(fs)]
  BY DEF Top, Outer
<1> HIDE DEF fs
<1>6. Len(fs) \in {1, 2} /\ DOMAIN fs = 1..Len(fs) /\ Head(fs) = fs[1]
  <2>1. Len(fs) \in Nat /\ Len(fs) # 0 /\ DOMAIN fs = 1..Len(fs)
    BY <1>2, <1>4
  <2>2. Head(fs) = fs[1]
    BY <1>2, <1>4
  <2>3. Len(fs) <= 2
    BY <1>3
  <2> QED
    BY <2>1, <2>2, <2>3
<1>7. fs[1] \in Checks /\ (Len(fs) = 2 => fs[2] \in Checks)
  BY <1>2, <1>6
<1> QED
  BY <1>1, <1>2, <1>3, <1>4, <1>5, <1>6, <1>7 DEF fs

-----------------------------------------------------------------------------
(* Readiness: what a step leaves to the others.                             *)

\* The relay's admins stay, who is on a group stays or leaves a snapshot to come, and one
\* that is delivered finds the checks that are under way.
Grows ==
    /\ \A c \in Channels : Admins(c) \subseteq Admins(c)'
    /\ \A c \in Channels : \A k \in Keys : OnRelay(c, k) => OnRelay(c, k)' \/ c \in undelivered'
    /\ \A c \in undelivered : c \in undelivered' \/ c \in raced' \/ lock[c] = {}
    /\ raced \subseteq raced'
    /\ \A c \in Channels : row[c] # {} => row'[c] # {}

\* Only channel a is worked on.
Elsewhere(a) ==
    /\ \A c \in Channels \ {a} : /\ group'[c] = group[c] /\ row'[c] = row[c]
                                 /\ \A k \in Keys : <<c, k>> \in ready' => <<c, k>> \in ready
    /\ intent' = intent

LEMMA FreshElsewhere ==
    ASSUME NEW a, NEW c \in Channels, c # a, Elsewhere(a), Fresh(c)
    PROVE  Fresh(c)'
  BY DEF Elsewhere, Fresh

\* A handler that does not move.
LEMMA Still ==
    ASSUME RInv, NEW q \in Callers, CallTyped', call'[q] = call[q], Grows,
           \A c \in Channels : lock[c] = {q} => lock'[c] = {q},
           \A c \in Channels : call[q].op = "create" /\ c \in call[q].id /\ Fresh(c) => Fresh(c)'
    PROVE  CallOK(q)'
<1> DEFINE fs == call[q].frames
<1>1. CallOK(q) /\ call[q] \in Handlers
  BY DEF RInv, CallTyped
<1>2. fs \in Seq(Checks) /\ call[q].id \subseteq Channels
  BY <1>1 DEF Handlers
<1>3. Stacked(q)'
  <2>1. \A i \in DOMAIN fs : fs[i].ch \in Channels
    <3>1. \A i \in DOMAIN fs : fs[i] \in Checks
      BY <1>2
    <3> QED
      BY <3>1 DEF Checks
  <2>2. Len(fs) = 2 => fs[2].ch \in Channels
    BY <1>2, <2>1
  <2>3. fs # <<>> => fs[1].ch \in Channels
    BY <1>2, <2>1
  <2>4. /\ Len(fs) = 2 => fs[1].ch = Root /\ fs[2].ch # Root /\ fs[2].pc = "check" /\ lock'[fs[2].ch] = {q}
        /\ fs # <<>> /\ fs[1].pc # "check" => lock'[fs[1].ch] = {q}
    BY <1>1, <2>2, <2>3 DEF CallOK, Stacked
  <2>5. /\ Len(fs) <= 2
        /\ fs # <<>> => call[q].st = "open" /\ call[q].id = {fs[Len(fs)].ch}
        /\ \A i \in DOMAIN fs : /\ fs[i].hint = ParentOf(fs[i].ch)
                                /\ fs[i].pc = "check" => fs[i].roles = {} /\ fs[i].mems = {}
    BY <1>1 DEF CallOK, Stacked
  <2>6. call'[q].frames = fs /\ call'[q].st = call[q].st /\ call'[q].id = call[q].id
    OBVIOUS
  <2> HIDE DEF fs
  <2> QED
    BY <2>4, <2>5, <2>6 DEF Stacked
<1>4. Checked(q)'
  <2> SUFFICES ASSUME Running(q), Top(q).pc # "check" PROVE Checked(q)'
    BY DEF Checked, Running, Top
  <2>1. PICK f \in Checks : f = Top(q) /\ lock[f.ch] = {q}
    BY TheChecks
  <2>2. f.ch \in Channels /\ f.mems \subseteq Keys /\ f.mem \in Keys
    BY <2>1 DEF Checks
  <2>3. /\ f.roles \subseteq Admins(f.ch)
        /\ (\A k \in f.mems : OnRelay(f.ch, k)) \/ Doubtful(f.ch)
        /\ f.pc \in {"member", "mark"} => required_admins(f) \subseteq Admins(f.ch)
        /\ f.pc = "mark" => OnRelay(f.ch, f.mem) \/ Doubtful(f.ch)
    BY <1>1, <2>1 DEF CallOK, Checked
  <2>4. Top(q)' = f
    BY <2>1 DEF Top
  <2>5. Doubtful(f.ch) => Doubtful(f.ch)'
    BY <2>1, <2>2 DEF Grows, Doubtful
  <2>6. \A k \in Keys : OnRelay(f.ch, k) => OnRelay(f.ch, k)' \/ Doubtful(f.ch)'
    BY <2>2 DEF Grows, Doubtful
  <2>7. f.roles \subseteq Admins(f.ch)' /\ (f.pc \in {"member", "mark"} => required_admins(f) \subseteq Admins(f.ch)')
    BY <2>2, <2>3 DEF Grows
  <2>8. (\A k \in f.mems : OnRelay(f.ch, k)') \/ Doubtful(f.ch)'
    BY <2>2, <2>3, <2>5, <2>6
  <2>9. f.pc = "mark" => OnRelay(f.ch, f.mem)' \/ Doubtful(f.ch)'
    BY <2>2, <2>3, <2>5, <2>6
  <2> QED
    BY <2>4, <2>7, <2>8, <2>9 DEF Checked, required_admins
<1>5. Creating(q)'
  <2> SUFFICES ASSUME call[q].op = "create" PROVE Creating(q)'
    BY DEF Creating
  <2>1. Outer(q)' = Outer(q) /\ (Running(q)' <=> Running(q))
    BY DEF Outer, Running
  <2>2. call[q].got \subseteq call[q].id /\ (call[q].st # "done" => call[q].got = {})
    BY <1>1 DEF CallOK, Creating
  <2>3. \A c \in call[q].id : c # Root /\ (call[q].st \in {"gated", "done"} => row'[c] # {})
    BY <1>1, <1>2 DEF CallOK, Creating, Grows
  <2>4. \A c \in call[q].id : Running(q) /\ Outer(q).pc \in {"check", "fetch", "create"} => Fresh(c)'
    BY <1>1, <1>2 DEF CallOK, Creating
  <2>5. \A c \in call[q].id :
          Running(q) /\ Outer(q).pc \in {"selfgrant", "parent", "admins", "member", "mark"} => row'[c] # {}
    BY <1>1, <1>2 DEF CallOK, Creating, Grows
  <2> QED
    BY <2>1, <2>2, <2>3, <2>4, <2>5 DEF Creating
<1> QED
  BY <1>3, <1>4, <1>5 DEF CallOK

\* A step that hands out no channel.
LEMMA MintKept ==
    ASSUME RInv, intent' = intent, minted' = minted, CallTyped', Grows,
           \A q \in Callers : call'[q].id \subseteq call[q].id /\ (call'[q].op = "create" => call[q].op = "create"),
           \A i \in (minted + 1)..Len(Ids) : Fresh(Ids[i])'
    PROVE  Unminted' /\ Sole'
<1>1. Unminted'
  BY DEF RInv, Unminted
<1>2. \A q \in Callers : call[q].id \subseteq Channels
  BY DEF RInv, CallTyped, Handlers
<1>3. Sole'
  BY <1>2 DEF RInv, Sole, Grows
<1> QED
  BY <1>1, <1>3

\* A channel a handler checks is one that was handed out, and not to another create.
LEMMA AtWork ==
    ASSUME RInv, NEW p \in Callers, Running(p)
    PROVE  /\ \A i \in (minted + 1)..Len(Ids) : Ids[i] # Top(p).ch
           /\ \A q \in Callers \ {p} : call[q].op = "create" =>
                \A c \in call[q].id : Fresh(c) => c # Top(p).ch
           /\ Len(call[p].frames) = 2 /\ call[p].op = "create" => \A c \in call[p].id : c # Top(p).ch
<1>1. minted \in 0..Len(Ids)
  BY DEF RInv, StoreTyped, MintTyped
<1>2. \A i \in (minted + 1)..Len(Ids) : Ids[i] # Root /\ Ids[i] \notin call[p].id
  BY <1>1, IdsApart DEF RInv, Unminted
<1>3. Top(p).ch = Root \/ call[p].id = {Top(p).ch}
  BY TheChecks
<1>4. \A q \in Callers \ {p} : call[q].op = "create" =>
        \A c \in call[q].id : Fresh(c) => c # Root /\ c \notin call[p].id
  BY DEF RInv, Sole, CallOK, Creating, Fresh
<1>5. Len(call[p].frames) = 2 => Top(p).ch = Root
  BY TheChecks
<1>6. call[p].op = "create" => \A c \in call[p].id : c # Root
  BY DEF RInv, CallOK, Creating
<1> QED
  BY <1>2, <1>3, <1>4, <1>5, <1>6

\* One handler works on its channel.
LEMMA CallerStep ==
    ASSUME RInv, NEW p \in Callers, Running(p), Elsewhere(Top(p).ch), minted' = minted, Grows,
           CallTyped', \A q \in Callers \ {p} : call'[q] = call[q],
           call'[p].id \subseteq call[p].id, call'[p].op = "create" => call[p].op = "create",
           \A q \in Callers \ {p} : \A c \in Channels : lock[c] = {q} => lock'[c] = {q},
           StoreTyped', Backed', CallOK(p)'
    PROVE  RInv'
<1>1. \A q \in Callers : call[q].id \subseteq Channels
  BY DEF RInv, CallTyped, Handlers
<1>2. minted \in 0..Len(Ids)
  BY DEF RInv, StoreTyped, MintTyped
<1>3. \A i \in (minted + 1)..Len(Ids) : Fresh(Ids[i])'
  <2> SUFFICES ASSUME NEW i \in (minted + 1)..Len(Ids) PROVE Fresh(Ids[i])'
    OBVIOUS
  <2>1. Ids[i] # Top(p).ch
    BY AtWork
  <2>2. Ids[i] \in Channels
    BY <1>2, IdsApart
  <2>3. Fresh(Ids[i])
    BY DEF RInv, Unminted
  <2> QED
    BY <2>1, <2>2, <2>3, FreshElsewhere
<1>4. intent' = intent
  BY DEF Elsewhere
<1>5. \A q \in Callers : call'[q].id \subseteq call[q].id /\ (call'[q].op = "create" => call[q].op = "create")
  OBVIOUS
<1>6. Unminted' /\ Sole'
  BY <1>3, <1>4, <1>5, MintKept
<1>7. \A q \in Callers \ {p} : CallOK(q)'
  <2> SUFFICES ASSUME NEW q \in Callers \ {p} PROVE CallOK(q)'
    OBVIOUS
  <2>1. \A c \in Channels : call[q].op = "create" /\ c \in call[q].id /\ Fresh(c) => c # Top(p).ch
    BY AtWork
  <2>2. \A c \in Channels : call[q].op = "create" /\ c \in call[q].id /\ Fresh(c) => Fresh(c)'
    BY <2>1, FreshElsewhere
  <2> QED
    BY <2>2, Still
<1> QED
  BY <1>6, <1>7 DEF RInv

-----------------------------------------------------------------------------
(* Readiness: how a handler goes on.                                        *)

LEMMA Single ==
    ASSUME NEW S, NEW t \in Seq(S), Len(t) = 1
    PROVE  t # <<>> /\ Head(t) = t[1]
<1>1. t # <<>>
  OBVIOUS
<1> QED
  BY <1>1

\* The outer check is what is left of a stack of two.
LEMMA Outermost ==
    ASSUME NEW S, NEW s \in Seq(S)
    PROVE  /\ Len(s) = 1 => Tail(s) = <<>>
           /\ Len(s) = 2 => Tail(s) # <<>> /\ Head(Tail(s)) = s[2] /\ s[2] \in S
<1>1. ASSUME Len(s) = 1 PROVE Tail(s) = <<>>
  <2>1. s # <<>>
    BY <1>1
  <2>2. Tail(s) \in Seq(S) /\ Len(Tail(s)) = Len(s) - 1
    BY <2>1, HeadTailProperties, Zenon
  <2>3. Len(Tail(s)) \notin Nat \ {0}
    BY <1>1, <2>2
  <2>4. \A t \in Seq(S) : t # <<>> => Len(t) \in Nat \ {0}
    BY EmptySeq, Zenon
  <2> QED
    BY <2>2, <2>3, <2>4, Zenon
<1>2. ASSUME Len(s) = 2 PROVE Tail(s) # <<>> /\ Head(Tail(s)) = s[2] /\ s[2] \in S
  <2>1. s # <<>>
    BY <1>2
  <2>2. Tail(s) \in Seq(S) /\ Len(Tail(s)) = Len(s) - 1 /\ \A i \in 1..Len(Tail(s)) : Tail(s)[i] = s[i + 1]
    BY <2>1, HeadTailProperties, Zenon
  <2>3. Len(Tail(s)) = 1
    BY <1>2, <2>2
  <2>4. Tail(s)[1] = s[2]
    BY <2>2, <2>3
  <2>5. Tail(s) # <<>> /\ Head(Tail(s)) = Tail(s)[1]
    BY <2>2, <2>3, Single, Zenon
  <2>6. s[2] \in S
    BY <1>2
  <2> QED
    BY <2>4, <2>5, <2>6
<1> QED
  BY <1>1, <1>2

\* The locks others hold stay.
LocksOfOthers(p) == \A q \in Callers \ {p} : \A c \in Channels : lock[c] = {q} => lock'[c] = {q}

\* A check goes to its next step.
LEMMA StepCalls ==
    ASSUME RInv, NEW p \in Callers, Running(p), NEW f \in Checks, Step(p, f),
           f.ch = Top(p).ch, f.hint = Top(p).hint, f.pc # "check", Elsewhere(f.ch),
           lock[f.ch] \subseteq {p}, lock'[f.ch] = {p}, \A c \in Channels \ {f.ch} : lock'[c] = lock[c],
           f.roles \subseteq Admins(f.ch)', (\A k \in f.mems : OnRelay(f.ch, k)') \/ Doubtful(f.ch)',
           f.pc \in {"member", "mark"} => required_admins(f) \subseteq Admins(f.ch)',
           f.pc = "mark" => OnRelay(f.ch, f.mem)' \/ Doubtful(f.ch)',
           call[p].op = "create" /\ Len(call[p].frames) = 1 /\ f.pc \in {"fetch", "create"} => Fresh(f.ch)',
           call[p].op = "create" /\ Len(call[p].frames) = 1
             /\ f.pc \in {"selfgrant", "parent", "admins", "member", "mark"} => row'[f.ch] # {}
    PROVE  /\ CallTyped' /\ CallOK(p)' /\ LocksOfOthers(p)
           /\ \A q \in Callers \ {p} : call'[q] = call[q]
           /\ call'[p].id = call[p].id /\ call'[p].op = call[p].op
<1> DEFINE fs == call[p].frames
           gs == <<f>> \o Tail(fs)
           r == [call[p] EXCEPT !.frames = gs]
<1>1. call[p] \in Handlers /\ fs \in Seq(Checks) /\ Len(fs) \in {1, 2} /\ Top(p) = fs[1]
  BY TheChecks
<1>2. gs \in Seq(Checks) /\ Len(gs) = Len(fs) /\ gs[1] = f /\ (Len(fs) = 2 => gs[2] = fs[2])
  BY <1>1
<1>3. call' = [call EXCEPT ![p] = r]
  BY DEF Step
<1> HIDE DEF gs
<1>4. r \in Handlers /\ r.frames = gs /\ r.op = call[p].op /\ r.st = call[p].st /\ r.id = call[p].id /\ r.got = call[p].got
  BY <1>1, <1>2 DEF Handlers
<1> HIDE DEF r
<1>5. CallTyped' /\ call'[p] = r /\ \A q \in Callers \ {p} : call'[q] = call[q]
  BY <1>3, <1>4 DEF RInv, CallTyped
<1>6. f.ch \in Channels
  BY DEF Checks
<1>7. LocksOfOthers(p)
  BY <1>6 DEF LocksOfOthers
<1>8. Stacked(p)'
  <2>0. Len(fs) <= 2
    BY DEF RInv, CallOK, Stacked
  <2>1. /\ Len(fs) = 2 => fs[1].ch = Root /\ fs[2].ch # Root /\ fs[2].pc = "check" /\ lock[fs[2].ch] = {p}
        /\ call[p].st = "open" /\ call[p].id = {fs[Len(fs)].ch}
        /\ \A i \in DOMAIN fs : /\ fs[i].hint = ParentOf(fs[i].ch)
                                /\ fs[i].pc = "check" => fs[i].roles = {} /\ fs[i].mems = {}
    BY DEF RInv, CallOK, Stacked, Running
  <2>2. \A i \in DOMAIN gs : i = 1 \/ (i = 2 /\ Len(fs) = 2)
    BY <1>1, <1>2
  <2>3. f.hint = ParentOf(f.ch)
    BY TheChecks
  <2>4. \A i \in DOMAIN gs : /\ gs[i].hint = ParentOf(gs[i].ch)
                             /\ gs[i].pc = "check" => gs[i].roles = {} /\ gs[i].mems = {}
    BY <1>1, <1>2, <2>1, <2>2, <2>3
  <2>5. Len(fs) = 2 => fs[2].ch \in Channels \ {f.ch}
    <3>1. Len(fs) = 2 => fs[2] \in Checks
      BY <1>1
    <3> QED
      BY <1>1, <2>1, <3>1 DEF Checks
  <2>6. Len(gs) = 2 => gs[1].ch = Root /\ gs[2].ch # Root /\ gs[2].pc = "check" /\ lock'[gs[2].ch] = {p}
    <3>1. Len(fs) = 2 => fs[1].ch = Root /\ fs[2].ch # Root /\ fs[2].pc = "check" /\ lock'[fs[2].ch] = {p}
      BY <2>1, <2>5
    <3>2. f.ch = fs[1].ch
      BY <1>1
    <3> QED
      BY <1>2, <3>1, <3>2
  <2>7. r.st = "open" /\ r.id = {gs[Len(gs)].ch}
    <3>1. gs[Len(gs)].ch = fs[Len(fs)].ch
      <4>1. f.ch = fs[1].ch
        BY <1>1
      <4>2. Len(fs) = 1 => gs[Len(gs)].ch = fs[Len(fs)].ch
        BY <1>2, <4>1
      <4>3. Len(fs) = 2 => gs[Len(gs)].ch = fs[Len(fs)].ch
        BY <1>2
      <4> QED
        BY <1>1, <4>2, <4>3
    <3> QED
      BY <1>4, <2>1, <3>1
  <2>8. Len(gs) <= 2
    BY <1>2, <2>0, Zenon
  <2>9. lock'[gs[1].ch] = {p}
    BY <1>2
  <2> QED
    BY <1>4, <1>5, <2>4, <2>6, <2>7, <2>8, <2>9 DEF Stacked
<1>9. Checked(p)'
  <2>1. Top(p)' = f
    BY <1>1, <1>2, <1>4, <1>5 DEF Top
  <2> QED
    BY <2>1 DEF Checked, required_admins
<1>10. Creating(p)'
  <2> SUFFICES ASSUME call[p].op = "create" PROVE Creating(p)'
    BY <1>4, <1>5 DEF Creating
  <2>1. Creating(p) /\ Running(p)
    BY DEF RInv, CallOK
  <2>2. r.st = "open"
    BY <1>4 DEF RInv, CallOK, Stacked, Running
  <2>3. r.got = {} /\ \A c \in r.id : c # Root
    BY <1>4, <2>1, <2>2 DEF Creating
  <2>4. CASE Len(fs) = 1
    <3>1. Outer(p)' = f /\ r.id = {f.ch}
      BY <1>2, <1>4, <1>5, <2>4, TheChecks DEF Outer
    <3> QED
      BY <1>4, <1>5, <2>2, <2>3, <2>4, <3>1 DEF Creating
  <2>5. CASE Len(fs) = 2
    <3>1. Outer(p)' = fs[2] /\ Outer(p) = fs[2] /\ fs[2].pc = "check"
      BY <1>2, <1>4, <1>5, <2>5, TheChecks DEF Outer, RInv, CallOK, Stacked
    <3>2. \A c \in call[p].id : Fresh(c) /\ c # f.ch /\ c \in Channels
      BY <1>1, <2>1, <2>5, <3>1, AtWork DEF Creating, Handlers
    <3>3. \A c \in call[p].id : Fresh(c)'
      BY <3>2, FreshElsewhere
    <3> QED
      BY <1>4, <1>5, <2>2, <2>3, <3>1, <3>3 DEF Creating
  <2> QED
    BY <1>1, <2>4, <2>5
<1> QED
  BY <1>4, <1>5, <1>7, <1>8, <1>9, <1>10 DEF CallOK

\* A handler that has ended, or has yet to begin.
LEMMA IdleOK ==
    ASSUME NEW p \in Callers, call'[p] = Idle
    PROVE  CallOK(p)' /\ Idle \in Handlers /\ call'[p].id = {} /\ call'[p].op = "none"
<1>1. Idle \in Handlers /\ Idle.frames = <<>> /\ Idle.op = "none" /\ Idle.id = {}
  BY DEF Idle, Handlers
<1>2. Stacked(p)'
  BY <1>1 DEF Stacked
<1>3. Checked(p)'
  BY <1>1 DEF Checked, Running
<1>4. Creating(p)'
  BY <1>1 DEF Creating
<1> QED
  BY <1>1, <1>2, <1>3, <1>4 DEF CallOK

\* A check that degrades ends its handler.
LEMMA DegradedCalls ==
    ASSUME RInv, NEW p \in Callers, Degraded(p)
    PROVE  /\ CallTyped' /\ CallOK(p)' /\ LockTyped' /\ LocksOfOthers(p)
           /\ \A q \in Callers \ {p} : call'[q] = call[q]
           /\ call'[p].id = {} /\ call'[p].op = "none"
<1>1. call' = [call EXCEPT ![p] = Idle]
  BY DEF Degraded
<1>2. call'[p] = Idle /\ \A q \in Callers \ {p} : call'[q] = call[q]
  BY <1>1 DEF RInv, CallTyped
<1>3. CallTyped'
  BY <1>1, <1>2, IdleOK DEF RInv, CallTyped
<1>4. lock' = [c \in Channels |-> lock[c] \ {p}]
  BY DEF Degraded, Release
<1>5. LockTyped' /\ LocksOfOthers(p)
  BY <1>4 DEF RInv, StoreTyped, LockTyped, LocksOfOthers
<1> QED
  BY <1>2, <1>3, <1>5, IdleOK

\* A check that returns: its lock is free, and the handler or the outer check goes on.
LEMMA ReturnCalls ==
    ASSUME RInv, NEW p \in Callers, Running(p), Return(p), Elsewhere(Top(p).ch),
           call[p].op = "create" /\ Len(call[p].frames) = 1 => row'[Top(p).ch] # {}
    PROVE  /\ CallTyped' /\ CallOK(p)' /\ LockTyped' /\ LocksOfOthers(p)
           /\ \A q \in Callers \ {p} : call'[q] = call[q]
           /\ call'[p].id \subseteq call[p].id /\ (call'[p].op = "create" => call[p].op = "create")
<1> DEFINE fs == call[p].frames
           rest == Tail(fs)
           a == Top(p).ch
           g == [Head(rest) EXCEPT !.padm = mirror[a].admins, !.pc = "fetch"]
           n == IF rest # <<>> THEN [call[p] EXCEPT !.frames = <<g>>]
                ELSE IF call[p].op = "start" THEN Idle
                ELSE [call[p] EXCEPT !.frames = <<>>, !.st = "gated"]
<1>1. call[p] \in Handlers /\ fs \in Seq(Checks) /\ Len(fs) \in {1, 2} /\ Top(p) = fs[1] /\ Top(p) \in Checks
  BY TheChecks
<1>2. a \in Channels
  BY <1>1 DEF Checks
<1>3. call' = [call EXCEPT ![p] = n]
  BY DEF Return
<1>4. lock' = [c \in Channels |-> IF c = a THEN lock[c] \ {p} ELSE lock[c]]
  BY DEF Return, Release
<1>5. LockTyped' /\ LocksOfOthers(p)
  BY <1>4 DEF RInv, StoreTyped, LockTyped, LocksOfOthers
<1> HIDE DEF n
<1>6. n \in Handlers => CallTyped' /\ call'[p] = n /\ \A q \in Callers \ {p} : call'[q] = call[q]
  BY <1>3 DEF RInv, CallTyped
<1>7. CASE Len(fs) = 1
  <2>1. rest = <<>>
    BY <1>1, <1>7, Outermost
  <2>2. CASE call[p].op = "start"
    <3>1. n = Idle
      BY <2>1, <2>2 DEF n
    <3>2. Idle \in Handlers /\ Idle.op = "none" /\ Idle.id = {}
      BY DEF Idle, Handlers
    <3>3. call'[p] = Idle
      BY <1>6, <3>1, <3>2
    <3> QED
      BY <1>5, <1>6, <3>1, <3>2, <3>3, IdleOK
  <2>3. CASE call[p].op # "start"
    <3>1. n = [call[p] EXCEPT !.frames = <<>>, !.st = "gated"]
      BY <2>1, <2>3 DEF n
    <3>2. n \in Handlers /\ n.frames = <<>> /\ n.op = call[p].op /\ n.id = call[p].id /\ n.got = call[p].got
      <4>1. <<>> \in Seq(Checks)
        OBVIOUS
      <4> QED
        BY <1>1, <3>1, <4>1 DEF Handlers
    <3>3. Stacked(p)'
      BY <1>6, <3>2 DEF Stacked
    <3>4. Checked(p)'
      BY <1>6, <3>2 DEF Checked, Running
    <3>5. ~Running(p)'
      BY <1>6, <3>2 DEF Running
    <3>6. call[p].op = "create" => call[p].got = {} /\ \A c \in call[p].id : c # Root
      BY DEF RInv, CallOK, Creating, Stacked, Running
    <3>7. call[p].id = {a}
      BY <1>7, TheChecks
    <3>8. Creating(p)'
      BY <1>6, <1>7, <3>2, <3>5, <3>6, <3>7 DEF Creating
    <3> QED
      BY <1>5, <1>6, <3>2, <3>3, <3>4, <3>8 DEF CallOK
  <2> QED
    BY <2>2, <2>3
<1>8. CASE Len(fs) = 2
  <2>1. rest # <<>> /\ Head(rest) = fs[2] /\ fs[2] \in Checks
    BY <1>1, <1>8, Outermost
  <2>2. mirror[a].admins \subseteq Keys
    BY <1>2 DEF RInv, StoreTyped, MirrorTyped, Rosters
  <2>3. g \in Checks /\ g.ch = fs[2].ch /\ g.hint = fs[2].hint /\ g.pc = "fetch" /\ g.roles = fs[2].roles /\ g.mems = fs[2].mems
    BY <2>1, <2>2 DEF Checks, Pcs
  <2>4. n = [call[p] EXCEPT !.frames = <<g>>]
    BY <2>1 DEF n
  <2> HIDE DEF g
  <2>5. n \in Handlers /\ n.frames = <<g>> /\ n.op = call[p].op /\ n.id = call[p].id /\ n.got = call[p].got /\ n.st = call[p].st
    BY <1>1, <2>3, <2>4 DEF Handlers
  <2>6. /\ fs[1].ch = Root /\ fs[2].ch # Root /\ fs[2].pc = "check" /\ lock[fs[2].ch] = {p}
        /\ fs[2].hint = ParentOf(fs[2].ch) /\ fs[2].roles = {} /\ fs[2].mems = {}
        /\ call[p].st = "open" /\ call[p].id = {fs[2].ch}
    BY <1>1, <1>8 DEF RInv, CallOK, Stacked, Running
  <2>7. Len(<<g>>) = 1 /\ <<g>>[1] = g /\ <<g>> # <<>> /\ DOMAIN <<g>> = {1} /\ Head(<<g>>) = g
    OBVIOUS
  <2>8. lock'[g.ch] = {p}
    BY <1>1, <1>4, <2>1, <2>3, <2>6 DEF Checks
  <2>9. call'[p] = n
    BY <1>6, <2>5
  <2>10. Stacked(p)'
    BY <2>3, <2>5, <2>6, <2>7, <2>8, <2>9 DEF Stacked
  <2>11. Top(p)' = g
    BY <2>5, <2>7, <2>9 DEF Top
  <2>12. Checked(p)'
    BY <2>3, <2>6, <2>11 DEF Checked
  <2>13. Creating(p)'
    <3> SUFFICES ASSUME call[p].op = "create" PROVE Creating(p)'
      BY <2>5, <2>9 DEF Creating
    <3>1. Outer(p)' = g
      BY <2>5, <2>7, <2>9 DEF Outer
    <3>2. Outer(p) = fs[2]
      BY <1>8 DEF Outer
    <3>3. Creating(p)
      BY DEF RInv, CallOK
    <3>4. \A c \in call[p].id : Fresh(c) /\ c # Root
      BY <2>6, <3>2, <3>3 DEF Creating
    <3>5. \A c \in call[p].id : Fresh(c)'
      BY <1>1, <2>6, <3>4, FreshElsewhere DEF Handlers
    <3> QED
      BY <2>3, <2>5, <2>6, <2>9, <3>1, <3>3, <3>5 DEF Creating
  <2> QED
    BY <1>5, <1>6, <2>5, <2>9, <2>10, <2>12, <2>13 DEF CallOK
<1> QED
  BY <1>1, <1>7, <1>8

-----------------------------------------------------------------------------
(* Readiness: what a step does to the relay and the store.                  *)

LEMMA SameGroup ==
    ASSUME NEW c, group'[c] = group[c]
    PROVE  /\ Admins(c)' = Admins(c) /\ Members(c)' = Members(c) /\ (Exists(c)' <=> Exists(c))
           /\ \A k : OnRelay(c, k)' <=> OnRelay(c, k)
<1>1. Of(c)' = Of(c)
  BY DEF Of
<1>2. Exists(c)' <=> Exists(c)
  BY DEF Exists
<1>3. Admins(c)' = Admins(c) /\ Members(c)' = Members(c)
  BY <1>1, <1>2 DEF Admins, Members
<1> QED
  BY <1>2, <1>3 DEF OnRelay

\* A roster edit that takes no admin away.
LEMMA RosterEdit ==
    ASSUME GroupTyped, NEW ch \in Channels, Exists(ch), NEW as \in SUBSET Keys, NEW ms \in SUBSET Keys,
           SetRoster(ch, as, ms), as \cap ms = {}
    PROVE  /\ GroupTyped' /\ Admins(ch)' = as /\ Members(ch)' = ms /\ group'[ch] # {}
           /\ \A c \in Channels \ {ch} : group'[c] = group[c]
           /\ undelivered' = undelivered \cup {ch}
<1>1. PICK g \in group[ch] : Of(ch) = g /\ g \in Groups /\ g.parent = ParentOf(ch)
  BY TheGroup DEF Exists, GroupTyped
<1>2. PICK h \in Groups : h = [g EXCEPT !.admins = as, !.members = ms]
  <2>1. [g EXCEPT !.admins = as, !.members = ms] \in Groups
    BY <1>1 DEF Groups
  <2> QED
    BY <2>1
<1>3. h.parent = ParentOf(ch) /\ h.admins = as /\ h.members = ms
  BY <1>1, <1>2 DEF Groups
<1>4. group' = [group EXCEPT ![ch] = {h}]
  BY <1>1, <1>2 DEF SetRoster
<1>5. group'[ch] = {h} /\ \A c \in Channels \ {ch} : group'[c] = group[c]
  BY <1>4 DEF GroupTyped
<1>6. GroupTyped'
  BY <1>3, <1>4, <1>5 DEF GroupTyped
<1>7. Of(ch)' = h /\ Exists(ch)'
  BY <1>5 DEF Of, Exists
<1> QED
  BY <1>3, <1>5, <1>6, <1>7 DEF Admins, Members, SetRoster

\* A group that is founded.
LEMMA Foundation ==
    ASSUME GroupTyped, NEW ch \in Channels, NEW name \in Names,
           group' = [group EXCEPT ![ch] = Founded(ParentOf(ch), name)]
    PROVE  /\ GroupTyped' /\ Admins(ch)' = {Mgmt}
           /\ \A c \in Channels \ {ch} : group'[c] = group[c]
<1>1. PICK h \in Groups : h = [parent |-> ParentOf(ch), name |-> name, admins |-> {Mgmt}, members |-> {}]
  <2>1. ParentOf(ch) \in Parents /\ {Mgmt} \in SUBSET Keys
    BY DEF ParentOf, Parents, Keys
  <2>2. [parent |-> ParentOf(ch), name |-> name, admins |-> {Mgmt}, members |-> {}] \in Groups
    BY <2>1 DEF Groups
  <2> QED
    BY <2>2
<1>2. h.parent = ParentOf(ch) /\ h.admins = {Mgmt} /\ h.members = {}
  BY <1>1
<1>3. group' = [group EXCEPT ![ch] = {h}]
  BY <1>1 DEF Founded
<1>4. group'[ch] = {h} /\ \A c \in Channels \ {ch} : group'[c] = group[c]
  BY <1>3 DEF GroupTyped
<1>5. GroupTyped'
  BY <1>2, <1>3, <1>4 DEF GroupTyped
<1>6. Of(ch)' = h /\ Exists(ch)'
  BY <1>4 DEF Of, Exists
<1> QED
  BY <1>2, <1>4, <1>5, <1>6 DEF Admins

\* The metadata of a group in the store.
LEMMA MetadataRow ==
    ASSUME GroupTyped, RowTyped, NEW ch \in Channels, row' = Materialized(ch)
    PROVE  /\ RowTyped'
           /\ \A c \in Channels \ {ch} : row'[c] = row[c]
           /\ row[ch] # {} => row'[ch] # {}
           /\ group[ch] = {} => row' = row
<1>1. CASE ~Exists(ch)
  BY <1>1 DEF Materialized, RowTyped
<1>2. CASE Exists(ch)
  <2>1. PICK g \in group[ch] : Of(ch) = g /\ g \in Groups /\ g.parent = ParentOf(ch)
    BY <1>2, TheGroup DEF Exists, GroupTyped
  <2>2. PICK m \in Metas : m = [parent |-> g.parent, name |-> g.name] /\ m.parent = ParentOf(ch)
    <3>1. g.parent \in Parents /\ g.name \in Names
      BY <2>1 DEF Groups
    <3>2. [parent |-> g.parent, name |-> g.name] \in Metas
      BY <3>1 DEF Metas
    <3> QED
      BY <2>1, <3>2
  <2>3. row' = row \/ row' = [row EXCEPT ![ch] = {m}]
    BY <1>2, <2>1, <2>2 DEF Materialized, upsert_channel
  <2>4. CASE row' = row
    BY <1>2, <2>4 DEF RowTyped, Exists
  <2>5. CASE row' = [row EXCEPT ![ch] = {m}]
    <3>1. row'[ch] = {m} /\ \A c \in Channels \ {ch} : row'[c] = row[c]
      BY <2>5 DEF RowTyped
    <3>2. RowTyped'
      BY <2>2, <2>5, <3>1 DEF RowTyped
    <3> QED
      BY <1>2, <3>1, <3>2 DEF Exists
  <2> QED
    BY <2>3, <2>4, <2>5
<1> QED
  BY <1>1, <1>2

\* A roster of the mirror that is edited.
LEMMA MirrorEdit ==
    ASSUME MirrorTyped, NEW ch \in Channels, NEW r \in Rosters, r.admins \cap r.members = {},
           mirror' = [mirror EXCEPT ![ch] = r]
    PROVE  MirrorTyped' /\ mirror'[ch] = r /\ \A c \in Channels \ {ch} : mirror'[c] = mirror[c]
<1>1. mirror'[ch] = r /\ \A c \in Channels \ {ch} : mirror'[c] = mirror[c]
  BY DEF MirrorTyped
<1>2. MirrorTyped'
  BY <1>1 DEF MirrorTyped
<1> QED
  BY <1>1, <1>2

\* A member of the mirror.
LEMMA MirrorUpsert ==
    ASSUME MirrorTyped, NEW ch \in Channels, NEW k \in Keys, NEW admin \in BOOLEAN, upsert_member(ch, k, admin)
    PROVE  /\ MirrorTyped'
           /\ \A c \in Channels \ {ch} : mirror'[c] = mirror[c]
           /\ admin => mirror'[ch].admins = mirror[ch].admins \cup {k} /\ mirror'[ch].members = mirror[ch].members \ {k}
           /\ ~admin => mirror'[ch].admins = mirror[ch].admins \ {k} /\ mirror'[ch].members = mirror[ch].members \cup {k}
<1> DEFINE as == IF admin THEN mirror[ch].admins \cup {k} ELSE mirror[ch].admins \ {k}
           ms == IF admin THEN mirror[ch].members \ {k} ELSE mirror[ch].members \cup {k}
<1>1. mirror[ch] \in Rosters /\ mirror[ch].admins \cap mirror[ch].members = {}
  BY DEF MirrorTyped
<1>2. as \in SUBSET Keys /\ ms \in SUBSET Keys /\ as \cap ms = {}
  BY <1>1 DEF Rosters
<1>3. mirror' = [mirror EXCEPT ![ch] = [mirror[ch] EXCEPT !.admins = as, !.members = ms]]
  BY DEF upsert_member, MirrorTyped
<1> HIDE DEF as, ms
<1>4. PICK r \in Rosters : r = [mirror[ch] EXCEPT !.admins = as, !.members = ms] /\ r.admins = as /\ r.members = ms
  <2>1. [mirror[ch] EXCEPT !.admins = as, !.members = ms] \in Rosters
    BY <1>1, <1>2 DEF Rosters
  <2> QED
    BY <1>1, <2>1 DEF Rosters
<1>5. mirror' = [mirror EXCEPT ![ch] = r]
  BY <1>3, <1>4
<1>6. MirrorTyped' /\ mirror'[ch] = r /\ \A c \in Channels \ {ch} : mirror'[c] = mirror[c]
  BY <1>2, <1>4, <1>5, MirrorEdit
<1> QED
  BY <1>4, <1>6 DEF as, ms

\* What is believed stays backed, as long as no snapshot is delivered.
LEMMA BackedKept ==
    ASSUME StoreTyped, FlagsTyped', Backed, Grows, undelivered \subseteq undelivered',
           \A c \in Channels : /\ mirror'[c].admins \subseteq mirror[c].admins \cup Admins(c)'
                               /\ \A k \in mirror'[c].members : k \in mirror[c].members \/ OnRelay(c, k)' \/ Doubtful(c)',
           \A c \in Channels, k \in Keys : <<c, k>> \in ready' /\ <<c, k>> \notin ready =>
               (OnRelay(c, k)' \/ Doubtful(c)') /\ {Mgmt, Op} \subseteq Admins(c)'
    PROVE  Backed'
<1>1. \A c \in Channels : Doubtful(c) => Doubtful(c)'
  BY DEF Grows, Doubtful
<1>2. \A c \in Channels : \A k \in Keys : OnRelay(c, k) => OnRelay(c, k)' \/ Doubtful(c)'
  BY DEF Grows, Doubtful
<1>3. MirrorBacked'
  <2> SUFFICES ASSUME NEW c \in Channels
               PROVE  mirror'[c].admins \subseteq Admins(c)' /\ \A k \in mirror'[c].members : OnRelay(c, k)' \/ Doubtful(c)'
    BY DEF MirrorBacked
  <2>1. mirror[c].admins \subseteq Admins(c) /\ \A k \in mirror[c].members : k \in Keys /\ (OnRelay(c, k) \/ Doubtful(c))
    BY DEF Backed, MirrorBacked, StoreTyped, MirrorTyped, Rosters
  <2>2. Admins(c) \subseteq Admins(c)'
    BY DEF Grows
  <2> QED
    BY <1>1, <1>2, <2>1, <2>2
<1>4. \A c \in Channels, k \in Keys : <<c, k>> \in ready' =>
        (OnRelay(c, k)' \/ Doubtful(c)') /\ {Mgmt, Op} \subseteq Admins(c)'
  <2> SUFFICES ASSUME NEW c \in Channels, NEW k \in Keys, <<c, k>> \in ready
               PROVE  (OnRelay(c, k)' \/ Doubtful(c)') /\ {Mgmt, Op} \subseteq Admins(c)'
    OBVIOUS
  <2>1. <<c, k>>[1] = c /\ <<c, k>>[2] = k
    OBVIOUS
  <2>2. OnRelay(c, k) \/ Doubtful(c)
    BY <2>1 DEF Backed, ReadyBacked, Doubtful
  <2>3. {Mgmt, Op} \subseteq Admins(c)
    BY <2>1 DEF Backed, Governed
  <2> QED
    BY <1>1, <1>2, <2>2, <2>3 DEF Grows
<1>5. \A s \in ready' : s[1] \in Channels /\ s[2] \in Keys /\ s = <<s[1], s[2]>>
  BY DEF FlagsTyped
<1>6. ReadyBacked' /\ Governed'
  BY <1>4, <1>5 DEF ReadyBacked, Governed, Doubtful
<1> QED
  BY <1>3, <1>6 DEF Backed

-----------------------------------------------------------------------------
(* Readiness: the steps of a check.                                         *)

\* A check past the cache goes on, having touched only its channel.
LEMMA StepSafe ==
    ASSUME RInv, NEW p \in Callers, Running(p), NEW g \in Checks, Step(p, g),
           g.ch = Top(p).ch, g.hint = Top(p).hint, Top(p).pc # "check", g.pc # "check",
           lock' = lock, minted' = minted, intent' = intent, ready' = ready, raced' = raced,
           faults' \in 0..MaxFaults, undelivered \subseteq undelivered', undelivered' \subseteq Channels,
           GroupTyped', RowTyped', MirrorTyped',
           \A c \in Channels \ {g.ch} : group'[c] = group[c] /\ row'[c] = row[c] /\ mirror'[c] = mirror[c],
           Admins(g.ch) \subseteq Admins(g.ch)', row[g.ch] # {} => row'[g.ch] # {},
           \A k \in Keys : OnRelay(g.ch, k) => OnRelay(g.ch, k)' \/ g.ch \in undelivered',
           mirror'[g.ch].admins \subseteq mirror[g.ch].admins \cup Admins(g.ch)',
           \A k \in mirror'[g.ch].members : k \in mirror[g.ch].members \/ OnRelay(g.ch, k)' \/ Doubtful(g.ch)',
           g.roles \subseteq Admins(g.ch)', (\A k \in g.mems : OnRelay(g.ch, k)') \/ Doubtful(g.ch)',
           g.pc \in {"member", "mark"} => required_admins(g) \subseteq Admins(g.ch)',
           g.pc = "mark" => OnRelay(g.ch, g.mem)' \/ Doubtful(g.ch)',
           call[p].op = "create" /\ Len(call[p].frames) = 1 /\ g.pc \in {"fetch", "create"} => Fresh(g.ch)',
           call[p].op = "create" /\ Len(call[p].frames) = 1
             /\ g.pc \in {"selfgrant", "parent", "admins", "member", "mark"} => row'[g.ch] # {}
    PROVE  RInv'
<1>1. g.ch \in Channels
  BY DEF Checks
<1>2. \A c \in Channels \ {g.ch} : Admins(c)' = Admins(c) /\ \A k : OnRelay(c, k)' <=> OnRelay(c, k)
  BY SameGroup
<1>3. Grows
  BY <1>1, <1>2 DEF Grows
<1>4. LockTyped' /\ MintTyped' /\ FlagsTyped'
  BY DEF RInv, StoreTyped, LockTyped, MintTyped, FlagsTyped
<1>5. StoreTyped'
  BY <1>4 DEF StoreTyped
<1>6. Backed'
  BY <1>1, <1>3, <1>4, BackedKept DEF RInv
<1>7. Elsewhere(g.ch)
  BY DEF Elsewhere
<1>8. lock[g.ch] = {p}
  BY TheChecks
<1>9. /\ CallTyped' /\ CallOK(p)' /\ LocksOfOthers(p)
      /\ \A q \in Callers \ {p} : call'[q] = call[q]
      /\ call'[p].id = call[p].id /\ call'[p].op = call[p].op
  BY <1>7, <1>8, StepCalls
<1> QED
  BY <1>3, <1>5, <1>6, <1>7, <1>9, CallerStep DEF LocksOfOthers

\* A check that degrades, having changed no more than its channel's row.
LEMMA DegradedSafe ==
    ASSUME RInv, NEW p \in Callers, Running(p), Degraded(p),
           group' = group, mirror' = mirror, undelivered' = undelivered,
           minted' = minted, intent' = intent, ready' = ready, raced' = raced,
           faults' \in 0..MaxFaults, RowTyped', row[Top(p).ch] # {} => row'[Top(p).ch] # {},
           \A c \in Channels \ {Top(p).ch} : row'[c] = row[c]
    PROVE  RInv'
<1>1. \A c \in Channels : Admins(c)' = Admins(c) /\ \A k : OnRelay(c, k)' <=> OnRelay(c, k)
  BY SameGroup
<1>2. Grows
  BY <1>1 DEF Grows
<1>3. /\ CallTyped' /\ CallOK(p)' /\ LockTyped' /\ LocksOfOthers(p)
      /\ \A q \in Callers \ {p} : call'[q] = call[q]
      /\ call'[p].id = {} /\ call'[p].op = "none"
  BY DegradedCalls
<1>4. GroupTyped' /\ MirrorTyped' /\ MintTyped' /\ FlagsTyped'
  BY DEF RInv, StoreTyped, GroupTyped, MirrorTyped, MintTyped, FlagsTyped
<1>5. StoreTyped'
  BY <1>3, <1>4 DEF StoreTyped
<1>6. Backed'
  BY <1>2, <1>4, BackedKept DEF RInv
<1>7. Elsewhere(Top(p).ch)
  BY DEF Elsewhere
<1> QED
  BY <1>2, <1>3, <1>5, <1>6, <1>7, CallerStep DEF LocksOfOthers

\* A check that returns what may be believed.
LEMMA ReturnSafe ==
    ASSUME RInv, NEW p \in Callers, Running(p), Return(p),
           group' = group, mirror' = mirror, undelivered' = undelivered, row' = row,
           minted' = minted, intent' = intent, raced' = raced, faults' = faults,
           ready' = ready \/ ready' = ready \cup {<<Top(p).ch, Top(p).mem>>},
           {Mgmt, Op} \subseteq Admins(Top(p).ch),
           OnRelay(Top(p).ch, Top(p).mem) \/ Doubtful(Top(p).ch),
           call[p].op = "create" /\ Len(call[p].frames) = 1 => row[Top(p).ch] # {}
    PROVE  RInv'
<1>1. \A c \in Channels : Admins(c)' = Admins(c) /\ \A k : OnRelay(c, k)' <=> OnRelay(c, k)
  BY SameGroup
<1>2. Grows
  BY <1>1 DEF Grows
<1>3. PICK f \in Checks : f = Top(p) /\ f.ch \in Channels /\ f.mem \in Keys
  <2>1. Top(p) \in Checks
    BY TheChecks
  <2> QED
    BY <2>1 DEF Checks
<1>4. \A c \in Channels, k \in Keys : <<c, k>> \in ready' => <<c, k>> \in ready \/ (c = f.ch /\ k = f.mem)
  BY <1>3
<1>5. Elsewhere(Top(p).ch)
  BY <1>3, <1>4 DEF Elsewhere
<1>6. /\ CallTyped' /\ CallOK(p)' /\ LockTyped' /\ LocksOfOthers(p)
      /\ \A q \in Callers \ {p} : call'[q] = call[q]
      /\ call'[p].id \subseteq call[p].id /\ (call'[p].op = "create" => call[p].op = "create")
  BY <1>5, ReturnCalls
<1>7. GroupTyped' /\ RowTyped' /\ MirrorTyped' /\ MintTyped'
  BY DEF RInv, StoreTyped, GroupTyped, RowTyped, MirrorTyped, MintTyped
<1>8. FlagsTyped'
  BY <1>3 DEF RInv, StoreTyped, FlagsTyped
<1>9. StoreTyped'
  BY <1>6, <1>7, <1>8 DEF StoreTyped
<1>10. \A c \in Channels, k \in Keys : <<c, k>> \in ready' /\ <<c, k>> \notin ready =>
          (OnRelay(c, k)' \/ Doubtful(c)') /\ {Mgmt, Op} \subseteq Admins(c)'
  BY <1>1, <1>3, <1>4 DEF Doubtful
<1>11. Backed'
  BY <1>2, <1>8, <1>10, BackedKept DEF RInv
<1> QED
  BY <1>2, <1>5, <1>6, <1>9, <1>11, CallerStep DEF LocksOfOthers

-----------------------------------------------------------------------------
(* Readiness: each step of a check keeps the invariant.                     *)

\* What is known of the check a handler is in.
LEMMA InCheck ==
    ASSUME RInv, NEW p \in Callers, Running(p)
    PROVE  \E f \in Checks :
             /\ f = Top(p) /\ f.ch \in Channels /\ f.mem \in Keys /\ f.hint = ParentOf(f.ch)
             /\ f.roles \subseteq Keys /\ f.mems \subseteq Keys /\ f.padm \subseteq Keys
             /\ f.pc # "check" => lock[f.ch] = {p} /\ f.roles \subseteq Admins(f.ch)
                                  /\ ((\A k \in f.mems : OnRelay(f.ch, k)) \/ Doubtful(f.ch))
             /\ f.pc \in {"member", "mark"} => required_admins(f) \subseteq Admins(f.ch)
             /\ f.pc = "mark" => OnRelay(f.ch, f.mem) \/ Doubtful(f.ch)
             /\ call[p].op = "create" /\ Len(call[p].frames) = 1 =>
                  /\ f.ch # Root
                  /\ f.pc \in {"check", "fetch", "create"} => Fresh(f.ch)
                  /\ f.pc \in {"selfgrant", "parent", "admins", "member", "mark"} => row[f.ch] # {}
<1>1. PICK f \in Checks : f = Top(p)
  BY TheChecks
<1>2. f.ch \in Channels /\ f.mem \in Keys /\ f.roles \subseteq Keys /\ f.mems \subseteq Keys /\ f.padm \subseteq Keys
  BY DEF Checks
<1>3. f.hint = ParentOf(f.ch) /\ (f.pc # "check" => lock[f.ch] = {p})
  BY <1>1, TheChecks
<1>4. Checked(p) /\ Creating(p)
  BY DEF RInv, CallOK
<1>5. /\ f.pc # "check" => f.roles \subseteq Admins(f.ch) /\ ((\A k \in f.mems : OnRelay(f.ch, k)) \/ Doubtful(f.ch))
      /\ f.pc \in {"member", "mark"} => required_admins(f) \subseteq Admins(f.ch)
      /\ f.pc = "mark" => OnRelay(f.ch, f.mem) \/ Doubtful(f.ch)
  BY <1>1, <1>4 DEF Checked
<1>6. call[p].op = "create" /\ Len(call[p].frames) = 1 =>
        /\ f.ch # Root
        /\ f.pc \in {"check", "fetch", "create"} => Fresh(f.ch)
        /\ f.pc \in {"selfgrant", "parent", "admins", "member", "mark"} => row[f.ch] # {}
  <2> SUFFICES ASSUME call[p].op = "create", Len(call[p].frames) = 1
               PROVE  /\ f.ch # Root
                      /\ f.pc \in {"check", "fetch", "create"} => Fresh(f.ch)
                      /\ f.pc \in {"selfgrant", "parent", "admins", "member", "mark"} => row[f.ch] # {}
    OBVIOUS
  <2>1. Outer(p) = f /\ f.ch \in call[p].id
    BY <1>1, TheChecks
  <2> QED
    BY <1>4, <2>1 DEF Creating
<1> QED
  BY <1>1, <1>2, <1>3, <1>5, <1>6

\* The store of a step, as far as the step leaves it.
LEMMA StoreFacts ==
    ASSUME RInv
    PROVE  /\ GroupTyped /\ RowTyped /\ MirrorTyped /\ LockTyped /\ FlagsTyped
           /\ (group' = group => GroupTyped') /\ (row' = row => RowTyped') /\ (mirror' = mirror => MirrorTyped')
           /\ undelivered \subseteq Channels /\ faults \in 0..MaxFaults
           /\ \A kind : Fault(kind) => faults' \in 0..MaxFaults
<1>1. GroupTyped /\ RowTyped /\ MirrorTyped /\ LockTyped /\ FlagsTyped
  BY DEF RInv, StoreTyped
<1>2. (group' = group => GroupTyped') /\ (row' = row => RowTyped') /\ (mirror' = mirror => MirrorTyped')
  BY <1>1 DEF GroupTyped, RowTyped, MirrorTyped
<1>3. undelivered \subseteq Channels /\ faults \in 0..MaxFaults
  BY <1>1 DEF FlagsTyped
<1>4. \A kind : Fault(kind) => faults' \in 0..MaxFaults
  BY <1>3, ReadinessConstants DEF Fault
<1> QED
  BY <1>1, <1>2, <1>3, <1>4

LEMMA FetchKeeps ==
    ASSUME RInv, NEW p \in Callers, fetch_group_state(p)
    PROVE  RInv'
<1>1. Running(p) /\ Top(p).pc = "fetch"
  BY DEF fetch_group_state, At
<1>2. PICK f \in Checks :
             /\ f = Top(p) /\ f.ch \in Channels
             /\ call[p].op = "create" /\ Len(call[p].frames) = 1 => Fresh(f.ch)
  BY <1>1, InCheck
<1> DEFINE next == IF ~Exists(f.ch) THEN "create" ELSE IF Mgmt \in Admins(f.ch) THEN "parent" ELSE "selfgrant"
<1>3. Admins(f.ch) \subseteq Keys /\ Members(f.ch) \subseteq Keys /\ next \in Pcs /\ next \in {"create", "parent", "selfgrant"}
  BY <1>2, StoreFacts, TheGroup DEF Pcs
<1>4. Fresh(f.ch) => next = "create"
  BY DEF Fresh, Exists
<1>5. Step(p, [f EXCEPT !.roles = Admins(f.ch), !.mems = Members(f.ch), !.pc = next])
  BY <1>2 DEF fetch_group_state
<1> HIDE DEF next
<1>6. PICK g \in Checks :
             /\ g = [f EXCEPT !.roles = Admins(f.ch), !.mems = Members(f.ch), !.pc = next]
             /\ g.ch = f.ch /\ g.hint = f.hint /\ g.roles = Admins(f.ch) /\ g.mems = Members(f.ch) /\ g.pc = next
  <2>1. [f EXCEPT !.roles = Admins(f.ch), !.mems = Members(f.ch), !.pc = next] \in Checks
    BY <1>3 DEF Checks
  <2> QED
    BY <2>1 DEF Checks
<1>7. UNCHANGED <<group, row, mirror, ready, lock, intent, minted, undelivered, raced, faults>>
  BY DEF fetch_group_state
<1>8. Admins(f.ch)' = Admins(f.ch) /\ \A k : OnRelay(f.ch, k)' <=> OnRelay(f.ch, k)
  BY <1>7, SameGroup
<1>9. \A k \in g.mems : OnRelay(f.ch, k)'
  BY <1>6, <1>8 DEF OnRelay
<1>10. Fresh(f.ch) => Fresh(f.ch)'
  BY <1>7 DEF Fresh
<1>11. Step(p, g)
  BY <1>5, <1>6
<1>12. /\ g.ch = Top(p).ch /\ g.hint = Top(p).hint /\ Top(p).pc # "check"
       /\ g.pc \in {"create", "parent", "selfgrant"}
  BY <1>1, <1>2, <1>3, <1>6
<1>13. /\ Admins(g.ch) = Admins(g.ch)' /\ g.roles = Admins(g.ch)'
       /\ \A k \in Keys : OnRelay(g.ch, k) => OnRelay(g.ch, k)'
  BY <1>6, <1>8
<1>14. call[p].op = "create" /\ Len(call[p].frames) = 1 => Fresh(g.ch)' /\ g.pc = "create"
  BY <1>2, <1>4, <1>6, <1>10
<1>15. /\ GroupTyped' /\ RowTyped' /\ MirrorTyped' /\ faults' \in 0..MaxFaults
       /\ undelivered \subseteq undelivered' /\ undelivered' \subseteq Channels
  BY <1>7, StoreFacts
<1>16. /\ \A c \in Channels \ {g.ch} : group'[c] = group[c] /\ row'[c] = row[c] /\ mirror'[c] = mirror[c]
       /\ mirror'[g.ch] = mirror[g.ch] /\ row'[g.ch] = row[g.ch]
       /\ lock' = lock /\ minted' = minted /\ intent' = intent /\ ready' = ready /\ raced' = raced
  BY <1>7
<1>17. /\ Admins(g.ch) \subseteq Admins(g.ch)' /\ g.roles \subseteq Admins(g.ch)'
       /\ \A k \in Keys : OnRelay(g.ch, k) => OnRelay(g.ch, k)' \/ g.ch \in undelivered'
       /\ (\A k \in g.mems : OnRelay(g.ch, k)') \/ Doubtful(g.ch)'
  <2>1. Admins(g.ch) \subseteq Admins(g.ch)' /\ g.roles \subseteq Admins(g.ch)'
    BY <1>13
  <2>2. \A k \in Keys : OnRelay(g.ch, k) => OnRelay(g.ch, k)' \/ g.ch \in undelivered'
    BY <1>13, Zenon
  <2>3. \A k \in g.mems : OnRelay(g.ch, k)'
    BY <1>6, <1>9
  <2> QED
    BY <2>1, <2>2, <2>3, Zenon
<1>18. g.pc # "check" /\ g.pc \notin {"member", "mark"}
       /\ (call[p].op = "create" /\ Len(call[p].frames) = 1 => g.pc = "create")
  BY <1>12, <1>14
<1> QED
  BY <1>1, <1>11, <1>12, <1>14, <1>15, <1>16, <1>17, <1>18, StepSafe

LEMMA ReadFailsKeeps ==
    ASSUME RInv, NEW p \in Callers, ReadFails(p) \/ TimesOut(p)
    PROVE  RInv'
<1>1. Running(p) /\ Degraded(p) /\ faults' \in 0..MaxFaults
  BY StoreFacts DEF ReadFails, TimesOut, At
<1>2. UNCHANGED <<group, row, mirror, ready, intent, minted, undelivered, raced>>
  BY DEF ReadFails, TimesOut
<1> QED
  BY <1>1, <1>2, StoreFacts, DegradedSafe

LEMMA CreateKeeps ==
    ASSUME RInv, NEW p \in Callers, create_group(p)
    PROVE  RInv'
<1>1. Running(p) /\ Top(p).pc = "create"
  BY DEF create_group, At
<1>2. PICK f \in Checks :
             /\ f = Top(p) /\ f.ch \in Channels /\ f.hint = ParentOf(f.ch) /\ f.mems \subseteq Keys
             /\ f.roles \subseteq Admins(f.ch)
             /\ (\A k \in f.mems : OnRelay(f.ch, k)) \/ Doubtful(f.ch)
  BY <1>1, InCheck
<1>3. UNCHANGED <<row, mirror, ready, intent, minted, raced>>
  BY DEF create_group
<1>4. CASE /\ ~Exists(f.ch)
           /\ \E name \in Names : group' = [group EXCEPT ![f.ch] = Founded(f.hint, name)]
           /\ undelivered' = undelivered \cup {f.ch}
           /\ Step(p, [f EXCEPT !.pc = "poll"])
           /\ lock' = lock /\ faults' \in 0..MaxFaults
  <2>1. PICK name \in Names : group' = [group EXCEPT ![f.ch] = Founded(ParentOf(f.ch), name)]
    BY <1>2, <1>4
  <2>2. GroupTyped' /\ Admins(f.ch)' = {Mgmt} /\ \A c \in Channels \ {f.ch} : group'[c] = group[c]
    BY <1>2, <2>1, StoreFacts, Foundation
  <2>3. Admins(f.ch) = {} /\ \A k : ~OnRelay(f.ch, k)
    BY <1>4 DEF Admins, Members, OnRelay
  <2>4. PICK g \in Checks :
             /\ g = [f EXCEPT !.pc = "poll"]
             /\ g.ch = f.ch /\ g.hint = f.hint /\ g.roles = f.roles /\ g.mems = f.mems /\ g.pc = "poll"
    <3>1. [f EXCEPT !.pc = "poll"] \in Checks
      BY DEF Checks, Pcs
    <3> QED
      BY <3>1 DEF Checks
  <2>5. Step(p, g)
    BY <1>4, <2>4
  <2>6. Doubtful(f.ch)'
    BY <1>4 DEF Doubtful
  <2>7. undelivered' \subseteq Channels /\ undelivered \subseteq undelivered'
    BY <1>2, <1>4, StoreFacts
  <2>8. /\ Admins(g.ch) \subseteq Admins(g.ch)' /\ g.roles \subseteq Admins(g.ch)' /\ Doubtful(g.ch)'
        /\ \A k \in Keys : OnRelay(g.ch, k) => g.ch \in undelivered'
    BY <1>2, <2>2, <2>3, <2>4, <2>6
  <2>9. /\ \A c \in Channels \ {g.ch} : group'[c] = group[c] /\ row'[c] = row[c] /\ mirror'[c] = mirror[c]
        /\ mirror'[g.ch] = mirror[g.ch] /\ row'[g.ch] = row[g.ch]
    BY <1>3, <2>2, <2>4
  <2>10. RowTyped' /\ MirrorTyped' /\ lock' = lock /\ faults' \in 0..MaxFaults
    BY <1>3, <1>4, StoreFacts
  <2> QED
    BY <1>1, <1>2, <1>3, <2>2, <2>4, <2>5, <2>7, <2>8, <2>9, <2>10, StepSafe
<1>5. CASE Fault("create") /\ UNCHANGED <<group, undelivered>> /\ Degraded(p)
  BY <1>1, <1>3, <1>5, StoreFacts, DegradedSafe
<1> QED
  <2>1. Root \in Names /\ Name \in Names /\ "" \in Names
    BY DEF Names
  <2>2. CASE /\ ~Exists(f.ch)
             /\ group' = [group EXCEPT ![f.ch] = Founded(f.hint, IF f.hint = {} THEN Root ELSE Name)]
             /\ undelivered' = undelivered \cup {f.ch}
             /\ Step(p, [f EXCEPT !.pc = "poll"]) /\ UNCHANGED <<lock, faults>>
    <3>1. (IF f.hint = {} THEN Root ELSE Name) \in Names /\ faults' \in 0..MaxFaults
      BY <2>1, <2>2, StoreFacts
    <3> QED
      BY <1>4, <2>2, <3>1
  <2>3. CASE /\ ~Exists(f.ch) /\ Fault("name")
             /\ group' = [group EXCEPT ![f.ch] = Founded(f.hint, "")]
             /\ undelivered' = undelivered \cup {f.ch}
             /\ Step(p, [f EXCEPT !.pc = "poll"]) /\ UNCHANGED lock
    <3>1. faults' \in 0..MaxFaults
      BY <2>3, StoreFacts
    <3> QED
      BY <1>4, <2>1, <2>3, <3>1
  <2> QED
    BY <1>2, <1>5, <2>2, <2>3 DEF create_group

LEMMA Moved ==
    ASSUME NEW f \in Checks, NEW pc \in Pcs
    PROVE  \E g \in Checks : /\ g = [f EXCEPT !.pc = pc] /\ g.pc = pc
                             /\ g.ch = f.ch /\ g.mem = f.mem /\ g.hint = f.hint
                             /\ g.roles = f.roles /\ g.mems = f.mems /\ g.padm = f.padm
<1>1. [f EXCEPT !.pc = pc] \in Checks
  BY DEF Checks
<1> QED
  BY <1>1 DEF Checks

\* A step that only looks, or moves a row.
LEMMA LookSafe ==
    ASSUME RInv, NEW p \in Callers, Running(p), NEW pc \in Pcs, Top(p).pc # "check", pc # "check",
           Step(p, [Top(p) EXCEPT !.pc = pc]),
           lock' = lock, minted' = minted, intent' = intent, ready' = ready, raced' = raced,
           faults' \in 0..MaxFaults, undelivered' = undelivered, group' = group, mirror' = mirror,
           RowTyped', row[Top(p).ch] # {} => row'[Top(p).ch] # {},
           \A c \in Channels \ {Top(p).ch} : row'[c] = row[c],
           pc \notin {"fetch", "create", "member", "mark"},
           call[p].op = "create" /\ Len(call[p].frames) = 1 => row'[Top(p).ch] # {}
    PROVE  RInv'
<1>1. PICK f \in Checks :
             /\ f = Top(p) /\ f.ch \in Channels /\ f.hint = ParentOf(f.ch) /\ f.mems \subseteq Keys
             /\ f.roles \subseteq Admins(f.ch)
             /\ (\A k \in f.mems : OnRelay(f.ch, k)) \/ Doubtful(f.ch)
  BY InCheck
<1>2. PICK g \in Checks :
             /\ g = [f EXCEPT !.pc = pc] /\ g.pc = pc /\ g.ch = f.ch /\ g.mem = f.mem /\ g.hint = f.hint
             /\ g.roles = f.roles /\ g.mems = f.mems /\ g.padm = f.padm
  BY Moved
<1>3. Step(p, g)
  BY <1>1, <1>2
<1>4. Admins(g.ch)' = Admins(g.ch) /\ \A k : OnRelay(g.ch, k)' <=> OnRelay(g.ch, k)
  BY SameGroup
<1>5. Doubtful(g.ch)' <=> Doubtful(g.ch)
  BY DEF Doubtful
<1>6. GroupTyped' /\ MirrorTyped' /\ undelivered' \subseteq Channels
  BY StoreFacts
<1>7. (\A k \in g.mems : OnRelay(g.ch, k)') \/ Doubtful(g.ch)'
  BY <1>1, <1>2, <1>4, <1>5
<1>8. /\ g.ch = Top(p).ch /\ g.hint = Top(p).hint /\ g.pc # "check"
      /\ g.pc \notin {"fetch", "create", "member", "mark"} /\ g.roles \subseteq Admins(g.ch)'
  BY <1>1, <1>2, <1>4
<1>9. /\ row[g.ch] # {} => row'[g.ch] # {}
      /\ \A c \in Channels \ {g.ch} : group'[c] = group[c] /\ row'[c] = row[c] /\ mirror'[c] = mirror[c]
      /\ call[p].op = "create" /\ Len(call[p].frames) = 1 => row'[g.ch] # {}
  BY <1>8
<1> QED
  BY <1>3, <1>4, <1>6, <1>7, <1>8, <1>9, StepSafe

LEMMA PollKeeps ==
    ASSUME RInv, NEW p \in Callers, poll_materialized(p)
    PROVE  RInv'
<1>1. Running(p) /\ Top(p).pc = "poll"
  BY DEF poll_materialized, At
<1>2. Top(p).ch \in Channels
  BY <1>1, InCheck
<1>3. RowTyped' /\ (\A c \in Channels \ {Top(p).ch} : row'[c] = row[c]) /\ (row[Top(p).ch] # {} => row'[Top(p).ch] # {})
  <2>1. PICK a \in Channels : a = Top(p).ch
    BY <1>2
  <2>2. row' = Materialized(a)
    BY <2>1 DEF poll_materialized
  <2> QED
    BY <2>1, <2>2, StoreFacts, MetadataRow
<1>4. UNCHANGED <<group, mirror, ready, intent, minted, undelivered, raced, faults>>
  BY DEF poll_materialized
<1>5. CASE row'[Top(p).ch] # {} /\ Step(p, [Top(p) EXCEPT !.pc = "parent"]) /\ lock' = lock
  <2>1. "parent" \in Pcs
    BY DEF Pcs
  <2> QED
    BY <1>1, <1>3, <1>4, <1>5, <2>1, StoreFacts, LookSafe
<1>6. CASE Degraded(p)
  BY <1>1, <1>3, <1>4, <1>6, StoreFacts, DegradedSafe
<1> QED
  BY <1>5, <1>6 DEF poll_materialized

LEMMA ConfirmKeeps ==
    ASSUME RInv, NEW p \in Callers, confirm_parent(p)
    PROVE  RInv'
<1>1. Running(p) /\ Top(p).pc = "parent"
  BY DEF confirm_parent, At
<1>2. PICK f \in Checks :
             /\ f = Top(p) /\ f.ch \in Channels
             /\ call[p].op = "create" /\ Len(call[p].frames) = 1 => row[f.ch] # {}
  BY <1>1, InCheck
<1>3. UNCHANGED <<group, mirror, ready, intent, minted, undelivered, raced>>
  BY DEF confirm_parent
<1>4. CASE Degraded(p) /\ UNCHANGED <<row, faults>>
  BY <1>1, <1>3, <1>4, StoreFacts, DegradedSafe
<1>5. CASE /\ Step(p, [f EXCEPT !.pc = "admins"]) /\ UNCHANGED lock
           /\ \/ row' = (IF row[f.ch] = {} THEN Materialized(f.ch) ELSE row) /\ UNCHANGED faults
              \/ row[f.ch] = {} /\ Fault("read") /\ UNCHANGED row
  <2>1. "admins" \in Pcs
    BY DEF Pcs
  <2>2. row' = row \/ row' = Materialized(f.ch)
    BY <1>5
  <2>3. RowTyped' /\ (\A c \in Channels \ {f.ch} : row'[c] = row[c]) /\ (row[f.ch] # {} => row'[f.ch] # {})
    BY <1>2, <2>2, StoreFacts, MetadataRow
  <2>4. faults' \in 0..MaxFaults
    BY <1>5, StoreFacts
  <2> QED
    BY <1>1, <1>2, <1>3, <1>5, <2>1, <2>3, <2>4, LookSafe
<1> QED
  BY <1>2, <1>4, <1>5 DEF confirm_parent

LEMMA SelfGrantKeeps ==
    ASSUME RInv, NEW p \in Callers, try_grant_mgmt_admin_via_user_nsec(p)
    PROVE  RInv'
<1>1. Running(p) /\ Top(p).pc = "selfgrant"
  BY DEF try_grant_mgmt_admin_via_user_nsec, At
<1>2. PICK f \in Checks :
             /\ f = Top(p) /\ f.ch \in Channels /\ f.roles \subseteq Keys /\ f.mems \subseteq Keys
             /\ f.roles \subseteq Admins(f.ch)
             /\ (\A k \in f.mems : OnRelay(f.ch, k)) \/ Doubtful(f.ch)
             /\ call[p].op = "create" /\ Len(call[p].frames) = 1 => row[f.ch] # {}
  BY <1>1, InCheck
<1>3. UNCHANGED <<row, ready, intent, minted, raced>>
  BY DEF try_grant_mgmt_admin_via_user_nsec
<1>4. CASE Fault("grant") /\ Degraded(p) /\ UNCHANGED <<group, undelivered, mirror>>
  BY <1>1, <1>3, <1>4, StoreFacts, DegradedSafe
<1>5. CASE /\ Op \in Admins(f.ch) /\ put_admin(f.ch, {Mgmt}) /\ upsert_member(f.ch, Mgmt, TRUE)
           /\ Step(p, [f EXCEPT !.roles = @ \cup {Mgmt}, !.pc = "parent"])
           /\ UNCHANGED <<lock, faults>>
  <2>1. Exists(f.ch) /\ Mgmt \in Keys
    BY <1>5 DEF Admins, Keys
  <2>2. PICK as \in SUBSET Keys, ms \in SUBSET Keys :
          as = Admins(f.ch) \cup {Mgmt} /\ ms = Members(f.ch) \ {Mgmt} /\ as \cap ms = {}
    <3>1. Admins(f.ch) \subseteq Keys /\ Members(f.ch) \subseteq Keys /\ Admins(f.ch) \cap Members(f.ch) = {}
      BY <1>2, StoreFacts, TheGroup
    <3>2. /\ Admins(f.ch) \cup {Mgmt} \in SUBSET Keys /\ Members(f.ch) \ {Mgmt} \in SUBSET Keys
          /\ (Admins(f.ch) \cup {Mgmt}) \cap (Members(f.ch) \ {Mgmt}) = {}
      BY <2>1, <3>1
    <3> QED
      BY <3>2, Zenon
  <2>3. SetRoster(f.ch, as, ms)
    BY <1>5, <2>2 DEF put_admin
  <2>4. /\ GroupTyped' /\ Admins(f.ch)' = as /\ \A c \in Channels \ {f.ch} : group'[c] = group[c]
        /\ undelivered' = undelivered \cup {f.ch}
    <3>1. GroupTyped /\ f.ch \in Channels /\ as \cap ms = {}
      BY <1>2, <2>2, StoreFacts
    <3> QED
      BY <2>1, <2>3, <3>1, RosterEdit
  <2>5. /\ MirrorTyped' /\ \A c \in Channels \ {f.ch} : mirror'[c] = mirror[c]
        /\ mirror'[f.ch].admins = mirror[f.ch].admins \cup {Mgmt} /\ mirror'[f.ch].members = mirror[f.ch].members \ {Mgmt}
    BY <1>2, <1>5, <2>1, StoreFacts, MirrorUpsert
  <2>6. PICK g \in Checks :
             /\ g = [f EXCEPT !.roles = @ \cup {Mgmt}, !.pc = "parent"]
             /\ g.ch = f.ch /\ g.hint = f.hint /\ g.roles = f.roles \cup {Mgmt} /\ g.pc = "parent"
    <3>1. [f EXCEPT !.roles = @ \cup {Mgmt}, !.pc = "parent"] \in Checks
      BY <1>2, <2>1 DEF Checks, Pcs
    <3> QED
      BY <3>1 DEF Checks
  <2>7. Step(p, g)
    BY <1>5, <2>6
  <2>8. undelivered \subseteq undelivered' /\ undelivered' \subseteq Channels /\ f.ch \in undelivered' /\ Doubtful(f.ch)'
    BY <1>2, <2>4, StoreFacts DEF Doubtful
  <2>9. /\ Admins(g.ch) \subseteq Admins(g.ch)' /\ g.roles \subseteq Admins(g.ch)' /\ Doubtful(g.ch)'
        /\ mirror'[g.ch].admins \subseteq mirror[g.ch].admins \cup Admins(g.ch)'
        /\ \A k \in mirror'[g.ch].members : k \in mirror[g.ch].members
        /\ g.ch \in undelivered'
    BY <1>2, <2>2, <2>4, <2>5, <2>6, <2>8
  <2>10. \A c \in Channels \ {g.ch} : group'[c] = group[c] /\ row'[c] = row[c] /\ mirror'[c] = mirror[c]
    BY <1>3, <2>4, <2>5, <2>6
  <2>11. RowTyped' /\ faults' \in 0..MaxFaults /\ lock' = lock /\ row'[g.ch] = row[g.ch]
    BY <1>3, <1>5, StoreFacts
  <2>12. /\ g.ch = Top(p).ch /\ g.hint = Top(p).hint /\ g.pc = "parent"
         /\ call[p].op = "create" /\ Len(call[p].frames) = 1 => row'[g.ch] # {}
    BY <1>2, <2>6, <2>11
  <2> QED
    BY <1>1, <1>3, <2>4, <2>5, <2>7, <2>8, <2>9, <2>10, <2>11, <2>12, StepSafe
<1> QED
  BY <1>2, <1>4, <1>5 DEF try_grant_mgmt_admin_via_user_nsec

LEMMA GrantKeeps ==
    ASSUME RInv, NEW p \in Callers, grant_admins(p)
    PROVE  RInv'
<1>1. Running(p) /\ Top(p).pc = "admins"
  BY DEF grant_admins, At
<1>2. PICK f \in Checks :
             /\ f = Top(p) /\ f.ch \in Channels /\ f.roles \subseteq Keys /\ f.mems \subseteq Keys /\ f.padm \subseteq Keys
             /\ f.roles \subseteq Admins(f.ch)
             /\ (\A k \in f.mems : OnRelay(f.ch, k)) \/ Doubtful(f.ch)
             /\ call[p].op = "create" /\ Len(call[p].frames) = 1 => row[f.ch] # {}
  BY <1>1, InCheck
<1> DEFINE missing == required_admins(f) \ f.roles
<1>3. UNCHANGED <<row, ready, intent, minted, raced>>
  BY DEF grant_admins
<1>4. missing \subseteq Keys
  BY <1>2 DEF required_admins, Keys
<1>5. CASE Fault("grant") /\ Degraded(p) /\ UNCHANGED <<group, undelivered, mirror>>
  BY <1>1, <1>3, <1>5, StoreFacts, DegradedSafe
<1>6. CASE /\ missing = {} \/ Mgmt \in Admins(f.ch)
           /\ IF missing = {} THEN UNCHANGED <<group, undelivered>> ELSE put_admin(f.ch, missing)
           /\ mirror' = [mirror EXCEPT ![f.ch].admins = @ \cup missing, ![f.ch].members = @ \ missing]
           /\ Step(p, [f EXCEPT !.pc = "member"])
           /\ UNCHANGED <<lock, faults>>
  <2>1. /\ GroupTyped' /\ Admins(f.ch)' = Admins(f.ch) \cup missing
        /\ \A c \in Channels \ {f.ch} : group'[c] = group[c]
        /\ \A k \in Keys : OnRelay(f.ch, k) => OnRelay(f.ch, k)' \/ f.ch \in undelivered'
        /\ undelivered \subseteq undelivered' /\ undelivered' \subseteq Channels
        /\ Doubtful(f.ch) => Doubtful(f.ch)'
        /\ (\A k \in f.mems : OnRelay(f.ch, k)') \/ Doubtful(f.ch)'
    <3>1. CASE missing = {}
      <4>1. group' = group /\ undelivered' = undelivered
        BY <1>6, <3>1
      <4>2. Admins(f.ch)' = Admins(f.ch) /\ \A k : OnRelay(f.ch, k)' <=> OnRelay(f.ch, k)
        BY <4>1, SameGroup
      <4>3. Doubtful(f.ch)' <=> Doubtful(f.ch)
        BY <1>3, <4>1 DEF Doubtful
      <4>4. (\A k \in f.mems : OnRelay(f.ch, k)') \/ Doubtful(f.ch)'
        BY <1>2, <4>2, <4>3
      <4> QED
        BY <3>1, <4>1, <4>2, <4>3, <4>4, StoreFacts
    <3>2. CASE missing # {}
      <4>1. Exists(f.ch)
        BY <1>6, <3>2 DEF Admins
      <4>2. PICK as \in SUBSET Keys, ms \in SUBSET Keys :
              as = Admins(f.ch) \cup missing /\ ms = Members(f.ch) \ missing /\ as \cap ms = {}
        <5>1. Admins(f.ch) \subseteq Keys /\ Members(f.ch) \subseteq Keys /\ Admins(f.ch) \cap Members(f.ch) = {}
          BY <1>2, StoreFacts, TheGroup
        <5> HIDE DEF missing
        <5>2. /\ Admins(f.ch) \cup missing \in SUBSET Keys /\ Members(f.ch) \ missing \in SUBSET Keys
              /\ (Admins(f.ch) \cup missing) \cap (Members(f.ch) \ missing) = {}
          BY <1>4, <5>1
        <5> QED
          BY <5>2, Zenon
      <4>3. SetRoster(f.ch, as, ms)
        BY <1>6, <3>2, <4>2 DEF put_admin
      <4>4. /\ GroupTyped' /\ Admins(f.ch)' = as /\ \A c \in Channels \ {f.ch} : group'[c] = group[c]
            /\ undelivered' = undelivered \cup {f.ch}
        <5>1. GroupTyped /\ f.ch \in Channels /\ as \cap ms = {}
          BY <1>2, <4>2, StoreFacts
        <5> QED
          BY <4>1, <4>3, <5>1, RosterEdit
      <4>5. Doubtful(f.ch)'
        BY <4>4 DEF Doubtful
      <4> QED
        BY <1>2, <4>2, <4>4, <4>5, StoreFacts
    <3> QED
      BY <3>1, <3>2
  <2>2. PICK as \in SUBSET Keys, ms \in SUBSET Keys :
          as = mirror[f.ch].admins \cup missing /\ ms = mirror[f.ch].members \ missing /\ as \cap ms = {}
    <3>1. mirror[f.ch].admins \subseteq Keys /\ mirror[f.ch].members \subseteq Keys
          /\ mirror[f.ch].admins \cap mirror[f.ch].members = {}
      BY <1>2, StoreFacts DEF MirrorTyped, Rosters
    <3> HIDE DEF missing
    <3>2. /\ mirror[f.ch].admins \cup missing \in SUBSET Keys /\ mirror[f.ch].members \ missing \in SUBSET Keys
          /\ (mirror[f.ch].admins \cup missing) \cap (mirror[f.ch].members \ missing) = {}
      BY <1>4, <3>1
    <3> QED
      BY <3>2, Zenon
  <2>3. mirror' = [mirror EXCEPT ![f.ch] = [mirror[f.ch] EXCEPT !.admins = as, !.members = ms]]
    <3>1. mirror \in [Channels -> Rosters]
      BY StoreFacts DEF MirrorTyped
    <3>2. mirror' = [mirror EXCEPT ![f.ch].admins = @ \cup missing, ![f.ch].members = @ \ missing]
      BY <1>6
    <3> HIDE DEF missing
    <3> QED
      BY <1>2, <2>2, <3>1, <3>2 DEF Rosters
  <2>4. /\ MirrorTyped' /\ mirror'[f.ch].admins = as /\ mirror'[f.ch].members = ms
        /\ \A c \in Channels \ {f.ch} : mirror'[c] = mirror[c]
    <3>1. MirrorTyped /\ mirror[f.ch] \in Rosters
      BY <1>2, StoreFacts DEF MirrorTyped
    <3>2. PICK r \in Rosters : r = [mirror[f.ch] EXCEPT !.admins = as, !.members = ms] /\ r.admins = as /\ r.members = ms
      <4>1. [mirror[f.ch] EXCEPT !.admins = as, !.members = ms] \in Rosters
        BY <3>1 DEF Rosters
      <4> QED
        BY <3>1, <4>1 DEF Rosters
    <3>3. mirror' = [mirror EXCEPT ![f.ch] = r]
      BY <2>3, <3>2
    <3>4. MirrorTyped' /\ mirror'[f.ch] = r /\ \A c \in Channels \ {f.ch} : mirror'[c] = mirror[c]
      <4>1. f.ch \in Channels /\ r.admins \cap r.members = {}
        BY <1>2, <2>2, <3>2
      <4> QED
        BY <3>1, <3>3, <4>1, MirrorEdit, Zenon
    <3> QED
      BY <3>2, <3>4
  <2>5. "member" \in Pcs
    BY DEF Pcs
  <2>6. PICK g \in Checks :
             /\ g = [f EXCEPT !.pc = "member"] /\ g.pc = "member" /\ g.ch = f.ch /\ g.mem = f.mem /\ g.hint = f.hint
             /\ g.roles = f.roles /\ g.mems = f.mems /\ g.padm = f.padm
    BY <2>5, Moved
  <2>7. Step(p, g)
    BY <1>6, <2>6
  <2>8. required_admins(g) \subseteq Admins(f.ch) \cup missing
    BY <1>2, <2>6 DEF required_admins
  <2>9. /\ Admins(g.ch) \subseteq Admins(g.ch)' /\ g.roles \subseteq Admins(g.ch)'
        /\ required_admins(g) \subseteq Admins(g.ch)'
        /\ mirror'[g.ch].admins \subseteq mirror[g.ch].admins \cup Admins(g.ch)'
        /\ \A k \in mirror'[g.ch].members : k \in mirror[g.ch].members
    <3> HIDE DEF missing
    <3> QED
      BY <1>2, <2>1, <2>2, <2>4, <2>6, <2>8
  <2>10. /\ \A c \in Channels \ {g.ch} : group'[c] = group[c] /\ row'[c] = row[c] /\ mirror'[c] = mirror[c]
         /\ \A k \in Keys : OnRelay(g.ch, k) => OnRelay(g.ch, k)' \/ g.ch \in undelivered'
         /\ (\A k \in g.mems : OnRelay(g.ch, k)') \/ Doubtful(g.ch)'
    BY <1>3, <2>1, <2>4, <2>6
  <2>11. RowTyped' /\ faults' \in 0..MaxFaults /\ lock' = lock /\ row'[g.ch] = row[g.ch]
    BY <1>3, <1>6, StoreFacts
  <2>12. /\ g.ch = Top(p).ch /\ g.hint = Top(p).hint /\ g.pc = "member"
         /\ call[p].op = "create" /\ Len(call[p].frames) = 1 => row'[g.ch] # {}
    BY <1>2, <2>6, <2>11
  <2> QED
    BY <1>1, <1>3, <2>1, <2>4, <2>7, <2>9, <2>10, <2>11, <2>12, StepSafe
<1> QED
  BY <1>2, <1>5, <1>6 DEF grant_admins

LEMMA MemberKeeps ==
    ASSUME RInv, NEW p \in Callers, ensure_member(p)
    PROVE  RInv'
<1>1. Running(p) /\ Top(p).pc = "member"
  BY DEF ensure_member, At
<1>2. PICK f \in Checks :
             /\ f = Top(p) /\ f.ch \in Channels /\ f.mem \in Keys /\ f.roles \subseteq Keys /\ f.mems \subseteq Keys
             /\ f.roles \subseteq Admins(f.ch) /\ required_admins(f) \subseteq Admins(f.ch)
             /\ (\A k \in f.mems : OnRelay(f.ch, k)) \/ Doubtful(f.ch)
             /\ call[p].op = "create" /\ Len(call[p].frames) = 1 => row[f.ch] # {}
  BY <1>1, InCheck
<1>3. UNCHANGED <<row, ready, intent, minted, raced>>
  BY DEF ensure_member
<1>4. "mark" \in Pcs
  BY DEF Pcs
<1>5. PICK g \in Checks :
             /\ g = [f EXCEPT !.pc = "mark"] /\ g.pc = "mark" /\ g.ch = f.ch /\ g.mem = f.mem /\ g.hint = f.hint
             /\ g.roles = f.roles /\ g.mems = f.mems /\ g.padm = f.padm
  BY <1>4, Moved
<1>6. required_admins(g) \subseteq Admins(g.ch) /\ g.roles \subseteq Admins(g.ch)
  BY <1>2, <1>5 DEF required_admins
<1>7. CASE Fault("grant") /\ Degraded(p) /\ UNCHANGED <<group, undelivered, mirror>>
  BY <1>1, <1>3, <1>7, StoreFacts, DegradedSafe
<1>8. CASE /\ expect_already_admin(f) \/ f.mem \in f.roles \cup f.mems
           /\ IF MirrorMember(f.ch, f.mem) THEN UNCHANGED mirror
              ELSE upsert_member(f.ch, f.mem, f.mem \in f.roles)
           /\ Step(p, [f EXCEPT !.pc = "mark"])
           /\ UNCHANGED <<group, undelivered, lock, faults>>
  <2>1. \A k : OnRelay(f.ch, k)' <=> OnRelay(f.ch, k)
    BY <1>8, SameGroup
  <2>2. Admins(f.ch)' = Admins(f.ch) /\ (Doubtful(f.ch)' <=> Doubtful(f.ch))
    BY <1>3, <1>8, SameGroup DEF Doubtful
  <2>3. OnRelay(f.ch, f.mem) \/ Doubtful(f.ch)
    <3>1. CASE expect_already_admin(f)
      BY <1>2, <3>1 DEF expect_already_admin, required_admins, OnRelay
    <3>2. CASE f.mem \in f.roles
      BY <1>2, <3>2 DEF OnRelay
    <3>3. CASE f.mem \in f.mems
      BY <1>2, <3>3
    <3> QED
      BY <1>8, <3>1, <3>2, <3>3
  <2>4. /\ MirrorTyped' /\ \A c \in Channels \ {f.ch} : mirror'[c] = mirror[c]
        /\ mirror'[f.ch].admins \subseteq mirror[f.ch].admins \cup Admins(f.ch)'
        /\ \A k \in mirror'[f.ch].members : k \in mirror[f.ch].members \/ k = f.mem
    <3>1. CASE mirror' = mirror
      BY <3>1, StoreFacts
    <3>2. CASE upsert_member(f.ch, f.mem, f.mem \in f.roles)
      <4>1. PICK admin \in BOOLEAN : admin = (f.mem \in f.roles)
        <5>1. (f.mem \in f.roles) \in BOOLEAN
          OBVIOUS
        <5> QED
          BY <5>1, Zenon
      <4>2. upsert_member(f.ch, f.mem, admin)
        BY <3>2, <4>1, Zenon
      <4>3. /\ MirrorTyped' /\ \A c \in Channels \ {f.ch} : mirror'[c] = mirror[c]
            /\ admin => mirror'[f.ch].admins = mirror[f.ch].admins \cup {f.mem} /\ mirror'[f.ch].members = mirror[f.ch].members \ {f.mem}
            /\ ~admin => mirror'[f.ch].admins = mirror[f.ch].admins \ {f.mem} /\ mirror'[f.ch].members = mirror[f.ch].members \cup {f.mem}
        BY <1>2, <4>2, StoreFacts, MirrorUpsert
      <4>4. admin => f.mem \in Admins(f.ch)'
        BY <1>2, <2>2, <4>1
      <4> QED
        BY <4>3, <4>4
    <3> QED
      BY <1>8, <3>1, <3>2
  <2>5. Step(p, g)
    BY <1>5, <1>8
  <2>6. /\ Admins(g.ch) \subseteq Admins(g.ch)' /\ g.roles \subseteq Admins(g.ch)' /\ required_admins(g) \subseteq Admins(g.ch)'
        /\ mirror'[g.ch].admins \subseteq mirror[g.ch].admins \cup Admins(g.ch)'
        /\ \A c \in Channels \ {g.ch} : group'[c] = group[c] /\ row'[c] = row[c] /\ mirror'[c] = mirror[c]
    BY <1>3, <1>5, <1>6, <1>8, <2>2, <2>4
  <2>7. /\ OnRelay(g.ch, g.mem)' \/ Doubtful(g.ch)'
        /\ \A k \in mirror'[g.ch].members : k \in mirror[g.ch].members \/ OnRelay(g.ch, k)' \/ Doubtful(g.ch)'
        /\ (\A k \in g.mems : OnRelay(g.ch, k)') \/ Doubtful(g.ch)'
        /\ \A k \in Keys : OnRelay(g.ch, k) => OnRelay(g.ch, k)'
    BY <1>2, <1>5, <2>1, <2>2, <2>3, <2>4
  <2>8. /\ RowTyped' /\ GroupTyped' /\ faults' \in 0..MaxFaults /\ lock' = lock /\ row'[g.ch] = row[g.ch]
        /\ undelivered \subseteq undelivered' /\ undelivered' \subseteq Channels
    BY <1>3, <1>8, StoreFacts
  <2>9. /\ g.ch = Top(p).ch /\ g.hint = Top(p).hint /\ g.pc = "mark"
        /\ call[p].op = "create" /\ Len(call[p].frames) = 1 => row'[g.ch] # {}
    BY <1>2, <1>5, <2>8
  <2> QED
    BY <1>1, <1>3, <2>4, <2>5, <2>6, <2>7, <2>8, <2>9, StepSafe
<1>9. CASE /\ ~expect_already_admin(f) /\ Mgmt \in Admins(f.ch) /\ put_user(f.ch, f.mem) /\ upsert_member(f.ch, f.mem, FALSE)
           /\ Step(p, [f EXCEPT !.pc = "mark"])
           /\ UNCHANGED <<lock, faults>>
  <2>1. Exists(f.ch)
    BY <1>9 DEF Admins
  <2>2. PICK as \in SUBSET Keys, ms \in SUBSET Keys :
          as = Admins(f.ch) /\ ms = (Members(f.ch) \cup {f.mem}) \ Admins(f.ch) /\ as \cap ms = {}
    <3>1. Admins(f.ch) \subseteq Keys /\ Members(f.ch) \subseteq Keys
      BY <1>2, StoreFacts, TheGroup
    <3>2. /\ Admins(f.ch) \in SUBSET Keys /\ (Members(f.ch) \cup {f.mem}) \ Admins(f.ch) \in SUBSET Keys
          /\ Admins(f.ch) \cap ((Members(f.ch) \cup {f.mem}) \ Admins(f.ch)) = {}
      BY <1>2, <3>1
    <3> QED
      BY <3>2, Zenon
  <2>3. SetRoster(f.ch, as, ms)
    BY <1>9, <2>2 DEF put_user
  <2>4. /\ GroupTyped' /\ Admins(f.ch)' = as /\ Members(f.ch)' = ms /\ \A c \in Channels \ {f.ch} : group'[c] = group[c]
        /\ undelivered' = undelivered \cup {f.ch}
    <3>1. GroupTyped /\ f.ch \in Channels /\ as \cap ms = {}
      BY <1>2, <2>2, StoreFacts
    <3> QED
      BY <2>1, <2>3, <3>1, RosterEdit
  <2>5. /\ MirrorTyped' /\ \A c \in Channels \ {f.ch} : mirror'[c] = mirror[c]
        /\ mirror'[f.ch].admins = mirror[f.ch].admins \ {f.mem} /\ mirror'[f.ch].members = mirror[f.ch].members \cup {f.mem}
    BY <1>2, <1>9, StoreFacts, MirrorUpsert
  <2>6. Step(p, g)
    BY <1>5, <1>9
  <2>7. undelivered \subseteq undelivered' /\ undelivered' \subseteq Channels /\ g.ch \in undelivered' /\ Doubtful(g.ch)'
    BY <1>2, <1>5, <2>4, StoreFacts DEF Doubtful
  <2>8. /\ Admins(g.ch) \subseteq Admins(g.ch)' /\ g.roles \subseteq Admins(g.ch)' /\ required_admins(g) \subseteq Admins(g.ch)'
        /\ mirror'[g.ch].admins \subseteq mirror[g.ch].admins \cup Admins(g.ch)'
        /\ \A c \in Channels \ {g.ch} : group'[c] = group[c] /\ row'[c] = row[c] /\ mirror'[c] = mirror[c]
    BY <1>3, <1>5, <1>6, <2>2, <2>4, <2>5
  <2>9. /\ RowTyped' /\ faults' \in 0..MaxFaults /\ lock' = lock /\ row'[g.ch] = row[g.ch]
    BY <1>3, <1>9, StoreFacts
  <2>10. /\ g.ch = Top(p).ch /\ g.hint = Top(p).hint /\ g.pc = "mark"
         /\ call[p].op = "create" /\ Len(call[p].frames) = 1 => row'[g.ch] # {}
    BY <1>2, <1>5, <2>9
  <2> QED
    BY <1>1, <1>3, <2>4, <2>5, <2>6, <2>7, <2>8, <2>9, <2>10, StepSafe
<1> QED
  BY <1>2, <1>7, <1>8, <1>9 DEF ensure_member

LEMMA MarkKeeps ==
    ASSUME RInv, NEW p \in Callers, mark_ready(p)
    PROVE  RInv'
<1>1. Running(p) /\ Top(p).pc = "mark" /\ Return(p)
  BY DEF mark_ready, At
<1>2. PICK f \in Checks :
             /\ f = Top(p) /\ required_admins(f) \subseteq Admins(f.ch)
             /\ OnRelay(f.ch, f.mem) \/ Doubtful(f.ch)
             /\ call[p].op = "create" /\ Len(call[p].frames) = 1 => row[f.ch] # {}
  BY <1>1, InCheck
<1>3. {Mgmt, Op} \subseteq Admins(f.ch)
  BY <1>2 DEF required_admins
<1>4. /\ ready' = ready \cup {<<Top(p).ch, Top(p).mem>>}
      /\ UNCHANGED <<group, row, mirror, intent, minted, undelivered, raced, faults>>
  BY DEF mark_ready
<1> QED
  BY <1>1, <1>2, <1>3, <1>4, ReturnSafe

LEMMA Pushed ==
    ASSUME NEW S, NEW s \in Seq(S), Len(s) = 1, NEW g \in S
    PROVE  \E t \in Seq(S) : /\ t = <<g>> \o s /\ Len(t) = 2 /\ t[1] = g /\ t[2] = s[1]
                             /\ t # <<>> /\ DOMAIN t = 1..2 /\ Head(t) = g
<1> DEFINE h == <<g>>
<1>1. h \in Seq(S) /\ Len(h) = 1 /\ h[1] = g
  OBVIOUS
<1> HIDE DEF h
<1>2. /\ Len(h \o s) = Len(h) + Len(s)
      /\ \A i \in 1..(Len(h) + Len(s)) : (h \o s)[i] = IF i <= Len(h) THEN h[i] ELSE s[i - Len(h)]
  BY <1>1, ConcatProperties, Zenon
<1>3. PICK t \in Seq(S) : t = h \o s
  <2>1. h \o s \in Seq(S)
    BY <1>1
  <2> QED
    BY <2>1, Zenon
<1>4. Len(t) = 2
  BY <1>1, <1>2, <1>3
<1>5. t[1] = g
  BY <1>1, <1>2, <1>3
<1>6. t[2] = s[1]
  BY <1>1, <1>2, <1>3
<1>7. t # <<>> /\ DOMAIN t = 1..2
  BY <1>4
<1>8. Head(t) = t[1]
  BY <1>7
<1> QED
  BY <1>3, <1>4, <1>5, <1>6, <1>7, <1>8 DEF h

\* The check of the parent goes on top.
LEMMA ParentCalls ==
    ASSUME RInv, NEW p \in Callers, Running(p), NEW f \in Checks, f = Top(p), f.pc = "check", f.hint # {},
           ensure_parent(p), lock' = [lock EXCEPT ![f.ch] = {p}], UNCHANGED <<group, row, ready, intent>>
    PROVE  /\ CallTyped' /\ CallOK(p)' /\ \A q \in Callers \ {p} : call'[q] = call[q]
           /\ call'[p].id = call[p].id /\ call'[p].op = call[p].op
<1> DEFINE fs == call[p].frames
           g == Frame(Root, Mgmt, {})
           gs == <<g>> \o fs
           r == [call[p] EXCEPT !.frames = gs]
<1>1. /\ call[p] \in Handlers /\ fs \in Seq(Checks) /\ Len(fs) \in {1, 2} /\ Top(p) = fs[1]
      /\ f.hint = ParentOf(f.ch) /\ f.roles = {} /\ f.mems = {}
  BY TheChecks
<1>2. f.ch # Root /\ f.hint = {Root} /\ f.ch \in Channels
  BY <1>1 DEF ParentOf, Checks
<1>3. Len(fs) = 1 /\ Outer(p) = f /\ call[p].id = {f.ch}
  <2>1. Len(fs) = 2 => f.ch = Root
    BY TheChecks
  <2> QED
    BY <1>1, <1>2, <2>1, TheChecks
<1>4. (CHOOSE c \in Top(p).hint : TRUE) = Root /\ effective_parent_hint(Root, {}) = {} /\ Root \in Channels
  <2>1. RowTyped
    BY StoreFacts
  <2> QED
    BY <1>2, <2>1, HintIsParent
<1>5. /\ g \in Checks /\ g.ch = Root /\ g.hint = {} /\ g.pc = "check" /\ g.roles = {} /\ g.mems = {}
  BY <1>4 DEF Frame, Checks, Pcs, Parents, Keys
<1>6. call' = [call EXCEPT ![p] = r]
  BY <1>4 DEF ensure_parent
<1> HIDE DEF g
<1>7. gs \in Seq(Checks) /\ Len(gs) = 2 /\ gs[1] = g /\ gs[2] = f /\ gs # <<>> /\ DOMAIN gs = 1..2 /\ Head(gs) = g
  <2>1. fs \in Seq(Checks) /\ Len(fs) = 1 /\ g \in Checks
    BY <1>1, <1>3, <1>5
  <2>2. PICK t \in Seq(Checks) : /\ t = <<g>> \o fs /\ Len(t) = 2 /\ t[1] = g /\ t[2] = fs[1]
                                /\ t # <<>> /\ DOMAIN t = 1..2 /\ Head(t) = g
    <3> HIDE DEF fs
    <3> QED
      BY <2>1, Pushed
  <2> QED
    BY <1>1, <2>2
<1> HIDE DEF gs
<1>8. r \in Handlers /\ r.frames = gs /\ r.op = call[p].op /\ r.st = call[p].st /\ r.id = call[p].id /\ r.got = call[p].got
  BY <1>1, <1>7 DEF Handlers
<1> HIDE DEF r
<1>9. CallTyped' /\ call'[p] = r /\ \A q \in Callers \ {p} : call'[q] = call[q]
  BY <1>6, <1>8 DEF RInv, CallTyped
<1>10. call[p].st = "open" /\ lock'[f.ch] = {p}
  BY <1>2, StoreFacts DEF RInv, CallOK, Stacked, Running, LockTyped
<1>11. Stacked(p)'
  <2>1. \A i \in DOMAIN gs : /\ gs[i].hint = ParentOf(gs[i].ch)
                             /\ gs[i].pc = "check" => gs[i].roles = {} /\ gs[i].mems = {}
    <3>1. g.hint = ParentOf(g.ch)
      BY <1>5 DEF ParentOf
    <3>2. \A i \in DOMAIN gs : gs[i] = g \/ gs[i] = f
      BY <1>7
    <3> QED
      BY <1>1, <1>5, <3>1, <3>2
  <2> QED
    BY <1>2, <1>3, <1>5, <1>7, <1>8, <1>9, <1>10, <2>1 DEF Stacked
<1>12. Checked(p)'
  <2>1. Top(p)' = g
    BY <1>7, <1>8, <1>9 DEF Top
  <2> QED
    BY <1>5, <2>1 DEF Checked
<1>13. Creating(p)'
  <2> SUFFICES ASSUME call[p].op = "create" PROVE Creating(p)'
    BY <1>8, <1>9 DEF Creating
  <2>1. Outer(p)' = f
    BY <1>7, <1>8, <1>9 DEF Outer
  <2>2. Creating(p)
    BY DEF RInv, CallOK
  <2>3. call[p].got = {} /\ \A c \in call[p].id : c # Root /\ Fresh(c)
    BY <1>3, <1>10, <2>2 DEF Creating
  <2>4. \A c : Fresh(c) => Fresh(c)'
    BY DEF Fresh
  <2> QED
    BY <1>8, <1>9, <1>10, <2>1, <2>3, <2>4 DEF Creating
<1> QED
  BY <1>8, <1>9, <1>11, <1>12, <1>13 DEF CallOK

LEMMA CheckKeeps ==
    ASSUME RInv, NEW p \in Callers, CheckAndLock(p)
    PROVE  RInv'
<1>1. Running(p) /\ Top(p).pc = "check"
  BY DEF CheckAndLock, At
<1>2. PICK f \in Checks :
             /\ f = Top(p) /\ f.ch \in Channels /\ f.mem \in Keys
             /\ call[p].op = "create" /\ Len(call[p].frames) = 1 => Fresh(f.ch)
  BY <1>1, InCheck
<1>3. UNCHANGED <<group, row, mirror, intent, minted, undelivered, raced, faults>>
  BY DEF CheckAndLock
<1>4. CASE cached(f) /\ Return(p) /\ UNCHANGED ready
  <2>1. <<f.ch, f.mem>> \in ready /\ <<f.ch, f.mem>>[1] = f.ch /\ <<f.ch, f.mem>>[2] = f.mem
    BY <1>4 DEF cached
  <2>2. {Mgmt, Op} \subseteq Admins(f.ch) /\ (OnRelay(f.ch, f.mem) \/ Doubtful(f.ch))
    BY <2>1 DEF RInv, Backed, ReadyBacked, Governed, Doubtful
  <2>3. ~Fresh(f.ch)
    BY <1>2, <2>1 DEF Fresh
  <2> QED
    BY <1>1, <1>2, <1>3, <1>4, <2>2, <2>3, ReturnSafe
<1>5. CASE /\ locally_materialized_ready(f) /\ ready' = ready \cup {<<f.ch, f.mem>>} /\ Return(p)
  <2>1. row[f.ch] # {} /\ MirrorMember(f.ch, f.mem) /\ {Mgmt, Op} \subseteq mirror[f.ch].admins
    BY <1>5 DEF locally_materialized_ready
  <2>2. mirror[f.ch].admins \subseteq Admins(f.ch) /\ \A k \in mirror[f.ch].members : OnRelay(f.ch, k) \/ Doubtful(f.ch)
    BY <1>2 DEF RInv, Backed, MirrorBacked
  <2>3. {Mgmt, Op} \subseteq Admins(f.ch) /\ (OnRelay(f.ch, f.mem) \/ Doubtful(f.ch))
    BY <2>1, <2>2 DEF MirrorMember, OnRelay
  <2> QED
    BY <1>1, <1>2, <1>3, <1>5, <2>1, <2>3, ReturnSafe
<1>6. CASE /\ lock[f.ch] = {} /\ lock' = [lock EXCEPT ![f.ch] = {p}] /\ UNCHANGED ready
           /\ IF f.hint = {} THEN Step(p, [f EXCEPT !.pc = "fetch"]) ELSE ensure_parent(p)
  <2>1. \A c \in Channels : Admins(c)' = Admins(c) /\ \A k : OnRelay(c, k)' <=> OnRelay(c, k)
    BY <1>3, SameGroup
  <2>2. Grows
    BY <1>3, <2>1 DEF Grows
  <2>3. Elsewhere(f.ch)
    BY <1>3, <1>6 DEF Elsewhere
  <2>4. lock'[f.ch] = {p} /\ \A c \in Channels \ {f.ch} : lock'[c] = lock[c]
    BY <1>2, <1>6, StoreFacts DEF LockTyped
  <2>5. LockTyped'
    BY <1>2, <1>6, <2>4, StoreFacts DEF LockTyped
  <2>6. GroupTyped' /\ RowTyped' /\ MirrorTyped' /\ MintTyped' /\ FlagsTyped'
    BY <1>3, <1>6 DEF RInv, StoreTyped, GroupTyped, RowTyped, MirrorTyped, MintTyped, FlagsTyped
  <2>7. StoreTyped'
    BY <2>5, <2>6 DEF StoreTyped
  <2>8. Backed'
    BY <1>3, <1>6, <2>2, <2>6, BackedKept DEF RInv
  <2>9. \A q \in Callers \ {p} : \A c \in Channels : lock[c] = {q} => lock'[c] = {q}
    BY <1>6, <2>4
  <2>10. /\ CallTyped' /\ CallOK(p)' /\ \A q \in Callers \ {p} : call'[q] = call[q]
         /\ call'[p].id = call[p].id /\ call'[p].op = call[p].op
    <3>1. CASE f.hint = {}
      <4>1. "fetch" \in Pcs
        BY DEF Pcs
      <4>2. PICK g \in Checks :
               /\ g = [f EXCEPT !.pc = "fetch"] /\ g.pc = "fetch" /\ g.ch = f.ch /\ g.mem = f.mem /\ g.hint = f.hint
               /\ g.roles = f.roles /\ g.mems = f.mems /\ g.padm = f.padm
        BY <4>1, Moved
      <4>3. Step(p, g)
        BY <1>6, <3>1, <4>2
      <4>4. g.ch = Top(p).ch /\ g.hint = Top(p).hint /\ g.roles = {} /\ g.mems = {} /\ lock[g.ch] = {} /\ lock'[g.ch] = {p}
        BY <1>1, <1>2, <1>6, <2>4, <4>2, TheChecks
      <4>5. call[p].op = "create" /\ Len(call[p].frames) = 1 => Fresh(g.ch)'
        BY <1>2, <1>3, <1>6, <4>2 DEF Fresh
      <4>6. Elsewhere(g.ch) /\ \A c \in Channels \ {g.ch} : lock'[c] = lock[c]
        BY <2>3, <2>4, <4>2
      <4> QED
        BY <1>1, <4>2, <4>3, <4>4, <4>5, <4>6, StepCalls
    <3>2. CASE f.hint # {}
      BY <1>1, <1>2, <1>3, <1>6, <3>2, ParentCalls
    <3> QED
      BY <3>1, <3>2
  <2> QED
    BY <1>1, <1>2, <1>3, <2>2, <2>3, <2>7, <2>8, <2>9, <2>10, CallerStep
<1> QED
  BY <1>2, <1>4, <1>5, <1>6 DEF CheckAndLock

-----------------------------------------------------------------------------
(* Readiness: the calls, and what goes on around them.                      *)

\* What a call that opens a channel starts with.
LEMMA Entered ==
    ASSUME RInv, NEW p \in Callers, NEW op \in {"resolve", "create", "start"}, NEW ch \in Channels, NEW mem \in Keys,
           Enter(p, op, ch, ch, mem, {Root}), row' = row, op = "create" => ch # Root /\ Fresh(ch)'
    PROVE  \E h \in Handlers : call' = [call EXCEPT ![p] = h] /\ h.id = {ch} /\ h.op = op /\ CallOK(p)'
<1>1. PICK g \in Checks : /\ g = Frame(ch, mem, ParentOf(ch)) /\ g.ch = ch /\ g.hint = ParentOf(ch)
                          /\ g.pc = "check" /\ g.roles = {} /\ g.mems = {}
  <2>1. ParentOf(ch) \in Parents /\ "check" \in Pcs
    BY DEF ParentOf, Parents, Pcs
  <2>2. Frame(ch, mem, ParentOf(ch)) \in Checks
    BY <2>1 DEF Frame, Checks
  <2> QED
    BY <2>2 DEF Frame
<1>2. PICK s \in Seq(Checks) : s = <<g>> /\ Len(s) = 1 /\ s[1] = g /\ s # <<>> /\ DOMAIN s = {1} /\ Head(s) = g
  <2>1. <<g>> \in Seq(Checks) /\ Len(<<g>>) = 1 /\ <<g>>[1] = g
    OBVIOUS
  <2>2. <<g>> # <<>> /\ DOMAIN <<g>> = {1} /\ Head(<<g>>) = g
    OBVIOUS
  <2> QED
    BY <2>1, <2>2, Zenon
<1>3. PICK h \in Handlers : /\ h = [op |-> op, st |-> "open", id |-> {ch}, got |-> {}, frames |-> s]
                            /\ h.op = op /\ h.st = "open" /\ h.id = {ch} /\ h.got = {} /\ h.frames = s
  <2>1. [op |-> op, st |-> "open", id |-> {ch}, got |-> {}, frames |-> s] \in Handlers
    BY DEF Handlers
  <2> QED
    BY <2>1
<1>4. effective_parent_hint(ch, {Root}) = ParentOf(ch)
  <2>1. RowTyped
    BY StoreFacts
  <2> QED
    BY <2>1, HintIsParent
<1>5. call' = [call EXCEPT ![p] = h]
  BY <1>1, <1>2, <1>3, <1>4 DEF Enter
<1>6. call'[p] = h
  BY <1>5 DEF RInv, CallTyped
<1>7. Stacked(p)'
  BY <1>1, <1>2, <1>3, <1>6 DEF Stacked
<1>8. Checked(p)'
  <2>1. Top(p)' = g
    BY <1>2, <1>3, <1>6 DEF Top
  <2> QED
    BY <1>1, <2>1 DEF Checked
<1>9. Creating(p)'
  <2>1. Outer(p)' = g
    BY <1>2, <1>3, <1>6 DEF Outer
  <2> QED
    BY <1>1, <1>3, <1>6, <2>1 DEF Creating
<1> QED
  BY <1>3, <1>5, <1>7, <1>8, <1>9 DEF CallOK

\* A call that begins, or ends, leaves the relay, the store and the locks alone.
LEMMA OnlyCalls ==
    ASSUME RInv, NEW p \in Callers, NEW h \in Handlers, call' = [call EXCEPT ![p] = h],
           UNCHANGED <<group, row, mirror, ready, lock, undelivered, raced, faults>>, MintTyped',
           CallOK(p)', Unminted', Sole', \A c : c \in intent' /\ c \notin intent => \A q \in Callers : c \notin call[q].id
    PROVE  RInv'
<1>1. \A c \in Channels : Admins(c)' = Admins(c) /\ \A k : OnRelay(c, k)' <=> OnRelay(c, k)
  BY SameGroup
<1>2. Grows
  BY <1>1 DEF Grows
<1>3. GroupTyped' /\ RowTyped' /\ MirrorTyped' /\ LockTyped' /\ FlagsTyped'
  BY DEF RInv, StoreTyped, GroupTyped, RowTyped, MirrorTyped, LockTyped, FlagsTyped
<1>4. StoreTyped'
  BY <1>3 DEF StoreTyped
<1>5. Backed'
  BY <1>2, <1>3, BackedKept DEF RInv
<1>6. CallTyped' /\ \A q \in Callers \ {p} : call'[q] = call[q]
  BY DEF RInv, CallTyped
<1>7. \A q \in Callers \ {p} : CallOK(q)'
  <2> SUFFICES ASSUME NEW q \in Callers \ {p} PROVE CallOK(q)'
    OBVIOUS
  <2>1. \A c \in Channels : call[q].op = "create" /\ c \in call[q].id /\ Fresh(c) => Fresh(c)'
    BY DEF Fresh
  <2> QED
    BY <1>2, <1>6, <2>1, Still
<1> QED
  BY <1>4, <1>5, <1>6, <1>7 DEF RInv

LEMMA HitKeeps ==
    ASSUME RInv, NEW p \in Callers, ResolveHit(p)
    PROVE  RInv'
<1>1. UNCHANGED <<group, row, mirror, ready, lock, intent, minted, undelivered, raced, faults>>
  BY DEF ResolveHit
<1>2. PICK S \in SUBSET Channels : S = channel_id_for_name
  BY DEF channel_id_for_name
<1>3. <<>> \in Seq(Checks)
  OBVIOUS
<1>4. PICK h \in Handlers : /\ h = [Idle EXCEPT !.op = "resolve", !.st = "done", !.got = S]
                            /\ h.op = "resolve" /\ h.st = "done" /\ h.id = {} /\ h.got = S /\ h.frames = <<>>
  <2>1. PICK i \in Handlers : i = Idle /\ i.id = {} /\ i.frames = <<>>
    <3>1. Idle \in Handlers /\ Idle.id = {} /\ Idle.frames = <<>>
      BY <1>3 DEF Idle, Handlers
    <3> QED
      BY <3>1, Zenon
  <2>2. [i EXCEPT !.op = "resolve", !.st = "done", !.got = S] \in Handlers
    BY DEF Handlers
  <2> QED
    BY <2>1, <2>2 DEF Handlers
<1>5. call' = [call EXCEPT ![p] = h]
  BY <1>2, <1>4 DEF ResolveHit
<1>6. CallTyped' /\ call'[p] = h /\ \A q \in Callers \ {p} : call'[q] = call[q]
  BY <1>5 DEF RInv, CallTyped
<1>7. CallOK(p)'
  BY <1>4, <1>6 DEF CallOK, Stacked, Checked, Creating, Running
<1>8. Grows
  <2>1. \A c \in Channels : Admins(c)' = Admins(c) /\ \A k : OnRelay(c, k)' <=> OnRelay(c, k)
    BY <1>1, SameGroup
  <2> QED
    BY <1>1, <2>1 DEF Grows
<1>9. \A i \in (minted + 1)..Len(Ids) : Fresh(Ids[i])'
  BY <1>1 DEF RInv, Unminted, Fresh
<1>10. Unminted' /\ Sole'
  BY <1>1, <1>4, <1>6, <1>8, <1>9, MintKept
<1>11. MintTyped'
  BY <1>1 DEF RInv, StoreTyped, MintTyped
<1> QED
  BY <1>1, <1>5, <1>7, <1>10, <1>11, OnlyCalls

LEMMA FinishKeeps ==
    ASSUME RInv, NEW p \in Callers, FinishCall(p)
    PROVE  RInv'
<1>1. UNCHANGED <<group, row, mirror, ready, lock, intent, minted, undelivered, raced, faults>> /\ call[p].st = "gated"
  BY DEF FinishCall
<1>2. call[p] \in Handlers /\ CallOK(p)
  BY DEF RInv, CallTyped
<1>3. PICK h \in Handlers : /\ h = [call[p] EXCEPT !.st = "done", !.got = call[p].id]
                            /\ h.op = call[p].op /\ h.st = "done" /\ h.id = call[p].id /\ h.got = call[p].id
                            /\ h.frames = call[p].frames
  <2>1. [call[p] EXCEPT !.st = "done", !.got = call[p].id] \in Handlers
    BY <1>2 DEF Handlers
  <2> QED
    BY <1>2, <2>1 DEF Handlers
<1>4. call' = [call EXCEPT ![p] = h]
  BY <1>3 DEF FinishCall, RInv, CallTyped
<1>5. CallTyped' /\ call'[p] = h /\ \A q \in Callers \ {p} : call'[q] = call[q]
  BY <1>4 DEF RInv, CallTyped
<1>6. call[p].frames = <<>>
  BY <1>1, <1>2 DEF CallOK, Stacked
<1>7. Stacked(p)' /\ Checked(p)'
  BY <1>3, <1>5, <1>6 DEF Stacked, Checked, Running
<1>8. Creating(p)'
  BY <1>1, <1>2, <1>3, <1>5, <1>6 DEF CallOK, Creating, Running
<1>9. Grows
  <2>1. \A c \in Channels : Admins(c)' = Admins(c) /\ \A k : OnRelay(c, k)' <=> OnRelay(c, k)
    BY <1>1, SameGroup
  <2> QED
    BY <1>1, <2>1 DEF Grows
<1>10. \A i \in (minted + 1)..Len(Ids) : Fresh(Ids[i])'
  BY <1>1 DEF RInv, Unminted, Fresh
<1>11. Unminted' /\ Sole'
  <2>1. \A q \in Callers : call'[q].id = call[q].id /\ call'[q].op = call[q].op
    BY <1>3, <1>5
  <2> QED
    BY <1>1, <1>5, <1>9, <1>10, <2>1, MintKept
<1>12. MintTyped'
  BY <1>1 DEF RInv, StoreTyped, MintTyped
<1> QED
  BY <1>1, <1>4, <1>7, <1>8, <1>11, <1>12, OnlyCalls DEF CallOK

\* An id that is minted is nobody's yet.
LEMMA Minting ==
    ASSUME RInv, minted < Len(Ids)
    PROVE  /\ minted + 1 \in 1..Len(Ids) /\ Ids[minted + 1] \in Channels /\ Ids[minted + 1] # Root
           /\ Fresh(Ids[minted + 1]) /\ \A q \in Callers : Ids[minted + 1] \notin call[q].id
           /\ \A i \in (minted + 2)..Len(Ids) : Ids[i] # Ids[minted + 1]
<1>1. minted \in 0..Len(Ids) /\ Len(Ids) \in Nat
  BY IdsApart DEF RInv, StoreTyped, MintTyped
<1>2. minted + 1 \in 1..Len(Ids) /\ minted + 1 \in (minted + 1)..Len(Ids)
  BY <1>1
<1>3. \A i \in (minted + 2)..Len(Ids) : i \in 1..Len(Ids) /\ i # minted + 1
  BY <1>1
<1> QED
  BY <1>2, <1>3, IdsApart DEF RInv, Unminted

LEMMA Ahead ==
    ASSUME NEW m \in Nat, NEW n \in Nat, n >= m, NEW l \in Nat, NEW i \in (n + 1)..l
    PROVE  i \in (m + 1)..l
  OBVIOUS

LEMMA ResolveKeeps ==
    ASSUME RInv, NEW p \in Callers, resolve_channel(p)
    PROVE  RInv'
<1>1. UNCHANGED <<group, row, mirror, ready, lock, undelivered, raced, faults>>
  BY DEF resolve_channel
<1>2. /\ intent \subseteq Channels /\ (\A c, d \in intent : c = d) /\ minted \in 0..Len(Ids) /\ Len(Ids) \in Nat
      /\ \A i \in (minted + 1)..Len(Ids) : Fresh(Ids[i]) /\ \A q \in Callers : Ids[i] \notin call[q].id
  BY IdsApart DEF RInv, StoreTyped, MintTyped, Unminted
<1>3. /\ minted' \in 0..Len(Ids) /\ minted' >= minted
      /\ \E c \in Channels : intent' = {c}
      /\ \A c \in intent' : c \notin intent => /\ \A q \in Callers : c \notin call[q].id
                                               /\ \A i \in (minted' + 1)..Len(Ids) : Ids[i] # c
      /\ intent \subseteq intent'
  <2>1. CASE intent # {} /\ UNCHANGED <<intent, minted>>
    BY <1>2, <2>1
  <2>2. CASE reserve_channel_resolution_intent
    <3>1. minted < Len(Ids) /\ minted' = minted + 1
      BY <2>2 DEF reserve_channel_resolution_intent
    <3>2. CASE intent # {}
      <4>1. intent' = intent
        BY <2>2, <3>2 DEF reserve_channel_resolution_intent
      <4>2. minted' \in 0..Len(Ids) /\ minted' >= minted
        BY <1>2, <3>1
      <4> QED
        BY <1>2, <3>2, <4>1, <4>2
    <3>3. CASE intent = {}
      <4>1. intent' = {Ids[minted + 1]}
        BY <2>2, <3>3 DEF reserve_channel_resolution_intent
      <4>2. /\ Ids[minted + 1] \in Channels /\ \A q \in Callers : Ids[minted + 1] \notin call[q].id
            /\ \A i \in (minted' + 1)..Len(Ids) : Ids[i] # Ids[minted + 1]
        BY <1>2, <3>1, Minting
      <4>3. minted' \in 0..Len(Ids) /\ minted' >= minted
        BY <1>2, <3>1
      <4> QED
        BY <3>3, <4>1, <4>2, <4>3
    <3> QED
      BY <3>2, <3>3
  <2> QED
    BY <2>1, <2>2 DEF resolve_channel
<1>4. PICK id \in Channels : intent' = {id}
  BY <1>3
<1>5. Enter(p, "resolve", id, id, Mgmt, {Root})
  <2>1. (CHOOSE c \in intent' : TRUE) = id
    BY <1>4
  <2> QED
    BY <2>1 DEF resolve_channel
<1>6. PICK h \in Handlers : call' = [call EXCEPT ![p] = h] /\ h.id = {id} /\ h.op = "resolve" /\ CallOK(p)'
  BY <1>1, <1>5, Entered DEF Keys
<1>7. call'[p] = h /\ \A q \in Callers \ {p} : call'[q] = call[q]
  BY <1>6 DEF RInv, CallTyped
<1>8. \A i \in (minted' + 1)..Len(Ids) : Ids[i] # id /\ Fresh(Ids[i])'
  <2> SUFFICES ASSUME NEW i \in (minted' + 1)..Len(Ids) PROVE Ids[i] # id /\ Fresh(Ids[i])'
    OBVIOUS
  <2>1. i \in (minted + 1)..Len(Ids)
    <3>1. minted \in Nat /\ minted' \in Nat /\ minted' >= minted /\ Len(Ids) \in Nat
      BY <1>2, <1>3
    <3> QED
      BY <3>1, Ahead
  <2>2. Fresh(Ids[i])
    BY <1>2, <2>1
  <2>3. Ids[i] # id
    BY <1>3, <1>4, <2>2 DEF Fresh
  <2> QED
    BY <1>1, <1>4, <2>2, <2>3 DEF Fresh
<1>9. Unminted'
  <2>1. \A i \in (minted' + 1)..Len(Ids) : \A q \in Callers : Ids[i] \notin call[q].id
    BY <1>2, <1>3
  <2> QED
    BY <1>6, <1>7, <1>8, <2>1 DEF Unminted
<1>10. \A q \in Callers : call[q].op = "create" => id \notin call[q].id /\ \A c \in call[q].id : c \notin intent'
  BY <1>3, <1>4 DEF RInv, Sole
<1>11. Sole'
  BY <1>1, <1>6, <1>7, <1>10 DEF RInv, Sole
<1>12. MintTyped'
  BY <1>3, <1>4 DEF MintTyped
<1>13. \A c : c \in intent' /\ c \notin intent => \A q \in Callers : c \notin call[q].id
  BY <1>3
<1> QED
  BY <1>1, <1>6, <1>9, <1>11, <1>12, <1>13, OnlyCalls

LEMMA NewChannelKeeps ==
    ASSUME RInv, NEW p \in Callers, rpc_channel_create(p)
    PROVE  RInv'
<1>1. UNCHANGED <<group, row, mirror, ready, lock, intent, undelivered, raced, faults>> /\ minted < Len(Ids) /\ minted' = minted + 1
  BY DEF rpc_channel_create
<1>2. PICK id \in Channels : id = Ids[minted + 1] /\ id # Root /\ Fresh(id) /\ \A q \in Callers : id \notin call[q].id
  BY <1>1, Minting
<1>3. Fresh(id)'
  BY <1>1, <1>2 DEF Fresh
<1>4. Enter(p, "create", id, id, Agent, {Root})
  BY <1>2 DEF rpc_channel_create
<1>5. PICK h \in Handlers : call' = [call EXCEPT ![p] = h] /\ h.id = {id} /\ h.op = "create" /\ CallOK(p)'
  BY <1>1, <1>2, <1>3, <1>4, Entered DEF Keys
<1>6. call'[p] = h /\ \A q \in Callers \ {p} : call'[q] = call[q]
  BY <1>5 DEF RInv, CallTyped
<1>7. minted \in 0..Len(Ids) /\ Len(Ids) \in Nat
  BY IdsApart DEF RInv, StoreTyped, MintTyped
<1>8. \A i \in (minted' + 1)..Len(Ids) : /\ i \in (minted + 1)..Len(Ids) /\ Ids[i] # id /\ Fresh(Ids[i])'
                                         /\ \A q \in Callers : Ids[i] \notin call[q].id
  <2> SUFFICES ASSUME NEW i \in (minted' + 1)..Len(Ids)
               PROVE  /\ i \in (minted + 1)..Len(Ids) /\ Ids[i] # id /\ Fresh(Ids[i])'
                      /\ \A q \in Callers : Ids[i] \notin call[q].id
    OBVIOUS
  <2>1. i \in (minted + 1)..Len(Ids) /\ i \in (minted + 2)..Len(Ids)
    BY <1>1, <1>7
  <2>2. Fresh(Ids[i]) /\ \A q \in Callers : Ids[i] \notin call[q].id
    BY <2>1 DEF RInv, Unminted
  <2>3. Fresh(Ids[i])'
    BY <1>1, <2>2 DEF Fresh
  <2>4. Ids[i] # Ids[minted + 1]
    <3>1. \A j \in (minted + 2)..Len(Ids) : Ids[j] # Ids[minted + 1]
      BY <1>1, Minting
    <3> QED
      BY <2>1, <3>1
  <2> QED
    BY <1>2, <2>1, <2>2, <2>3, <2>4
<1>9. Unminted'
  BY <1>5, <1>6, <1>8 DEF Unminted
<1>10. id \notin intent
  BY <1>2 DEF Fresh
<1>11. Sole'
  BY <1>1, <1>2, <1>5, <1>6, <1>10 DEF RInv, Sole
<1>12. MintTyped'
  BY <1>1, <1>7 DEF RInv, StoreTyped, MintTyped
<1> QED
  BY <1>1, <1>5, <1>9, <1>11, <1>12, OnlyCalls

LEMMA StartKeeps ==
    ASSUME RInv, NEW p \in Callers, verify_start_channel_ready(p)
    PROVE  RInv'
<1>1. UNCHANGED <<group, row, mirror, ready, lock, intent, minted, undelivered, raced, faults>>
  BY DEF verify_start_channel_ready
<1>2. PICK ch \in Channels : (ch = Root \/ row[ch] # {}) /\ Enter(p, "start", ch, ch, Agent, {Root})
  BY DEF verify_start_channel_ready
<1>3. PICK h \in Handlers : call' = [call EXCEPT ![p] = h] /\ h.id = {ch} /\ h.op = "start" /\ CallOK(p)'
  BY <1>1, <1>2, Entered DEF Keys
<1>4. call'[p] = h /\ \A q \in Callers \ {p} : call'[q] = call[q]
  BY <1>3 DEF RInv, CallTyped
<1>5. minted \in 0..Len(Ids)
  BY DEF RInv, StoreTyped, MintTyped
<1>6. \A i \in (minted + 1)..Len(Ids) : Ids[i] # ch /\ Fresh(Ids[i])' /\ \A q \in Callers : Ids[i] \notin call[q].id
  <2>1. \A i \in (minted + 1)..Len(Ids) : Ids[i] # Root /\ Fresh(Ids[i]) /\ \A q \in Callers : Ids[i] \notin call[q].id
    BY <1>5, IdsApart DEF RInv, Unminted
  <2> QED
    BY <1>1, <1>2, <2>1 DEF Fresh
<1>7. Unminted'
  BY <1>1, <1>3, <1>4, <1>6 DEF Unminted
<1>8. \A q \in Callers : call[q].op = "create" => \A c \in call[q].id : c # Root /\ (c = ch => row[c] # {})
  BY <1>2 DEF RInv, CallOK, Creating
<1>9. Sole'
  BY <1>1, <1>3, <1>4, <1>8 DEF RInv, Sole
<1>10. MintTyped'
  BY <1>1 DEF RInv, StoreTyped, MintTyped
<1> QED
  BY <1>1, <1>3, <1>7, <1>9, <1>10, OnlyCalls

\* What happens around the handlers.
LEMMA Around ==
    ASSUME RInv, UNCHANGED <<lock, intent, minted, call>>, Grows, StoreTyped', Backed',
           \A c \in Channels : Fresh(c) => Fresh(c)'
    PROVE  RInv'
<1>1. CallTyped'
  BY DEF RInv, CallTyped
<1>2. minted \in 0..Len(Ids)
  BY DEF RInv, StoreTyped, MintTyped
<1>3. \A i \in (minted + 1)..Len(Ids) : Fresh(Ids[i])'
  <2>1. \A i \in (minted + 1)..Len(Ids) : Ids[i] \in Channels /\ Fresh(Ids[i])
    BY <1>2, IdsApart DEF RInv, Unminted
  <2> QED
    BY <2>1
<1>4. Unminted' /\ Sole'
  BY <1>1, <1>3, MintKept
<1>5. \A q \in Callers : CallOK(q)'
  BY <1>1, Still
<1> QED
  BY <1>1, <1>4, <1>5 DEF RInv

\* A member that leaves.
LEMMA RemovalKeeps ==
    ASSUME RInv, NEW ch \in Channels, Exists(ch), remove_user(ch, Agent),
           UNCHANGED <<row, ready, lock, intent, minted, call, raced>>, faults' \in 0..MaxFaults,
           mirror' = mirror \/ mirror' = [mirror EXCEPT ![ch].members = @ \ {Agent}]
    PROVE  RInv'
<1>1. PICK as \in SUBSET Keys, ms \in SUBSET Keys :
        as = Admins(ch) /\ ms = Members(ch) \ {Agent} /\ as \cap ms = {}
  <2>1. Admins(ch) \subseteq Keys /\ Members(ch) \subseteq Keys /\ Admins(ch) \cap Members(ch) = {}
    BY StoreFacts, TheGroup
  <2>2. Admins(ch) \in SUBSET Keys /\ Members(ch) \ {Agent} \in SUBSET Keys /\ Admins(ch) \cap (Members(ch) \ {Agent}) = {}
    BY <2>1
  <2> QED
    BY <2>2, Zenon
<1>2. SetRoster(ch, as, ms)
  BY <1>1 DEF remove_user
<1>3. /\ GroupTyped' /\ Admins(ch)' = as /\ \A c \in Channels \ {ch} : group'[c] = group[c]
      /\ undelivered' = undelivered \cup {ch}
  <2>1. GroupTyped /\ as \cap ms = {}
    BY <1>1, StoreFacts
  <2> QED
    BY <1>2, <2>1, RosterEdit
<1>4. \A c \in Channels \ {ch} : Admins(c)' = Admins(c) /\ \A k : OnRelay(c, k)' <=> OnRelay(c, k)
  BY <1>3, SameGroup
<1>5. undelivered \subseteq undelivered' /\ undelivered' \subseteq Channels /\ ch \in undelivered'
  BY <1>3, StoreFacts
<1>6. Grows
  BY <1>1, <1>3, <1>4, <1>5 DEF Grows
<1>7. /\ MirrorTyped' /\ \A c \in Channels : /\ mirror'[c].admins = mirror[c].admins
                                             /\ mirror'[c].members \subseteq mirror[c].members
  <2>1. CASE mirror' = mirror
    BY <2>1, StoreFacts
  <2>2. CASE mirror' = [mirror EXCEPT ![ch].members = @ \ {Agent}]
    <3>1. MirrorTyped /\ mirror \in [Channels -> Rosters] /\ mirror[ch] \in Rosters /\ mirror[ch].admins \cap mirror[ch].members = {}
      BY StoreFacts DEF MirrorTyped
    <3>2. PICK r \in Rosters : /\ r = [mirror[ch] EXCEPT !.members = @ \ {Agent}]
                               /\ r.admins = mirror[ch].admins /\ r.members = mirror[ch].members \ {Agent}
      <4>1. [mirror[ch] EXCEPT !.members = @ \ {Agent}] \in Rosters
        BY <3>1 DEF Rosters
      <4> QED
        BY <3>1, <4>1 DEF Rosters
    <3>3. mirror' = [mirror EXCEPT ![ch] = r]
      BY <2>2, <3>1, <3>2
    <3>4. MirrorTyped' /\ mirror'[ch] = r /\ \A c \in Channels \ {ch} : mirror'[c] = mirror[c]
      <4>1. r.admins \cap r.members = {}
        BY <3>1, <3>2
      <4> QED
        BY <3>1, <3>3, <4>1, MirrorEdit
    <3> QED
      BY <3>2, <3>4
  <2> QED
    BY <2>1, <2>2
<1>8. RowTyped' /\ LockTyped' /\ MintTyped' /\ FlagsTyped'
  BY <1>5 DEF RInv, StoreTyped, RowTyped, LockTyped, MintTyped, FlagsTyped
<1>9. StoreTyped'
  BY <1>3, <1>7, <1>8 DEF StoreTyped
<1>10. Backed'
  BY <1>5, <1>6, <1>7, <1>8, BackedKept DEF RInv
<1>11. \A c \in Channels : Fresh(c) => Fresh(c)'
  BY <1>3 DEF Fresh, Exists
<1> QED
  BY <1>6, <1>9, <1>10, <1>11, Around

LEMMA RemovesKeep ==
    ASSUME RInv, (\E p \in Callers : archive_channel(p)) \/ (\E ch \in Channels : RemoteRemoves(ch))
    PROVE  RInv'
<1>1. ASSUME NEW p \in Callers, archive_channel(p) PROVE RInv'
  <2>1. PICK ch \in Channels : Exists(ch) /\ remove_user(ch, Agent) /\ mirror' = [mirror EXCEPT ![ch].members = @ \ {Agent}]
    BY <1>1 DEF archive_channel
  <2>2. UNCHANGED <<row, ready, lock, intent, minted, call, raced>> /\ faults' \in 0..MaxFaults
    BY <1>1, StoreFacts DEF archive_channel
  <2> QED
    BY <2>1, <2>2, RemovalKeeps
<1>2. ASSUME NEW ch \in Channels, RemoteRemoves(ch) PROVE RInv'
  <2>1. Exists(ch) /\ remove_user(ch, Agent) /\ mirror' = mirror
    BY <1>2 DEF RemoteRemoves, Members
  <2>2. UNCHANGED <<row, ready, lock, intent, minted, call, raced>> /\ faults' \in 0..MaxFaults
    BY <1>2, StoreFacts DEF RemoteRemoves
  <2> QED
    BY <2>1, <2>2, RemovalKeeps
<1> QED
  BY <1>1, <1>2

LEMMA SnapshotKeeps ==
    ASSUME RInv, NEW ch \in Channels, MaterializeRoster(ch)
    PROVE  RInv'
<1>1. /\ UNCHANGED <<group, row, lock, intent, minted, call, faults>> /\ ch \in undelivered
      /\ undelivered' = undelivered \ {ch}
      /\ raced' = IF lock[ch] # {} THEN raced \cup {ch} ELSE raced
      /\ ready' = {s \in ready : s[1] # ch}
  BY DEF MaterializeRoster, invalidate_channel
<1>2. \A c \in Channels : Admins(c)' = Admins(c) /\ \A k : OnRelay(c, k)' <=> OnRelay(c, k)
  BY <1>1, SameGroup
<1>3. Grows
  BY <1>1, <1>2 DEF Grows
<1>4. PICK r \in Rosters : /\ r = [admins |-> Admins(ch), members |-> Members(ch), snap |-> TRUE]
                           /\ r.admins = Admins(ch) /\ r.members = Members(ch) /\ r.admins \cap r.members = {}
  <2>1. Admins(ch) \subseteq Keys /\ Members(ch) \subseteq Keys /\ Admins(ch) \cap Members(ch) = {}
    BY StoreFacts, TheGroup
  <2>2. [admins |-> Admins(ch), members |-> Members(ch), snap |-> TRUE] \in Rosters
    BY <2>1 DEF Rosters
  <2> QED
    BY <2>1, <2>2
<1>5. mirror' = [mirror EXCEPT ![ch] = r]
  BY <1>4 DEF MaterializeRoster
<1>6. MirrorTyped' /\ mirror'[ch] = r /\ \A c \in Channels \ {ch} : mirror'[c] = mirror[c]
  <2>1. MirrorTyped
    BY StoreFacts
  <2> QED
    BY <1>4, <1>5, <2>1, MirrorEdit
<1>7. GroupTyped' /\ RowTyped' /\ LockTyped' /\ MintTyped'
  BY <1>1 DEF RInv, StoreTyped, GroupTyped, RowTyped, LockTyped, MintTyped
<1>8. FlagsTyped'
  BY <1>1 DEF RInv, StoreTyped, FlagsTyped
<1>9. StoreTyped'
  BY <1>6, <1>7, <1>8 DEF StoreTyped
<1>10. \A c \in Channels \ {ch} : Doubtful(c) => Doubtful(c)'
  BY <1>1 DEF Doubtful
<1>11. MirrorBacked'
  <2> SUFFICES ASSUME NEW c \in Channels
               PROVE  mirror'[c].admins \subseteq Admins(c)' /\ \A k \in mirror'[c].members : OnRelay(c, k)' \/ Doubtful(c)'
    BY DEF MirrorBacked
  <2>1. CASE c = ch
    <3>1. \A k \in Members(ch) : OnRelay(ch, k)
      BY DEF OnRelay
    <3> QED
      BY <1>2, <1>4, <1>6, <2>1, <3>1
  <2>2. CASE c # ch
    <3>1. mirror[c].admins \subseteq Admins(c) /\ \A k \in mirror[c].members : OnRelay(c, k) \/ Doubtful(c)
      BY DEF RInv, Backed, MirrorBacked
    <3>2. mirror'[c] = mirror[c] /\ (Doubtful(c) => Doubtful(c)')
      BY <1>6, <1>10, <2>2
    <3> QED
      BY <1>2, <3>1, <3>2
  <2> QED
    BY <2>1, <2>2
<1>12. ReadyBacked' /\ Governed'
  <2> SUFFICES ASSUME NEW s \in ready, s[1] # ch
               PROVE  (OnRelay(s[1], s[2])' \/ Doubtful(s[1])') /\ {Mgmt, Op} \subseteq Admins(s[1])'
    BY <1>1 DEF ReadyBacked, Governed, Doubtful
  <2>1. s[1] \in Channels \ {ch}
    BY DEF RInv, StoreTyped, FlagsTyped
  <2>2. (OnRelay(s[1], s[2]) \/ Doubtful(s[1])) /\ {Mgmt, Op} \subseteq Admins(s[1])
    BY DEF RInv, Backed, ReadyBacked, Governed, Doubtful
  <2> QED
    BY <1>2, <1>10, <2>1, <2>2
<1>13. \A c \in Channels : Fresh(c) => Fresh(c)'
  BY <1>1 DEF Fresh
<1> QED
  BY <1>1, <1>3, <1>9, <1>11, <1>12, <1>13, Around DEF Backed

LEMMA MetadataKeeps ==
    ASSUME RInv, NEW ch \in Channels, MaterializeMetadata(ch)
    PROVE  RInv'
<1>1. UNCHANGED <<group, mirror, ready, lock, intent, minted, call, undelivered, raced, faults>> /\ Exists(ch)
  BY DEF MaterializeMetadata
<1>2. RowTyped' /\ (\A c \in Channels \ {ch} : row'[c] = row[c]) /\ (row[ch] # {} => row'[ch] # {})
  <2>1. row' = Materialized(ch)
    BY DEF MaterializeMetadata
  <2> QED
    BY <2>1, StoreFacts, MetadataRow
<1>3. \A c \in Channels : Admins(c)' = Admins(c) /\ \A k : OnRelay(c, k)' <=> OnRelay(c, k)
  BY <1>1, SameGroup
<1>4. Grows
  BY <1>1, <1>2, <1>3 DEF Grows
<1>5. GroupTyped' /\ MirrorTyped' /\ LockTyped' /\ MintTyped' /\ FlagsTyped'
  BY <1>1 DEF RInv, StoreTyped, GroupTyped, MirrorTyped, LockTyped, MintTyped, FlagsTyped
<1>6. StoreTyped'
  BY <1>2, <1>5 DEF StoreTyped
<1>7. Backed'
  BY <1>1, <1>4, <1>5, BackedKept DEF RInv
<1>8. \A c \in Channels : Fresh(c) => Fresh(c)'
  BY <1>1, <1>2 DEF Fresh, Exists
<1> QED
  BY <1>1, <1>4, <1>6, <1>7, <1>8, Around

LEMMA ExpiryKeeps ==
    ASSUME RInv, Expires
    PROVE  RInv'
<1>1. UNCHANGED <<group, row, mirror, lock, intent, minted, call, undelivered, raced>> /\ ready' \subseteq ready
  BY DEF Expires
<1>2. faults' \in 0..MaxFaults
  BY StoreFacts DEF Expires
<1>3. \A c \in Channels : Admins(c)' = Admins(c) /\ \A k : OnRelay(c, k)' <=> OnRelay(c, k)
  BY <1>1, SameGroup
<1>4. Grows
  BY <1>1, <1>3 DEF Grows
<1>5. GroupTyped' /\ RowTyped' /\ MirrorTyped' /\ LockTyped' /\ MintTyped'
  BY <1>1 DEF RInv, StoreTyped, GroupTyped, RowTyped, MirrorTyped, LockTyped, MintTyped
<1>6. FlagsTyped'
  BY <1>1, <1>2 DEF RInv, StoreTyped, FlagsTyped
<1>7. Backed'
  BY <1>1, <1>4, <1>6, BackedKept DEF RInv
<1>8. \A c \in Channels : Fresh(c) => Fresh(c)'
  BY <1>1 DEF Fresh
<1> QED
  BY <1>1, <1>4, <1>5, <1>6, <1>7, <1>8, Around DEF StoreTyped

LEMMA IdleHandler == Idle \in Handlers /\ Idle.frames = <<>> /\ Idle.op = "none" /\ Idle.id = {}
  BY DEF Idle, Handlers

LEMMA RestartKeeps ==
    ASSUME RInv, Restart
    PROVE  RInv'
<1>1. UNCHANGED <<group, row, mirror, intent, minted, undelivered, raced>> /\ ready' = {} /\ lock' = [c \in Channels |-> {}]
  BY DEF Restart
<1>2. faults' \in 0..MaxFaults
  BY StoreFacts DEF Restart
<1>3. Idle \in Handlers /\ Idle.id = {} /\ Idle.op = "none"
  BY IdleHandler
<1>4. call' = [p \in Callers |-> IF call[p].st = "done" THEN call[p] ELSE Idle]
  BY DEF Restart
<1>5. CallTyped' /\ \A p \in Callers : call'[p] = (IF call[p].st = "done" THEN call[p] ELSE Idle)
  BY <1>3, <1>4 DEF RInv, CallTyped
<1>6. \A p \in Callers : call'[p].id \subseteq call[p].id /\ (call'[p].op = "create" => call[p].op = "create")
  BY <1>3, <1>5
<1>7. \A c \in Channels : Admins(c)' = Admins(c) /\ \A k : OnRelay(c, k)' <=> OnRelay(c, k)
  BY <1>1, SameGroup
<1>8. Grows
  BY <1>1, <1>7 DEF Grows
<1>9. GroupTyped' /\ RowTyped' /\ MirrorTyped' /\ LockTyped' /\ MintTyped'
  BY <1>1 DEF RInv, StoreTyped, GroupTyped, RowTyped, MirrorTyped, LockTyped, MintTyped
<1>10. FlagsTyped'
  BY <1>1, <1>2 DEF RInv, StoreTyped, FlagsTyped
<1>11. Backed'
  BY <1>1, <1>8, <1>10, BackedKept DEF RInv
<1>12. \A i \in (minted + 1)..Len(Ids) : Fresh(Ids[i])'
  BY <1>1 DEF RInv, Unminted, Fresh
<1>13. Unminted' /\ Sole'
  BY <1>1, <1>5, <1>6, <1>8, <1>12, MintKept
<1>14. \A p \in Callers : CallOK(p)'
  <2> SUFFICES ASSUME NEW p \in Callers PROVE CallOK(p)'
    OBVIOUS
  <2>1. CASE call[p].st # "done"
    BY <1>5, <2>1, IdleOK
  <2>2. CASE call[p].st = "done"
    <3>1. call'[p] = call[p] /\ CallOK(p)
      BY <1>5, <2>2 DEF RInv
    <3>2. call[p].frames = <<>>
      BY <2>2, <3>1 DEF CallOK, Stacked
    <3>3. Stacked(p)' /\ Checked(p)' /\ Creating(p)'
      BY <1>1, <2>2, <3>1, <3>2 DEF CallOK, Stacked, Checked, Creating, Running
    <3> QED
      BY <3>3 DEF CallOK
  <2> QED
    BY <2>1, <2>2
<1> QED
  BY <1>5, <1>9, <1>10, <1>11, <1>13, <1>14 DEF RInv, StoreTyped

-----------------------------------------------------------------------------
(* Readiness: the theorem.                                                  *)

LEMMA ReadinessInitially ==
    ASSUME ReadinessInit
    PROVE  RInv
<1>1. PICK t \in Traffic :
        /\ group = [c \in Channels |-> IF c # Root \/ t.start = "fresh" THEN {}
                                       ELSE RootGroup(IF t.start = "foreign" THEN {Op} ELSE {Mgmt, Op})]
        /\ row = [c \in Channels |-> IF c = Root /\ t.start = "known" THEN {[parent |-> {}, name |-> Root]} ELSE {}]
        /\ mirror = [c \in Channels |-> IF c = Root /\ t.start = "known"
                                        THEN [admins |-> {Mgmt, Op}, members |-> {}, snap |-> TRUE]
                                        ELSE [admins |-> {}, members |-> {}, snap |-> FALSE]]
  BY DEF ReadinessInit
<1>2. /\ ready = {} /\ lock = [c \in Channels |-> {}] /\ intent = {} /\ minted = 0
      /\ call = [p \in Callers |-> Idle] /\ undelivered = {} /\ raced = {} /\ faults = 0
  BY DEF ReadinessInit
<1>3. Root \in Channels /\ Len(Ids) \in Nat /\ MaxFaults \in Nat
  BY IdsApart, ReadinessConstants DEF Channels
<1>4. PICK gs \in SUBSET Groups, as \in SUBSET Keys :
        /\ gs = RootGroup(as) /\ as = (IF t.start = "foreign" THEN {Op} ELSE {Mgmt, Op})
        /\ \A g, h \in gs : g = h
        /\ \A g \in gs : g.parent = {} /\ g.admins = as /\ g.members = {}
  <2>1. PICK as \in SUBSET Keys : as = (IF t.start = "foreign" THEN {Op} ELSE {Mgmt, Op})
    <3>1. (IF t.start = "foreign" THEN {Op} ELSE {Mgmt, Op}) \in SUBSET Keys
      BY DEF Keys
    <3> QED
      BY <3>1
  <2>2. PICK g \in Groups : /\ g = [parent |-> {}, name |-> Root, admins |-> as, members |-> {}]
                            /\ g.parent = {} /\ g.admins = as /\ g.members = {}
    <3>1. [parent |-> {}, name |-> Root, admins |-> as, members |-> {}] \in Groups
      BY DEF Groups, Parents, Names
    <3> QED
      BY <3>1
  <2>3. PICK gs \in SUBSET Groups : gs = {g}
    OBVIOUS
  <2>4. RootGroup(as) = gs
    BY <2>2, <2>3 DEF RootGroup
  <2>5. (\A x, y \in gs : x = y) /\ \A x \in gs : x.parent = {} /\ x.admins = as /\ x.members = {}
    BY <2>2, <2>3
  <2> QED
    BY <2>1, <2>4, <2>5
<1>5. /\ group \in [Channels -> SUBSET Groups]
      /\ \A c \in Channels : group[c] = (IF c # Root \/ t.start = "fresh" THEN {} ELSE gs)
  BY <1>1, <1>4
<1>6. GroupTyped
  BY <1>4, <1>5 DEF GroupTyped, ParentOf
<1>7. PICK m \in Metas : m = [parent |-> {}, name |-> Root] /\ m.parent = {}
  <2>1. [parent |-> {}, name |-> Root] \in Metas
    BY DEF Metas, Parents, Names
  <2> QED
    BY <2>1
<1>8. row \in [Channels -> SUBSET Metas] /\ \A c \in Channels : row[c] = (IF c = Root /\ t.start = "known" THEN {m} ELSE {})
  BY <1>1, <1>7
<1>9. RowTyped
  BY <1>7, <1>8 DEF RowTyped, ParentOf
<1>10. PICK r \in Rosters, s \in Rosters :
         /\ r = [admins |-> {Mgmt, Op}, members |-> {}, snap |-> TRUE] /\ s = [admins |-> {}, members |-> {}, snap |-> FALSE]
         /\ r.admins = {Mgmt, Op} /\ r.members = {} /\ s.admins = {} /\ s.members = {}
  <2>1. [admins |-> {Mgmt, Op}, members |-> {}, snap |-> TRUE] \in Rosters
    BY DEF Rosters, Keys
  <2>2. [admins |-> {}, members |-> {}, snap |-> FALSE] \in Rosters
    BY DEF Rosters
  <2> QED
    BY <2>1, <2>2
<1>11. mirror \in [Channels -> Rosters] /\ \A c \in Channels : mirror[c] = (IF c = Root /\ t.start = "known" THEN r ELSE s)
  BY <1>1, <1>10
<1>12. MirrorTyped
  BY <1>10, <1>11 DEF MirrorTyped
<1>13. LockTyped /\ MintTyped /\ FlagsTyped
  BY <1>2, <1>3 DEF LockTyped, MintTyped, FlagsTyped
<1>14. MirrorBacked
  <2> SUFFICES ASSUME NEW c \in Channels
               PROVE  mirror[c].admins \subseteq Admins(c) /\ \A k \in mirror[c].members : OnRelay(c, k) \/ Doubtful(c)
    BY DEF MirrorBacked
  <2>1. CASE c = Root /\ t.start = "known"
    <3>1. group[c] = gs /\ gs # {}
      BY <1>4, <1>5, <2>1 DEF RootGroup
    <3>2. Admins(c) = as
      BY <1>4, <1>6, <3>1, TheGroup
    <3> QED
      BY <1>4, <1>10, <1>11, <2>1, <3>2
  <2>2. CASE ~(c = Root /\ t.start = "known")
    BY <1>10, <1>11, <2>2
  <2> QED
    BY <2>1, <2>2
<1>15. Backed
  BY <1>2, <1>14 DEF Backed, ReadyBacked, Governed
<1>16. CallTyped /\ \A p \in Callers : call[p] = Idle
  BY <1>2, IdleHandler DEF CallTyped
<1>17. Idle.frames = <<>> /\ Idle.op = "none" /\ Idle.id = {}
  BY IdleHandler
<1>18. \A p \in Callers : CallOK(p)
  BY <1>16, <1>17 DEF CallOK, Stacked, Checked, Creating, Running
<1>19. Unminted /\ Sole
  <2>1. \A i \in 1..Len(Ids) : Ids[i] \in Channels /\ Ids[i] # Root
    BY IdsApart
  <2>2. \A c \in Channels : c # Root => Fresh(c)
    BY <1>2, <1>5, <1>8 DEF Fresh
  <2> QED
    BY <1>2, <1>16, <1>17, <2>1, <2>2 DEF Unminted, Sole
<1> QED
  BY <1>6, <1>9, <1>12, <1>13, <1>15, <1>16, <1>18, <1>19 DEF RInv, StoreTyped

LEMMA ReadinessInductive ==
    ASSUME RInv, [ReadinessNext]_readinessVars
    PROVE  RInv'
<1>1. CASE UNCHANGED readinessVars
  <2>1. UNCHANGED <<group, row, mirror, ready, lock, intent, minted, call, undelivered, raced, faults>>
    BY <1>1 DEF readinessVars
  <2>2. \A c \in Channels : Admins(c)' = Admins(c) /\ \A k : OnRelay(c, k)' <=> OnRelay(c, k)
    BY <2>1, SameGroup
  <2>3. Grows
    BY <2>1, <2>2 DEF Grows
  <2>4. StoreTyped'
    BY <2>1 DEF RInv, StoreTyped, GroupTyped, RowTyped, MirrorTyped, LockTyped, MintTyped, FlagsTyped
  <2>5. Backed'
    BY <2>1, <2>3, <2>4, BackedKept DEF RInv, StoreTyped
  <2>6. \A c \in Channels : Fresh(c) => Fresh(c)'
    BY <2>1 DEF Fresh
  <2> QED
    BY <2>1, <2>3, <2>4, <2>5, <2>6, Around
<1>2. ASSUME NEW p \in Callers, ReadinessStep(p) PROVE RInv'
  BY <1>2, CheckKeeps, FetchKeeps, CreateKeeps, PollKeeps, SelfGrantKeeps, ConfirmKeeps,
     GrantKeeps, MemberKeeps, MarkKeeps, FinishKeeps DEF ReadinessStep
<1>3. ASSUME NEW p \in Callers,
             \/ ResolveHit(p) \/ resolve_channel(p) \/ rpc_channel_create(p)
             \/ verify_start_channel_ready(p) \/ archive_channel(p) \/ ReadFails(p) \/ TimesOut(p)
      PROVE  RInv'
  BY <1>3, HitKeeps, ResolveKeeps, NewChannelKeeps, StartKeeps, RemovesKeep, ReadFailsKeeps
<1>4. ASSUME NEW ch \in Channels, MaterializeRoster(ch) \/ MaterializeMetadata(ch) \/ RemoteRemoves(ch)
      PROVE  RInv'
  BY <1>4, SnapshotKeeps, MetadataKeeps, RemovesKeep
<1> QED
  BY <1>1, <1>2, <1>3, <1>4, ExpiryKeeps, RestartKeeps DEF ReadinessNext

\* A channel has at most one state, row and lock holder: as sets, of at most one element.
LEMMA AtMostOne ==
    ASSUME NEW S, \A x, y \in S : x = y
    PROVE  Cardinality(S) <= 1
<1>1. CASE S = {}
  BY <1>1, FS_EmptySet
<1>2. CASE S # {}
  <2>1. PICK x \in S : S = {x}
    BY <1>2
  <2> QED
    BY <2>1, FS_Singleton
<1> QED
  BY <1>1, <1>2

LEMMA ReadinessImplied ==
    ASSUME RInv
    PROVE  ReadinessSafe
<1>1. \A c \in Channels : Cardinality(group[c]) <= 1 /\ Cardinality(row[c]) <= 1 /\ Cardinality(lock[c]) <= 1
  <2> SUFFICES ASSUME NEW c \in Channels
               PROVE  Cardinality(group[c]) <= 1 /\ Cardinality(row[c]) <= 1 /\ Cardinality(lock[c]) <= 1
    OBVIOUS
  <2>1. (\A x, y \in group[c] : x = y) /\ (\A x, y \in row[c] : x = y) /\ (\A x, y \in lock[c] : x = y)
    BY StoreFacts DEF GroupTyped, RowTyped, LockTyped
  <2> QED
    BY <2>1, AtMostOne
<1>2. \A c \in Channels : mirror[c] \in Rosters /\ mirror[c].admins \cap mirror[c].members = {}
  BY StoreFacts DEF MirrorTyped
<1>3. \A p \in Callers : Len(call[p].frames) <= 2
  BY DEF RInv, CallOK, Stacked
<1>4. ReadinessTypeOK
  BY <1>1, <1>2, <1>3 DEF RInv, StoreTyped, MintTyped, FlagsTyped, ReadinessTypeOK, Rosters
<1>5. CreatedIsMaterialized
  <2> SUFFICES ASSUME NEW p \in Callers, call[p].op = "create", NEW c \in call[p].got
               PROVE  \E m \in row[c] : m.parent = {Root}
    BY DEF CreatedIsMaterialized
  <2>1. call[p] \in Handlers /\ Creating(p) /\ Stacked(p)
    BY DEF RInv, CallTyped, CallOK
  <2>2. c \in Channels /\ c \in call[p].id /\ c # Root
    BY <2>1 DEF Handlers, Creating
  <2>3. call[p].st = "done"
    BY <2>1 DEF Creating
  <2>4. row[c] # {}
    BY <2>1, <2>2, <2>3 DEF Creating
  <2> QED
    BY <2>2, <2>4, StoreFacts DEF RowTyped, ParentOf
<1> QED
  BY <1>4, <1>5 DEF RInv, Backed, ReadinessSafe

\* A readiness check that passes may be relied on, whatever it raced with: see ReadinessSafe.
THEOREM ReadinessSafeCorrect == ReadinessSpec => []ReadinessSafe
<1>1. ReadinessInit => RInv
  BY ReadinessInitially
<1>2. RInv /\ [ReadinessNext]_readinessVars => RInv'
  BY ReadinessInductive
<1>3. RInv => ReadinessSafe
  BY ReadinessImplied
<1> QED
  BY <1>1, <1>2, <1>3, PTL DEF ReadinessSpec

=============================================================================
