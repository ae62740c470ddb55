------------------------- MODULE FabricIngestProofs -------------------------
(***************************************************************************)
(* FabricIngest for every set of events, pubkeys and roster versions and   *)
(* every number of handlers and faults: a member's chat is not dropped, a  *)
(* claim has one handler for each handler that outlived its lease and one  *)
(* more, nothing is launched or executed that was not authorized, and a    *)
(* completed claim stays completed.                                        *)
(*                                                                         *)
(* The argument: a claim that cannot be taken pays for one handler, and    *)
(* each expired lease for another; a handler past its authorization keeps  *)
(* what it was authorized by, because rosters and inbox rows are not taken *)
(* back; and each kind of roster rewrites only the rows of its own role.   *)
(***************************************************************************)
EXTENDS FabricIngest, FiniteSetTheorems, TLAPS

-----------------------------------------------------------------------------
(* The invariant.                                                          *)

Roles == {"admin", "member"}
ClaimRecord == [state : {"none", "pending", "processing", "completed"}, old : BOOLEAN]
JobKinds == {"mention", "orchestrate", "dispatch", "command"}
JobPcs == {"start", "launch", "confirm", "authorize", "claim", "work", "execute", "complete"}
JobRecord == [e : Events, n : 1..MaxJobs, kind : JobKinds, k : Keys, i : 1..2, pc : JobPcs]

\* p is on the admins or on the members at some version the relay has had.
Listed(p) == \E v \in 1..relayv : p \in AdminRoster[v] \cup MemberRoster[v]
WasAdmin(p) == \E v \in 1..relayv : p \in AdminRoster[v]

Versions ==
    /\ relayv \in 1..Len(AdminRoster)
    /\ hw \in [Roles -> Nat] /\ \A r \in Roles : hw[r] <= relayv

\* The row of a pubkey comes from the snapshot of its role last applied.
RowsBacked ==
    \A p \in DOMAIN mirror :
        \/ mirror[p] = "admin" /\ hw["admin"] > 0 /\ p \in AdminRoster[hw["admin"]]
        \/ mirror[p] = "member" /\ hw["member"] > 0 /\ p \in MemberRoster[hw["member"]]

AdminsMirrored ==
    hw["admin"] > 0 =>
        \A p \in AdminRoster[hw["admin"]] : p \in DOMAIN mirror /\ mirror[p] = "admin"

\* The second half of AlwaysMember.
Loyal(p) ==
    \A v \in DOMAIN MemberRoster :
        /\ p \in MemberRoster[v]
        /\ p \in AdminRoster[v] => \A w \in DOMAIN AdminRoster : w >= v => p \in AdminRoster[w]

\* Who is a member throughout keeps a row, of one role or the other.
LoyalMirrored == hw["member"] > 0 => \A p : Loyal(p) => p \in DOMAIN mirror

Rosters == Versions /\ RowsBacked /\ AdminsMirrored /\ LoyalMirrored

\* Only published events are anywhere; a chat that is stored is a listed author's,
\* and that of a member throughout is stored or quarantined.
Noted ==
    /\ published \subseteq Events /\ replaying \subseteq published
    /\ seen \in Seq(published)
    /\ quarantine \subseteq published /\ messages \subseteq published
    /\ inbox \subseteq published \X Hosted
Stored == \A e \in messages : Listed(From[e])
Chats == Noted /\ Stored /\ MemberChatKept /\ (has_channel_membership_snapshot => quarantine = {})

ClaimsTyped == claims \in [Events -> [Keys -> ClaimRecord]]
ClaimsPublished == \A e \in Events, k \in Keys : e \notin published => claims[e][k].state = "none"

\* A handler is where its kind takes it, and was authorized before it got there.
MentionOk(j) ==
    /\ j.k \in Hosted /\ j.pc \in {"start", "launch", "confirm"}
    /\ j.pc = "launch" => <<j.e, j.k>> \in inbox
OrchestrateOk(j) ==
    /\ j.k = TargetKey[j.i] /\ j.pc \in {"authorize", "claim", "work"}
    /\ parse_orchestration(Wire[j.e]) # {}
    /\ j.pc # "authorize" => WasAdmin(From[j.e]) \/ From[j.e] \in ChildAdmins
DispatchOk(j) ==
    /\ j.k = "dispatch" /\ j.pc \in {"authorize", "claim", "work"}
    /\ j.pc # "authorize" => Listed(From[j.e])
CommandOk(j) ==
    /\ j.k = "management" /\ j.pc \in {"claim", "work", "execute", "complete"}
    /\ j.pc = "execute" => parse_command(Wire[j.e]) /\ WasAdmin(From[j.e])
JobOk(j) ==
    /\ j \in JobRecord /\ j.e \in published
    /\ j.kind = "mention" => MentionOk(j)
    /\ j.kind = "orchestrate" => OrchestrateOk(j)
    /\ j.kind = "dispatch" => DispatchOk(j)
    /\ j.kind = "command" => CommandOk(j)
Jobs == \A j \in jobs : JobOk(j)

\* The handlers at work on a claim.
AtWork(j) == j.pc \notin {"authorize", "claim"}
Busy(e, k) == {j \in jobs : j.e = e /\ j.k = k /\ AtWork(j)}

\* A claim that cannot be taken pays for one of them, each expired lease for another.
Paid(e, k) == slow + IF claimable(claims[e][k]) THEN 0 ELSE 1
Counted(e, k) == IsFiniteSet(Busy(e, k)) /\ Cardinality(Busy(e, k)) <= Paid(e, k)
Counts == slow \in Nat /\ \A e \in Events, k \in Keys : Counted(e, k)

\* What a key other than a pubkey stands for was authorized.
Authorized(e, k) ==
    /\ k = "dispatch" => Listed(From[e])
    /\ k \in {"t1", "t2"} =>
         /\ WasAdmin(From[e]) \/ From[e] \in ChildAdmins
         /\ parse_orchestration(Wire[e]) # {} /\ Wire[e].op # "admit"
    /\ k = "management" => WasAdmin(From[e]) /\ parse_command(Wire[e])
Effected(e, k) == Authorized(e, k) /\ (k \in Hosted => <<e, k>> \in inbox)
Effects ==
    /\ effects \in [Events -> [Keys -> Nat]]
    /\ \A e \in Events, k \in Keys : effects[e][k] > 0 => Effected(e, k)

Sessions ==
    /\ sess \in [Hosted -> {"none", "stopped", "running"}]
    /\ route \subseteq Hosted /\ standing \subseteq Hosted /\ acks \subseteq published

IngestInv ==
    /\ Rosters /\ Chats /\ ClaimsTyped /\ ClaimsPublished
    /\ Jobs /\ Counts /\ Effects /\ Sessions

-----------------------------------------------------------------------------
(* Constants and operators.                                                *)

LEMMA RosterFacts ==
    /\ Len(AdminRoster) \in Nat /\ Len(AdminRoster) >= 1
    /\ DOMAIN AdminRoster = 1..Len(AdminRoster) /\ DOMAIN MemberRoster = 1..Len(AdminRoster)
BY RosterAssumption

LEMMA KeyFacts ==
    /\ Hosted \subseteq Keys /\ {"t1", "t2", "dispatch", "management"} \subseteq Keys
    /\ "t1" \notin Hosted /\ "t2" \notin Hosted
    /\ "dispatch" \notin Hosted /\ "management" \notin Hosted
    /\ TargetKey[1] = "t1" /\ TargetKey[2] = "t2"
    /\ MaxJobs \in Nat /\ 1 \in 1..MaxJobs
BY TrafficAssumption DEF Keys, Hosted, TargetKey

\* A well-formed orchestration has the targets its tags name.
LEMMA AddsOf ==
    ASSUME NEW e \in Events, parse_orchestration(Wire[e]) # {}
    PROVE  Adds(e) = Wire[e].adds /\ Len(Adds(e)) \in 0..2
<1> DEFINE w == Wire[e]
<1>1. ASSUME NEW o \in parse_orchestration(w)
      PROVE  o.adds = w.adds
  <2> DEFINE q == [parent |-> w.parent[1], child |-> w.target[1], adds |-> w.adds,
                   running_only |-> w.op = "admit"]
  <2>1. o = q
    BY DEF parse_orchestration
  <2> QED
    BY <2>1
<1>2. (CHOOSE o \in parse_orchestration(w) : TRUE) \in parse_orchestration(w)
  <2>1. \E o : o \in parse_orchestration(w)
    OBVIOUS
  <2> QED
    BY <2>1
<1>3. Adds(e) = w.adds
  BY <1>1, <1>2 DEF Adds
<1> QED
  BY <1>3, TrafficAssumption

-----------------------------------------------------------------------------
(* Rosters.                                                                *)

LEMMA RostersSame ==
    ASSUME Rosters, UNCHANGED <<relayv, hw, mirror>>
    PROVE  Rosters'
BY DEF Rosters, Versions, RowsBacked, AdminsMirrored, LoyalMirrored

\* What the relay has had, it has had.
LEMMA ListedStays ==
    ASSUME relayv \in Nat, relayv' \in Nat, relayv' >= relayv
    PROVE  \A p : (Listed(p) => Listed(p)') /\ (WasAdmin(p) => WasAdmin(p)')
BY DEF Listed, WasAdmin

LEMMA RostersChange ==
    ASSUME Rosters, RosterChanges
    PROVE  Rosters' /\ relayv' >= relayv
<1>1. relayv < Len(AdminRoster) /\ relayv' = relayv + 1 /\ UNCHANGED <<hw, mirror>>
  BY DEF RosterChanges
<1>2. Versions' /\ relayv' >= relayv
  BY <1>1, RosterFacts DEF Rosters, Versions, Roles
<1> QED
  BY <1>1, <1>2 DEF Rosters, RowsBacked, AdminsMirrored, LoyalMirrored

\* The mirror after a role's rows are rewritten.
LEMMA Replaced ==
    ASSUME NEW role \in Roles, NEW v,
           NEW new, new = IF role = "admin" THEN AdminRoster[v] ELSE MemberRoster[v],
           NEW m, m = replace_role(role, v)
    PROVE  /\ \A p : p \in DOMAIN m <=> p \in new \/ (p \in DOMAIN mirror /\ mirror[p] # role)
           /\ \A p \in new : role = "admin" \/ p \notin DOMAIN mirror \/ mirror[p] = role
                               => m[p] = role
           /\ \A p \in DOMAIN m :
                 \/ m[p] = role /\ p \in new
                 \/ /\ p \in DOMAIN mirror /\ m[p] = mirror[p] /\ mirror[p] # role
                    /\ ~(role = "admin" /\ p \in new)
           /\ \A p \in DOMAIN mirror : mirror[p] # role /\ ~(role = "admin" /\ p \in new)
                                       => m[p] = mirror[p]
<1> DEFINE kept == {p \in DOMAIN mirror : mirror[p] # role}
<1>1. m = [p \in kept \cup new |->
             IF p \in new /\ (role = "admin" \/ p \notin kept) THEN role ELSE mirror[p]]
  BY DEF replace_role
<1> QED
  BY <1>1 DEF Roles

\* A snapshot that is not older than the one applied keeps the mirror in order.
LEMMA AppliedAdmins ==
    ASSUME Rosters, NEW v \in 1..relayv, v >= hw["admin"],
           hw' = [hw EXCEPT !["admin"] = v], mirror' = replace_role("admin", v),
           UNCHANGED relayv
    PROVE  Rosters'
<1>1. hw'["admin"] = v /\ hw'["member"] = hw["member"] /\ v > 0 /\ v \in Nat
  BY RosterFacts DEF Rosters, Versions, Roles
<1>2. Versions'
  BY <1>1, RosterFacts DEF Rosters, Versions, Roles
<1> DEFINE new == AdminRoster[v]
<1>3. /\ \A p : p \in DOMAIN mirror' <=> p \in new \/ (p \in DOMAIN mirror /\ mirror[p] # "admin")
      /\ \A p \in new : mirror'[p] = "admin"
      /\ \A p \in DOMAIN mirror' :
           \/ mirror'[p] = "admin" /\ p \in new
           \/ p \in DOMAIN mirror /\ mirror'[p] = mirror[p] /\ mirror[p] # "admin"
  <2>1. "admin" \in Roles
    BY DEF Roles
  <2> QED
    BY <2>1, Replaced
<1> HIDE DEF new
<1>4. RowsBacked'
  BY <1>1, <1>3 DEF Rosters, RowsBacked, new
<1>5. AdminsMirrored'
  BY <1>1, <1>3 DEF AdminsMirrored, new
<1>6. LoyalMirrored'
  <2> SUFFICES ASSUME hw["member"] > 0, NEW p, Loyal(p), p \notin new
               PROVE  p \in DOMAIN mirror /\ mirror[p] # "admin"
    BY <1>1, <1>3 DEF LoyalMirrored, Loyal
  <2>1. p \in DOMAIN mirror
    BY DEF Rosters, LoyalMirrored
  <2>2. mirror[p] = "admin" => hw["admin"] > 0 /\ p \in AdminRoster[hw["admin"]]
    BY <2>1 DEF Rosters, RowsBacked
  <2>3. hw["admin"] \in Nat /\ hw["admin"] <= relayv /\ relayv \in 1..Len(AdminRoster)
    BY DEF Rosters, Versions, Roles
  <2>4. mirror[p] = "admin" => p \in AdminRoster[v]
    BY <2>2, <2>3, RosterFacts DEF Loyal
  <2> QED
    BY <2>1, <2>4 DEF new
<1> QED
  BY <1>2, <1>4, <1>5, <1>6 DEF Rosters

LEMMA AppliedMembers ==
    ASSUME Rosters, NEW v \in 1..relayv, v >= hw["member"],
           hw' = [hw EXCEPT !["member"] = v], mirror' = replace_role("member", v),
           UNCHANGED relayv
    PROVE  Rosters'
<1>1. hw'["member"] = v /\ hw'["admin"] = hw["admin"] /\ v > 0 /\ v \in Nat
  BY RosterFacts DEF Rosters, Versions, Roles
<1>2. Versions'
  BY <1>1, RosterFacts DEF Rosters, Versions, Roles
<1> DEFINE new == MemberRoster[v]
<1>3. /\ \A p : p \in DOMAIN mirror' <=> p \in new \/ (p \in DOMAIN mirror /\ mirror[p] # "member")
      /\ \A p \in DOMAIN mirror' :
           \/ mirror'[p] = "member" /\ p \in new
           \/ p \in DOMAIN mirror /\ mirror'[p] = mirror[p] /\ mirror[p] # "member"
      /\ \A p \in DOMAIN mirror : mirror[p] # "member" => mirror'[p] = mirror[p]
  <2>1. "member" \in Roles
    BY DEF Roles
  <2> QED
    BY <2>1, Replaced
<1> HIDE DEF new
<1>4. RowsBacked'
  BY <1>1, <1>3 DEF Rosters, RowsBacked, new
<1>5. AdminsMirrored'
  BY <1>1, <1>3 DEF Rosters, AdminsMirrored
<1>6. LoyalMirrored'
  <2>1. \A p : Loyal(p) => p \in new
    BY RosterFacts DEF Loyal, new, Rosters, Versions
  <2> QED
    BY <1>3, <2>1 DEF LoyalMirrored, Loyal
<1> QED
  BY <1>2, <1>4, <1>5, <1>6 DEF Rosters

LEMMA RostersMaterialize ==
    ASSUME Rosters, NEW role \in Roles, NEW v \in DOMAIN AdminRoster, materialize_roster(role, v)
    PROVE  Rosters'
<1>1. /\ v <= relayv /\ UNCHANGED relayv
      /\ hw' = IF hw[role] > v THEN hw ELSE [hw EXCEPT ![role] = v]
      /\ mirror' = IF hw[role] > v THEN mirror ELSE replace_role(role, v)
  BY DEF materialize_roster
<1>2. v \in 1..relayv /\ hw[role] \in Nat /\ v \in Nat
  BY <1>1, RosterFacts DEF Rosters, Versions
<1>3. CASE hw[role] > v
  BY <1>1, <1>3, RostersSame
<1>4. CASE ~(hw[role] > v)
  <2>1. v >= hw[role] /\ hw' = [hw EXCEPT ![role] = v] /\ mirror' = replace_role(role, v)
    BY <1>1, <1>2, <1>4
  <2>2. CASE role = "admin"
    BY <1>1, <1>2, <2>1, <2>2, AppliedAdmins
  <2>3. CASE role = "member"
    BY <1>1, <1>2, <2>1, <2>3, AppliedMembers
  <2> QED
    BY <2>2, <2>3 DEF Roles
<1> QED
  BY <1>3, <1>4

\* Once both rosters are known, the mirror holds whoever is a member throughout,
\* and nobody who was never listed.
LEMMA MirrorSound ==
    ASSUME Rosters
    PROVE  /\ \A p \in DOMAIN mirror : Listed(p)
           /\ \A p \in DOMAIN mirror : mirror[p] = "admin" => WasAdmin(p)
           /\ has_channel_membership_snapshot =>
                \A p : AlwaysMember(p) => p \in DOMAIN mirror
<1>1. \A r \in Roles : hw[r] \in Nat /\ hw[r] <= relayv /\ relayv \in 1..Len(AdminRoster)
  BY DEF Rosters, Versions
<1>2. \A r \in Roles : hw[r] > 0 => hw[r] \in 1..relayv /\ hw[r] \in DOMAIN AdminRoster
  BY <1>1, RosterFacts
<1>3. \A p \in DOMAIN mirror : Listed(p)
  BY <1>2 DEF Rosters, RowsBacked, Listed, Roles
<1>4. \A p \in DOMAIN mirror : mirror[p] = "admin" => WasAdmin(p)
  BY <1>2 DEF Rosters, RowsBacked, WasAdmin, Roles
<1>5. ASSUME has_channel_membership_snapshot, NEW p, AlwaysMember(p)
      PROVE  p \in DOMAIN mirror
  <2>1. hw["admin"] > 0 /\ hw["member"] > 0
    BY <1>5 DEF has_channel_membership_snapshot
  <2>2. CASE \A v \in DOMAIN AdminRoster : p \in AdminRoster[v]
    BY <1>2, <2>1, <2>2 DEF Rosters, AdminsMirrored, Roles
  <2>3. CASE Loyal(p)
    BY <2>1, <2>3 DEF Rosters, LoyalMirrored
  <2> QED
    BY <1>5, <2>2, <2>3 DEF AlwaysMember, Loyal
<1> QED
  BY <1>3, <1>4, <1>5

-----------------------------------------------------------------------------
(* Chats.                                                                  *)

SeenEvents == {seen[i] : i \in DOMAIN seen}

\* A step that reads and decides no chat.
LEMMA ChatsSame ==
    ASSUME Rosters, Chats, UNCHANGED <<hw, published, seen, quarantine, messages>>,
           relayv' \in Nat, relayv' >= relayv,
           replaying' \in {replaying, published}, inbox' \subseteq published \X Hosted
    PROVE  Chats'
<1>1. Noted'
  BY DEF Chats, Noted
<1>2. Stored'
  <2>1. relayv \in Nat
    BY RosterFacts DEF Rosters, Versions
  <2> QED
    BY <2>1, ListedStays DEF Chats, Stored
<1>3. MemberChatKept' /\ (has_channel_membership_snapshot => quarantine = {})'
  BY DEF Chats, MemberChatKept, has_channel_membership_snapshot
<1> QED
  BY <1>1, <1>2, <1>3 DEF Chats

LEMMA Routed ==
    ASSUME Sessions, NEW e
    PROVE  route_chat(e) \subseteq {e} \X Hosted
BY DEF route_chat, Sessions

\* Every row of the quarantine is decided by the mirror that is now complete.
LEMMA ChatsMaterialize ==
    ASSUME Rosters, Chats, Sessions,
           NEW role \in Roles, NEW v \in DOMAIN AdminRoster, materialize_roster(role, v)
    PROVE  Chats' /\ inbox \subseteq inbox'
<1>1. Rosters' /\ UNCHANGED <<relayv, published, replaying, seen>>
  BY RostersMaterialize DEF materialize_roster
<1> DEFINE es == {e \in quarantine : From[e] \in DOMAIN mirror'}
<1>2. CASE has_channel_membership_snapshot'
  <2>1. /\ messages' = messages \cup es /\ quarantine' = {}
        /\ inbox' = inbox \cup UNION {route_chat(e) : e \in es}
    BY <1>2 DEF materialize_roster, replay_quarantined_chat, accept_chat,
                has_channel_membership_snapshot
  <2>2. (\A p \in DOMAIN mirror : Listed(p))'
    BY <1>1, MirrorSound, PTL
  <2>3. \A p : AlwaysMember(p) => p \in DOMAIN mirror'
    <3>1. (has_channel_membership_snapshot => \A p : AlwaysMember(p) => p \in DOMAIN mirror)'
      BY <1>1, MirrorSound, PTL
    <3> QED
      BY <1>2, <3>1 DEF AlwaysMember
  <2>4. UNION {route_chat(e) : e \in es} \subseteq published \X Hosted
    BY Routed DEF Chats, Noted
  <2>5. Noted'
    BY <1>1, <2>1, <2>4 DEF Chats, Noted
  <2>6. Stored'
    BY <1>1, <2>1, <2>2 DEF Chats, Stored, Listed
  <2>7. MemberChatKept'
    BY <1>1, <2>1, <2>3 DEF Chats, MemberChatKept, AlwaysMember
  <2> QED
    BY <2>1, <2>5, <2>6, <2>7 DEF Chats
<1>3. CASE ~has_channel_membership_snapshot'
  <2>1. UNCHANGED <<quarantine, messages, inbox>>
    BY <1>3 DEF materialize_roster, has_channel_membership_snapshot
  <2>2. Noted' /\ Stored' /\ MemberChatKept'
    BY <1>1, <2>1 DEF Chats, Noted, Stored, Listed, MemberChatKept, AlwaysMember
  <2> QED
    BY <1>3, <2>1, <2>2 DEF Chats
<1> QED
  BY <1>2, <1>3

LEMMA NotedSeen ==
    ASSUME Noted, NEW e \in published
    PROVE  /\ NoteSeen(e) \in Seq(published)
           /\ \A i \in DOMAIN NoteSeen(e) : NoteSeen(e)[i] \in SeenEvents \cup {e}
<1> DEFINE S == SeenEvents \cup {e}
           noted == IF first_sight(e) THEN Append(seen, e) ELSE seen
<1>1. S \subseteq published /\ e \in S
  BY DEF Noted, SeenEvents
<1>2. seen \in Seq(S)
  BY DEF Noted, SeenEvents
<1> HIDE DEF S
<1>3. noted \in Seq(S)
  BY <1>1, <1>2
<1> HIDE DEF noted
<1>4. NoteSeen(e) = IF Len(noted) > SEEN_EVENTS_CAP THEN Tail(noted) ELSE noted
  BY DEF NoteSeen, noted
<1>5. NoteSeen(e) \in Seq(S)
  BY <1>3, <1>4, TrafficAssumption
<1> QED
  BY <1>1, <1>5 DEF S

\* An author who is a member throughout is not rejected.
LEMMA ChatsIncoming ==
    ASSUME Rosters, Chats, Sessions, NEW e \in Events, handle_incoming(e)
    PROVE  Chats' /\ inbox \subseteq inbox'
<1>1. /\ e \in published /\ UNCHANGED <<relayv, hw, mirror, published>>
      /\ materialize_chat(e, chat_admission(e))
      /\ seen' = NoteSeen(e) /\ replaying' = replaying \ {e}
  BY DEF handle_incoming
<1>2. /\ seen' \in Seq(published)
      /\ \A i \in DOMAIN seen' : seen'[i] \in SeenEvents \cup {e}
  BY <1>1, NotedSeen DEF Chats
<1>3. \A x \in SeenEvents : AlwaysMember(From[x]) => x \in messages \cup quarantine
  BY DEF SeenEvents, Chats, MemberChatKept
<1>4. route_chat(e) \subseteq published \X Hosted
  BY <1>1, Routed
<1> DEFINE Kept == /\ messages' \subseteq published /\ quarantine' \subseteq published
                   /\ inbox' \subseteq published \X Hosted /\ inbox \subseteq inbox'
                   /\ (\A x \in messages' : Listed(From[x]))
                   /\ (has_channel_membership_snapshot => quarantine' = {})
                   /\ \A x \in SeenEvents \cup {e} :
                        AlwaysMember(From[x]) => x \in messages' \cup quarantine'
<1>5. ASSUME chat_admission(e) = "accepted" PROVE Kept
  <2>1. /\ messages' = messages \cup {e} /\ quarantine' = quarantine \ {e}
        /\ inbox' = inbox \cup route_chat(e)
    BY <1>1, <1>5 DEF materialize_chat, accept_chat
  <2>2. From[e] \in DOMAIN mirror
    BY <1>5 DEF chat_admission
  <2>3. Listed(From[e])
    BY <2>2, MirrorSound
  <2>4. /\ messages' \subseteq published /\ quarantine' \subseteq published
        /\ inbox' \subseteq published \X Hosted /\ inbox \subseteq inbox'
    BY <1>1, <1>4, <2>1 DEF Chats, Noted
  <2>5. /\ \A x \in messages' : Listed(From[x])
        /\ has_channel_membership_snapshot => quarantine' = {}
    BY <2>1, <2>3 DEF Chats, Stored
  <2>6. \A x \in SeenEvents \cup {e} : AlwaysMember(From[x]) => x \in messages' \cup quarantine'
    BY <1>3, <2>1
  <2> QED
    BY <2>4, <2>5, <2>6
<1>6. ASSUME chat_admission(e) = "unhydrated" PROVE Kept
  <2>1. quarantine' = quarantine \cup {e} /\ UNCHANGED <<messages, inbox>>
    BY <1>1, <1>6 DEF materialize_chat
  <2>2. ~has_channel_membership_snapshot
    BY <1>6 DEF chat_admission
  <2>3. /\ messages' \subseteq published /\ quarantine' \subseteq published
        /\ inbox' \subseteq published \X Hosted /\ inbox \subseteq inbox'
    BY <1>1, <2>1 DEF Chats, Noted
  <2>4. /\ \A x \in messages' : Listed(From[x])
        /\ has_channel_membership_snapshot => quarantine' = {}
    BY <2>1, <2>2 DEF Chats, Stored
  <2>5. \A x \in SeenEvents \cup {e} : AlwaysMember(From[x]) => x \in messages' \cup quarantine'
    BY <1>3, <2>1
  <2> QED
    BY <2>3, <2>4, <2>5
<1>7. ASSUME chat_admission(e) = "rejected" PROVE Kept
  <2>1. quarantine' = quarantine \ {e} /\ UNCHANGED <<messages, inbox>>
    BY <1>1, <1>7 DEF materialize_chat
  <2>2. has_channel_membership_snapshot /\ From[e] \notin DOMAIN mirror
    BY <1>7 DEF chat_admission
  <2>3. ~AlwaysMember(From[e])
    BY <2>2, MirrorSound
  <2>4. \A x \in SeenEvents \cup {e} : AlwaysMember(From[x]) => x \in messages' \cup quarantine'
    BY <1>3, <2>1, <2>3
  <2>5. /\ messages' \subseteq published /\ quarantine' \subseteq published
        /\ inbox' \subseteq published \X Hosted /\ inbox \subseteq inbox'
    BY <2>1 DEF Chats, Noted
  <2>6. /\ \A x \in messages' : Listed(From[x])
        /\ has_channel_membership_snapshot => quarantine' = {}
    BY <2>1, <2>2 DEF Chats, Stored
  <2> QED
    BY <2>4, <2>5, <2>6
<1> HIDE DEF Kept
<1>8. Kept
  <2>1. chat_admission(e) \in {"accepted", "unhydrated", "rejected"}
    BY DEF chat_admission
  <2> QED
    BY <1>5, <1>6, <1>7, <2>1
<1>9. Noted'
  BY <1>1, <1>2, <1>8 DEF Chats, Noted, Kept
<1>10. Stored' /\ (has_channel_membership_snapshot => quarantine = {})'
  BY <1>1, <1>8 DEF Kept, Stored, Listed, has_channel_membership_snapshot
<1>11. MemberChatKept'
  BY <1>2, <1>8 DEF Kept, MemberChatKept, AlwaysMember
<1> QED
  BY <1>8, <1>9, <1>10, <1>11 DEF Chats, Kept

LEMMA ChatsDispatch ==
    ASSUME Rosters, Chats, NEW e \in Events, rpc_dispatch(e)
    PROVE  Chats' /\ published \subseteq published'
<1>1. /\ published = {} /\ published' = published \cup {e} /\ replaying' = replaying \cup {e}
      /\ UNCHANGED <<relayv, hw, mirror, seen, quarantine, messages, inbox>>
  BY DEF rpc_dispatch, durable
<1>2. seen \in Seq(published')
  BY <1>1 DEF Chats, Noted
<1>3. Noted'
  BY <1>1, <1>2 DEF Chats, Noted
<1>4. Stored' /\ MemberChatKept' /\ (has_channel_membership_snapshot => quarantine = {})'
  BY <1>1 DEF Chats, Stored, Listed, MemberChatKept, AlwaysMember, has_channel_membership_snapshot
<1> QED
  BY <1>1, <1>3, <1>4 DEF Chats

LEMMA ChatsCrash ==
    ASSUME Rosters, Chats, Crash
    PROVE  Chats'
<1>1. /\ seen' = <<>> /\ replaying' = published
      /\ UNCHANGED <<relayv, hw, mirror, published, quarantine, messages, inbox>>
  BY DEF Crash, durable
<1>2. seen' \in Seq(published) /\ DOMAIN seen' = {}
  BY <1>1
<1>3. Noted'
  BY <1>1, <1>2 DEF Chats, Noted
<1>4. Stored' /\ MemberChatKept' /\ (has_channel_membership_snapshot => quarantine = {})'
  BY <1>1, <1>2 DEF Chats, Stored, Listed, MemberChatKept, has_channel_membership_snapshot
<1> QED
  BY <1>3, <1>4 DEF Chats

-----------------------------------------------------------------------------
(* The table of claims, entry by entry.                                    *)

LEMMA Taken ==
    ASSUME ClaimsTyped, NEW e \in Events, NEW ks,
           claims' = claim_orchestration_target(claims, e, ks)
    PROVE  /\ ClaimsTyped'
           /\ \A f \in Events, h \in Keys :
                claims'[f][h] = IF f = e /\ h \in ks THEN Claim("processing", FALSE)
                                ELSE claims[f][h]
<1> DEFINE new == [k \in Keys |-> IF k \in ks THEN Claim("processing", FALSE) ELSE claims[e][k]]
<1>1. Claim("processing", FALSE) \in ClaimRecord
  BY DEF Claim, ClaimRecord
<1>2. new \in [Keys -> ClaimRecord]
  BY <1>1 DEF ClaimsTyped
<1>3. claims' = [claims EXCEPT ![e] = new]
  BY DEF claim_orchestration_target
<1>4. \A h \in Keys : new[h] = IF h \in ks THEN Claim("processing", FALSE) ELSE claims[e][h]
  OBVIOUS
<1> HIDE DEF new
<1> QED
  BY <1>2, <1>3, <1>4 DEF ClaimsTyped

LEMMA TakenOne ==
    ASSUME ClaimsTyped, NEW e \in Events, NEW k \in Keys,
           claims' = claim_orchestration_target(claims, e, {k})
    PROVE  /\ ClaimsTyped' /\ claims'[e][k] = Claim("processing", FALSE)
           /\ \A f \in Events, h \in Keys : f # e \/ h # k => claims'[f][h] = claims[f][h]
<1> DEFINE ks == {k}
<1>1. claims' = claim_orchestration_target(claims, e, ks) /\ \A h : h \in ks <=> h = k
  OBVIOUS
<1> HIDE DEF ks
<1>2. /\ ClaimsTyped'
      /\ \A f \in Events, h \in Keys :
           claims'[f][h] = IF f = e /\ h \in ks THEN Claim("processing", FALSE)
                           ELSE claims[f][h]
  BY <1>1, Taken
<1> QED
  BY <1>1, <1>2

LEMMA Rewritten ==
    ASSUME ClaimsTyped, NEW e \in Events, NEW k \in Keys, NEW c \in ClaimRecord,
           claims' = [claims EXCEPT ![e][k] = c]
    PROVE  /\ ClaimsTyped'
           /\ \A f \in Events, h \in Keys :
                claims'[f][h] = IF f = e /\ h = k THEN c ELSE claims[f][h]
BY DEF ClaimsTyped

\* The three ends of a handler: completed, or pending again if it was processing.
Settles(e, k) ==
    claims' \in {complete_target(e, k), retry_offline_mention(e, k),
                 retry_orchestration_target(e, k)}

LEMMA Settled ==
    ASSUME ClaimsTyped, NEW e \in Events, NEW k \in Keys, Settles(e, k)
    PROVE  /\ ClaimsTyped'
           /\ \A f \in Events, h \in Keys :
                /\ f # e \/ h # k => claims'[f][h] = claims[f][h]
                /\ claims[f][h].state = "completed" => claims'[f][h].state = "completed"
<1> DEFINE Good(c) == /\ c \in ClaimRecord
                      /\ claims[e][k].state = "completed" => c.state = "completed"
<1>1. /\ Good(Claim("completed", FALSE))
      /\ claims[e][k].state = "processing" =>
           Good(Claim("pending", TRUE)) /\ Good(Claim("pending", FALSE))
  BY DEF Claim, ClaimRecord
<1>2. ASSUME NEW c, Good(c), claims' = [claims EXCEPT ![e][k] = c]
      PROVE  /\ ClaimsTyped'
             /\ \A f \in Events, h \in Keys :
                  /\ f # e \/ h # k => claims'[f][h] = claims[f][h]
                  /\ claims[f][h].state = "completed" => claims'[f][h].state = "completed"
  <2>1. /\ ClaimsTyped'
        /\ \A f \in Events, h \in Keys :
             claims'[f][h] = IF f = e /\ h = k THEN c ELSE claims[f][h]
    <3>1. c \in ClaimRecord /\ claims' = [claims EXCEPT ![e][k] = c]
      BY <1>2
    <3> HIDE DEF Good
    <3> QED
      BY <3>1, Rewritten
  <2> QED
    BY <1>2, <2>1
<1> HIDE DEF Good
<1>3. CASE UNCHANGED claims
  BY <1>3 DEF ClaimsTyped
<1>4. CASE claims' = [claims EXCEPT ![e][k] = Claim("completed", FALSE)]
  BY <1>1, <1>2, <1>4
<1>5. CASE /\ claims[e][k].state = "processing"
           /\ \/ claims' = [claims EXCEPT ![e][k] = Claim("pending", TRUE)]
              \/ claims' = [claims EXCEPT ![e][k] = Claim("pending", FALSE)]
  BY <1>1, <1>2, <1>5
<1> QED
  BY <1>3, <1>4, <1>5
     DEF Settles, complete_target, retry_offline_mention, retry_orchestration_target

-----------------------------------------------------------------------------
(* Counting handlers.                                                      *)

LEMMA Fewer ==
    ASSUME NEW S, IsFiniteSet(S), NEW T, T \subseteq S
    PROVE  /\ IsFiniteSet(T) /\ Cardinality(T) \in Nat /\ Cardinality(S) \in Nat
           /\ Cardinality(T) <= Cardinality(S)
BY FS_Subset, FS_CardinalityType

LEMMA OneMore ==
    ASSUME NEW S, IsFiniteSet(S), NEW x, NEW T, T \subseteq S \cup {x}
    PROVE  /\ IsFiniteSet(T) /\ Cardinality(T) \in Nat /\ Cardinality(S) \in Nat
           /\ Cardinality(T) <= Cardinality(S) + 1
<1> DEFINE U == S \cup {x}
<1>1. /\ IsFiniteSet(U)
      /\ Cardinality(U) = IF x \in S THEN Cardinality(S) ELSE Cardinality(S) + 1
  BY FS_AddElement
<1>2. T \subseteq U
  OBVIOUS
<1> HIDE DEF U
<1>3. Cardinality(S) \in Nat
  BY FS_CardinalityType
<1>4. Cardinality(U) \in Nat /\ Cardinality(U) <= Cardinality(S) + 1
  BY <1>1, <1>3
<1>5. IsFiniteSet(T) /\ Cardinality(T) \in Nat /\ Cardinality(T) <= Cardinality(U)
  BY <1>1, <1>2, Fewer
<1> QED
  BY <1>3, <1>4, <1>5

LEMMA OneLess ==
    ASSUME NEW S, IsFiniteSet(S), NEW x \in S, NEW T, T \subseteq S \ {x}
    PROVE  /\ IsFiniteSet(T) /\ Cardinality(T) \in Nat /\ Cardinality(S) \in Nat
           /\ Cardinality(T) <= Cardinality(S) - 1
<1>1. /\ IsFiniteSet(S \ {x}) /\ Cardinality(S) \in Nat
      /\ Cardinality(S \ {x}) = Cardinality(S) - 1
  BY FS_RemoveElement, FS_CardinalityType
<1> QED
  BY <1>1, Fewer

LEMMA Swapped ==
    ASSUME NEW S, IsFiniteSet(S), NEW x \in S, NEW y, NEW T, T \subseteq (S \ {x}) \cup {y}
    PROVE  /\ IsFiniteSet(T) /\ Cardinality(T) \in Nat /\ Cardinality(S) \in Nat
           /\ Cardinality(T) <= Cardinality(S)
<1> DEFINE R == S \ {x}
<1>1. IsFiniteSet(R) /\ Cardinality(R) \in Nat /\ Cardinality(R) <= Cardinality(S) - 1
      /\ Cardinality(S) \in Nat
  BY OneLess
<1> HIDE DEF R
<1>2. IsFiniteSet(T) /\ Cardinality(T) \in Nat /\ Cardinality(T) <= Cardinality(R) + 1
  BY <1>1, OneMore DEF R
<1> QED
  BY <1>1, <1>2

\* The claim is as hard to take as before, and no handler has come.
LEMMA CountedFewer ==
    ASSUME slow \in Nat, UNCHANGED slow, NEW e, NEW k, Counted(e, k),
           Busy(e, k)' \subseteq Busy(e, k),
           claimable(claims'[e][k]) => claimable(claims[e][k])
    PROVE  Counted(e, k)'
<1> DEFINE B == Busy(e, k)
           C == Busy(e, k)'
<1>0. IsFiniteSet(B) /\ Cardinality(B) <= Paid(e, k) /\ C \subseteq B
  BY DEF Counted
<1> HIDE DEF B, C
<1>1. /\ IsFiniteSet(C) /\ Cardinality(C) \in Nat
      /\ Cardinality(B) \in Nat
      /\ Cardinality(C) <= Cardinality(B)
  BY <1>0, Fewer
<1>2. Paid(e, k) <= Paid(e, k)'
      /\ Paid(e, k) \in Nat /\ Paid(e, k)' \in Nat
  BY DEF Paid
<1> QED
  <2>1. Cardinality(C) <= Paid(e, k)'
    BY <1>0, <1>1, <1>2
  <2> QED
    BY <1>1, <2>1 DEF Counted, C

\* One handler is replaced by its next step.
LEMMA CountedSwap ==
    ASSUME slow \in Nat, UNCHANGED slow, NEW e, NEW k, Counted(e, k),
           NEW j \in Busy(e, k), NEW q, Busy(e, k)' \subseteq (Busy(e, k) \ {j}) \cup {q},
           claimable(claims'[e][k]) => claimable(claims[e][k])
    PROVE  Counted(e, k)'
<1> DEFINE B == Busy(e, k)
           C == Busy(e, k)'
<1>0. IsFiniteSet(B) /\ Cardinality(B) <= Paid(e, k) /\ j \in B /\ C \subseteq (B \ {j}) \cup {q}
  BY DEF Counted
<1> HIDE DEF B, C
<1>1. /\ IsFiniteSet(C) /\ Cardinality(C) \in Nat
      /\ Cardinality(B) \in Nat
      /\ Cardinality(C) <= Cardinality(B)
  BY <1>0, Swapped
<1>2. Paid(e, k) <= Paid(e, k)'
      /\ Paid(e, k) \in Nat /\ Paid(e, k)' \in Nat
  BY DEF Paid
<1> QED
  <2>1. Cardinality(C) <= Paid(e, k)'
    BY <1>0, <1>1, <1>2
  <2> QED
    BY <1>1, <2>1 DEF Counted, C

\* A handler comes with the claim it takes.
LEMMA CountedTake ==
    ASSUME slow \in Nat, UNCHANGED slow, NEW e, NEW k, Counted(e, k),
           NEW q, Busy(e, k)' \subseteq Busy(e, k) \cup {q},
           claimable(claims[e][k]), ~claimable(claims'[e][k])
    PROVE  Counted(e, k)'
<1> DEFINE B == Busy(e, k)
           C == Busy(e, k)'
<1>0. IsFiniteSet(B) /\ Cardinality(B) <= Paid(e, k) /\ C \subseteq B \cup {q}
  BY DEF Counted
<1> HIDE DEF B, C
<1>1. /\ IsFiniteSet(C) /\ Cardinality(C) \in Nat
      /\ Cardinality(B) \in Nat
      /\ Cardinality(C) <= Cardinality(B) + 1
  BY <1>0, OneMore
<1>2. Paid(e, k) + 1 = Paid(e, k)'
      /\ Paid(e, k) \in Nat
  BY DEF Paid
<1> QED
  <2>1. Cardinality(C) <= Paid(e, k)'
    BY <1>0, <1>1, <1>2
  <2> QED
    BY <1>1, <2>1 DEF Counted, C

\* A handler goes, whatever it leaves of the claim.
LEMMA CountedDrop ==
    ASSUME slow \in Nat, UNCHANGED slow, NEW e, NEW k, Counted(e, k),
           NEW j \in Busy(e, k), Busy(e, k)' \subseteq Busy(e, k) \ {j}
    PROVE  Counted(e, k)'
<1> DEFINE B == Busy(e, k)
           C == Busy(e, k)'
<1>0. IsFiniteSet(B) /\ Cardinality(B) <= Paid(e, k) /\ j \in B /\ C \subseteq B \ {j}
  BY DEF Counted
<1> HIDE DEF B, C
<1>1. /\ IsFiniteSet(C) /\ Cardinality(C) \in Nat
      /\ Cardinality(B) \in Nat
      /\ Cardinality(C) <= Cardinality(B) - 1
  BY <1>0, OneLess
<1>2. Paid(e, k) <= Paid(e, k)' + 1
      /\ Paid(e, k) \in Nat /\ Paid(e, k)' \in Nat
  BY DEF Paid
<1> QED
  <2>1. Cardinality(C) <= Paid(e, k)'
    BY <1>0, <1>1, <1>2
  <2> QED
    BY <1>1, <2>1 DEF Counted, C

\* No handler is left on the claim.
LEMMA CountedNone ==
    ASSUME slow \in Nat, UNCHANGED slow, NEW e, NEW k, Busy(e, k)' = {}
    PROVE  Counted(e, k)'
<1>1. IsFiniteSet({}) /\ Cardinality({}) = 0
  BY FS_EmptySet
<1>2. Paid(e, k)' \in Nat
  BY DEF Paid
<1> DEFINE C == Busy(e, k)'
<1>3. IsFiniteSet(C) /\ Cardinality(C) = 0
  BY <1>1
<1> HIDE DEF C
<1>4. Cardinality(C) <= Paid(e, k)'
  BY <1>2, <1>3
<1> QED
  BY <1>3, <1>4 DEF Counted, C

\* The lease of a handler that is still at work expires.
LEMMA CountedSlow ==
    ASSUME slow \in Nat, slow' = slow + 1, NEW e, NEW k, Counted(e, k), UNCHANGED jobs
    PROVE  Counted(e, k)'
<1> DEFINE B == Busy(e, k)
<1>0. IsFiniteSet(B) /\ Cardinality(B) <= Paid(e, k) /\ Busy(e, k)' = B
  BY DEF Counted, Busy
<1> HIDE DEF B
<1>1. Cardinality(B) \in Nat
  BY <1>0, FS_CardinalityType
<1>2. Paid(e, k) <= Paid(e, k)' /\ Paid(e, k) \in Nat /\ Paid(e, k)' \in Nat
  BY DEF Paid
<1>3. Cardinality(B) <= Paid(e, k)'
  BY <1>0, <1>1, <1>2
<1> QED
  BY <1>0, <1>3 DEF Counted

-----------------------------------------------------------------------------
(* The steps of a handler, by what they do to its claim.                   *)

\* What a handler was authorized by, it keeps.
LEMMA JobOkStays ==
    ASSUME relayv \in Nat, relayv' \in Nat, relayv' >= relayv,
           published \subseteq published', inbox \subseteq inbox', NEW j, JobOk(j)
    PROVE  JobOk(j)'
<1>1. \A p : (Listed(p) => Listed(p)') /\ (WasAdmin(p) => WasAdmin(p)')
  BY ListedStays
<1>2. j \in JobRecord /\ (j.e \in published)'
  BY DEF JobOk
<1>3. j.kind = "mention" => MentionOk(j)'
  BY DEF JobOk, MentionOk
<1>4. j.kind = "orchestrate" => OrchestrateOk(j)'
  BY <1>1 DEF JobOk, OrchestrateOk
<1>5. j.kind = "dispatch" => DispatchOk(j)'
  BY <1>1 DEF JobOk, DispatchOk
<1>6. j.kind = "command" => CommandOk(j)'
  BY <1>1 DEF JobOk, CommandOk
<1> QED
  BY <1>2, <1>3, <1>4, <1>5, <1>6 DEF JobOk

LEMMA EffectedStays ==
    ASSUME relayv \in Nat, relayv' \in Nat, relayv' >= relayv,
           inbox \subseteq inbox', NEW e, NEW k, Effected(e, k)
    PROVE  Effected(e, k)'
<1>1. \A p : (Listed(p) => Listed(p)') /\ (WasAdmin(p) => WasAdmin(p)')
  BY ListedStays
<1> QED
  BY <1>1 DEF Effected, Authorized

\* The handler becomes q, or is gone.
Becomes(j, q) == jobs' = (jobs \ {j}) \cup {q} /\ q.e = j.e /\ JobOk(q)'
Leaves(j) == jobs' = jobs \ {j} \/ \E q : Becomes(j, q) /\ ~AtWork(q)

Works(j) == AtWork(j) /\ UNCHANGED claims /\ \E q : Becomes(j, q) /\ q.k = j.k
Passes(j) == UNCHANGED claims /\ Leaves(j)
Releases(j) == AtWork(j) /\ Settles(j.e, j.k) /\ Leaves(j)
Takes(j) ==
    /\ claimable(claims[j.e][j.k])
    /\ claims' = claim_orchestration_target(claims, j.e, {j.k})
    /\ \E q : Becomes(j, q) /\ q.k = j.k

\* What the steps of all handlers have in common.
Serves(j) ==
    /\ UNCHANGED <<relayv, hw, mirror, published, seen, quarantine, messages, slow>>
    /\ replaying' \in {replaying, published}
    /\ inbox \subseteq inbox' /\ inbox' \subseteq published \X Hosted
    /\ UNCHANGED effects \/ (Effect(j) /\ Effected(j.e, j.k)')
    /\ Sessions'
    /\ Works(j) \/ Passes(j) \/ Releases(j) \/ Takes(j)

LEMMA JobFacts ==
    ASSUME Jobs, Chats, NEW j \in jobs
    PROVE  j.e \in Events /\ j.k \in Keys /\ j \in JobRecord /\ j.e \in published
BY DEF Jobs, JobOk, JobRecord

LEMMA ServesClaims ==
    ASSUME ClaimsTyped, ClaimsPublished, Jobs, Chats, NEW j \in jobs, Serves(j)
    PROVE  /\ ClaimsTyped' /\ ClaimsPublished'
           /\ \A e \in Events, k \in Keys :
                /\ e # j.e \/ k # j.k => claims'[e][k] = claims[e][k]
                /\ claims[e][k].state = "completed" => claims'[e][k].state = "completed"
<1>1. j.e \in Events /\ j.k \in Keys /\ j.e \in published /\ published' = published
  BY JobFacts DEF Serves
<1> DEFINE Kept == /\ ClaimsTyped'
                   /\ \A e \in Events, k \in Keys :
                        /\ e # j.e \/ k # j.k => claims'[e][k] = claims[e][k]
                        /\ claims[e][k].state = "completed" => claims'[e][k].state = "completed"
<1>2. CASE UNCHANGED claims
  <2>1. Kept
    BY <1>2 DEF ClaimsTyped
  <2> QED
    BY <1>1, <1>2, <2>1 DEF ClaimsPublished
<1>3. CASE Settles(j.e, j.k)
  <2>1. Kept
    BY <1>1, <1>3, Settled
  <2> QED
    BY <1>1, <2>1 DEF ClaimsPublished
<1>4. CASE Takes(j)
  <2>1. /\ ClaimsTyped'
        /\ \A e \in Events, k \in Keys :
             e # j.e \/ k # j.k => claims'[e][k] = claims[e][k]
    <3>1. claims' = claim_orchestration_target(claims, j.e, {j.k})
      BY <1>4 DEF Takes
    <3> QED
      BY <1>1, <3>1, TakenOne
  <2>2. claims[j.e][j.k].state # "completed"
    BY <1>4 DEF Takes, claimable
  <2>3. Kept
    BY <2>1, <2>2
  <2> QED
    BY <1>1, <2>3 DEF ClaimsPublished
<1> QED
  BY <1>2, <1>3, <1>4 DEF Serves, Works, Passes, Releases

LEMMA ServesJobs ==
    ASSUME Rosters, Jobs, Chats, NEW j \in jobs, Serves(j)
    PROVE  Jobs'
<1>1. relayv \in Nat /\ UNCHANGED <<relayv, published>> /\ inbox \subseteq inbox'
  BY RosterFacts DEF Rosters, Versions, Serves
<1>2. \A x \in jobs : JobOk(x)'
  BY <1>1, JobOkStays DEF Jobs
<1>3. \A x \in jobs' : x \in jobs \/ JobOk(x)'
  BY DEF Serves, Works, Passes, Releases, Takes, Leaves, Becomes
<1> QED
  BY <1>2, <1>3 DEF Jobs

LEMMA ServesEffects ==
    ASSUME Rosters, Jobs, Chats, Effects, NEW j \in jobs, Serves(j)
    PROVE  Effects'
<1>1. relayv \in Nat /\ UNCHANGED <<relayv, published>> /\ inbox \subseteq inbox'
  BY RosterFacts DEF Rosters, Versions, Serves
<1>2. \A e \in Events, k \in Keys : Effected(e, k) => Effected(e, k)'
  BY <1>1, EffectedStays
<1>3. j.e \in Events /\ j.k \in Keys
  BY JobFacts
<1>4. CASE UNCHANGED effects
  BY <1>2, <1>4 DEF Effects
<1>5. CASE Effect(j) /\ Effected(j.e, j.k)'
  <2>1. /\ effects' \in [Events -> [Keys -> Nat]]
        /\ \A e \in Events, k \in Keys :
             e # j.e \/ k # j.k => effects'[e][k] = effects[e][k]
    BY <1>3, <1>5 DEF Effects, Effect
  <2>2. ASSUME NEW e \in Events, NEW k \in Keys, effects'[e][k] > 0
        PROVE  Effected(e, k)'
    BY <1>2, <1>5, <2>1, <2>2 DEF Effects
  <2> QED
    BY <2>1, <2>2 DEF Effects
<1> QED
  BY <1>4, <1>5 DEF Serves

LEMMA ServesOwnCount ==
    ASSUME ClaimsTyped, ClaimsPublished, Jobs, Chats, Counts, NEW j \in jobs, Serves(j),
           NEW e \in Events, NEW k \in Keys, e = j.e, k = j.k
    PROVE  Counted(e, k)'
<1>1. slow \in Nat /\ UNCHANGED slow /\ Counted(e, k)
  BY DEF Serves, Counts
<1>2. AtWork(j) => j \in Busy(e, k)
  BY DEF Busy
<1>3. CASE Works(j)
  <2>1. PICK q : Becomes(j, q) /\ q.k = j.k
    BY <1>3 DEF Works
  <2>2. Busy(e, k)' \subseteq (Busy(e, k) \ {j}) \cup {q}
    BY <2>1 DEF Busy, Becomes
  <2>3. j \in Busy(e, k) /\ UNCHANGED claims
    BY <1>2, <1>3 DEF Works
  <2> QED
    BY <1>1, <2>2, <2>3, CountedSwap
<1>4. CASE Passes(j)
  <2>1. Busy(e, k)' \subseteq Busy(e, k)
    BY <1>4 DEF Passes, Leaves, Becomes, Busy
  <2>2. UNCHANGED claims
    BY <1>4 DEF Passes
  <2> QED
    BY <1>1, <2>1, <2>2, CountedFewer
<1>5. CASE Releases(j)
  <2>1. Busy(e, k)' \subseteq Busy(e, k) \ {j}
    BY <1>5 DEF Releases, Leaves, Becomes, Busy
  <2>2. j \in Busy(e, k)
    BY <1>2, <1>5 DEF Releases
  <2> QED
    BY <1>1, <2>1, <2>2, CountedDrop
<1>6. CASE Takes(j)
  <2>1. PICK q : Becomes(j, q) /\ q.k = j.k
    BY <1>6 DEF Takes
  <2>2. Busy(e, k)' \subseteq Busy(e, k) \cup {q}
    BY <2>1 DEF Busy, Becomes
  <2>3. /\ claims' = claim_orchestration_target(claims, e, {k})
        /\ claimable(claims[e][k])
    BY <1>6 DEF Takes
  <2>4. claims'[e][k] = Claim("processing", FALSE)
    BY <2>3, TakenOne
  <2>5. ~claimable(claims'[e][k])
    BY <2>4 DEF claimable, Claim
  <2> QED
    BY <1>1, <2>2, <2>3, <2>5, CountedTake
<1> QED
  BY <1>3, <1>4, <1>5, <1>6 DEF Serves

LEMMA ServesCounts ==
    ASSUME ClaimsTyped, ClaimsPublished, Jobs, Chats, Counts, NEW j \in jobs, Serves(j)
    PROVE  Counts'
<1>1. j.e \in Events /\ j.k \in Keys /\ slow \in Nat /\ UNCHANGED slow
  BY JobFacts DEF Serves, Counts
<1>2. \A e \in Events, k \in Keys : e # j.e \/ k # j.k => claims'[e][k] = claims[e][k]
  BY ServesClaims
<1>3. ASSUME NEW e \in Events, NEW k \in Keys, e # j.e \/ k # j.k
      PROVE  Counted(e, k)'
  <2>1. Busy(e, k)' \subseteq Busy(e, k)
    BY <1>3 DEF Busy, AtWork, Serves, Works, Passes, Releases, Takes, Leaves, Becomes
  <2>2. Counted(e, k) /\ claims'[e][k] = claims[e][k]
    BY <1>2, <1>3 DEF Counts
  <2> QED
    BY <1>1, <2>1, <2>2, CountedFewer
<1>4. ASSUME NEW e \in Events, NEW k \in Keys, e = j.e, k = j.k
      PROVE  Counted(e, k)'
  BY <1>4, ServesOwnCount
<1> QED
  BY <1>1, <1>3, <1>4 DEF Counts

LEMMA ServesInv ==
    ASSUME IngestInv, NEW j \in jobs, Serves(j)
    PROVE  /\ IngestInv'
           /\ \A e \in Events, k \in Keys :
                claims[e][k].state = "completed" => claims'[e][k].state = "completed"
<1>1. Rosters'
  BY RostersSame DEF IngestInv, Serves
<1>2. Chats'
  BY ChatsSame, RosterFacts DEF IngestInv, Serves, Rosters, Versions
<1>3. ClaimsTyped' /\ ClaimsPublished'
  BY ServesClaims DEF IngestInv
<1>4. Jobs' /\ Effects' /\ Counts' /\ Sessions'
  BY ServesJobs, ServesEffects, ServesCounts DEF IngestInv, Serves
<1>5. \A e \in Events, k \in Keys :
        claims[e][k].state = "completed" => claims'[e][k].state = "completed"
  BY ServesClaims DEF IngestInv
<1> QED
  BY <1>1, <1>2, <1>3, <1>4, <1>5 DEF IngestInv

-----------------------------------------------------------------------------
(* What a handler may become.                                              *)

\* The rosters and the inbox as a handler leaves them.
Kept == UNCHANGED <<relayv, published>> /\ inbox \subseteq inbox'

MayBecome(j, pc) ==
    /\ j.kind = "mention" =>
         /\ pc \in {"start", "launch", "confirm"}
         /\ pc = "launch" => <<j.e, j.k>> \in inbox'
    /\ j.kind = "orchestrate" =>
         /\ pc \in {"authorize", "claim", "work"}
         /\ pc # "authorize" => \/ j.pc # "authorize"
                                \/ WasAdmin(From[j.e]) \/ From[j.e] \in ChildAdmins
    /\ j.kind = "dispatch" =>
         /\ pc \in {"authorize", "claim", "work"}
         /\ pc # "authorize" => j.pc # "authorize" \/ Listed(From[j.e])
    /\ j.kind = "command" =>
         /\ pc \in {"claim", "work", "execute", "complete"}
         /\ pc = "execute" => parse_command(Wire[j.e]) /\ WasAdmin(From[j.e])

LEMMA NextStep ==
    ASSUME Rosters, Jobs, Chats, NEW j \in jobs, NEW pc \in JobPcs, Step(j, pc), Kept,
           MayBecome(j, pc)
    PROVE  \E q : Becomes(j, q) /\ q.k = j.k /\ q.pc = pc
<1> DEFINE q == [j EXCEPT !.pc = pc]
<1>1. j \in JobRecord /\ j.e \in published /\ JobOk(j)
  BY DEF Jobs, JobOk
<1>2. /\ q \in JobRecord /\ q.e = j.e /\ q.k = j.k /\ q.kind = j.kind /\ q.i = j.i /\ q.pc = pc
  BY <1>1 DEF JobRecord
<1>3. jobs' = (jobs \ {j}) \cup {q}
  BY DEF Step
<1> HIDE DEF q
<1>4. relayv \in Nat /\ UNCHANGED <<relayv, published>>
  BY RosterFacts DEF Rosters, Versions, Kept
<1>5. \A p : (Listed(p) => Listed(p)') /\ (WasAdmin(p) => WasAdmin(p)')
  BY <1>4, ListedStays
<1>6. JobOk(j)'
  BY <1>1, <1>4, JobOkStays DEF Kept
<1>7. q.kind = "mention" => MentionOk(q)'
  BY <1>2, <1>6 DEF MayBecome, JobOk, MentionOk
<1>8. q.kind = "orchestrate" => OrchestrateOk(q)'
  BY <1>2, <1>5, <1>6 DEF MayBecome, JobOk, OrchestrateOk
<1>9. q.kind = "dispatch" => DispatchOk(q)'
  BY <1>2, <1>5, <1>6 DEF MayBecome, JobOk, DispatchOk
<1>10. q.kind = "command" => CommandOk(q)'
  BY <1>2, <1>5, <1>6 DEF MayBecome, JobOk, CommandOk
<1>11. JobOk(q)'
  BY <1>1, <1>2, <1>4, <1>7, <1>8, <1>9, <1>10 DEF JobOk
<1> QED
  BY <1>2, <1>3, <1>11 DEF Becomes

\* Advance goes to the second target of an orchestration, or ends the handler.
LEMMA Advances ==
    ASSUME Rosters, Jobs, Chats, NEW j \in jobs, Advance(j), Kept, j.pc \in {"claim", "work"}
    PROVE  Leaves(j)
<1>1. CASE j.kind = "orchestrate" /\ j.i < Len(Adds(j.e))
  <2> DEFINE q == [j EXCEPT !.i = @ + 1, !.k = TargetKey[j.i + 1], !.pc = "claim"]
  <2>1. JobOk(j) /\ j \in JobRecord /\ j.e \in published /\ OrchestrateOk(j)
    BY <1>1 DEF Jobs, JobOk
  <2>2. j.i \in 1..2 /\ j.e \in Events /\ parse_orchestration(Wire[j.e]) # {}
    BY <2>1 DEF JobRecord, OrchestrateOk
  <2>3. \A f \in Events : parse_orchestration(Wire[f]) # {} => Len(Adds(f)) \in 0..2
    BY AddsOf
  <2>4. j.i = 1
    <3>1. PICK n : n = Len(Adds(j.e))
      OBVIOUS
    <3>2. n \in 0..2 /\ j.i < n
      BY <1>1, <2>2, <2>3, <3>1
    <3> QED
      BY <2>2, <3>2
  <2>5. /\ q \in JobRecord /\ q.e = j.e /\ q.k = "t2" /\ q.kind = "orchestrate"
        /\ q.i = 2 /\ q.pc = "claim"
    <3>1. j.i + 1 = 2 /\ TargetKey[j.i + 1] = "t2" /\ "t2" \in Keys
      BY <2>4, KeyFacts
    <3>2. q = [[[j EXCEPT !.i = 2] EXCEPT !.k = "t2"] EXCEPT !.pc = "claim"]
      BY <2>1, <3>1 DEF JobRecord
    <3> HIDE DEF q
    <3>3. PICK a : a = [j EXCEPT !.i = 2]
      OBVIOUS
    <3>4. a \in JobRecord /\ a.e = j.e /\ a.kind = j.kind /\ a.i = 2
      BY <2>1, <3>3 DEF JobRecord
    <3>5. PICK b : b = [a EXCEPT !.k = "t2"]
      OBVIOUS
    <3>6. b \in JobRecord /\ b.e = j.e /\ b.kind = j.kind /\ b.i = 2 /\ b.k = "t2"
      BY <3>1, <3>4, <3>5 DEF JobRecord
    <3>7. q = [b EXCEPT !.pc = "claim"]
      BY <3>2, <3>3, <3>5
    <3>8. "claim" \in JobPcs
      BY DEF JobPcs
    <3> QED
      BY <1>1, <3>6, <3>7, <3>8 DEF JobRecord
  <2>6. jobs' = (jobs \ {j}) \cup {q}
    BY <1>1 DEF Advance
  <2> HIDE DEF q
  <2>7. relayv \in Nat /\ UNCHANGED <<relayv, published>>
    BY RosterFacts DEF Rosters, Versions, Kept
  <2>8. \A p : WasAdmin(p) => WasAdmin(p)'
    BY <2>7, ListedStays
  <2>9. OrchestrateOk(q)'
    BY <2>1, <2>2, <2>5, <2>8, KeyFacts DEF OrchestrateOk
  <2>10. JobOk(q)'
    BY <2>1, <2>5, <2>7, <2>9 DEF JobOk
  <2> QED
    BY <2>5, <2>6, <2>10 DEF Leaves, Becomes, AtWork
<1>2. CASE ~(j.kind = "orchestrate" /\ j.i < Len(Adds(j.e)))
  BY <1>2 DEF Advance, Ends, Leaves
<1> QED
  BY <1>1, <1>2

LEMMA Finishes ==
    ASSUME Rosters, Jobs, Chats, NEW j \in jobs, NEW b, Finish(j, b), Kept, j.pc = "work"
    PROVE  Releases(j)
<1>1. Leaves(j)
  BY Advances DEF Finish
<1>2. Settles(j.e, j.k)
  BY DEF Finish, Settles
<1> QED
  BY <1>1, <1>2 DEF Releases, AtWork

\* What a handler does, it does with the authority it was given.
LEMMA Acts ==
    ASSUME Rosters, Jobs, Chats, NEW j \in jobs, Kept,
           \/ j.kind = "mention" /\ j.pc = "launch"
           \/ j.kind = "orchestrate" /\ j.pc = "work" /\ Wire[j.e].op = "add"
           \/ j.kind = "dispatch" /\ j.pc = "work"
           \/ j.kind = "command" /\ j.pc = "execute"
    PROVE  Effected(j.e, j.k)'
<1>1. j \in JobRecord /\ JobOk(j)
  BY DEF Jobs, JobOk
<1>2. relayv \in Nat /\ UNCHANGED <<relayv, published>> /\ inbox \subseteq inbox'
  BY RosterFacts DEF Rosters, Versions, Kept
<1>3. Effected(j.e, j.k)
  <2>1. CASE j.kind = "mention" /\ j.pc = "launch"
    BY <1>1, <2>1, KeyFacts DEF JobOk, MentionOk, Effected, Authorized
  <2>2. CASE j.kind = "orchestrate" /\ j.pc = "work" /\ Wire[j.e].op = "add"
    <3>1. OrchestrateOk(j) /\ j.i \in 1..2
      BY <1>1, <2>2 DEF JobOk, JobRecord
    <3>2. j.k \in {"t1", "t2"}
      BY <3>1, KeyFacts DEF OrchestrateOk
    <3> QED
      BY <2>2, <3>1, <3>2, KeyFacts DEF OrchestrateOk, Effected, Authorized
  <2>3. CASE j.kind = "dispatch" /\ j.pc = "work"
    BY <1>1, <2>3, KeyFacts DEF JobOk, DispatchOk, Effected, Authorized
  <2>4. CASE j.kind = "command" /\ j.pc = "execute"
    BY <1>1, <2>4, KeyFacts DEF JobOk, CommandOk, Effected, Authorized
  <2> QED
    BY <2>1, <2>2, <2>3, <2>4
<1> QED
  BY <1>2, <1>3, EffectedStays

\* The kind of a handler tells where it is, and the other way round.
LEMMA KindOf ==
    ASSUME Jobs, NEW j \in jobs
    PROVE  /\ j.pc \in {"start", "launch", "confirm"} => j.kind = "mention" /\ j.k \in Hosted
           /\ j.pc \in {"execute", "complete"} => j.kind = "command"
           /\ j.pc = "claim" => j.kind \in {"orchestrate", "dispatch", "command"}
           /\ j.kind = "mention" => j.k \in Hosted
BY DEF Jobs, JobOk, JobRecord, JobKinds, MentionOk, OrchestrateOk, DispatchOk, CommandOk

-----------------------------------------------------------------------------
(* Recovery of a mentioned session that is offline.                        *)

LEMMA MentionStartServes ==
    ASSUME IngestInv, NEW j \in jobs, MentionStart(j)
    PROVE  Serves(j)
<1>1. /\ j.kind = "mention" /\ j.pc = "start"
      /\ UNCHANGED <<relayv, hw, mirror, published, replaying, seen, quarantine, messages>>
      /\ UNCHANGED <<sess, route, standing, effects, acks, slow>>
  BY DEF MentionStart, ingress, budget
<1>2. j.k \in Hosted /\ j.e \in published /\ Sessions' /\ AtWork(j)
  BY <1>1, KindOf, JobFacts DEF IngestInv, Sessions, AtWork
<1>3. inbox \subseteq published \X Hosted
  BY DEF IngestInv, Chats, Noted
<1>4. CASE has_alive_session_for(j.k)
  <2>1. Step(j, "confirm") /\ UNCHANGED <<inbox, claims>>
    BY <1>4 DEF MentionStart
  <2>2. Kept /\ MayBecome(j, "confirm") /\ "confirm" \in JobPcs
    BY <1>1, <2>1 DEF Kept, MayBecome, JobPcs
  <2>3. \E q : Becomes(j, q) /\ q.k = j.k
    BY <2>1, <2>2, NextStep DEF IngestInv
  <2>4. Works(j)
    BY <1>2, <2>1, <2>3 DEF Works
  <2> QED
    BY <1>1, <1>2, <1>3, <2>1, <2>4 DEF Serves
<1>5. CASE ~has_alive_session_for(j.k) /\ addressed_affinity(j.k)
  <2>1. Step(j, "launch") /\ inbox' = inbox \cup {<<j.e, j.k>>} /\ UNCHANGED claims
    BY <1>5 DEF MentionStart, resolve_and_persist
  <2>2. Kept /\ MayBecome(j, "launch") /\ "launch" \in JobPcs
    BY <1>1, <2>1 DEF Kept, MayBecome, JobPcs
  <2>3. \E q : Becomes(j, q) /\ q.k = j.k
    BY <2>1, <2>2, NextStep DEF IngestInv
  <2>4. Works(j)
    BY <1>2, <2>1, <2>3 DEF Works
  <2>5. inbox' \subseteq published \X Hosted
    BY <1>2, <1>3, <2>1
  <2> QED
    BY <1>1, <1>2, <2>1, <2>4, <2>5 DEF Serves
<1>6. CASE ~has_alive_session_for(j.k) /\ ~addressed_affinity(j.k)
  <2>1. Ends(j) /\ claims' = complete_target(j.e, j.k) /\ UNCHANGED inbox
    BY <1>6 DEF MentionStart, resolve_and_persist
  <2>2. Releases(j)
    BY <1>2, <2>1 DEF Releases, Settles, Leaves, Ends
  <2> QED
    BY <1>1, <1>2, <1>3, <2>1, <2>2 DEF Serves
<1> QED
  BY <1>4, <1>5, <1>6

\* Whichever way the session is launched.
LEMMA LaunchServes ==
    ASSUME IngestInv, NEW j \in jobs, Launching(j), Launches(j) \/ LaunchFails(j)
    PROVE  Serves(j)
<1>1. /\ j.kind = "mention" /\ j.pc = "launch"
      /\ UNCHANGED <<relayv, hw, mirror, published, seen, quarantine, messages, inbox>>
      /\ UNCHANGED <<standing, acks, slow>>
  BY DEF Launching
<1>2. j.k \in Hosted /\ AtWork(j) /\ Kept
  BY <1>1, KindOf DEF IngestInv, AtWork, Kept
<1>3. inbox \subseteq published \X Hosted
  BY DEF IngestInv, Chats, Noted
<1>4. CASE Launches(j)
  <2>1. /\ sess' = [sess EXCEPT ![j.k] = "running"] /\ route' = route \cup {j.k}
        /\ Effect(j) /\ Step(j, "confirm") /\ replaying' = published /\ UNCHANGED claims
    BY <1>4 DEF Launches
  <2>2. Sessions'
    BY <1>1, <1>2, <2>1 DEF IngestInv, Sessions
  <2>3. MayBecome(j, "confirm") /\ "confirm" \in JobPcs
    BY <1>1 DEF MayBecome, JobPcs
  <2>4. \E q : Becomes(j, q) /\ q.k = j.k
    BY <1>2, <2>1, <2>3, NextStep DEF IngestInv
  <2>5. Works(j)
    BY <1>2, <2>1, <2>4 DEF Works
  <2>6. Effected(j.e, j.k)'
    BY <1>1, <1>2, Acts DEF IngestInv
  <2> QED
    BY <1>1, <1>3, <2>1, <2>2, <2>5, <2>6 DEF Serves
<1>5. CASE LaunchFails(j)
  <2>1. /\ Ends(j) /\ claims' = retry_offline_mention(j.e, j.k)
        /\ UNCHANGED <<sess, route, effects, replaying>>
    BY <1>5 DEF LaunchFails
  <2>2. Releases(j)
    BY <1>2, <2>1 DEF Releases, Settles, Leaves, Ends
  <2>3. Sessions'
    BY <1>1, <2>1 DEF IngestInv, Sessions
  <2> QED
    BY <1>1, <1>3, <2>1, <2>2, <2>3 DEF Serves
<1> QED
  BY <1>4, <1>5

LEMMA ConfirmServes ==
    ASSUME IngestInv, NEW j \in jobs, confirm_recovery_standing(j)
    PROVE  Serves(j)
<1>1. /\ j.kind = "mention" /\ j.pc = "confirm" /\ Ends(j)
      /\ UNCHANGED <<relayv, hw, mirror, published, replaying, seen, quarantine, messages>>
      /\ UNCHANGED <<inbox, sess, effects, acks, slow>>
  BY DEF confirm_recovery_standing, ingress
<1>2. j.k \in Hosted /\ AtWork(j)
  BY <1>1, KindOf DEF IngestInv, AtWork
<1>3. /\ standing' \in {standing, standing \cup {j.k}} /\ route' \in {route, route \cup {j.k}}
      /\ Settles(j.e, j.k)
  BY DEF confirm_recovery_standing, Settles
<1>4. Sessions'
  BY <1>1, <1>2, <1>3 DEF IngestInv, Sessions
<1>5. Releases(j)
  BY <1>1, <1>2, <1>3 DEF Releases, Leaves, Ends
<1>6. inbox \subseteq published \X Hosted
  BY DEF IngestInv, Chats, Noted
<1> QED
  BY <1>1, <1>4, <1>5, <1>6 DEF Serves

-----------------------------------------------------------------------------
(* Operations of an event: authorization, claim, work.                     *)

\* A handler that leaves everything but the claims and the handlers alone.
LEMMA QuietServes ==
    ASSUME IngestInv, NEW j \in jobs,
           UNCHANGED <<relayv, hw, mirror, published, replaying, seen, quarantine, messages>>,
           UNCHANGED <<inbox, effects, slow, acks>>, UNCHANGED sess,
           route' \subseteq Hosted, standing' \subseteq Hosted,
           Works(j) \/ Passes(j) \/ Releases(j) \/ Takes(j)
    PROVE  Serves(j)
<1>1. Sessions'
  BY DEF IngestInv, Sessions
<1>2. inbox \subseteq published \X Hosted
  BY DEF IngestInv, Chats, Noted
<1> QED
  BY <1>1, <1>2 DEF Serves

LEMMA AuthorizeServes ==
    ASSUME IngestInv, NEW j \in jobs, handle_orchestration(j) \/ handle_session_dispatch(j)
    PROVE  Serves(j)
<1> PICK ps : /\ AuthorizedBy(j, ps)
              /\ \/ j.kind = "orchestrate" /\ ps = AdminRoster[relayv] \cup ChildAdmins
                 \/ j.kind = "dispatch" /\ ps = AdminRoster[relayv] \cup MemberRoster[relayv]
  BY DEF handle_orchestration, handle_session_dispatch
<1>1. /\ UNCHANGED <<relayv, hw, mirror, published, replaying, seen, quarantine, messages>>
      /\ UNCHANGED <<inbox, claims, effects, slow, acks>> /\ UNCHANGED <<sess, route, standing>>
      /\ Ends(j) \/ (From[j.e] \in ps /\ Step(j, "claim"))
  BY DEF AuthorizedBy, ingress
<1>2. Passes(j)
  <2>1. CASE Ends(j)
    BY <1>1, <2>1 DEF Passes, Leaves, Ends
  <2>2. CASE From[j.e] \in ps /\ Step(j, "claim")
    <3>1. relayv \in 1..relayv
      BY RosterFacts DEF IngestInv, Rosters, Versions
    <3>2. Kept /\ MayBecome(j, "claim") /\ "claim" \in JobPcs
      BY <1>1, <2>2, <3>1 DEF Kept, MayBecome, JobPcs, WasAdmin, Listed
    <3>3. \E q : Becomes(j, q) /\ q.k = j.k /\ q.pc = "claim"
      BY <2>2, <3>2, NextStep DEF IngestInv
    <3>4. Leaves(j)
      BY <3>3 DEF Leaves, AtWork
    <3> QED
      BY <1>1, <3>4 DEF Passes
  <2> QED
    BY <1>1, <2>1, <2>2
<1>3. route' \subseteq Hosted /\ standing' \subseteq Hosted
  BY <1>1 DEF IngestInv, Sessions
<1> QED
  BY <1>1, <1>2, <1>3, QuietServes

LEMMA ClaimServes ==
    ASSUME IngestInv, NEW j \in jobs, ClaimTarget(j)
    PROVE  Serves(j)
<1>1. /\ UNCHANGED <<relayv, hw, mirror, published, replaying, seen, quarantine, messages>>
      /\ UNCHANGED <<inbox, effects, slow, acks>> /\ UNCHANGED <<sess, route, standing>>
      /\ j.pc = "claim"
  BY DEF ClaimTarget, ingress, budget
<1>2. Kept /\ j.kind \in {"orchestrate", "dispatch", "command"}
  BY <1>1, KindOf DEF IngestInv, Kept
<1>3. ASSUME claimable(claims[j.e][j.k]) PROVE Takes(j)
  <2>1. /\ claims' = claim_orchestration_target(claims, j.e, {j.k})
        /\ Step(j, "work")
    BY <1>3 DEF ClaimTarget
  <2>2. MayBecome(j, "work") /\ "work" \in JobPcs
    BY <1>1, <1>2 DEF MayBecome, JobPcs
  <2>3. \E q : Becomes(j, q) /\ q.k = j.k
    BY <1>2, <2>1, <2>2, NextStep DEF IngestInv
  <2> QED
    BY <1>3, <2>1, <2>3 DEF Takes
<1>4. ASSUME ~claimable(claims[j.e][j.k]) PROVE Passes(j)
  <2>1. Advance(j) /\ UNCHANGED claims
    BY <1>4 DEF ClaimTarget
  <2>2. Leaves(j)
    BY <1>1, <1>2, <2>1, Advances DEF IngestInv
  <2> QED
    BY <2>1, <2>2 DEF Passes
<1>5. route' \subseteq Hosted /\ standing' \subseteq Hosted
  BY <1>1 DEF IngestInv, Sessions
<1>6. Passes(j) \/ Takes(j)
  BY <1>3, <1>4
<1> QED
  BY <1>1, <1>5, <1>6, QuietServes

LEMMA AdmitServes ==
    ASSUME IngestInv, NEW j \in jobs, admit_running_target(j)
    PROVE  Serves(j)
<1>1. /\ UNCHANGED <<relayv, hw, mirror, published, replaying, seen, quarantine, messages>>
      /\ UNCHANGED <<inbox, effects, slow, acks>> /\ UNCHANGED <<sess, route>>
      /\ j.pc = "work"
  BY DEF admit_running_target, ingress
<1>2. PICK p :
        /\ Finish(j, TRUE) \/ Finish(j, FALSE)
        /\ standing' = standing \/ (p \in Hosted /\ standing' = standing \cup {p})
  BY DEF admit_running_target
<1>3. Releases(j)
  BY <1>1, <1>2, Finishes DEF IngestInv, Kept
<1>4. route' \subseteq Hosted /\ standing' \subseteq Hosted
  BY <1>1, <1>2 DEF IngestInv, Sessions
<1> QED
  BY <1>1, <1>3, <1>4, QuietServes

LEMMA ResumeServes ==
    ASSUME IngestInv, NEW j \in jobs, resume_target(j)
    PROVE  Serves(j)
<1>1. /\ UNCHANGED <<relayv, hw, mirror, published, replaying, seen, quarantine, messages>>
      /\ UNCHANGED <<inbox, slow, acks, standing>>
      /\ j.kind = "orchestrate" /\ j.pc = "work" /\ Wire[j.e].op = "add"
  BY DEF resume_target, ingress
<1>2. PICK p :
        /\ Finish(j, TRUE) \/ Finish(j, FALSE)
        /\ \/ UNCHANGED <<sess, route, effects>>
           \/ /\ p \in Hosted /\ sess' = [sess EXCEPT ![p] = "running"]
              /\ route' = route \cup {p} /\ Effect(j)
  BY DEF resume_target
<1>3. Releases(j)
  BY <1>1, <1>2, Finishes DEF IngestInv, Kept
<1>4. Sessions'
  <2>1. Sessions
    BY DEF IngestInv
  <2>2. CASE UNCHANGED <<sess, route, effects>>
    BY <1>1, <2>1, <2>2 DEF Sessions
  <2>3. CASE p \in Hosted /\ sess' = [sess EXCEPT ![p] = "running"] /\ route' = route \cup {p}
    BY <1>1, <2>1, <2>3 DEF Sessions
  <2> QED
    BY <1>2, <2>2, <2>3
<1>5. Effected(j.e, j.k)'
  BY <1>1, Acts DEF IngestInv, Kept
<1>6. inbox \subseteq published \X Hosted
  BY DEF IngestInv, Chats, Noted
<1> QED
  BY <1>1, <1>2, <1>3, <1>4, <1>5, <1>6 DEF Serves

\* spawn_target and spawn_dispatched.
LEMMA SpawnServes ==
    ASSUME IngestInv, NEW j \in jobs, spawn_target(j) \/ spawn_dispatched(j)
    PROVE  Serves(j)
<1>1. /\ UNCHANGED <<relayv, hw, mirror, published, replaying, seen, quarantine, messages>>
      /\ UNCHANGED <<inbox, slow, sess, route, standing>> /\ acks' \in {acks, acks \cup {j.e}}
      /\ j.pc = "work"
      /\ (j.kind = "orchestrate" /\ Wire[j.e].op = "add") \/ j.kind = "dispatch"
      /\ Effect(j) \/ UNCHANGED effects
  BY DEF spawn_target, spawn_dispatched, ingress
<1>2. PICK b \in BOOLEAN : Finish(j, b)
  BY DEF spawn_target, spawn_dispatched
<1>3. Releases(j)
  BY <1>1, <1>2, Finishes DEF IngestInv, Kept
<1>4. Sessions'
  BY <1>1, JobFacts DEF IngestInv, Sessions
<1>5. Effected(j.e, j.k)'
  BY <1>1, Acts DEF IngestInv, Kept
<1>6. inbox \subseteq published \X Hosted
  BY DEF IngestInv, Chats, Noted
<1> QED
  BY <1>1, <1>3, <1>4, <1>5, <1>6 DEF Serves

-----------------------------------------------------------------------------
(* Management commands.                                                    *)

LEMMA AcceptServes ==
    ASSUME IngestInv, NEW j \in jobs, accept_command(j)
    PROVE  Serves(j)
<1>1. /\ UNCHANGED <<relayv, hw, mirror, published, replaying, seen, quarantine, messages>>
      /\ UNCHANGED <<inbox, claims, effects, slow, acks>> /\ UNCHANGED <<sess, route, standing>>
      /\ j.kind = "command" /\ j.pc = "work"
  BY DEF accept_command, ingress, budget
<1>2. PICK pc \in {"execute", "complete"} :
        Step(j, pc) /\ (pc = "execute" => parse_command(Wire[j.e]) /\ is_admin(From[j.e]))
  BY DEF accept_command
<1>3. is_admin(From[j.e]) => WasAdmin(From[j.e])
  <2>1. relayv \in 1..relayv
    BY RosterFacts DEF IngestInv, Rosters, Versions
  <2> QED
    BY <2>1, MirrorSound DEF IngestInv, is_admin, WasAdmin
<1>4. Kept /\ MayBecome(j, pc) /\ pc \in JobPcs
  BY <1>1, <1>2, <1>3 DEF Kept, MayBecome, JobPcs
<1>5. \E q : Becomes(j, q) /\ q.k = j.k
  BY <1>2, <1>4, NextStep DEF IngestInv
<1>6. Works(j)
  BY <1>1, <1>5 DEF Works, AtWork
<1>7. route' \subseteq Hosted /\ standing' \subseteq Hosted
  BY <1>1 DEF IngestInv, Sessions
<1> QED
  BY <1>1, <1>6, <1>7, QuietServes

LEMMA ExecuteServes ==
    ASSUME IngestInv, NEW j \in jobs,
           kill_session(j) \/ archive_named_channel(j) \/ list_sessions(j)
    PROVE  Serves(j)
<1>1. /\ UNCHANGED <<relayv, hw, mirror, published, replaying, seen, quarantine, messages>>
      /\ UNCHANGED <<inbox, claims, slow, acks, route>>
      /\ j.pc = "execute" /\ Effect(j) /\ Step(j, "complete")
  BY DEF kill_session, archive_named_channel, list_sessions, execute_command, ingress, budget
<1>2. j.kind = "command" /\ Kept
  BY <1>1, KindOf DEF IngestInv, Kept
<1>3. standing' \subseteq standing /\ sess' \in [Hosted -> {"none", "stopped", "running"}]
  <2>1. Sessions
    BY DEF IngestInv
  <2> QED
    BY <2>1 DEF kill_session, archive_named_channel, list_sessions, Sessions
<1>4. Sessions'
  BY <1>1, <1>3 DEF IngestInv, Sessions
<1>5. MayBecome(j, "complete") /\ "complete" \in JobPcs
  BY <1>2 DEF MayBecome, JobPcs
<1>6. \E q : Becomes(j, q) /\ q.k = j.k
  BY <1>1, <1>2, <1>5, NextStep DEF IngestInv
<1>7. Works(j)
  BY <1>1, <1>6 DEF Works, AtWork
<1>8. Effected(j.e, j.k)'
  BY <1>1, <1>2, Acts DEF IngestInv
<1>9. inbox \subseteq published \X Hosted
  BY DEF IngestInv, Chats, Noted
<1> QED
  BY <1>1, <1>4, <1>7, <1>8, <1>9 DEF Serves

LEMMA CompleteServes ==
    ASSUME IngestInv, NEW j \in jobs, CompleteCommand(j)
    PROVE  Serves(j)
<1>1. /\ UNCHANGED <<relayv, hw, mirror, published, replaying, seen, quarantine, messages>>
      /\ UNCHANGED <<inbox, effects, slow, acks>> /\ UNCHANGED <<sess, route, standing>>
      /\ j.pc = "complete" /\ Ends(j) /\ claims' = complete_target(j.e, j.k)
  BY DEF CompleteCommand, ingress, budget
<1>2. Releases(j)
  BY <1>1 DEF Releases, Settles, Leaves, Ends, AtWork
<1>3. route' \subseteq Hosted /\ standing' \subseteq Hosted
  BY <1>1 DEF IngestInv, Sessions
<1> QED
  BY <1>1, <1>2, <1>3, QuietServes

\* Every step of a handler.
LEMMA JobStepServes ==
    ASSUME IngestInv, NEW j \in jobs, JobStep(j)
    PROVE  Serves(j)
<1>1. ASSUME MentionResume(j) \/ MentionRelaunch(j) \/ MentionSpawn(j)
      PROVE  Serves(j)
  BY <1>1, LaunchServes DEF MentionResume, MentionRelaunch, MentionSpawn
<1> QED
  BY <1>1, MentionStartServes, ConfirmServes, AuthorizeServes, ClaimServes, AdmitServes,
     ResumeServes, SpawnServes, AcceptServes, ExecuteServes, CompleteServes DEF JobStep

-----------------------------------------------------------------------------
(* The demux loop, the retry driver, and the dispatching side.             *)

LEMMA OthersKeep ==
    ASSUME Rosters, Jobs, Effects, relayv' \in Nat, relayv' >= relayv,
           published \subseteq published', inbox \subseteq inbox', UNCHANGED effects,
           \A x \in jobs' : x \in jobs \/ JobOk(x)'
    PROVE  Jobs' /\ Effects'
<1>1. relayv \in Nat
  BY RosterFacts DEF Rosters, Versions
<1>2. \A x \in jobs : JobOk(x)'
  BY <1>1, JobOkStays DEF Jobs
<1>3. \A e \in Events, k \in Keys : Effected(e, k) => Effected(e, k)'
  BY <1>1, EffectedStays
<1> QED
  BY <1>2, <1>3 DEF Jobs, Effects

LEMMA CountsStay ==
    ASSUME Counts, UNCHANGED <<slow, claims>>, jobs' \subseteq jobs
    PROVE  Counts'
<1>1. \A e \in Events, k \in Keys : Busy(e, k)' \subseteq Busy(e, k)
  BY DEF Busy
<1>2. ASSUME NEW e \in Events, NEW k \in Keys
      PROVE  Counted(e, k)'
  BY <1>1, CountedFewer DEF Counts
<1> QED
  BY <1>2 DEF Counts

\* What the retry driver and the demux loop have in common: the claims of ks are
\* taken, and each gets its handler.
LEMMA Begun ==
    ASSUME ClaimsTyped, ClaimsPublished, Counts, published \subseteq Events, published' = published,
           NEW e \in published, NEW ks, NEW n, UNCHANGED slow,
           \A k \in ks : claimable(claims[e][k]),
           claims' = claim_orchestration_target(claims, e, ks),
           \A x \in jobs' : \/ x \in jobs
                            \/ ~AtWork(x)
                            \/ x.k \in ks /\ x = Job(e, n, "mention", x.k, "start")
    PROVE  /\ ClaimsTyped' /\ ClaimsPublished' /\ Counts'
           /\ \A f \in Events, h \in Keys :
                claims[f][h].state = "completed" => claims'[f][h].state = "completed"
<1>1. /\ ClaimsTyped'
      /\ \A f \in Events, h \in Keys :
           claims'[f][h] = IF f = e /\ h \in ks THEN Claim("processing", FALSE)
                           ELSE claims[f][h]
  <2>1. e \in Events
    OBVIOUS
  <2> QED
    BY <2>1, Taken
<1>2. ClaimsPublished'
  <2> SUFFICES ASSUME NEW f \in Events, NEW h \in Keys, f \notin published
               PROVE  claims'[f][h].state = "none"
    BY DEF ClaimsPublished
  <2>1. f # e /\ claims[f][h].state = "none"
    BY DEF ClaimsPublished
  <2>2. claims'[f][h] = claims[f][h]
    BY <1>1, <2>1
  <2> QED
    BY <2>1, <2>2
<1>3. ASSUME NEW f \in Events, NEW h \in Keys, claims[f][h].state = "completed"
      PROVE  claims'[f][h].state = "completed"
  <2>1. ~(f = e /\ h \in ks)
    BY <1>3 DEF claimable
  <2>2. claims'[f][h] = claims[f][h]
    BY <1>1, <2>1
  <2> QED
    BY <1>3, <2>2
<1>4. ASSUME NEW f \in Events, NEW h \in Keys
      PROVE  Counted(f, h)'
  <2>1. slow \in Nat /\ UNCHANGED slow /\ Counted(f, h)
    BY DEF Counts
  <2>2. CASE f = e /\ h \in ks
    <3> DEFINE q == Job(e, n, "mention", h, "start")
    <3>1. Busy(f, h)' \subseteq Busy(f, h) \cup {q}
      BY <2>2 DEF Busy
    <3> HIDE DEF q
    <3>2. claimable(claims[f][h])
      BY <2>2
    <3>3. ~claimable(claims'[f][h])
      BY <1>1, <2>2 DEF claimable, Claim
    <3> QED
      BY <2>1, <3>1, <3>2, <3>3, CountedTake
  <2>3. CASE ~(f = e /\ h \in ks)
    <3>1. \A x : x \in Busy(f, h)' => x \in Busy(f, h)
      <4>1. \A k : Job(e, n, "mention", k, "start").e = e
        BY DEF Job
      <4> QED
        BY <2>3, <4>1 DEF Busy
    <3>2. claims'[f][h] = claims[f][h]
      BY <1>1, <2>3
    <3>3. Busy(f, h)' \subseteq Busy(f, h)
      BY <3>1
    <3> QED
      BY <2>1, <3>2, <3>3, CountedFewer
  <2> QED
    BY <2>2, <2>3
<1> QED
  BY <1>1, <1>2, <1>3, <1>4 DEF Counts

\* A new handler of a published event is where its kind starts.
LEMMA NewMention ==
    ASSUME NEW e \in published', published' \subseteq Events, NEW n \in 1..MaxJobs, NEW p \in Hosted
    PROVE  JobOk(Job(e, n, "mention", p, "start"))'
<1> DEFINE q == Job(e, n, "mention", p, "start")
<1>1. /\ q \in JobRecord /\ q.e = e /\ q.kind = "mention" /\ q.k = p /\ q.pc = "start"
  BY KeyFacts DEF Job, JobRecord, JobKinds, JobPcs
<1> HIDE DEF q
<1>2. MentionOk(q)'
  BY <1>1 DEF MentionOk
<1>3. JobOk(q)'
  BY <1>1, <1>2 DEF JobOk
<1> QED
  BY <1>3 DEF q

LEMMA NewOperation ==
    ASSUME NEW e \in published', published' \subseteq Events, FreeSlot(e) \in 1..MaxJobs
    PROVE  /\ \A q \in chat_op(e) : JobOk(q)' /\ ~AtWork(q)
           /\ \A q : q = Job(e, FreeSlot(e), "dispatch", "dispatch", "authorize")
                       => JobOk(q)' /\ ~AtWork(q)
<1> PICK n : n = FreeSlot(e)
  OBVIOUS
<1> DEFINE o == Job(e, n, "orchestrate", "t1", "authorize")
           d == Job(e, n, "dispatch", "dispatch", "authorize")
           c == Job(e, n, "command", "management", "claim")
<1>0. n \in 1..MaxJobs
  OBVIOUS
<1>1. ASSUME parse_orchestration(Wire[e]) # {}
      PROVE  JobOk(o)' /\ ~AtWork(o)
  <2>1. /\ o \in JobRecord /\ o.e = e /\ o.kind = "orchestrate" /\ o.k = "t1" /\ o.i = 1
        /\ o.pc = "authorize"
    BY <1>0, KeyFacts DEF Job, JobRecord, JobKinds, JobPcs
  <2> HIDE DEF o
  <2>2. OrchestrateOk(o)'
    BY <1>1, <2>1, KeyFacts DEF OrchestrateOk
  <2> QED
    BY <2>1, <2>2 DEF JobOk, AtWork
<1>2. JobOk(d)' /\ ~AtWork(d)
  <2>1. /\ d \in JobRecord /\ d.e = e /\ d.kind = "dispatch" /\ d.k = "dispatch"
        /\ d.pc = "authorize"
    BY <1>0, KeyFacts DEF Job, JobRecord, JobKinds, JobPcs
  <2> HIDE DEF d
  <2>2. DispatchOk(d)'
    BY <2>1 DEF DispatchOk
  <2> QED
    BY <2>1, <2>2 DEF JobOk, AtWork
<1>3. JobOk(c)' /\ ~AtWork(c)
  <2>1. /\ c \in JobRecord /\ c.e = e /\ c.kind = "command" /\ c.k = "management"
        /\ c.pc = "claim"
    BY <1>0, KeyFacts DEF Job, JobRecord, JobKinds, JobPcs
  <2> HIDE DEF c
  <2>2. CommandOk(c)'
    BY <2>1 DEF CommandOk
  <2> QED
    BY <2>1, <2>2 DEF JobOk, AtWork
<1>4. \A q \in chat_op(e) : (q = o /\ parse_orchestration(Wire[e]) # {}) \/ q = d \/ q = c
  BY DEF chat_op
<1>5. \A q \in chat_op(e) : JobOk(q)' /\ ~AtWork(q)
  BY <1>1, <1>2, <1>3, <1>4
<1> QED
  BY <1>2, <1>5

LEMMA IncomingInv ==
    ASSUME IngestInv, NEW e \in Events, handle_incoming(e)
    PROVE  /\ IngestInv'
           /\ \A f \in Events, h \in Keys :
                claims[f][h].state = "completed" => claims'[f][h].state = "completed"
<1> DEFINE fresh == chat_admission(e) = "accepted" /\ first_sight(e)
<1> PICK ks : ks = IF fresh THEN dispatch_all(e) ELSE {}
  OBVIOUS
<1>1. /\ e \in published /\ HasRoom(e)
      /\ claims' = claim_orchestration_target(claims, e, ks)
      /\ jobs' = jobs \cup {Job(e, 1, "mention", p, "start") : p \in ks} \cup chat_op(e)
      /\ UNCHANGED <<relayv, hw, mirror, published>>
      /\ UNCHANGED <<sess, route, standing, effects, acks, slow>>
  BY DEF handle_incoming, budget
<1>2. \A k \in ks : k \in Hosted /\ claimable(claims[e][k])
  BY DEF dispatch_all
<1>3. published' \subseteq Events /\ published \subseteq Events
  BY <1>1 DEF IngestInv, Chats, Noted
<1>4. FreeSlot(e) \in 1..MaxJobs
  BY <1>1 DEF HasRoom, FreeSlot
<1>5. \A q \in chat_op(e) : JobOk(q)' /\ ~AtWork(q)
  BY <1>1, <1>3, <1>4, NewOperation
<1>6. \A p \in ks : JobOk(Job(e, 1, "mention", p, "start"))'
  BY <1>1, <1>2, <1>3, KeyFacts, NewMention
<1>7. Rosters'
  BY <1>1, RostersSame DEF IngestInv
<1>8. Chats' /\ inbox \subseteq inbox'
  BY ChatsIncoming DEF IngestInv
<1>9. \A x \in jobs' : x \in jobs \/ JobOk(x)'
  BY <1>1, <1>5, <1>6
<1>10. Jobs' /\ Effects'
  <2>1. relayv' \in Nat /\ relayv' >= relayv
    BY <1>1, RosterFacts DEF IngestInv, Rosters, Versions
  <2> QED
    BY <1>1, <1>8, <1>9, <2>1, OthersKeep DEF IngestInv
<1>11. \A x \in jobs' : \/ x \in jobs
                        \/ ~AtWork(x)
                        \/ x.k \in ks /\ x = Job(e, 1, "mention", x.k, "start")
  <2>1. \A p : Job(e, 1, "mention", p, "start").k = p
    BY DEF Job
  <2> QED
    BY <1>1, <1>5, <2>1
<1>12. /\ ClaimsTyped' /\ ClaimsPublished' /\ Counts'
       /\ \A f \in Events, h \in Keys :
            claims[f][h].state = "completed" => claims'[f][h].state = "completed"
  BY <1>1, <1>2, <1>3, <1>11, Begun DEF IngestInv
<1>13. Sessions'
  BY <1>1 DEF IngestInv, Sessions
<1> QED
  BY <1>7, <1>8, <1>10, <1>12, <1>13 DEF IngestInv

LEMMA RetriesInv ==
    ASSUME IngestInv, drive_retries
    PROVE  /\ IngestInv'
           /\ \A f \in Events, h \in Keys :
                claims[f][h].state = "completed" => claims'[f][h].state = "completed"
<1>1. /\ UNCHANGED <<relayv, hw, mirror, published, replaying, seen, quarantine, messages>>
      /\ UNCHANGED <<inbox, sess, route, standing, effects, acks, slow>>
  BY DEF drive_retries, ingress, budget
<1>2. PICK e, k, n :
        /\ e \in published /\ k \in Hosted /\ n \in 1..MaxJobs /\ claimable(claims[e][k])
        /\ jobs' = jobs \cup {Job(e, n, "mention", k, "start")}
        /\ claims' = claim_orchestration_target(claims, e, {k})
  <2>1. PICK ek \in list_retryable_offline_mentions, n \in 1..MaxJobs :
          /\ jobs' = jobs \cup {Job(ek[1], n, "mention", ek[2], "start")}
          /\ claims' = claim_orchestration_target(claims, ek[1], {ek[2]})
    BY DEF drive_retries
  <2>2. /\ ek[1] \in published /\ ek[2] \in Hosted
        /\ claims[ek[1]][ek[2]].state \in {"pending", "processing"} /\ claims[ek[1]][ek[2]].old
    BY DEF list_retryable_offline_mentions
  <2>3. claimable(claims[ek[1]][ek[2]])
    BY <2>2 DEF claimable
  <2> QED
    BY <2>1, <2>2, <2>3
<1>3. published' \subseteq Events /\ published \subseteq Events
  BY <1>1 DEF IngestInv, Chats, Noted
<1>4. JobOk(Job(e, n, "mention", k, "start"))'
  BY <1>1, <1>2, <1>3, NewMention
<1>5. Rosters'
  BY <1>1, RostersSame DEF IngestInv
<1>6. relayv' \in Nat /\ relayv' >= relayv
  BY <1>1, RosterFacts DEF IngestInv, Rosters, Versions
<1>7. Chats'
  <2>1. inbox' \subseteq published \X Hosted
    BY <1>1 DEF IngestInv, Chats, Noted
  <2> QED
    BY <1>1, <1>6, <2>1, ChatsSame DEF IngestInv
<1>8. Jobs' /\ Effects'
  BY <1>1, <1>2, <1>4, <1>6, OthersKeep DEF IngestInv
<1>9. \A x \in jobs' : \/ x \in jobs
                       \/ ~AtWork(x)
                       \/ x.k \in {k} /\ x = Job(e, n, "mention", x.k, "start")
  <2>1. Job(e, n, "mention", k, "start").k = k
    BY DEF Job
  <2> QED
    BY <1>2, <2>1
<1>10. /\ ClaimsTyped' /\ ClaimsPublished' /\ Counts'
       /\ \A f \in Events, h \in Keys :
            claims[f][h].state = "completed" => claims'[f][h].state = "completed"
  <2> DEFINE ks == {k}
  <2>1. /\ \A h \in ks : claimable(claims[e][h])
        /\ claims' = claim_orchestration_target(claims, e, ks)
        /\ \A x \in jobs' : \/ x \in jobs
                            \/ ~AtWork(x)
                            \/ x.k \in ks /\ x = Job(e, n, "mention", x.k, "start")
    BY <1>2, <1>9
  <2> HIDE DEF ks
  <2> QED
    BY <1>1, <1>2, <1>3, <2>1, Begun DEF IngestInv
<1>11. Sessions'
  BY <1>1 DEF IngestInv, Sessions
<1> QED
  BY <1>5, <1>7, <1>8, <1>10, <1>11 DEF IngestInv

\* The dispatched event is the first of its channel: nothing handles anything yet.
LEMMA DispatchInv ==
    ASSUME IngestInv, NEW e \in Events, rpc_dispatch(e)
    PROVE  IngestInv' /\ UNCHANGED claims
<1>1. /\ published = {} /\ published' = published \cup {e}
      /\ jobs' = jobs \cup {Job(e, FreeSlot(e), "dispatch", "dispatch", "authorize")}
      /\ UNCHANGED <<relayv, hw, mirror, inbox, claims>>
      /\ UNCHANGED <<sess, route, standing, effects, acks, slow>>
  BY DEF rpc_dispatch, durable, budget
<1>2. jobs = {}
  BY <1>1 DEF IngestInv, Jobs, JobOk
<1>3. FreeSlot(e) \in 1..MaxJobs
  <2>1. \A n \in 1..MaxJobs : \A j \in JobsOf(e) : j.kind = "mention" \/ j.n # n
    BY <1>2 DEF JobsOf
  <2> QED
    BY <2>1, KeyFacts DEF FreeSlot
<1>4. e \in published' /\ published' \subseteq Events
  BY <1>1
<1> PICK q : q = Job(e, FreeSlot(e), "dispatch", "dispatch", "authorize")
  OBVIOUS
<1>5. JobOk(q)' /\ ~AtWork(q)
  BY <1>3, <1>4, NewOperation
<1>6. jobs' = jobs \cup {q}
  BY <1>1
<1>7. Rosters' /\ Chats'
  BY <1>1, RostersSame, ChatsDispatch DEF IngestInv
<1>8. Jobs' /\ Effects'
  <2>1. relayv' \in Nat /\ relayv' >= relayv
    BY <1>1, RosterFacts DEF IngestInv, Rosters, Versions
  <2> QED
    BY <1>1, <1>5, <1>6, <2>1, OthersKeep DEF IngestInv
<1>9. Counts'
  <2>1. ASSUME NEW f \in Events, NEW h \in Keys
        PROVE  Counted(f, h)'
    <3>1. Busy(f, h)' \subseteq Busy(f, h)
      BY <1>5, <1>6 DEF Busy
    <3> QED
      BY <1>1, <3>1, CountedFewer DEF IngestInv, Counts
  <2> QED
    BY <1>1, <2>1 DEF IngestInv, Counts
<1>10. ClaimsTyped' /\ ClaimsPublished' /\ Sessions'
  BY <1>1 DEF IngestInv, ClaimsTyped, ClaimsPublished, Sessions
<1> QED
  BY <1>1, <1>7, <1>8, <1>9, <1>10 DEF IngestInv

-----------------------------------------------------------------------------
(* Rosters, time and faults.                                               *)

\* Steps that touch neither the claims nor the handlers.
LEMMA AsideInv ==
    ASSUME IngestInv, Rosters', Chats', relayv' >= relayv,
           UNCHANGED <<published, claims, jobs, effects, slow>>, inbox \subseteq inbox', Sessions'
    PROVE  IngestInv'
<1>1. relayv' \in Nat
  BY RosterFacts DEF Rosters, Versions
<1>2. Jobs' /\ Effects'
  BY <1>1, OthersKeep DEF IngestInv
<1>3. Counts'
  BY CountsStay DEF IngestInv
<1>4. ClaimsTyped' /\ ClaimsPublished'
  BY DEF IngestInv, ClaimsTyped, ClaimsPublished
<1> QED
  BY <1>2, <1>3, <1>4 DEF IngestInv

LEMMA MaterializeInv ==
    ASSUME IngestInv, NEW role \in Roles, NEW v \in DOMAIN AdminRoster, materialize_roster(role, v)
    PROVE  IngestInv' /\ UNCHANGED claims
<1>1. /\ UNCHANGED <<relayv, published, claims, jobs, effects, slow>>
      /\ UNCHANGED <<sess, route, standing, acks>>
  BY DEF materialize_roster, budget
<1>2. Rosters'
  BY RostersMaterialize DEF IngestInv
<1>3. Chats' /\ inbox \subseteq inbox'
  BY <1>2, ChatsMaterialize DEF IngestInv
<1>4. Sessions' /\ relayv' >= relayv
  BY <1>1, RosterFacts DEF IngestInv, Sessions, Rosters, Versions
<1> QED
  BY <1>1, <1>2, <1>3, <1>4, AsideInv

LEMMA RosterChangesInv ==
    ASSUME IngestInv, RosterChanges
    PROVE  IngestInv' /\ UNCHANGED claims
<1>1. /\ UNCHANGED <<hw, mirror, published, replaying, seen, quarantine, messages, inbox>>
      /\ UNCHANGED <<claims, jobs, effects, slow, sess, route, standing, acks>>
  BY DEF RosterChanges, durable, budget
<1>2. Rosters' /\ relayv' >= relayv
  BY RostersChange DEF IngestInv
<1>3. relayv' \in Nat /\ inbox' \subseteq published \X Hosted
  BY <1>1, <1>2, RosterFacts DEF IngestInv, Chats, Noted, Rosters, Versions
<1>4. Chats'
  BY <1>1, <1>2, <1>3, ChatsSame DEF IngestInv
<1>5. Sessions'
  BY <1>1 DEF IngestInv, Sessions
<1> QED
  BY <1>1, <1>2, <1>4, <1>5, AsideInv

LEMMA CallerInv ==
    ASSUME IngestInv,
           \/ wait_dispatch_ack \/ send_dispatch_message
           \/ \E p \in Hosted : SessionStops(p)
    PROVE  IngestInv' /\ UNCHANGED claims
<1>1. /\ UNCHANGED <<relayv, hw, mirror, published, replaying, seen, quarantine, messages>>
      /\ UNCHANGED <<inbox, claims, jobs, effects, slow, acks>>
  BY DEF wait_dispatch_ack, send_dispatch_message, SessionStops, ingress, budget
<1>2. Sessions'
  BY <1>1 DEF IngestInv, Sessions, wait_dispatch_ack, send_dispatch_message, SessionStops
<1>3. Rosters' /\ relayv' \in Nat /\ relayv' >= relayv
  BY <1>1, RostersSame, RosterFacts DEF IngestInv, Rosters, Versions
<1>4. Chats'
  <2>1. inbox' \subseteq published \X Hosted
    BY <1>1 DEF IngestInv, Chats, Noted
  <2> QED
    BY <1>1, <1>3, <2>1, ChatsSame DEF IngestInv
<1> QED
  BY <1>1, <1>2, <1>3, <1>4, AsideInv

LEMMA CrashInv ==
    ASSUME IngestInv, Crash
    PROVE  IngestInv' /\ UNCHANGED claims
<1>1. /\ UNCHANGED <<relayv, hw, mirror, published, inbox, claims>>
      /\ UNCHANGED <<effects, slow, sess, route, standing, acks>> /\ jobs' = {}
  BY DEF Crash, durable
<1>2. Rosters' /\ Chats'
  BY <1>1, RostersSame, ChatsCrash DEF IngestInv
<1>3. Jobs' /\ Effects'
  <2>1. relayv' \in Nat /\ relayv' >= relayv
    BY <1>1, RosterFacts DEF IngestInv, Rosters, Versions
  <2> QED
    BY <1>1, <2>1, OthersKeep DEF IngestInv
<1>4. Counts'
  <2>1. jobs' \subseteq jobs
    BY <1>1
  <2> QED
    BY <1>1, <2>1, CountsStay DEF IngestInv
<1>5. ClaimsTyped' /\ ClaimsPublished' /\ Sessions'
  BY <1>1 DEF IngestInv, ClaimsTyped, ClaimsPublished, Sessions
<1> QED
  BY <1>1, <1>2, <1>3, <1>4, <1>5 DEF IngestInv

\* A lease that expires under its handler is paid for by slow.
LEMMA AgesInv ==
    ASSUME IngestInv, NEW e \in published, NEW k \in Keys, Ages(e, k)
    PROVE  /\ IngestInv'
           /\ \A f \in Events, h \in Keys :
                claims[f][h].state = "completed" => claims'[f][h].state = "completed"
<1>1. /\ UNCHANGED <<relayv, hw, mirror, published, replaying, seen, quarantine, messages>>
      /\ UNCHANGED <<inbox, jobs, sess, route, standing, effects, acks>>
      /\ claims[e][k].state \in {"pending", "processing"} /\ ~claims[e][k].old
      /\ claims' = [claims EXCEPT ![e][k].old = TRUE]
      /\ IF claims[e][k].state = "processing" /\ \E j \in JobsOf(e) : j.k = k
           THEN slow' = slow + 1 ELSE UNCHANGED slow
  BY DEF Ages, ingress, budget
<1>2. e \in Events
  BY DEF IngestInv, Chats, Noted
<1>3. /\ ClaimsTyped'
      /\ \A f \in Events, h \in Keys :
           /\ f # e \/ h # k => claims'[f][h] = claims[f][h]
           /\ claims'[f][h].state = claims[f][h].state
  <2>1. claims \in [Events -> [Keys -> ClaimRecord]]
    BY DEF IngestInv, ClaimsTyped
  <2> DEFINE c == [claims[e][k] EXCEPT !.old = TRUE]
  <2>2. claims[e][k] \in ClaimRecord
    BY <1>2, <2>1
  <2>3. c \in ClaimRecord /\ c.state = claims[e][k].state
    BY <2>2 DEF ClaimRecord
  <2>4. claims' = [claims EXCEPT ![e][k] = c]
    BY <1>1
  <2> HIDE DEF c
  <2>5. /\ ClaimsTyped'
        /\ \A f \in Events, h \in Keys :
             claims'[f][h] = IF f = e /\ h = k THEN c ELSE claims[f][h]
    BY <1>2, <2>3, <2>4, Rewritten DEF IngestInv
  <2> QED
    BY <2>3, <2>5
<1>4. ClaimsPublished'
  BY <1>1, <1>3 DEF IngestInv, ClaimsPublished
<1>5. slow \in Nat /\ slow' \in Nat /\ (slow' = slow \/ slow' = slow + 1)
  BY <1>1 DEF IngestInv, Counts
<1>6. ASSUME NEW f \in Events, NEW h \in Keys
      PROVE  Counted(f, h)'
  <2>1. Counted(f, h) /\ Busy(f, h)' \subseteq Busy(f, h)
    BY <1>1 DEF IngestInv, Counts, Busy
  <2>2. CASE slow' = slow + 1
    BY <1>1, <1>5, <2>1, <2>2, CountedSlow
  <2>3. CASE slow' = slow /\ (f # e \/ h # k)
    BY <1>3, <1>5, <2>1, <2>3, CountedFewer
  <2>4. CASE slow' = slow /\ f = e /\ h = k
    <3>1. CASE claims[e][k].state = "pending"
      <4>1. claimable(claims[e][k])
        BY <3>1 DEF claimable
      <4> QED
        BY <1>5, <2>1, <2>4, <4>1, CountedFewer
    <3>2. CASE claims[e][k].state = "processing"
      <4>1. ~\E j \in JobsOf(e) : j.k = k
        BY <1>1, <1>5, <2>4, <3>2
      <4>2. Busy(f, h)' = {}
        BY <1>1, <2>4, <4>1 DEF Busy, JobsOf
      <4> QED
        BY <1>5, <2>4, <4>2, CountedNone
    <3> QED
      BY <1>1, <3>1, <3>2
  <2> QED
    BY <1>5, <2>2, <2>3, <2>4
<1>7. Counts'
  BY <1>5, <1>6 DEF Counts
<1>8. Rosters' /\ relayv' \in Nat /\ relayv' >= relayv
  BY <1>1, RostersSame, RosterFacts DEF IngestInv, Rosters, Versions
<1>9. Chats'
  <2>1. inbox' \subseteq published \X Hosted
    BY <1>1 DEF IngestInv, Chats, Noted
  <2> QED
    BY <1>1, <1>8, <2>1, ChatsSame DEF IngestInv
<1>10. Jobs' /\ Effects'
  BY <1>1, <1>8, OthersKeep DEF IngestInv
<1>11. Sessions'
  BY <1>1 DEF IngestInv, Sessions
<1> QED
  BY <1>3, <1>4, <1>7, <1>8, <1>9, <1>10, <1>11 DEF IngestInv

-----------------------------------------------------------------------------
(* The theorems.                                                           *)

LEMMA InitInv == IngestInit => IngestInv
<1> SUFFICES ASSUME IngestInit PROVE IngestInv
  OBVIOUS
<1> PICK t \in NewTraffic \cup SettledTraffic :
      /\ published = t[1]
      /\ relayv = IF t \in NewTraffic THEN 1 ELSE Len(AdminRoster)
      /\ hw = [r \in {"admin", "member"} |-> IF t \in NewTraffic THEN 0 ELSE relayv]
      /\ mirror = IF t \in NewTraffic THEN <<>>
                  ELSE [p \in AdminRoster[relayv] \cup MemberRoster[relayv] |->
                          IF p \in AdminRoster[relayv] THEN "admin" ELSE "member"]
      /\ sess = [p \in Hosted |-> IF p \in t[2] THEN "running"
                                 ELSE IF p \in Derived THEN "stopped" ELSE "none"]
  BY DEF IngestInit
<1>1. /\ replaying = published /\ seen = <<>> /\ quarantine = {} /\ messages = {} /\ inbox = {}
      /\ claims = [e \in Events |-> [k \in Keys |-> [state |-> "none", old |-> FALSE]]]
      /\ jobs = {} /\ route = Derived /\ standing = {}
      /\ effects = [e \in Events |-> [k \in Keys |-> 0]]
      /\ acks = {} /\ slow = 0
  BY DEF IngestInit
<1>2. Rosters
  <2>1. relayv \in 1..Len(AdminRoster) /\ relayv \in Nat
    BY RosterFacts
  <2>2. Versions
    BY <2>1 DEF Versions, Roles
  <2>3. CASE t \in NewTraffic
    <3>1. DOMAIN mirror = {} /\ hw["admin"] = 0 /\ hw["member"] = 0
      BY <2>3
    <3> QED
      BY <2>2, <3>1 DEF Rosters, RowsBacked, AdminsMirrored, LoyalMirrored
  <2>4. CASE t \notin NewTraffic
    <3>1. /\ hw["admin"] = relayv /\ hw["member"] = relayv /\ relayv > 0
          /\ DOMAIN mirror = AdminRoster[relayv] \cup MemberRoster[relayv]
          /\ \A p \in DOMAIN mirror :
               mirror[p] = IF p \in AdminRoster[relayv] THEN "admin" ELSE "member"
      BY <2>1, <2>4
    <3>2. \A p : Loyal(p) => p \in MemberRoster[relayv]
      BY <2>1, RosterFacts DEF Loyal
    <3> QED
      BY <2>2, <3>1, <3>2 DEF Rosters, RowsBacked, AdminsMirrored, LoyalMirrored
  <2> QED
    BY <2>3, <2>4
<1>3. Chats
  <2>1. published \subseteq Events
    BY TrafficAssumption
  <2> QED
    BY <1>1, <2>1 DEF Chats, Noted, Stored, MemberChatKept
<1>4. ClaimsTyped /\ ClaimsPublished
  BY <1>1 DEF ClaimsTyped, ClaimsPublished, ClaimRecord
<1>5. Jobs /\ Effects
  BY <1>1 DEF Jobs, Effects
<1>6. Counts
  <2>1. ASSUME NEW e \in Events, NEW k \in Keys
        PROVE  Counted(e, k)
    <3>1. Busy(e, k) = {}
      BY <1>1 DEF Busy
    <3>2. IsFiniteSet({}) /\ Cardinality({}) = 0
      BY FS_EmptySet
    <3>3. 0 <= Paid(e, k)
      BY <1>1 DEF Paid
    <3> QED
      BY <3>1, <3>2, <3>3 DEF Counted
  <2> QED
    BY <1>1, <2>1 DEF Counts
<1>7. Sessions
  BY <1>1 DEF Sessions, Hosted
<1> QED
  BY <1>2, <1>3, <1>4, <1>5, <1>6, <1>7 DEF IngestInv

\* One step, and what it leaves of the completed claims.
LEMMA InvNext ==
    ASSUME IngestInv, [IngestNext]_ingestVars
    PROVE  /\ IngestInv'
           /\ \A e \in Events, k \in Keys :
                claims[e][k].state = "completed" => claims'[e][k].state = "completed"
<1> DEFINE Good == /\ IngestInv'
                   /\ \A e \in Events, k \in Keys :
                        claims[e][k].state = "completed" => claims'[e][k].state = "completed"
<1>1. ASSUME IngestInv', UNCHANGED claims PROVE Good
  BY <1>1
<1>2. CASE RosterChanges \/ wait_dispatch_ack \/ send_dispatch_message \/ Crash
           \/ \E p \in Hosted : SessionStops(p)
  <2>1. IngestInv' /\ UNCHANGED claims
    BY <1>2, RosterChangesInv, CallerInv, CrashInv
  <2> QED
    BY <1>1, <2>1
<1>3. CASE drive_retries
  BY <1>3, RetriesInv
<1>4. CASE \E role \in {"admin", "member"}, v \in DOMAIN AdminRoster : materialize_roster(role, v)
  <2>1. IngestInv' /\ UNCHANGED claims
    BY <1>4, MaterializeInv DEF Roles
  <2> QED
    BY <1>1, <2>1
<1>5. CASE \E e \in Events : rpc_dispatch(e)
  <2>1. IngestInv' /\ UNCHANGED claims
    BY <1>5, DispatchInv
  <2> QED
    BY <1>1, <2>1
<1>6. CASE \E e \in Events : handle_incoming(e)
  BY <1>6, IncomingInv
<1>7. CASE \E e \in published, k \in Keys : Ages(e, k)
  BY <1>7, AgesInv
<1>8. CASE \E j \in jobs : JobStep(j)
  <2> PICK j \in jobs : JobStep(j)
    BY <1>8
  <2>1. Serves(j)
    BY JobStepServes
  <2> QED
    BY <2>1, ServesInv
<1>9. CASE UNCHANGED ingestVars
  <2>1. /\ UNCHANGED <<relayv, hw, mirror, published, replaying, seen, quarantine, messages, inbox>>
        /\ UNCHANGED <<claims, jobs, effects, slow, sess, route, standing, acks>>
    BY <1>9 DEF ingestVars, durable, budget
  <2>2. Rosters' /\ Sessions' /\ relayv' >= relayv
    BY <2>1, RostersSame, RosterFacts DEF IngestInv, Sessions, Rosters, Versions
  <2>3. Chats'
    BY <2>1 DEF IngestInv, Chats, Noted, Stored, Listed, MemberChatKept,
                has_channel_membership_snapshot
  <2>4. IngestInv'
    BY <2>1, <2>2, <2>3, AsideInv
  <2> QED
    BY <1>1, <2>1, <2>4
<1>10. \/ RosterChanges \/ wait_dispatch_ack \/ send_dispatch_message \/ Crash
       \/ \E p \in Hosted : SessionStops(p)
       \/ drive_retries
       \/ \E role \in {"admin", "member"}, v \in DOMAIN AdminRoster : materialize_roster(role, v)
       \/ \E e \in Events : rpc_dispatch(e)
       \/ \E e \in Events : handle_incoming(e)
       \/ \E e \in published, k \in Keys : Ages(e, k)
       \/ \E j \in jobs : JobStep(j)
       \/ UNCHANGED ingestVars
  BY DEF IngestNext, JobStep
<1> QED
  BY <1>2, <1>3, <1>4, <1>5, <1>6, <1>7, <1>8, <1>9, <1>10

\* What the run checks follows from the invariant.
LEMMA TypesHold == IngestInv => IngestTypeOK
<1> SUFFICES ASSUME IngestInv PROVE IngestTypeOK
  OBVIOUS
<1>1. relayv \in DOMAIN AdminRoster
  BY RosterFacts DEF IngestInv, Rosters, Versions
<1>2. DOMAIN mirror \subseteq Pubkeys
  <2> SUFFICES ASSUME NEW p \in DOMAIN mirror PROVE p \in Pubkeys
    OBVIOUS
  <2>1. PICK v \in 1..relayv : p \in AdminRoster[v] \cup MemberRoster[v]
    BY MirrorSound DEF IngestInv, Listed
  <2>2. v \in DOMAIN AdminRoster
    BY <1>1, RosterFacts
  <2> QED
    BY <2>1, <2>2 DEF Pubkeys
<1>3. \A r \in DOMAIN hw : hw[r] \in 0..relayv
  BY RosterFacts DEF IngestInv, Rosters, Versions
<1>4. /\ published \subseteq Events /\ replaying \subseteq published
      /\ {seen[i] : i \in DOMAIN seen} \subseteq published
      /\ quarantine \subseteq published /\ messages \subseteq published
      /\ inbox \subseteq published \X Hosted
  BY DEF IngestInv, Chats, Noted
<1>5. \A e \in Events, k \in Keys :
        /\ claims[e][k].state \in {"none", "pending", "processing", "completed"}
        /\ e \notin published => claims[e][k].state = "none"
  BY DEF IngestInv, ClaimsTyped, ClaimsPublished, ClaimRecord
<1>6. \A j \in jobs : j.e \in published /\ j.k \in Keys /\ j.n \in 1..MaxJobs
  BY DEF IngestInv, Jobs, JobOk, JobRecord
<1> QED
  BY <1>1, <1>2, <1>3, <1>4, <1>5, <1>6 DEF IngestTypeOK, IngestInv, Sessions

LEMMA SafetyHolds == IngestInv => IngestSafe
<1> SUFFICES ASSUME IngestInv PROVE IngestSafe
  OBVIOUS
<1>1. MemberChatKept /\ AdmissionDecided
  BY DEF IngestInv, Chats, Stored, Listed, AdmissionDecided
<1>2. ClaimExclusive
  <2> SUFFICES ASSUME NEW e \in published, NEW k \in Keys
               PROVE  Cardinality({j \in JobsOf(e) : j.k = k /\ j.pc \notin {"authorize", "claim"}})
                        <= 1 + slow
    BY DEF ClaimExclusive
  <2>1. e \in Events
    BY DEF IngestInv, Chats, Noted
  <2> PICK B : B = Busy(e, k)
    OBVIOUS
  <2>2. {j \in JobsOf(e) : j.k = k /\ j.pc \notin {"authorize", "claim"}} = B
    BY DEF Busy, JobsOf, AtWork
  <2>3. IsFiniteSet(B) /\ Cardinality(B) <= Paid(e, k) /\ slow \in Nat
    BY <2>1 DEF IngestInv, Counts, Counted
  <2>4. Cardinality(B) \in Nat
    BY <2>3, FS_CardinalityType
  <2>5. Paid(e, k) <= 1 + slow /\ Paid(e, k) \in Nat
    BY <2>3 DEF Paid
  <2>6. Cardinality(B) <= 1 + slow
    BY <2>3, <2>4, <2>5
  <2> QED
    BY <2>2, <2>6
<1>3. \A e \in published, k \in Keys : e \in Events /\ (effects[e][k] > 0 => Effected(e, k))
  BY DEF IngestInv, Chats, Noted, Effects
<1>4. EffectsAuthorized
  <2> SUFFICES ASSUME NEW e \in published, NEW k \in Keys \ Hosted, effects[e][k] > 0
               PROVE  /\ \E v \in 1..relayv :
                           IF k = "dispatch" THEN From[e] \in AdminRoster[v] \cup MemberRoster[v]
                           ELSE \/ From[e] \in AdminRoster[v]
                                \/ k # "management" /\ From[e] \in ChildAdmins
                      /\ k \in {"t1", "t2"} =>
                           parse_orchestration(Wire[e]) # {} /\ Wire[e].op # "admit"
                      /\ k = "management" => Wire[e].body # "garbled"
    BY DEF EffectsAuthorized
  <2>1. Authorized(e, k) /\ k \in {"t1", "t2", "dispatch", "management"}
    BY <1>3 DEF Effected, Keys
  <2>2. relayv \in 1..relayv
    BY RosterFacts DEF IngestInv, Rosters, Versions
  <2> QED
    BY <2>1, <2>2 DEF Authorized, Listed, WasAdmin, parse_command
<1>5. LaunchedIsQueued
  BY <1>3, KeyFacts DEF LaunchedIsQueued, Effected
<1> QED
  BY <1>1, <1>2, <1>4, <1>5, TypesHold DEF IngestSafe

\* Whatever the order, repetition and delay of the relay's events, and wherever
\* the daemon crashes: chats of members are kept, admission is decided by the
\* rosters, each claim has one handler for each that outlived its lease and one
\* more, and nothing unauthorized is launched or executed (demux.rs).
THEOREM IngestSafeCorrect == IngestSpec => []IngestSafe
<1>1. IngestInv /\ [IngestNext]_ingestVars => IngestInv'
  BY InvNext
<1> QED
  BY <1>1, InitInv, SafetyHolds, PTL DEF IngestSpec

\* A claim that is completed stays completed: no redelivery, no retry and no
\* handler that comes late reopens it (state/event_claims.rs).
THEOREM TombstoneFinalCorrect == IngestSpec => TombstoneFinal
<1> DEFINE Stay == \A e \in Events, k \in Keys :
                     claims[e][k].state = "completed" => claims'[e][k].state = "completed"
<1>1. IngestInv /\ [IngestNext]_ingestVars => IngestInv'
  BY InvNext
<1>2. IngestInv /\ [IngestNext]_ingestVars => [Stay]_ingestVars
  BY InvNext
<1> QED
  BY <1>1, <1>2, InitInv, PTL DEF IngestSpec, TombstoneFinal
=============================================================================
