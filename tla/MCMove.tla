------------------------------- MODULE MCMove -------------------------------
(* The instances of ChannelMove that TLC checks. *)
EXTENDS ChannelMove

Say(s, t) == [by |-> s, at |-> t, kind |-> "talk", name |-> ""]
Ack(s, t) == [by |-> s, at |-> t, kind |-> "ack", name |-> ""]

\* n messages of two speakers in turn, d seconds apart.
Turns(a, b, n, d) == [i \in 1..n |-> Say(IF i % 2 = 1 THEN a ELSE b, d * i)]

Scen(ss, talk) ==
  [sessions |-> ss, local |-> ss \ {"r"}, callers |-> {"a"}, admins |-> {}, stopped |-> {},
   busy |-> {"a"}, away |-> {}, chat |-> talk, kids |-> {}, names |-> {"x"}, invites |-> <<>>,
   now |-> 30, until |-> 30, ticks |-> {}, audience |-> 0, reactors |-> {}, talkers |-> {}, churn |-> {},
   rank |-> [s \in ss |-> CASE s = "a" -> 1 [] s = "b" -> 2 [] s = "q" -> 3 [] OTHER -> 4]]

Steady == Turns("a", "b", 6, 4)

\* Both speakers hold offers and accept at once, under one or two names.
Both == [Scen({"a", "b"}, Steady) EXCEPT !.callers = {"a", "b"}, !.busy = {"a", "b"},
                                         !.names = {"x", "y"}]
\* The caller or its peer relaunches during the acceptance; a silent agent listens.
Churn == [Scen({"a", "b", "q"}, Steady) EXCEPT !.churn = {"a", "b"}]
\* Offers expire, lotteries cool down.
Lapse == [Scen({"a", "b"}, Steady) EXCEPT !.busy = {"a", "b"}, !.ticks = {10, 121}, !.until = 161,
                                          !.talkers = {"b"}]
\* A speaker on another host, focused elsewhere.
Far == [Scen({"a", "q", "r"}, Turns("a", "r", 6, 4)) EXCEPT !.away = {"r"}, !.churn = {"r"}]
\* Four messages in front of a large audience, one of whom reacted.
Narrow == [Scen({"a", "b", "q"}, Turns("a", "b", 4, 7)) EXCEPT !.audience = 4, !.reactors = {"q"},
                                         !.talkers = {"q", "b"}, !.kids = {"x"}]
\* Conversations that are short of one condition each.
Short == {[Scen({"a", "b"}, Turns("a", "b", 5, 5)) EXCEPT !.audience = 1, !.talkers = {"a"}],
          Scen({"a", "b"}, Turns("a", "b", 6, 3)),
          Scen({"a", "b"}, <<Say("a", 1), Say("a", 2), Say("a", 3), Say("b", 28), Say("b", 29), Say("b", 30)>>),
          Scen({"a", "b"}, <<Say("a", 1), Ack("b", 6), Say("a", 11), Say("b", 16), Say("a", 21), Ack("b", 30)>>),
          [Scen({"a", "b"}, Steady) EXCEPT !.admins = {"b"}],
          [Scen({"a", "b"}, Steady) EXCEPT !.now = 400, !.until = 400]}
\* A running, a stopped or a remote session is invited while it changes.
Invite(w) == [Scen({w}, <<>>) EXCEPT !.callers = {}, !.busy = {}, !.kids = {"x"},
                !.stopped = {w} \cap {"q", "r"}, !.churn = {w},
                !.invites = <<[who |-> w, chan |-> "x"], [who |-> w, chan |-> "x"]>>]

MCScenarios == {Both, Churn, Lapse, Far, Narrow, Invite("b"), Invite("q"), Invite("r")} \cup Short
=============================================================================
