----------------------------- MODULE MCMessaging -----------------------------
(* The instances of ChannelMessaging that TLC checks. *)
EXTENDS ChannelMessaging

O(kind, from, chan, tags, orig, body) ==
  [kind |-> kind, from |-> from, chan |-> chan, tags |-> tags, orig |-> orig, body |-> body,
   force |-> FALSE]

Reader(kind, sess, chan, reply) ==
  [kind |-> kind, sess |-> sess, chan |-> chan, scopes |-> {chan}, reply |-> reply,
   authors |-> {}, limit |-> 1]

S(ops, readers, hyd) ==
  [ops |-> ops, readers |-> readers, journal |-> <<>>, hydrated |-> hyd, relays |-> {"w1"},
   churn |-> {}, time |-> 1,
   routes |-> [s \in Sessions |-> IF s = "s1" THEN {"c"} ELSE {"c", "d"}]]

Tag == O("send", "s1", {}, <<"two">>, 0, "plain")
Plain == O("send", "s2", {"c"}, <<>>, 0, "plain")
Remote == O("remote", "r", {"c"}, <<>>, 0, "plain")
ToSession == O("remote", "r", {"c"}, <<"s1">>, 0, "plain")
Backend == O("remote", "b", {"c"}, <<>>, 0, "plain")
Journal == <<[id |-> 1, form |-> "group"], [id |-> 2, form |-> "corrupt"],
             [id |-> 3, form |-> "profile"], [id |-> 4, form |-> "other"]>>

\* Two senders at once, one tagging the other.
Senders == [S(<<Tag, Plain>>, <<>>, TRUE) EXCEPT !.churn = {"s2"}, !.time = 2,
             !.routes = [s \in Sessions |-> {"c"}]]
\* A reader of each kind over remote chats that arrive out of order.
Follow(kind) == [S(<<Remote, ToSession>>, <<Reader(kind, "s2", "c", 0)>>, TRUE) EXCEPT !.time = 2]
Filtered == S(<<Backend, Plain, Remote>>, <<[Reader("wait", "s1", "c", 0) EXCEPT !.authors = {"r", "b"}]>>, TRUE)
\* The original author waits for a reply while others write.
Replies == S(<<O("send", "s1", {"c"}, <<>>, 0, "plain"),
               O("remote", "r", {"c"}, <<"s1">>, 1, "plain"),
               O("reply", "s2", {}, <<>>, 1, "plain")>>, <<Reader("wait", "s1", "c", 1)>>, TRUE)
\* The rosters are not mirrored yet.
Fresh == S(<<Remote, ToSession>>, <<Reader("wait", "s2", "c", 0)>>, FALSE)
\* Calls refused before anything is published.
RefusedCalls == S(<<O("send", "s2", {}, <<>>, 0, "plain"), O("send", "s1", {}, <<"one">>, 0, "plain"),
               O("reply", "s1", {}, <<>>, 2, "plain"), O("react", "s1", {}, <<>>, 4, "plain"), Remote,
               O("send", "s1", {"e"}, <<"two">>, 0, "plain")>>, <<>>, TRUE)
Orchestrate == [S(<<O("orch", "m", {"c"}, <<>>, 0, "plain"), O("react", "s1", {}, <<>>, 3, "plain"), Remote>>,
                  <<>>, TRUE) EXCEPT !.relays = {"w1", "w2"}]
Migrated == [S(<<>>, <<>>, TRUE) EXCEPT !.journal = Journal]

MCTraffic == {Senders, Follow("wait"), Follow("live"), Follow("tail"), Filtered, Replies, Fresh,
              RefusedCalls, Orchestrate, Migrated}

MCHandles == [l \in {"one", "two"} |-> IF l = "one" THEN "s1" ELSE "s2"]
MCProfiles == [l \in {"rem"} |-> "r"]
MCHome == [s \in {"s1", "s2"} |-> IF s = "s1" THEN "c" ELSE "d"]
MCRoot == [c \in {"c", "d", "e"} |-> IF c = "e" THEN "e" ELSE "c"]

=============================================================================
