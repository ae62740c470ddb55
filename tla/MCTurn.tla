------------------------------- MODULE MCTurn -------------------------------
(* Small instances of TurnContext: a workspace r with a channel p in it and a  *)
(* channel x in p.                                                             *)
EXTENDS TurnContext

Tree == [c \in TChannels |-> CASE c = "r" -> {} [] c = "p" -> {"r"} [] c = "x" -> {"p"}]

Kinds == <<"chat", "chat", "chat", "mention", "mention", "reaction", "presence", "profile">>
Places == <<"p", "p", "p", "x", "p", "r", "p", "r">>

Scene(items, scope, members, missing, env) ==
  [items |-> items, scope |-> scope, members |-> members, missing |-> missing, env |-> env]

(* The passive rows with the end of a turn, a mention with a fault, a first    *)
(* turn with more rows than it prints, an archived channel, a channel whose    *)
(* metadata arrives before its parent's, and a change of mode.                 *)
Scenes == {Scene({6}, "p", {"r", "p"}, {}, {"end"}),
           Scene({7}, "p", {"r", "p"}, {}, {}),
           Scene({8}, "p", {"r", "p"}, {}, {}),
           Scene({5}, "p", {"r", "p"}, {}, {"fault"}),
           Scene({1, 2}, "p", {"r", "p"}, {}, {"late"}),
           Scene({}, "r", {"r"}, {}, {"archive"}),
           Scene({4}, "r", {"r", "p"}, {"p"}, {}),
           Scene({}, "p", {"r", "p"}, {}, {"mode"})}
=============================================================================
