------------------------------- MODULE MCMcp -------------------------------
(* Small instances of McpGateway: the requests in flight at a time are of one  *)
(* conversation.                                                               *)
EXTENDS McpGateway

Asks == [b \in Browsers |-> IF b = 1 THEN [resource |-> "mcp", scope |-> "r", whitelisted |-> TRUE]
                            ELSE [resource |-> "mcp", scope |-> "none", whitelisted |-> TRUE]]

Q(agent, session, write, override, tool, scope) ==
    [agent |-> agent, subject |-> "s", session |-> session, write |-> write,
     override |-> override, tool |-> tool, token |-> scope]

\* Two requests of one conversation, one of another, and one without a conversation.
Requests ==
    <<Q("openai", "x", TRUE, FALSE, "channel_send", "rw"),
      Q("openai", "x", FALSE, FALSE, "channel_read", "r"),
      Q("openai", "y", TRUE, TRUE, "channel_send", "rw"),
      Q("openai", "none", TRUE, FALSE, "channel_send", "r")>>

Posted == {r \in MReqs : areq[r].pc # "idle"}

\* Requests and faults of a behaviour, together.
McpEffort == 3

\* Request r may come in beside those in flight.
Joins(r) ==
    \A q \in MReqs :
        areq[q].pc \in {"idle", "done", "failed"} \/ ReqOf[q].session = ReqOf[r].session
=============================================================================
