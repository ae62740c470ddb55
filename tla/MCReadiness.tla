---------------------------- MODULE MCReadiness ----------------------------
(* Two handlers race for one channel name, on the relays a workspace meets. *)
EXTENDS ChannelReadiness

MCIds == <<"c1", "c2">>
Asked(start, a, b) == [start |-> start, plan |-> [p \in Callers |-> IF p = "h1" THEN a ELSE b]]
MCTraffic ==
    {Asked("known", {"resolve", "create"}, {"create"}),
     Asked("known", {"resolve"}, {"start"}),
     Asked("known", {"start"}, {"archive"}),
     Asked("foreign", {"resolve"}, {"create"}),
     Asked("fresh", {"create"}, {"start"})}
MCFaults == {"fetch", "create", "name", "read", "grant", "remove", "timeout", "crash",
             "expire"}
=============================================================================
