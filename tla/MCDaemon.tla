------------------------------ MODULE MCDaemon ------------------------------
(* Command mixes for DaemonProcess: two commands of two protocol    *)
(* versions that find no daemon, a stale socket or an older daemon.          *)
EXTENDS DaemonProcess

J(k, v) == [kind |-> k, ver |-> v]

Mixes ==
  { <<J("mutate", 2), J("query", 1)>>,
    <<J("query", 2), J("hook", 1)>>,
    <<J("async", 2), J("mutate", 1)>>,
    <<J("mutate", 2), J("async", 2)>>,
    <<J("stop", 1), J("query", 1)>>,
    <<J("stop", 1), J("hook", 1)>>,
    <<J("check", 2), J("query", 2)>> }

=============================================================================
