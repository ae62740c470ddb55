------------------------------ MODULE InboxLedger ------------------------------
(***************************************************************************)
(* What the inbox promises a sender, without saying how: a message that   *)
(* was accepted is handed to the agent once, unless a fault takes it.      *)
(* A fault is a crash of the daemon or one failed step of a delivery, and *)
(* a fault takes only messages that a delivery had claimed by then.        *)
(***************************************************************************)
CONSTANTS Msgs

VARIABLES status,    \* what became of each message
          mayLose    \* a fault has happened

ledgerVars == <<status, mayLose>>

LedgerStatus == {"new", "queued", "handed", "lost"}

LedgerInit == status = [m \in Msgs |-> "new"] /\ mayLose = FALSE

\* Messages move together: a claim takes every pending row at once.
Move(S, from, to) ==
    /\ S # {}
    /\ \A m \in S : status[m] = from
    /\ status' = [m \in Msgs |-> IF m \in S THEN to ELSE status[m]]

Accept == \E S \in SUBSET Msgs : Move(S, "new", "queued") /\ UNCHANGED mayLose

Hand == \E S \in SUBSET Msgs : Move(S, "queued", "handed") /\ UNCHANGED mayLose

\* The row of a lost message is pruned; the relay may send the event again.
Forget == \E S \in SUBSET Msgs : Move(S, "lost", "new") /\ UNCHANGED mayLose

\* The step that loses messages is the fault itself.
Lose == \E S \in SUBSET Msgs : Move(S, "queued", "lost") /\ mayLose' = TRUE

Fault == mayLose' = TRUE /\ UNCHANGED status

LedgerNext == Accept \/ Hand \/ Forget \/ Lose \/ Fault

LedgerSpec == LedgerInit /\ [][LedgerNext]_ledgerVars
================================================================================
