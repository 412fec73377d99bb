---------------------------- MODULE MCAgentTick ----------------------------
(***************************************************************************)
(* Two bounds for TLC: a run has midnights, or use elsewhere and changes   *)
(* by an admin, not both; and the device begins with less than the policy  *)
(* allows.                                                                 *)
(***************************************************************************)
EXTENDS AgentTick

SameDay == localDay = 0 /\ agentDay = 0 /\ hubDay = 0
Quiet == admin = 0 /\ other = 0

ChangeToday == SameDay /\ Admin
UseElsewhereToday == SameDay /\ OtherDevice
QuietLocalMidnight == Quiet /\ LocalMidnight
QuietAgentMidnight == Quiet /\ AgentMidnight
QuietHubMidnight == Quiet /\ HubMidnight

MCNext ==
    \/ AgentStep
    \/ HubSync
    \/ Crash
    \/ Elapse \/ UseElsewhereToday
    \/ QuietLocalMidnight \/ QuietAgentMidnight \/ QuietHubMidnight
    \/ ChangeToday

MCInit == Init /\ daemon.limit < policy

MCSpec == MCInit /\ [][MCNext]_vars /\ Fairness
=============================================================================
