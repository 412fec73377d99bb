------------------------------ MODULE MCHubPages ------------------------------
(***************************************************************************)
(* Weeks of two days, minutes of two seconds; limits small enough for a    *)
(* form to cut and for a grant to take below zero.                         *)
(***************************************************************************)
EXTENDS HubPages

MCPolicies == {<<1, 2>>, <<0, 2>>, <<2, 2>>}
MCGates == {{}, {1}}
MCOverrides == {3}
MCBonuses == {-1}
=============================================================================
