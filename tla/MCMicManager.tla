---------------------------- MODULE MCMicManager ----------------------------
(* MicManager for TLC: two talkers of different priority, two units. *)
EXTENDS MicManager

CONSTANTS chairman, common, a, b, c

MCTerminals == {chairman, common}
MCPriorOf == (chairman :> 0) @@ (common :> 2)
TwoUnits == <<<<a, b>>, <<c>>>>
MCSysStates == {"discuss", "vote"}
MCPermissions == {{"discuss"}}
AllOutcomes == {"success", "error", "timeout"}
=============================================================================
