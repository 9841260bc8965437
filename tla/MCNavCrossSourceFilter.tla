----------------------- MODULE MCNavCrossSourceFilter -----------------------
(* Five copies of one subframe with two contents (a majority of either, a  *)
(* tie or too few, depending on which arrive), a second satellite in the   *)
(* same epoch, and a message of the next epoch.                            *)
EXTENDS NavCrossSourceFilter

MCMsg == 1..7
MCTimeStamp == <<6, 6, 6, 6, 6, 6, 12>>
MCPrn == <<1, 1, 1, 1, 1, 2, 1>>
MCBits == <<1, 1, 2, 2, 2, 1, 1>>

=============================================================================
