-------------------------- MODULE MCNavOrderFilter --------------------------
(* NavOrderFilter with six messages on and off the epoch grid, two of    *)
(* them at the same time, and a jump of more than the window.              *)
EXTENDS NavOrderFilter

MCMsg == 1..6
MCTimeStamp == <<2, 4, 4, 5, 8, 13>>
MCOne == [m \in MCMsg |-> 1]

=============================================================================
