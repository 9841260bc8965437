--------------------------- MODULE MCLNavEphMaker ---------------------------
(* Two channels.  The first broadcasts subframes 1 to 4 of a frame, then 1  *)
(* to 3 of the next frame with a new issue of data; the second a frame      *)
(* during which the issue changes, and the next one.                        *)
EXTENDS LNavEphMaker

MCMsg == 1..11
MCTimeStamp == <<6, 12, 18, 24, 36, 42, 48, 6, 12, 36, 48>>
MCChannel == <<1, 1, 1, 1, 1, 1, 1, 2, 2, 2, 2>>
MCSfid == <<1, 2, 3, 4, 1, 2, 3, 1, 2, 1, 3>>
MCTow == <<1, 2, 3, 4, 6, 7, 8, 1, 2, 6, 8>>
MCIode == <<1, 1, 1, 1, 2, 2, 2, 1, 1, 1, 1>>
MCOne == [m \in MCMsg |-> 1]

=============================================================================
