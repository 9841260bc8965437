--------------------------- MODULE MCNavFilterMgr ---------------------------
(* Nine messages of one satellite in seven epochs: subframes 1 to 3 of an  *)
(* ephemeris, three copies of the next subframe with two contents, one of  *)
(* which fails the check, a subframe 1 on another channel, and two later   *)
(* subframes.  A single copy can win its vote.  There is one epoch more    *)
(* than processingDepth() counts, and LNavEphMaker has two channels.       *)
EXTENDS NavFilterMgr

MCMsg == 1..9
MCTimeStamp == <<6, 12, 18, 24, 24, 24, 30, 36, 42>>
MCBits == <<1, 1, 1, 1, 2, 2, 1, 1, 1>>
MCChannel == <<1, 1, 1, 1, 2, 3, 2, 1, 1>>
MCSfid == <<1, 2, 3, 4, 4, 4, 1, 4, 1>>
MCTow == <<1, 2, 3, 4, 4, 4, 5, 6, 7>>
MCOne == [m \in MCMsg |-> 1]

MCFilters == <<"check", "order", "cross", "eph">>
MCFailing == <<{6}, {}, {}, {}>>

=============================================================================
