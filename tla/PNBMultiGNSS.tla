----------------------------- MODULE PNBMultiGNSS -----------------------------
(***************************************************************************)
(* PNBMultiGNSSNavDataFactory: one factory for all navigation messages,    *)
(* which gives every page to the decoder it is for and its filters to all  *)
(* of them.  The decoders are in four parts: the pages of one data set     *)
(* (PNBPages), the almanac pages that wait for another (PNBAlmanacs),      *)
(* those of GLONASS (PNBGLOFAlmanacs), and CNAV-2 (PNBCNav2).              *)
(***************************************************************************)
EXTENDS PNBPages

VARIABLES
  fullWNaMap, almAcc, heaAcc, amEpIDMap, nmctAcc, almOut, outdated,   \* see PNBAlmanacs
  opened, almS, almDOY, pendingAlms, timeAcc, gloOut,       \* see PNBGLOFAlmanacs
  sf2Acc, sf3Acc, cnavOut, unpublished, lastPage1           \* see PNBCNav2

Alm == INSTANCE PNBAlmanacs
Glo == INSTANCE PNBGLOFAlmanacs
Two == INSTANCE PNBCNav2

ASSUME HeadAssumption == Two!HeadIsNotPage1

multiVars == <<vars, Alm!vars, Glo!vars, Two!vars>>

MultiInit == Init /\ Alm!Init /\ Glo!Init /\ Two!Init

MultiAddData(p) ==
  AddData(p) /\ Alm!AddData(p) /\ Glo!AddData(p) /\ Two!AddData(p)

MultiResetState ==
  ResetState /\ Alm!ResetState /\ Glo!ResetState /\ Two!ResetState

MultiNext == MultiResetState \/ \E p \in setup.air : MultiAddData(p)

MultiSpec == MultiInit /\ [][MultiNext]_multiVars

-----------------------------------------------------------------------------
(* Properties                                                              *)

\* The four parts keep what each of them promises when they share the pages.
DatedByOwnToa == Alm!DatedByOwnToa
NoneOverdue == Alm!NoneOverdue
WaitsUntilUsed == Alm!WaitsUntilUsed
NoPairWaits == Glo!NoPairWaits
EverySF2Published == Two!EverySF2Published

\* A comment of PNBGPSCNav2DataFactory.cpp: see PNBCNav2.
LatestPage1 == Two!LatestPage1

=============================================================================
