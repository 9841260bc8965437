--------------------------- MODULE PNBGLOFAlmanacs ---------------------------
(***************************************************************************)
(* Almanacs and time offsets of PNBGLOFNavDataFactory.  The almanac of a   *)
(* satellite is in two strings, and the day it refers to in string 5 of    *)
(* any satellite: until one is heard, pairs of strings wait.  The offset   *)
(* from UT1 is completed by strings 4, 5 and 14.                           *)
(***************************************************************************)
EXTENDS Integers, FiniteSets

CONSTANTS
  Page,    \* what can be heard; those with dec = "GLOF" are strings of "bits" bits
  Setups   \* see PNBPages

VARIABLES
  setup,        \* what is on the air, wanted and let through
  opened,       \* keys of the map of almanac strings
  almS,         \* almanac strings held, at most one of each number and key
  almDOY,       \* the string 5 that gave the day, as a set; empty at first
  pendingAlms,  \* a pair has been completed with no day known
  timeAcc,      \* parts of the UT1 offset, as [key, part, page]
  gloOut        \* the messages the last call put out

state == <<opened, almS, almDOY, pendingAlms, timeAcc>>
vars == <<setup, state, gloOut>>

Init ==
  /\ setup \in Setups
  /\ opened = {} /\ almS = {} /\ almDOY = {} /\ pendingAlms = FALSE /\ timeAcc = {}
  /\ gloOut = {}

Wanted(t) == t \in setup.wanted

Key(p) == [sat |-> p.sat, signal |-> p.signal]

\* The first string of the pair that a string belongs to.
AlmIdx(p) == p.slot - (p.slot % 2)

Pair(S, k, idx) == {p \in S : Key(p) = k /\ AlmIdx(p) = idx}

\* validSize(): the lengths that addData() lets through.
ValidSize(p) == p.bits \in {85, 96}

\* Both strings are there, in full, one transmitted right after the other.
Whole(pair) ==
  \E p, q \in pair :
    /\ q.slot = p.slot + 1 /\ p.bits = 96 /\ q.bits = 96
    /\ q.time - p.time = 2

Pairs(S) == {Pair(S, Key(p), AlmIdx(p)) : p \in S}

\* What processAlmOrb() makes of a pair once the day is known.
Almanac(pair, day) ==
  [type : {"Almanac", "Health"} \cap setup.wanted, pages : {pair \cup day}]

-----------------------------------------------------------------------------

\* String 4 has the day N_T.
String4(p) ==
  /\ p.slot = 4
  /\ timeAcc' = IF Wanted("TimeOffset")
       THEN {t \in timeAcc : ~(t.key = Key(p) /\ t.part \in {"NT", "B"})}
              \cup {[key |-> Key(p), part |-> "NT", page |-> p]}
       ELSE timeAcc
  /\ gloOut' = {}
  /\ UNCHANGED <<opened, almS, almDOY, pendingAlms>>

\* Strings 6 to 15.  The first string of a key only opens the accumulator.
StoreString(p) ==
  LET held == {q \in almS : ~(Key(q) = Key(p) /\ q.slot = p.slot)} \cup {p}
      pair == Pair(held, Key(p), AlmIdx(p))
      whole == Key(p) \in opened /\ Whole(pair)
  IN
  /\ p.slot \in 6..15 /\ ~p.frame5
  /\ IF ~Wanted("Almanac") /\ ~Wanted("Health")
       THEN gloOut' = {} /\ UNCHANGED <<opened, almS, pendingAlms>>
       ELSE /\ opened' = opened \cup {Key(p)}
            /\ pendingAlms' = (pendingAlms \/ (whole /\ almDOY = {}))
            /\ gloOut' = IF whole /\ almDOY # {} THEN Almanac(pair, almDOY) ELSE {}
            /\ almS' = IF whole /\ almDOY # {} /\ Wanted("Almanac") THEN held \ pair
                                                                    ELSE held
  /\ UNCHANGED <<almDOY, timeAcc>>

String5Mutant(p) ==
  /\ p.slot = 5
  /\ almDOY' = IF Wanted("Almanac") \/ Wanted("Health") THEN {p} ELSE almDOY
  /\ gloOut' = {}
  /\ UNCHANGED <<opened, almS, pendingAlms, timeAcc>>

\* String 5: the day, which frees the pairs of every satellite that wait.
String5(p) ==
  LET known == Wanted("Almanac") \/ Wanted("Health")
      freed == {pair \in Pairs(almS) : known /\ pendingAlms /\ Whole(pair)}
  IN
  /\ p.slot = 5
  /\ almDOY' = IF known THEN {p} ELSE almDOY
  /\ pendingAlms' = (pendingAlms /\ ~known)
  /\ almS' = IF Wanted("Almanac") THEN almS \ UNION freed ELSE almS
  /\ gloOut' = UNION {Almanac(pair, {p}) : pair \in freed}
       \cup [type : {"Health", "TimeOffset"} \cap setup.wanted, pages : {{p}}]
  /\ timeAcc' =
       {t \in timeAcc : t.key = Key(p) =>
          /\ known => t.part \notin {"NA", "B"}
          /\ Wanted("TimeOffset") => t.part # "tauc"}
         \cup {t \in [key : {Key(p)}, part : {"NA", "tauc"}, page : {p}] :
                 IF t.part = "NA" THEN known ELSE Wanted("TimeOffset")}
  /\ UNCHANGED opened

\* String 14 of frame 5 (and string 15, which has nothing): with all parts
\* known, a UT1 offset.
String14(p) ==
  LET known == {t \in timeAcc : t.key = Key(p) /\ t.part # "B"}
                 \cup {[key |-> Key(p), part |-> "B", page |-> p]}
  IN
  /\ p.slot \in {14, 15} /\ p.frame5
  /\ IF p.slot = 14 /\ Wanted("TimeOffset")
       THEN /\ timeAcc' = {t \in timeAcc : t.key # Key(p)} \cup known
            /\ gloOut' = IF {t.part : t \in known} = {"NT", "NA", "tauc", "B"}
                 THEN {[type |-> "TimeOffset", pages |-> {t.page : t \in known}]}
                 ELSE {}
       ELSE gloOut' = {} /\ UNCHANGED timeAcc
  /\ UNCHANGED <<opened, almS, almDOY, pendingAlms>>

AddData(p) ==
  /\ \/ /\ p.dec = "GLOF" /\ ValidSize(p)
        /\ String4(p) \/ StoreString(p) \/ String5(p) \/ String14(p)
     \/ /\ p.dec # "GLOF" \/ ~ValidSize(p) \/ p.slot \in 1..3
        /\ gloOut' = {} /\ UNCHANGED state
  /\ UNCHANGED setup

\* almDOY and pendingAlms are not reset.
ResetState ==
  /\ opened' = {} /\ almS' = {} /\ timeAcc' = {} /\ gloOut' = {}
  /\ UNCHANGED <<setup, almDOY, pendingAlms>>

Next == ResetState \/ \E p \in setup.air : AddData(p)

Spec == Init /\ [][Next]_vars

-----------------------------------------------------------------------------
(* Properties                                                              *)

\* A pair of almanac strings that is whole waits for one thing only, that the
\* day is heard for the first time; whatever strings are repeated, replaced or
\* lost, the string 5 of any satellite then finds all of them.  (processAlm)
NoPairWaits ==
  Wanted("Almanac") =>
    \A pair \in Pairs(almS) : Whole(pair) => almDOY = {} /\ pendingAlms

=============================================================================
