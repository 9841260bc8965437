------------------------------- MODULE PNBCNav2 -------------------------------
(***************************************************************************)
(* PNBGPSCNav2DataFactory: subframe 2, subframe 3 and complete messages of *)
(* CNAV-2.  Orbits and almanacs are in one message each; inter-signal      *)
(* corrections (ISC) are put together from subframe 2 and the first page   *)
(* of subframe 3.                                                          *)
(***************************************************************************)
EXTENDS Integers, FiniteSets

CONSTANTS
  Page,    \* what can be heard; of those with dec = "CNAV2", "kind" is what the
           \* length says the message is, "slot" is the page of its subframe 3, "head"
           \* what the bits of the page number give, read from the message's beginning,
           \* "gnss" what page 2 says its time offset is to
  Setups   \* see PNBPages

VARIABLES
  setup,     \* what is on the air, wanted and let through
  sf2Acc,    \* the messages whose subframe 2 the ISC objects have, one per key
  sf3Acc,    \* the messages whose subframe 3 they have, one per key
  cnavOut,   \* the messages the last call put out
  unpublished,   \* history: messages with a subframe 2 that no ISC has been put out of
  lastPage1      \* history: the last first page of subframe 3 processed, per key

state == <<sf2Acc, sf3Acc, unpublished, lastPage1>>
vars == <<setup, state, cnavOut>>

Init ==
  /\ setup \in Setups
  /\ sf2Acc = {} /\ sf3Acc = {} /\ cnavOut = {} /\ unpublished = {} /\ lastPage1 = {}

Wanted(t) == t \in setup.wanted

Mine(S, p) == {q \in S : q.sat = p.sat /\ q.signal = p.signal}

Replaced(S, p) == (S \ Mine(S, p)) \cup {p}

HasSF2(p) == p.kind \in {"SF2", "complete"}
HasSF3(p) == p.kind \in {"SF3", "complete"}

\* The page number is read at the beginning of a complete message, too, where
\* the upper bits of the week number are: 1 stands for weeks 256 to 511.
HeadIsNotPage1 == \A p \in Page : p.dec = "CNAV2" /\ p.kind = "complete" => p.head # 1

-----------------------------------------------------------------------------

\* What subframe 2 and pages 1, 2 and 4 of subframe 3 yield by themselves.
EphTypes == {"Health", "Ephemeris"}
UTCIonoTypes == {"Iono", "TimeOffset"}
GGTOEOPTypes(p) == {t \in {"TimeOffset"} : p.gnss = "known"}
AlmOrbTypes == {"Health", "Almanac"}

\* processEph() and processSF3()
AtOnce(p) ==
  {t \in EphTypes : HasSF2(p)}
    \cup (IF ~HasSF3(p) THEN {}
          ELSE CASE p.slot = 1 -> UTCIonoTypes
                 [] p.slot = 2 -> GGTOEOPTypes(p)
                 [] p.slot = 4 -> AlmOrbTypes
                 [] OTHER -> {})

\* The time offset is to a GNSS that is not known, which is an error and ends
\* addData(); that it is to none (GNSS ID 0) is not.
Fails(p) == HasSF3(p) /\ p.slot = 2 /\ Wanted("TimeOffset") /\ p.gnss = "unknown"

Isc(sf2, sf3) == [type |-> "ISC", sf2 |-> sf2, sf3 |-> sf3]

PublishedBeforeMutant(p) == {}

\* A subframe 2 that is replaced before a subframe 3 came goes out without it.
PublishedBefore(p) ==
  {Isc({q}, {}) : q \in {q \in Mine(sf2Acc, p) : HasSF2(p) /\ Mine(sf3Acc, p) = {}}}

\* Whether the first page of subframe 3 is taken from the message; not from a
\* complete one when there is one already.
TakesPage1(p) ==
  /\ HasSF3(p) /\ p.slot = 1
  /\ p.kind = "complete" => Mine(sf3Acc, p) = {} \/ p.head = 1

NewSF2(p) == IF HasSF2(p) THEN Replaced(sf2Acc, p) ELSE sf2Acc
NewSF3(p) == IF TakesPage1(p) THEN Replaced(sf3Acc, p) ELSE sf3Acc

\* With both, the ISC object goes out at once; other pages of subframe 3 are
\* no news.
PublishedNow(p) ==
  LET sf2 == Mine(NewSF2(p), p)
      sf3 == Mine(NewSF3(p), p)
  IN {m \in {Isc(sf2, sf3)} :
        sf2 # {} /\ sf3 # {} /\ (HasSF2(p) \/ TakesPage1(p))}

Waiting(p) == unpublished \cup {q \in {p} : HasSF2(p)}

\* processISC()
ProcessISC(p) ==
  LET out == PublishedBefore(p) \cup PublishedNow(p) IN
  /\ sf2Acc' = NewSF2(p) /\ sf3Acc' = NewSF3(p)
  /\ cnavOut' = out \cup [type : AtOnce(p) \cap setup.wanted, sf2 : {{p}}, sf3 : {{p}}]
  /\ unpublished' = Waiting(p) \ UNION {m.sf2 : m \in out}
  /\ lastPage1' = IF HasSF3(p) /\ p.slot = 1 THEN Replaced(lastPage1, p) ELSE lastPage1

AddData(p) ==
  /\ \/ /\ p.dec = "CNAV2" /\ p.kind \in {"SF2", "SF3", "complete"}
        /\ IF Wanted("ISC") /\ ~Fails(p)
             THEN ProcessISC(p)
             ELSE /\ cnavOut' = [type : AtOnce(p) \cap setup.wanted, sf2 : {{p}}, sf3 : {{p}}]
                  /\ unpublished' = IF Wanted("ISC") THEN Waiting(p) ELSE unpublished
                  /\ UNCHANGED <<sf2Acc, sf3Acc, lastPage1>>
     \/ /\ ~(p.dec = "CNAV2" /\ p.kind \in {"SF2", "SF3", "complete"})
        /\ cnavOut' = {} /\ UNCHANGED state
  /\ UNCHANGED setup

ResetState ==
  /\ sf2Acc' = {} /\ sf3Acc' = {} /\ cnavOut' = {}
  /\ unpublished' = {} /\ lastPage1' = {}
  /\ UNCHANGED setup

Next == ResetState \/ \E p \in setup.air : AddData(p)

Spec == Init /\ [][Next]_vars

-----------------------------------------------------------------------------
(* Properties                                                              *)

\* The subframes 2 that have not gone out are known: one is the last of its signal
\* while no first page of subframe 3 has been heard, and the others came in complete
\* messages that end addData() before the ISC are looked at, of which nothing is
\* kept.  None is replaced unseen, whatever subframes 3 come or fail to.
\* (processISC, addData)
EverySF2Published ==
  \A p \in unpublished :
    \/ p \in sf2Acc /\ Mine(sf3Acc, p) = {}
    \/ p.kind = "complete" /\ Fails(p)

\* "Got a subframe 3 page 1, so decode it, store it, and output it": an ISC is
\* of the first page of subframe 3 heard last.
LatestPage1 ==
  \A m \in cnavOut : m.type = "ISC" => m.sf3 \subseteq lastPage1

=============================================================================
