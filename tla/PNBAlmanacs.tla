------------------------------ MODULE PNBAlmanacs ------------------------------
(***************************************************************************)
(* Almanac pages that wait for another page in PNBGPSLNavDataFactory and   *)
(* PNBBDSD1/D2NavDataFactory.  The orbit of an almanac page has a time of  *)
(* week (toa) and no week: that is in a reference page, which may come     *)
(* earlier or later, and BeiDou's orbits wait for a health page as well.   *)
(* Also the NMCT of LNAV, which waits for subframes 1 and 2.  An orbit     *)
(* page heard twice is in the code's lists twice, and one page here.       *)
(***************************************************************************)
EXTENDS Integers, FiniteSets

CONSTANT
  Page,    \* what can be heard; "dec" is the decoder a page is for, "kind"
           \* what is in it, "toa" the time of week it refers to; the week of
           \* that is in the bits of reference pages only
  Setups   \* see PNBPages

Decoders == {"LNAV", "D1", "D2"}
Kinds == {"orbit", "expanded", "health", "reference", "sf", "nmct"}

VARIABLES
  setup,        \* what is on the air, wanted and let through
  fullWNaMap,   \* the last reference page of each decoder and transmitter
  almAcc,       \* orbit pages that wait
  heaAcc,       \* the last health of each satellite, as [subject, page]
  amEpIDMap,    \* the last page of each key that says how sf 5 is to be read
  nmctAcc,      \* subframes 1 and 2, at most one each per key
  almOut,       \* the messages the last call put out
  outdated      \* history: pages since which the transmitter has changed toa

state == <<fullWNaMap, almAcc, heaAcc, amEpIDMap, nmctAcc>>
vars == <<setup, state, almOut, outdated>>

Init ==
  /\ setup \in Setups
  /\ fullWNaMap = {} /\ almAcc = {} /\ heaAcc = {} /\ amEpIDMap = {} /\ nmctAcc = {}
  /\ almOut = {} /\ outdated = {}

Wanted(t) == t \in setup.wanted

SameSat(p, q) == p.dec = q.dec /\ p.sat = q.sat

SameKey(p, q) == SameSat(p, q) /\ p.signal = q.signal

\* A message is made of one page, by itself or with the pages it waited for.
Message(t, p, with) == [type |-> t, page |-> p, with |-> with]

-----------------------------------------------------------------------------
(* GPS LNAV                                                                *)

LNavWeek(p, refs) == {r \in refs : SameSat(p, r) /\ r.toa = p.toa}

\* The orbits that a reference page on their own signal frees.
LNavFreed(p) == {q \in almAcc : SameKey(p, q) /\ q.toa = p.toa}

LNavAlmOrb(p) ==
  /\ p.kind = "orbit"
  /\ LET week == LNavWeek(p, fullWNaMap) IN
       /\ almOut' = {m \in {Message("Health", p, {})} : Wanted("Health")}
            \cup {Message("Almanac", p, {r}) : r \in {r \in week : Wanted("Almanac")}}
       /\ almAcc' = almAcc \cup {q \in {p} : Wanted("Almanac") /\ week = {}}
  /\ UNCHANGED <<fullWNaMap, heaAcc, amEpIDMap, nmctAcc>>

LNavSVID51(p) ==
  /\ p.kind = "reference"
  /\ almOut' = {m \in {Message("Health", p, {})} : Wanted("Health")}
       \cup (IF Wanted("Almanac") THEN {Message("Almanac", q, {p}) : q \in LNavFreed(p)}
                                  ELSE {})
  /\ IF Wanted("Almanac")
       THEN /\ fullWNaMap' = {r \in fullWNaMap : ~SameSat(p, r)} \cup {p}
            /\ almAcc' = almAcc \ LNavFreed(p)
       ELSE UNCHANGED <<fullWNaMap, almAcc>>
  /\ UNCHANGED <<heaAcc, amEpIDMap, nmctAcc>>

\* Subframes 1 and 2 are kept until page 13 of subframe 4 comes; that one is
\* not kept.
KeptForNMCT(p) == Wanted("System") /\ p.kind = "sf" /\ p.slot \in 1..2

CompletesNMCT(p, held) ==
  Wanted("System") /\ p.kind = "nmct" /\ Cardinality({q \in held : q.sized}) = 2

LNavNMCT(p) ==
  LET held == {q \in nmctAcc : SameKey(p, q)} IN
  /\ p.kind \in {"sf", "nmct"}
  /\ \/ /\ KeptForNMCT(p)
        /\ nmctAcc' = {q \in nmctAcc : ~(SameKey(p, q) /\ q.slot = p.slot)} \cup {p}
        /\ almOut' = {}
     \/ /\ CompletesNMCT(p, held)
        /\ nmctAcc' = nmctAcc \ held
        /\ almOut' = {Message("System", p, held)}
     \/ /\ ~KeptForNMCT(p) /\ ~CompletesNMCT(p, held)
        /\ almOut' = {} /\ UNCHANGED nmctAcc
  /\ UNCHANGED <<fullWNaMap, almAcc, heaAcc, amEpIDMap>>

LNavPage(p) ==
  /\ p.dec = "LNAV"
  /\ LNavAlmOrb(p) \/ LNavSVID51(p) \/ LNavNMCT(p)

-----------------------------------------------------------------------------
(* BeiDou D1 and D2                                                        *)

HealthOf(p, hea) ==
  {h.page : h \in {h \in hea : h.subject = p.subject /\ SameKey(p, h.page)}}

FateMutant(p, fromWNa, refs, hea) ==
  LET ref == {r \in refs : SameSat(p, r)}
      healthy == HealthOf(p, hea) # {}
  IN  IF p.default /\ healthy
        THEN IF setup.validity = "ValidOnly" THEN "dropped" ELSE "out"
      ELSE IF healthy /\ \E r \in ref : r.toa = p.toa THEN "out"
      ELSE "kept"

\* finishAlm() of one orbit, with the maps as they are then: what becomes of it.
Fate(p, fromWNa, refs, hea) ==
  LET ref == {r \in refs : SameSat(p, r)}
      healthy == HealthOf(p, hea) # {}
  IN  IF p.default /\ healthy
        THEN IF setup.validity = "ValidOnly" THEN "dropped" ELSE "out"
      ELSE IF healthy /\ \E r \in ref : r.toa = p.toa THEN "out"
      ELSE IF fromWNa /\ \E r \in ref : r.toa # p.toa THEN "dropped"
      ELSE "kept"

\* The almanac has the health bits last heard, and a week unless it is the
\* page a transmitter sends for a satellite it has no almanac of.
Finished(p, refs, hea) ==
  Message("Almanac", p,
    HealthOf(p, hea) \cup (IF p.default THEN {} ELSE {r \in refs : SameSat(p, r)}))

FinishListMutant(p, fromWNa, refs, hea) ==
  LET list == {q \in almAcc : SameKey(p, q)} IN
  /\ almAcc' = almAcc \ list
  /\ almOut' = {Finished(q, refs, hea) :
                  q \in {q \in list : Fate(q, fromWNa, refs, hea) = "out"}}
       \cup {m \in {Message("Health", p, {})} : Wanted("Health")}

\* finishAlm() of the list of a key.
FinishList(p, fromWNa, refs, hea) ==
  LET list == {q \in almAcc : SameKey(p, q)} IN
  /\ almAcc' = {q \in almAcc : q \in list => Fate(q, fromWNa, refs, hea) = "kept"}
  /\ almOut' = {Finished(q, refs, hea) :
                  q \in {q \in list : Fate(q, fromWNa, refs, hea) = "out"}}
       \cup {m \in {Message("Health", p, {})} : Wanted("Health")}

\* D1 wants the page that says so exactly six seconds before, D2 within the
\* same six minutes.
D1Expanded(p, r) == p.time - r.time = 6
D2Expanded(p, r) == p.time \div 360 = r.time \div 360

IsExpanded(p) ==
  \E r \in amEpIDMap :
    /\ SameKey(p, r) /\ r.amEpID = 3
    /\ IF p.dec = "D1" THEN D1Expanded(p, r) ELSE D2Expanded(p, r)

\* processAlm(): page 11 to 24 of subframe 4 (D2: 37 to 60 and 95 to 100) also
\* say how the expanded pages are to be read.
BDSAlm(p) ==
  /\ p.kind \in {"orbit", "expanded"}
  /\ amEpIDMap' = IF p.setsAmEp /\ (Wanted("Almanac") \/ Wanted("Health"))
       THEN {r \in amEpIDMap : ~SameKey(p, r)} \cup {p}
       ELSE amEpIDMap
  /\ LET read == Wanted("Almanac") /\ (p.kind = "expanded" => IsExpanded(p))
         fate == Fate(p, FALSE, fullWNaMap, heaAcc)
     IN  /\ almAcc' = almAcc \cup {q \in {p} : read /\ fate = "kept"}
         /\ almOut' = {m \in {Finished(p, fullWNaMap, heaAcc)} : read /\ fate = "out"}
  /\ UNCHANGED <<fullWNaMap, heaAcc, nmctAcc>>

\* makeHealth() of every satellite in the page.
HealthWith(p) ==
  {h \in heaAcc : ~(SameKey(p, h.page) /\ h.subject \in p.subjects)}
    \cup [subject : p.subjects, page : {p}]

BDSHealthMutant(p) ==
  /\ p.kind = "health"
  /\ IF Wanted("Almanac") \/ Wanted("Health")
       THEN heaAcc' = HealthWith(p) /\ FinishList(p, FALSE, fullWNaMap, heaAcc)
       ELSE almOut' = {} /\ UNCHANGED <<heaAcc, almAcc>>
  /\ UNCHANGED <<fullWNaMap, amEpIDMap, nmctAcc>>

\* Pages 7 and 24 of subframe 5 (D2: 35 and 116).
BDSHealth(p) ==
  /\ p.kind = "health"
  /\ IF Wanted("Almanac") \/ Wanted("Health")
       THEN heaAcc' = HealthWith(p) /\ FinishList(p, FALSE, fullWNaMap, HealthWith(p))
       ELSE almOut' = {} /\ UNCHANGED <<heaAcc, almAcc>>
  /\ UNCHANGED <<fullWNaMap, amEpIDMap, nmctAcc>>

\* Page 8 of subframe 5 (D2: 36): health, toa and week.
BDSReference(p) ==
  LET refs == {r \in fullWNaMap : ~SameSat(p, r)} \cup {p} IN
  /\ p.kind = "reference"
  /\ heaAcc' = IF Wanted("Almanac") \/ Wanted("Health") THEN HealthWith(p) ELSE heaAcc
  /\ IF Wanted("Almanac")
       THEN fullWNaMap' = refs /\ FinishList(p, TRUE, refs, HealthWith(p))
       ELSE /\ almOut' = {m \in {Message("Health", p, {})} : Wanted("Health")}
            /\ UNCHANGED <<fullWNaMap, almAcc>>
  /\ UNCHANGED <<amEpIDMap, nmctAcc>>

BDSPage(p) == BDSAlm(p) \/ BDSHealth(p) \/ BDSReference(p)

D1Page(p) == p.dec = "D1" /\ BDSPage(p)
D2Page(p) == p.dec = "D2" /\ BDSPage(p)

-----------------------------------------------------------------------------

\* LNAV checks the parity of every subframe first.
Dropped(p) ==
  /\ p.dec = "LNAV"
  /\ \/ setup.validity = "ValidOnly" /\ ~p.valid
     \/ setup.validity = "InvalidOnly" /\ p.valid

\* A reference shows that what came before it has another toa: other references
\* of the transmitter, and orbits on the signal it is heard on.
Outdates(p, q) ==
  /\ p.kind = "reference" /\ q.toa # p.toa
  /\ IF q.kind = "reference" THEN SameSat(p, q) ELSE SameKey(p, q)

OutdatedAfter(p) == (outdated \cup {q \in setup.air : Outdates(p, q)}) \ {p}

AddData(p) ==
  /\ \/ /\ p.kind \in Kinds /\ ~Dropped(p)
        /\ LNavPage(p) \/ D1Page(p) \/ D2Page(p)
        /\ outdated' = OutdatedAfter(p)
     \/ /\ p.kind \notin Kinds \/ Dropped(p)
        /\ almOut' = {} /\ UNCHANGED <<state, outdated>>
  /\ UNCHANGED setup

\* nmctAcc, heaAcc and amEpIDMap are not cleared.
ResetState ==
  /\ fullWNaMap' = {} /\ almAcc' = {} /\ almOut' = {} /\ outdated' = {}
  /\ UNCHANGED <<setup, heaAcc, amEpIDMap, nmctAcc>>

Next == ResetState \/ \E p \in setup.air : AddData(p)

Spec == Init /\ [][Next]_vars

-----------------------------------------------------------------------------
(* Properties                                                              *)

\* A toa comes again a week later, so that a reference with the toa of an orbit
\* may be of another week.  An almanac is dated by a reference of its transmitter
\* with its own toa, and no change to another toa has been heard since that
\* reference.  Nor, in the BeiDou decoders, since the orbit (on its own signal):
\* they give up what waits when the toa changes, and LNAV does not.
\* (processAlmOrb, processSVID51, finishAlm)
DatedByOwnToa ==
  \A m \in almOut : m.type = "Almanac" /\ ~m.page.default =>
    /\ \E r \in m.with : r.kind = "reference" /\ r.toa = m.page.toa /\ r \notin outdated
    /\ m.page.dec # "LNAV" => m.page \notin outdated

\* An orbit waits for no page of its own signal that has already come.
\* (finishAlm: the lists looked through when a reference or health comes)
NoneOverdue ==
  \A p \in almAcc :
    LET healthy == p.dec = "LNAV" \/ HealthOf(p, heaAcc) # {} IN
    /\ ~\E r \in fullWNaMap : SameKey(p, r) /\ r.toa = p.toa /\ healthy
    /\ p.dec # "LNAV" /\ p.default => ~healthy

\* An orbit that waits goes into one almanac, or is given up by a BeiDou
\* decoder for what it heard last: a reference with another toa, or health bits
\* of a satellite without an almanac, in a factory that wants valid pages.
WaitsUntilUsed ==
  [][\A p \in almAcc \ almAcc' :
       \/ \E m \in almOut' : m.type = "Almanac" /\ m.page = p
       \/ p.dec # "LNAV" /\ \E r \in fullWNaMap' : SameSat(p, r) /\ r.toa # p.toa
       \/ p.default /\ setup.validity = "ValidOnly"
       \/ ResetState]_vars

=============================================================================
