---------------------------- MODULE NavDataStore ----------------------------
(***************************************************************************)
(* NavDataFactoryWithStore: the store of navigation messages behind every  *)
(* NavDataFactory.  It keeps each message in up to three maps, for the     *)
(* User searches, the Nearest searches and the time offsets, and summaries *)
(* of them: the span of the fit intervals, the first and last time stamp   *)
(* per satellite, and the time offsets seen when they are filtered.        *)
(*                                                                         *)
(* nearestData keeps a list of messages per time; a set of messages does   *)
(* for it, since the searches return one of the acceptable messages.       *)
(***************************************************************************)
EXTENDS NavDataSearch

CONSTANTS
  OffsetFilter,  \* factControl.timeOffsFilt: "NoFilt", "BySV" or "BySignal"
  Convertible,   \* the time systems BasicTimeSystemConverter knows
  END_OF_TIME,
  EditSpan,      \* the spans <<from, to>> edit() is called with
  EditSignals,   \* the sets of signals edit() is called with
  NoSystem,      \* the system of a SatID that is no satellite
  Query          \* the searches made: records of type, signals, when, health, valid

ASSUME StoreAssumption ==
  /\ OffsetFilter \in {"NoFilt", "BySV", "BySignal"}
  /\ END_OF_TIME \in Nat
  /\ \A n \in Nav : {n.timeStamp, n.userTime, n.beginFit, n.endFit} \subseteq 0..END_OF_TIME
  /\ EditSpan \subseteq Nat \X Nat
  /\ EditSignals \subseteq SUBSET Nat

ASSUME QueryAssumption ==
  \A q \in Query : q.when \in Nat /\ q.signals \subseteq Nat /\ IsFiniteSet(q.signals)

VARIABLES
  data,          \* the messages in the User map
  nearestData,   \* the messages in the Nearest map
  offsetData,    \* the <<conversion, message>> pairs in the time offset map
  initialTime,   \* a time and its time system
  finalTime,     \* a time and its time system
  firstLastMap,  \* per satellite, the first and last time stamp
  tou            \* touBySV, touBySig: the <<key, offset>> pairs in these

vars == <<data, nearestData, offsetData, initialTime, finalTime, firstLastMap, tou>>

\* The filter of time offsets: what a message is unique within.
Filtered(n) == OffsetFilter # "NoFilt" /\ n.offset # "none"
TouEntry(n) ==
  IF OffsetFilter = "BySV" THEN <<n.xmitSat, n.offset>> ELSE <<n.navSignal, n.offset>>

Sats == {n.sat : n \in Nav} \ {NoSystem}
Conversions == UNION {n.conversions : n \in Nav}
CommonTime == [time : 0..END_OF_TIME, system : {n.system : n \in Nav} \cup {"Any"}]

TypeOK ==
  /\ data \subseteq Nav
  /\ nearestData \subseteq Nav
  /\ offsetData \subseteq Conversions \X Nav
  /\ initialTime \in CommonTime /\ finalTime \in CommonTime
  /\ DOMAIN firstLastMap \subseteq Sats
  /\ \A s \in DOMAIN firstLastMap : firstLastMap[s] \in (0..END_OF_TIME) \X (0..END_OF_TIME)
  /\ tou \subseteq {TouEntry(n) : n \in Nav}

Init ==
  /\ data = {}
  /\ nearestData = {}
  /\ offsetData = {}
  /\ initialTime = [time |-> END_OF_TIME, system |-> "Any"]
  /\ finalTime = [time |-> 0, system |-> "Any"]
  /\ firstLastMap = <<>>
  /\ tou = {}

-----------------------------------------------------------------------------
(* addNavData()                                                            *)

\* A time offset that has been added before: addNavData() returns true.
Duplicate(n) == Filtered(n) /\ TouEntry(n) \in tou

FirstLast(n) ==
  IF n.sat = NoSystem THEN firstLastMap
  ELSE IF n.sat \notin DOMAIN firstLastMap
       THEN [s \in DOMAIN firstLastMap \cup {n.sat} |->
               IF s = n.sat THEN <<n.timeStamp, n.timeStamp>> ELSE firstLastMap[s]]
       ELSE [firstLastMap EXCEPT ![n.sat] =
               <<Min({@[1], n.timeStamp}), Max({@[2], n.timeStamp})>>]

\* The span of a message that updates initialTime and finalTime.
Begin(n) == IF n.span = "fit" THEN n.beginFit ELSE n.timeStamp
End(n) == IF n.span = "fit" THEN n.endFit ELSE n.timeStamp

\* updateInitialFinal() gives up: time systems differ and one is unknown.
Incomparable(n) ==
  /\ \E t \in {initialTime, finalTime} : t.system \notin {n.system, "Any"}
  /\ \E s \in {initialTime.system, finalTime.system, n.system} :
        s # "Any" /\ s \notin Convertible

InitialWith(n) ==
  IF Begin(n) < initialTime.time THEN [time |-> Begin(n), system |-> n.system] ELSE initialTime
FinalWithMutant(n) ==
  IF End(n) > finalTime.time /\ InitialWith(n) = initialTime
  THEN [time |-> End(n), system |-> n.system] ELSE finalTime

FinalWith(n) ==
  IF End(n) > finalTime.time THEN [time |-> End(n), system |-> n.system] ELSE finalTime

SameKey(m, n) == m.type = n.type /\ m.signal = n.signal /\ m.userTime = n.userTime

\* navMap[type][signal][userTime] = nd
Stored(n) == {m \in data : ~SameKey(m, n)} \cup {n}

OffsetsWithMutant(n) == offsetData \cup ({n.type} \X {n})

\* ofsMap[conversion][userTime][signal] = nd, for each conversion
OffsetsWith(n) ==
  {o \in offsetData : ~(/\ o[1] \in n.conversions
                        /\ o[2].userTime = n.userTime
                        /\ o[2].signal = n.signal)}
    \cup (n.conversions \X {n})

\* A message that is neither filtered out nor refused.
AddNavData(n) ==
  /\ ~Duplicate(n)
  /\ tou' = tou \cup {TouEntry(m) : m \in {k \in {n} : Filtered(k)}}
  /\ firstLastMap' = FirstLast(n)
  /\ IF n.span = "none"
     THEN UNCHANGED <<initialTime, finalTime>>
     ELSE /\ ~Incomparable(n)
          /\ initialTime' = InitialWith(n)
          /\ finalTime' = FinalWith(n)
  /\ data' = Stored(n)
  /\ nearestData' = nearestData \cup {n}
  /\ offsetData' = OffsetsWith(n)

\* addNavData() returns false, when it has already changed the summaries.
AddRefused(n) ==
  /\ ~Duplicate(n)
  /\ n.span # "none"
  /\ Incomparable(n)
  /\ tou' = tou \cup {TouEntry(m) : m \in {k \in {n} : Filtered(k)}}
  /\ firstLastMap' = FirstLast(n)
  /\ UNCHANGED <<data, nearestData, offsetData, initialTime, finalTime>>

-----------------------------------------------------------------------------
(* edit() and clear()                                                      *)

Within(time, from, to) == from <= time /\ time < to

EditMutant(from, to, signals) ==
  LET Cut(n) == n.signal \in signals /\ Within(n.userTime, from, to)
  IN  /\ data' = {n \in data : ~Cut(n)}
      /\ nearestData' = {n \in nearestData : ~Cut(n)}
      /\ UNCHANGED offsetData
      /\ UNCHANGED <<initialTime, finalTime, firstLastMap, tou>>

\* edit(): the User map is cut by user time, the others by time stamp.
Edit(from, to, signals) ==
  LET Cut(n, time) == n.signal \in signals /\ Within(time, from, to)
  IN  /\ data' = {n \in data : ~Cut(n, n.userTime)}
      /\ nearestData' = {n \in nearestData : ~Cut(n, n.timeStamp)}
      /\ offsetData' = {o \in offsetData : ~Cut(o[2], o[2].timeStamp)}
      /\ UNCHANGED <<initialTime, finalTime, firstLastMap, tou>>

Clear ==
  /\ data' = {}
  /\ nearestData' = {}
  /\ offsetData' = {}
  /\ initialTime' = [time |-> END_OF_TIME, system |-> "Any"]
  /\ finalTime' = [time |-> 0, system |-> "Any"]
  /\ UNCHANGED <<firstLastMap, tou>>

Next ==
  \/ \E n \in Nav : AddNavData(n)
  \/ \E n \in Nav : AddRefused(n)
  \/ \E span \in EditSpan, signals \in EditSignals : Edit(span[1], span[2], signals)
  \/ Clear

Spec == Init /\ [][Next]_vars

-----------------------------------------------------------------------------
(* Properties: the maps and their summaries                                *)

\* Every time offset that getOffset() can return is also in the store for
\* searches, whatever was edited.
OffsetsInStore == \A o \in offsetData : o[2] \in nearestData

\* getInitialTime() and getFinalTime() bound the time span of every orbit in
\* the store, across clear() and messages that were refused.
SpanCovered ==
  \A n \in data \cup nearestData :
     n.span # "none" => initialTime.time <= Begin(n) /\ End(n) <= finalTime.time

\* getFirstTime() and getLastTime() bound the time stamps in the store.
TimeStampsCovered ==
  \A n \in data \cup nearestData :
     n.sat # NoSystem =>
       /\ n.sat \in DOMAIN firstLastMap
       /\ firstLastMap[n.sat][1] <= n.timeStamp
       /\ n.timeStamp <= firstLastMap[n.sat][2]

\* With a filter no time offset is in the store twice, edited or not.
OffsetsUnique ==
  \A m, n \in nearestData : Filtered(m) /\ Filtered(n) /\ TouEntry(m) = TouEntry(n) => m = n

-----------------------------------------------------------------------------
(* Properties: the searches                                                *)

IsExact(q) == Cardinality(q.signals) = 1

Matching(S, q) ==
  {n \in S : n.type = q.type /\ n.signal \in q.signals /\ Acceptable(data, n, q)}
Distance(n, q) == IF n.nearTime < q.when THEN q.when - n.nearTime ELSE n.nearTime - q.when

FindsLatest(q) ==
  LET latest == Newest({n \in Matching(data, q) : n.userTime <= q.when})
  IN  FindUser(data, q) \subseteq latest /\ (FindUser(data, q) = {} => latest = {})

FindsClosest(q) ==
  LET found == FindNearest(data, nearestData, q)
      all   == Matching(nearestData, q)
  IN  /\ \A n \in found, m \in all : Distance(n, q) <= Distance(m, q)
      /\ found = {} => all = {}

\* For a single signal, a User search returns the latest acceptable message
\* before the search time, however many newer ones it has to reject.
ExactUserLatest == \A q \in Query : IsExact(q) => FindsLatest(q)

\* For a single signal, a Nearest search returns an acceptable message none of
\* which is closer, on whichever side of the search time they are.
ExactNearestClosest == \A q \in Query : IsExact(q) => FindsClosest(q)

OffsetFor(store, offsets, conversion, q) ==
  GetOffset(store, offsets, conversion, q.when, q.health, q.valid)

\* A User search and getOffset() show what a receiver could know at the search
\* time: adding a message that becomes available later changes no result, not
\* even through the health of the transmitter.
NoForesight ==
  [][\A n \in Nav, q \in Query :
       AddNavData(n) /\ q.when < n.userTime =>
         /\ FindUser(data', q) = FindUser(data, q)
         /\ \A c \in Conversions :
              OffsetFor(data', offsetData', c, q) = OffsetFor(data, offsetData, c, q)]_vars

-----------------------------------------------------------------------------
(* What the documentation says                                             *)

\* User: return the latest message before the search time, wildcards or not.
UserLatest == \A q \in Query : FindsLatest(q)

=============================================================================
