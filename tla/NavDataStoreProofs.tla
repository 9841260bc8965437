------------------------- MODULE NavDataStoreProofs -------------------------
(***************************************************************************)
(* Whatever is added, refused, edited and cleared, and in whatever order,  *)
(* the summaries that NavDataFactoryWithStore keeps bound what is in its   *)
(* maps, a time offset filter keeps offsets unique, a User search for one  *)
(* signal finds the latest message and a Nearest search the closest, and   *)
(* none sees the future.  Of searches with wildcards there is what remains *)
(* of that: the result is bounded by what single signals have.             *)
(***************************************************************************)
EXTENDS NavDataStore, TLAPS, FiniteSetTheorems, WellFoundedInduction

\* A filtered time offset stays in touBySV or touBySig once it was added.
TouComplete == \A n \in nearestData : Filtered(n) => TouEntry(n) \in tou

IInv ==
  /\ TypeOK
  /\ OffsetsInStore
  /\ SpanCovered
  /\ TimeStampsCovered
  /\ OffsetsUnique
  /\ TouComplete

-----------------------------------------------------------------------------

\* The lesser and the greater of two times.
LEMMA LeastOfTwo ==
  ASSUME NEW a \in Int, NEW b \in Int
  PROVE  Min({a, b}) \in {a, b} /\ Min({a, b}) <= a /\ Min({a, b}) <= b
<1>1. \E x \in {a, b} : \A y \in {a, b} : x <= y
  <2>1. CASE a <= b
    BY <2>1
  <2>2. CASE b <= a
    BY <2>2
  <2> QED BY <2>1, <2>2
<1> QED BY <1>1 DEF Min

LEMMA GreatestOfTwo ==
  ASSUME NEW a \in Int, NEW b \in Int
  PROVE  Max({a, b}) \in {a, b} /\ a <= Max({a, b}) /\ b <= Max({a, b})
<1>1. \E x \in {a, b} : \A y \in {a, b} : x >= y
  <2>1. CASE a <= b
    BY <2>1
  <2>2. CASE b <= a
    BY <2>2
  <2> QED BY <2>1, <2>2
<1> QED BY <1>1 DEF Max

\* The times of a message lie before END_OF_TIME.
LEMMA NavTimes ==
  ASSUME NEW n \in Nav
  PROVE  /\ n.timeStamp \in 0..END_OF_TIME
         /\ Begin(n) \in 0..END_OF_TIME
         /\ End(n) \in 0..END_OF_TIME
         /\ END_OF_TIME \in Nat
  BY StoreAssumption DEF Begin, End

\* The entry of its satellite covers the message, and every entry that was
\* there still covers what it covered.
LEMMA FirstLastCovers ==
  ASSUME TypeOK, NEW n \in Nav
  PROVE  /\ DOMAIN FirstLast(n) = DOMAIN firstLastMap \cup ({n.sat} \ {NoSystem})
         /\ \A s \in DOMAIN FirstLast(n) :
              FirstLast(n)[s] \in (0..END_OF_TIME) \X (0..END_OF_TIME)
         /\ \A s \in DOMAIN firstLastMap :
              /\ FirstLast(n)[s][1] <= firstLastMap[s][1]
              /\ firstLastMap[s][2] <= FirstLast(n)[s][2]
         /\ n.sat # NoSystem =>
              /\ FirstLast(n)[n.sat][1] <= n.timeStamp
              /\ n.timeStamp <= FirstLast(n)[n.sat][2]
<1> DEFINE T == 0..END_OF_TIME
<1>1. n.timeStamp \in T /\ END_OF_TIME \in Nat
  BY NavTimes
<1>2. \A s \in DOMAIN firstLastMap : firstLastMap[s] \in T \X T
  BY DEF TypeOK
<1>3. CASE n.sat = NoSystem
  BY <1>1, <1>2, <1>3 DEF FirstLast
<1>4. CASE n.sat # NoSystem /\ n.sat \notin DOMAIN firstLastMap
  <2>1. FirstLast(n) = [s \in DOMAIN firstLastMap \cup {n.sat} |->
                          IF s = n.sat THEN <<n.timeStamp, n.timeStamp>>
                          ELSE firstLastMap[s]]
    BY <1>4 DEF FirstLast
  <2> QED BY <1>1, <1>2, <1>4, <2>1
<1>5. CASE n.sat # NoSystem /\ n.sat \in DOMAIN firstLastMap
  <2> DEFINE t == n.timeStamp
             a == firstLastMap[n.sat][1]
             b == firstLastMap[n.sat][2]
             lo == Min({a, t})
             hi == Max({b, t})
  <2>1. a \in T /\ b \in T /\ t \in T
    BY <1>1, <1>2, <1>5
  <2>2. FirstLast(n) = [firstLastMap EXCEPT ![n.sat] = <<lo, hi>>]
    BY <1>5 DEF FirstLast
  <2> HIDE DEF a, b, t
  <2>7. a \in Int /\ b \in Int /\ t \in Int
    BY <1>1, <2>1
  <2>3. lo \in {a, t} /\ lo <= a /\ lo <= t
    BY <2>7, LeastOfTwo, Zenon
  <2>4. hi \in {b, t} /\ b <= hi /\ t <= hi
    BY <2>7, GreatestOfTwo, Zenon
  <2> HIDE DEF lo, hi
  <2>5. lo \in T /\ hi \in T
    BY <2>1, <2>3, <2>4
  <2>6. a = firstLastMap[n.sat][1] /\ b = firstLastMap[n.sat][2] /\ t = n.timeStamp
    BY DEF a, b, t
  <2> QED BY <1>1, <1>2, <1>5, <2>2, <2>3, <2>4, <2>5, <2>6
<1> QED BY <1>3, <1>4, <1>5

-----------------------------------------------------------------------------
(* The invariant                                                           *)

LEMMA InitInvariant == Init => IInv
<1> SUFFICES ASSUME Init PROVE IInv
  OBVIOUS
<1>1. END_OF_TIME \in Nat
  BY StoreAssumption
<1>2. initialTime \in CommonTime /\ finalTime \in CommonTime
  BY <1>1 DEF Init, CommonTime
<1> QED BY <1>2 DEF Init, IInv, TypeOK, OffsetsInStore, SpanCovered, TimeStampsCovered,
                    OffsetsUnique, TouComplete

\* The span only grows to cover the message added.
LEMMA SpanGrows ==
  ASSUME TypeOK, NEW n \in Nav
  PROVE  /\ InitialWith(n) \in CommonTime /\ FinalWith(n) \in CommonTime
         /\ InitialWith(n).time <= initialTime.time /\ InitialWith(n).time <= Begin(n)
         /\ finalTime.time <= FinalWith(n).time /\ End(n) <= FinalWith(n).time
<1>1. /\ Begin(n) \in 0..END_OF_TIME /\ End(n) \in 0..END_OF_TIME
      /\ END_OF_TIME \in Nat
  BY NavTimes
<1>2. initialTime \in CommonTime /\ finalTime \in CommonTime
  BY DEF TypeOK
<1> QED BY <1>1, <1>2 DEF InitialWith, FinalWith, CommonTime

\* What addNavData() does to the summaries, whether it then stores the message
\* or refuses it.
LEMMA SummariesGrow ==
  ASSUME IInv, NEW n \in Nav, firstLastMap' = FirstLast(n),
         \/ initialTime' = initialTime /\ finalTime' = finalTime
         \/ initialTime' = InitialWith(n) /\ finalTime' = FinalWith(n)
  PROVE  /\ initialTime' \in CommonTime /\ finalTime' \in CommonTime
         /\ initialTime'.time <= initialTime.time /\ finalTime.time <= finalTime'.time
         /\ DOMAIN firstLastMap' \subseteq Sats
         /\ \A s \in DOMAIN firstLastMap' :
              firstLastMap'[s] \in (0..END_OF_TIME) \X (0..END_OF_TIME)
         /\ DOMAIN firstLastMap \subseteq DOMAIN firstLastMap'
         /\ \A s \in DOMAIN firstLastMap :
              /\ firstLastMap'[s][1] <= firstLastMap[s][1]
              /\ firstLastMap[s][2] <= firstLastMap'[s][2]
<1>1. TypeOK
  BY DEF IInv
<1>2. /\ initialTime' \in CommonTime /\ finalTime' \in CommonTime
      /\ initialTime'.time <= initialTime.time /\ finalTime.time <= finalTime'.time
  <2>1. CASE initialTime' = initialTime /\ finalTime' = finalTime
    BY <1>1, <2>1, StoreAssumption DEF TypeOK, CommonTime
  <2>2. CASE initialTime' = InitialWith(n) /\ finalTime' = FinalWith(n)
    BY <1>1, <2>2, SpanGrows
  <2> QED BY <2>1, <2>2
<1>3. DOMAIN firstLastMap' \subseteq Sats
  BY <1>1, FirstLastCovers DEF TypeOK, Sats
<1> QED BY <1>1, <1>2, <1>3, FirstLastCovers

\* What was covered stays covered when summaries only grow.
LEMMA CoverGrows ==
  ASSUME TypeOK, SpanCovered, TimeStampsCovered,
         initialTime' \in CommonTime, finalTime' \in CommonTime,
         initialTime'.time <= initialTime.time, finalTime.time <= finalTime'.time,
         DOMAIN firstLastMap \subseteq DOMAIN firstLastMap',
         \A s \in DOMAIN firstLastMap' :
              firstLastMap'[s] \in (0..END_OF_TIME) \X (0..END_OF_TIME),
         \A s \in DOMAIN firstLastMap :
              /\ firstLastMap'[s][1] <= firstLastMap[s][1]
              /\ firstLastMap[s][2] <= firstLastMap'[s][2]
  PROVE  \A m \in data \cup nearestData :
           /\ m.span # "none" => initialTime'.time <= Begin(m) /\ End(m) <= finalTime'.time
           /\ m.sat # NoSystem =>
                /\ m.sat \in DOMAIN firstLastMap'
                /\ firstLastMap'[m.sat][1] <= m.timeStamp
                /\ m.timeStamp <= firstLastMap'[m.sat][2]
<1> SUFFICES ASSUME NEW m \in data \cup nearestData
             PROVE  /\ m.span # "none" =>
                          initialTime'.time <= Begin(m) /\ End(m) <= finalTime'.time
                    /\ m.sat # NoSystem =>
                          /\ m.sat \in DOMAIN firstLastMap'
                          /\ firstLastMap'[m.sat][1] <= m.timeStamp
                          /\ m.timeStamp <= firstLastMap'[m.sat][2]
  OBVIOUS
<1>1. /\ m \in Nav
      /\ m.timeStamp \in 0..END_OF_TIME /\ Begin(m) \in 0..END_OF_TIME
      /\ End(m) \in 0..END_OF_TIME /\ END_OF_TIME \in Nat
  BY NavTimes DEF TypeOK
<1>2. /\ {initialTime.time, finalTime.time} \subseteq Int
      /\ {initialTime'.time, finalTime'.time} \subseteq Int
  BY <1>1 DEF TypeOK, CommonTime
<1>3. m.span # "none" => initialTime'.time <= Begin(m) /\ End(m) <= finalTime'.time
  <2>1. m.span # "none" => initialTime.time <= Begin(m) /\ End(m) <= finalTime.time
    BY DEF SpanCovered
  <2> QED BY <1>1, <1>2, <2>1
<1>4. ASSUME m.sat # NoSystem
      PROVE  /\ m.sat \in DOMAIN firstLastMap'
             /\ firstLastMap'[m.sat][1] <= m.timeStamp
             /\ m.timeStamp <= firstLastMap'[m.sat][2]
  <2>1. /\ m.sat \in DOMAIN firstLastMap
        /\ firstLastMap[m.sat][1] <= m.timeStamp
        /\ m.timeStamp <= firstLastMap[m.sat][2]
    BY <1>4 DEF TimeStampsCovered
  <2>2. /\ firstLastMap[m.sat] \in (0..END_OF_TIME) \X (0..END_OF_TIME)
        /\ firstLastMap'[m.sat] \in (0..END_OF_TIME) \X (0..END_OF_TIME)
        /\ firstLastMap'[m.sat][1] <= firstLastMap[m.sat][1]
        /\ firstLastMap[m.sat][2] <= firstLastMap'[m.sat][2]
    BY <2>1 DEF TypeOK
  <2> QED BY <1>1, <2>1, <2>2
<1> QED BY <1>3, <1>4

\* A message that is stored is covered by the summaries that grew for it, and
\* is the only filtered offset with its entry.
LEMMA AddInvariant ==
  ASSUME IInv, NEW n \in Nav, AddNavData(n)
  PROVE  IInv'
<1>1. /\ ~Duplicate(n)
      /\ tou' = tou \cup {TouEntry(m) : m \in {k \in {n} : Filtered(k)}}
      /\ firstLastMap' = FirstLast(n)
      /\ data' = Stored(n)
      /\ nearestData' = nearestData \cup {n}
      /\ offsetData' = OffsetsWith(n)
      /\ \/ n.span = "none" /\ initialTime' = initialTime /\ finalTime' = finalTime
         \/ n.span # "none" /\ initialTime' = InitialWith(n) /\ finalTime' = FinalWith(n)
  BY DEF AddNavData
<1>2. TypeOK /\ OffsetsInStore /\ SpanCovered /\ TimeStampsCovered /\ OffsetsUnique /\ TouComplete
  BY DEF IInv
<1>3. data' \subseteq data \cup {n}
  BY <1>1 DEF Stored
<1>4. offsetData' \subseteq offsetData \cup (n.conversions \X {n})
  BY <1>1 DEF OffsetsWith
<1>5. /\ initialTime' \in CommonTime /\ finalTime' \in CommonTime
      /\ initialTime'.time <= initialTime.time /\ finalTime.time <= finalTime'.time
      /\ DOMAIN firstLastMap' \subseteq Sats
      /\ \A s \in DOMAIN firstLastMap' :
           firstLastMap'[s] \in (0..END_OF_TIME) \X (0..END_OF_TIME)
      /\ DOMAIN firstLastMap \subseteq DOMAIN firstLastMap'
      /\ \A s \in DOMAIN firstLastMap :
           /\ firstLastMap'[s][1] <= firstLastMap[s][1]
           /\ firstLastMap[s][2] <= firstLastMap'[s][2]
  BY <1>1, SummariesGrow
<1>6. TypeOK'
  <2>1. offsetData' \subseteq Conversions \X Nav
    BY <1>2, <1>4 DEF TypeOK, Conversions
  <2>2. tou' \subseteq {TouEntry(m) : m \in Nav}
    BY <1>1, <1>2 DEF TypeOK
  <2>3. data' \subseteq Nav /\ nearestData' \subseteq Nav
    BY <1>1, <1>2, <1>3 DEF TypeOK
  <2> QED BY <1>5, <2>1, <2>2, <2>3 DEF TypeOK, CommonTime, Conversions, Sats, TouEntry
<1>7. OffsetsInStore'
  BY <1>1, <1>2, <1>4 DEF OffsetsInStore
<1>8. \A m \in data \cup nearestData :
        /\ m.span # "none" => initialTime'.time <= Begin(m) /\ End(m) <= finalTime'.time
        /\ m.sat # NoSystem =>
             /\ m.sat \in DOMAIN firstLastMap'
             /\ firstLastMap'[m.sat][1] <= m.timeStamp
             /\ m.timeStamp <= firstLastMap'[m.sat][2]
  BY <1>2, <1>5, CoverGrows
<1>9. SpanCovered'
  <2>1. n.span # "none" => initialTime'.time <= Begin(n) /\ End(n) <= finalTime'.time
    BY <1>1, <1>2, SpanGrows
  <2>2. \A m \in data' \cup nearestData' : m \in data \cup nearestData \/ m = n
    BY <1>1, <1>3
  <2> QED BY <1>8, <2>1, <2>2 DEF SpanCovered, Begin, End
<1>10. TimeStampsCovered'
  <2>1. n.sat # NoSystem =>
          /\ n.sat \in DOMAIN firstLastMap'
          /\ firstLastMap'[n.sat][1] <= n.timeStamp
          /\ n.timeStamp <= firstLastMap'[n.sat][2]
    BY <1>1, <1>2, FirstLastCovers
  <2>2. \A m \in data' \cup nearestData' : m \in data \cup nearestData \/ m = n
    BY <1>1, <1>3
  <2> QED BY <1>8, <2>1, <2>2 DEF TimeStampsCovered
<1>11. OffsetsUnique'
  <2>1. ASSUME NEW m \in nearestData, Filtered(m), Filtered(n), TouEntry(m) = TouEntry(n)
        PROVE  FALSE
    BY <1>1, <1>2, <2>1 DEF TouComplete, Duplicate
  <2> QED BY <1>1, <1>2, <2>1 DEF OffsetsUnique, Filtered, TouEntry
<1>12. TouComplete'
  BY <1>1, <1>2 DEF TouComplete, Filtered, TouEntry
<1> QED BY <1>6, <1>7, <1>9, <1>10, <1>11, <1>12 DEF IInv

\* A refused message changes summaries only, and they only grow.
LEMMA RefusedInvariant ==
  ASSUME IInv, NEW n \in Nav, AddRefused(n)
  PROVE  IInv'
<1>1. /\ tou' = tou \cup {TouEntry(m) : m \in {k \in {n} : Filtered(k)}}
      /\ firstLastMap' = FirstLast(n)
      /\ data' = data /\ nearestData' = nearestData /\ offsetData' = offsetData
      /\ initialTime' = initialTime /\ finalTime' = finalTime
  BY DEF AddRefused
<1>2. TypeOK /\ OffsetsInStore /\ SpanCovered /\ TimeStampsCovered /\ OffsetsUnique /\ TouComplete
  BY DEF IInv
<1>3. /\ initialTime' \in CommonTime /\ finalTime' \in CommonTime
      /\ initialTime'.time <= initialTime.time /\ finalTime.time <= finalTime'.time
      /\ DOMAIN firstLastMap' \subseteq Sats
      /\ \A s \in DOMAIN firstLastMap' :
           firstLastMap'[s] \in (0..END_OF_TIME) \X (0..END_OF_TIME)
      /\ DOMAIN firstLastMap \subseteq DOMAIN firstLastMap'
      /\ \A s \in DOMAIN firstLastMap :
           /\ firstLastMap'[s][1] <= firstLastMap[s][1]
           /\ firstLastMap[s][2] <= firstLastMap'[s][2]
  BY <1>1, SummariesGrow
<1>4. TypeOK'
  <2>1. tou' \subseteq {TouEntry(m) : m \in Nav}
    BY <1>1, <1>2 DEF TypeOK
  <2> QED BY <1>1, <1>2, <1>3, <2>1 DEF TypeOK, CommonTime, Conversions, Sats, TouEntry
<1>5. TimeStampsCovered'
  <2>1. \A m \in data \cup nearestData :
          m.sat # NoSystem =>
             /\ m.sat \in DOMAIN firstLastMap'
             /\ firstLastMap'[m.sat][1] <= m.timeStamp
             /\ m.timeStamp <= firstLastMap'[m.sat][2]
    BY <1>2, <1>3, CoverGrows
  <2> QED BY <1>1, <2>1 DEF TimeStampsCovered
<1>6. OffsetsInStore' /\ SpanCovered'
  BY <1>1, <1>2 DEF OffsetsInStore, SpanCovered, Begin, End
<1>7. OffsetsUnique' /\ TouComplete'
  BY <1>1, <1>2 DEF OffsetsUnique, TouComplete, Filtered, TouEntry
<1> QED BY <1>4, <1>5, <1>6, <1>7 DEF IInv

\* edit() takes messages away; the offsets and the Nearest map lose the same.
LEMMA EditInvariant ==
  ASSUME IInv, NEW from, NEW to, NEW signals, Edit(from, to, signals)
  PROVE  IInv'
<1>1. /\ data' \subseteq data
      /\ nearestData' = {n \in nearestData :
                           ~(n.signal \in signals /\ Within(n.timeStamp, from, to))}
      /\ offsetData' = {o \in offsetData :
                          ~(o[2].signal \in signals /\ Within(o[2].timeStamp, from, to))}
      /\ initialTime' = initialTime /\ finalTime' = finalTime
      /\ firstLastMap' = firstLastMap /\ tou' = tou
  BY DEF Edit
<1>2. TypeOK /\ OffsetsInStore /\ SpanCovered /\ TimeStampsCovered /\ OffsetsUnique /\ TouComplete
  BY DEF IInv
<1>3. TypeOK'
  BY <1>1, <1>2 DEF TypeOK, CommonTime, Conversions, Sats, TouEntry
<1>4. OffsetsInStore'
  BY <1>1, <1>2 DEF OffsetsInStore
<1>5. SpanCovered' /\ TimeStampsCovered'
  BY <1>1, <1>2 DEF SpanCovered, TimeStampsCovered, Begin, End
<1>6. OffsetsUnique' /\ TouComplete'
  BY <1>1, <1>2 DEF OffsetsUnique, TouComplete, Filtered, TouEntry
<1> QED BY <1>3, <1>4, <1>5, <1>6 DEF IInv

\* After clear() there is nothing to cover.
LEMMA ClearInvariant == IInv /\ Clear => IInv'
<1> SUFFICES ASSUME IInv, Clear PROVE IInv'
  OBVIOUS
<1>1. TypeOK'
  BY StoreAssumption DEF Clear, IInv, TypeOK, CommonTime, Conversions, Sats, TouEntry
<1> QED BY <1>1 DEF Clear, IInv, OffsetsInStore, SpanCovered, TimeStampsCovered,
                    OffsetsUnique, TouComplete

LEMMA StepInvariant == IInv /\ [Next]_vars => IInv'
<1> SUFFICES ASSUME IInv, [Next]_vars PROVE IInv'
  OBVIOUS
<1>1. ASSUME NEW n \in Nav, AddNavData(n) PROVE IInv'
  BY <1>1, AddInvariant
<1>2. ASSUME NEW n \in Nav, AddRefused(n) PROVE IInv'
  BY <1>2, RefusedInvariant
<1>3. ASSUME NEW span \in EditSpan, NEW signals \in EditSignals,
             Edit(span[1], span[2], signals)
      PROVE  IInv'
  BY <1>3, EditInvariant
<1>4. CASE Clear
  BY <1>4, ClearInvariant
<1>5. CASE UNCHANGED vars
  BY <1>5 DEF vars, IInv, TypeOK, OffsetsInStore, SpanCovered, TimeStampsCovered,
              OffsetsUnique, TouComplete, CommonTime, Conversions, Sats, TouEntry,
              Filtered, Begin, End
<1> QED BY <1>1, <1>2, <1>3, <1>4, <1>5 DEF Next

LEMMA Invariance == Spec => []IInv
  BY InitInvariant, StepInvariant, PTL DEF Spec

-----------------------------------------------------------------------------

\* The store's maps and summaries have their types.
THEOREM TypeCorrect == Spec => []TypeOK
<1>1. IInv => TypeOK
  BY DEF IInv
<1> QED BY <1>1, Invariance, PTL

\* A time offset is never left where getOffset() finds it and no search does.
THEOREM OffsetsStayInStore == Spec => []OffsetsInStore
<1>1. IInv => OffsetsInStore
  BY DEF IInv
<1> QED BY <1>1, Invariance, PTL

\* getInitialTime() and getFinalTime() never promise less than is stored.
THEOREM SpanIsCovered == Spec => []SpanCovered
<1>1. IInv => SpanCovered
  BY DEF IInv
<1> QED BY <1>1, Invariance, PTL

\* getFirstTime() and getLastTime() never promise less than is stored.
THEOREM TimeStampsAreCovered == Spec => []TimeStampsCovered
<1>1. IInv => TimeStampsCovered
  BY DEF IInv
<1> QED BY <1>1, Invariance, PTL

\* With a filter, no time offset is stored twice.
THEOREM OffsetsStayUnique == Spec => []OffsetsUnique
<1>1. IInv => OffsetsUnique
  BY DEF IInv
<1> QED BY <1>1, Invariance, PTL

-----------------------------------------------------------------------------
(* The User search                                                         *)

\* The User map has one message per type, signal and user time.
Keyed(D) == D \subseteq Nav /\ \A m, n \in D : SameKey(m, n) => m = n

\* Every non-empty set of natural numbers has a least element: an interval
\* 0..n is finite, and strict inclusion of finite sets is well-founded.
LEMMA LeastExists ==
  ASSUME NEW S, S \subseteq Nat, S # {}
  PROVE  \E x \in S : \A y \in S : x <= y
<1> DEFINE Below(n) == 0..(n - 1)
           Belows   == {Below(n) : n \in S}
           Finite   == FiniteSubsetsOf(Nat)
           Smaller  == StrictSubsetOrdering(Nat)
<1>1. \A n \in S : Below(n) \in Finite
  <2> SUFFICES ASSUME NEW n \in S PROVE Below(n) \in Finite
    OBVIOUS
  <2>1. Below(n) \subseteq Nat
    OBVIOUS
  <2>2. IsFiniteSet(Below(n))
    BY FS_Interval
  <2> QED BY <2>1, <2>2 DEF FiniteSubsetsOf
<1>2. Belows \subseteq Finite /\ Belows # {}
  BY <1>1
<1>3. PICK b \in Belows : \A c \in Belows : <<c, b>> \notin Smaller
  <2>1. IsWellFoundedOn(Smaller, Finite)
    BY FS_StrictSubsetOrderingWellFounded
  <2> HIDE DEF Belows, Smaller, Finite
  <2> QED BY <1>2, <2>1, WFMin
<1>4. PICK x \in S : b = Below(x)
  OBVIOUS
<1>5. ASSUME NEW y \in S PROVE x <= y
  <2> SUFFICES ASSUME y < x PROVE FALSE
    OBVIOUS
  <2>1. Below(y) \subseteq Below(x) /\ y \in Below(x) /\ y \notin Below(y)
    OBVIOUS
  <2>2. Below(x) \in SUBSET Nat /\ Below(y) \in SUBSET Nat
    OBVIOUS
  <2>3. <<Below(y), Below(x)>> \in Smaller
    BY <2>1, <2>2 DEF StrictSubsetOrdering
  <2> QED BY <1>3, <1>4, <2>3
<1> QED BY <1>5

\* Times are numbers up to END_OF_TIME, so sets of messages have an oldest and a
\* newest one.
LEMMA UserTimes ==
  /\ END_OF_TIME \in Nat
  /\ \A n \in Nav : n.userTime \in Nat /\ n.userTime <= END_OF_TIME
                    /\ n.timeStamp \in Nat /\ n.timeStamp <= n.userTime
  BY StoreAssumption, NavAssumption

LEMMA OldestNav ==
  ASSUME NEW S, S \subseteq Nav, S # {}
  PROVE  \E n \in S : \A m \in S : n.userTime <= m.userTime
<1> DEFINE Times == {m.userTime : m \in S}
<1>1. Times \subseteq Nat /\ Times # {}
  BY UserTimes
<1>2. PICK t \in Times : \A u \in Times : t <= u
  BY <1>1, LeastExists
<1> QED BY <1>2

LEMMA NewestNav ==
  ASSUME NEW S, S \subseteq Nav, S # {}
  PROVE  \E n \in S : \A m \in S : m.userTime <= n.userTime
<1> DEFINE Ages == {END_OF_TIME - m.userTime : m \in S}
<1>1. Ages \subseteq Nat /\ Ages # {}
  BY UserTimes
<1>2. PICK a \in Ages : \A b \in Ages : a <= b
  BY <1>1, LeastExists
<1>3. PICK n \in S : a = END_OF_TIME - n.userTime
  OBVIOUS
<1>4. ASSUME NEW m \in S PROVE m.userTime <= n.userTime
  <2>1. END_OF_TIME - n.userTime <= END_OF_TIME - m.userTime
    BY <1>2, <1>3
  <2> QED BY <2>1, UserTimes
<1> QED BY <1>4

\* The messages an iterator has passed when it is at n.
AtLeast(R, n) == {m \in R : n.userTime <= m.userTime}

LEMMA PassIsRank ==
  ASSUME NEW D, D \subseteq Nav, NEW q, NEW s
  PROVE  LET R == Reachable(D, q, s)
         IN  /\ R \subseteq D
             /\ IsFiniteSet(R)
             /\ Cardinality(D) \in Nat
             /\ \A n \in R : /\ PassOf(D, q, n) = Cardinality(AtLeast(R, n))
                             /\ n \in AtLeast(R, n)
                             /\ IsFiniteSet(AtLeast(R, n))
                             /\ PassOf(D, q, n) \in 1..Cardinality(D)
<1> DEFINE R == Reachable(D, q, s)
<1>1. R \subseteq D
  BY DEF Reachable
<1>2. IsFiniteSet(D) /\ Cardinality(D) \in Nat
  BY NavAssumption, FS_Subset, FS_CardinalityType
<1>3. IsFiniteSet(R)
  BY <1>1, <1>2, FS_Subset
<1>4. ASSUME NEW n \in R
      PROVE  /\ PassOf(D, q, n) = Cardinality(AtLeast(R, n))
             /\ n \in AtLeast(R, n)
             /\ IsFiniteSet(AtLeast(R, n))
             /\ PassOf(D, q, n) \in 1..Cardinality(D)
  <2>1. n.signal = s
    BY DEF Reachable
  <2>2. PassOf(D, q, n) = Cardinality(AtLeast(R, n))
    BY <2>1 DEF PassOf, AtLeast
  <2>3. n \in AtLeast(R, n)
    BY <1>1, UserTimes DEF AtLeast
  <2>4. AtLeast(R, n) \in SUBSET D
    BY <1>1 DEF AtLeast
  <2>5. IsFiniteSet(AtLeast(R, n)) /\ Cardinality(AtLeast(R, n)) <= Cardinality(D)
    BY <1>2, <2>4, FS_Subset
  <2>6. Cardinality(AtLeast(R, n)) \in Nat /\ Cardinality(AtLeast(R, n)) # 0
    BY <2>3, <2>5, FS_CardinalityType, FS_EmptySet
  <2> QED BY <1>2, <2>2, <2>3, <2>5, <2>6
<1> QED BY <1>1, <1>2, <1>3, <1>4

\* An iterator is at a newer message in an earlier pass.
LEMMA NewerIsEarlier ==
  ASSUME NEW D, D \subseteq Nav, NEW q, NEW s,
         NEW m \in Reachable(D, q, s), NEW n \in Reachable(D, q, s),
         n.userTime < m.userTime
  PROVE  PassOf(D, q, m) < PassOf(D, q, n)
<1> DEFINE R == Reachable(D, q, s)
<1>1. n.userTime \in Nat /\ m.userTime \in Nat /\ \A x \in R : x.userTime \in Nat
  BY PassIsRank, UserTimes
<1>2. AtLeast(R, m) \in SUBSET AtLeast(R, n) /\ n \notin AtLeast(R, m) /\ n \in AtLeast(R, n)
  BY <1>1 DEF AtLeast
<1>3. /\ Cardinality(AtLeast(R, m)) <= Cardinality(AtLeast(R, n))
      /\ Cardinality(AtLeast(R, m)) # Cardinality(AtLeast(R, n))
  BY <1>2, PassIsRank, FS_Subset
<1> QED BY <1>3, PassIsRank

\* An iterator stops at each message it passes: no pass is skipped.
LEMMA PassReached ==
  ASSUME NEW D, Keyed(D), NEW q, NEW s,
         NEW n \in Reachable(D, q, s), NEW k \in 1..PassOf(D, q, n)
  PROVE  \E m \in Reachable(D, q, s) : PassOf(D, q, m) = k
<1> DEFINE R == Reachable(D, q, s)
<1> SUFFICES ASSUME \A m \in R : PassOf(D, q, m) # k PROVE FALSE
  OBVIOUS
<1>0. D \subseteq Nav
  BY DEF Keyed
<1>1. /\ R \subseteq Nav
      /\ \A m \in R : /\ PassOf(D, q, m) = Cardinality(AtLeast(R, m))
                      /\ PassOf(D, q, m) \in Nat
                      /\ IsFiniteSet(AtLeast(R, m))
                      /\ m.userTime \in Nat
  <2>1. /\ R \subseteq D
        /\ Cardinality(D) \in Nat
        /\ \A m \in R : /\ PassOf(D, q, m) = Cardinality(AtLeast(R, m))
                        /\ IsFiniteSet(AtLeast(R, m))
                        /\ PassOf(D, q, m) \in 1..Cardinality(D)
    BY <1>0, PassIsRank
  <2> QED BY <1>0, <2>1, UserTimes
<1> DEFINE late == {m \in R : PassOf(D, q, m) > k}
<1>2. late \subseteq Nav /\ late # {}
  BY <1>1
<1>3. PICK m \in late : \A x \in late : x.userTime <= m.userTime
  BY <1>2, NewestNav
<1> DEFINE newer == {x \in R : m.userTime < x.userTime}
<1>30. /\ m \in R /\ m.userTime \in Nat /\ \A x \in R : x.userTime \in Nat
       /\ PassOf(D, q, m) > k
       /\ newer \subseteq R
  BY <1>1, <1>3
<1>4. AtLeast(R, m) = newer \cup {m}
  <2>1. \A x \in R : x.userTime = m.userTime => x = m
    BY <1>30 DEF Keyed, SameKey, Reachable
  <2> HIDE DEF R
  <2>2. ASSUME NEW x \in AtLeast(R, m) PROVE x \in newer \cup {m}
    BY <1>30, <2>1, <2>2 DEF AtLeast
  <2>3. ASSUME NEW x \in newer \cup {m} PROVE x \in AtLeast(R, m)
    BY <1>30, <2>3 DEF AtLeast
  <2> QED BY <2>2, <2>3
<1>5. CASE newer = {}
  <2>1. PassOf(D, q, m) = 1
    <3>1. AtLeast(R, m) = {m}
      BY <1>4, <1>5
    <3>2. Cardinality({m}) = 1
      BY FS_Singleton
    <3>3. PassOf(D, q, m) = Cardinality(AtLeast(R, m))
      BY <1>1, <1>30
    <3> QED BY <3>1, <3>2, <3>3
  <2> QED BY <1>3, <2>1
<1>6. CASE newer # {}
  <2>1. PICK a \in newer : \A x \in newer : a.userTime <= x.userTime
    BY <1>1, <1>6, OldestNav
  <2>2. a \in R /\ a \notin late /\ PassOf(D, q, a) < k
    BY <1>1, <1>3, <2>1
  <2>3. AtLeast(R, a) = newer
    <3> HIDE DEF R
    <3>1. ASSUME NEW x \in AtLeast(R, a) PROVE x \in newer
      BY <1>30, <2>1, <3>1 DEF AtLeast
    <3>2. ASSUME NEW x \in newer PROVE x \in AtLeast(R, a)
      BY <1>30, <2>1, <3>2 DEF AtLeast
    <3> QED BY <3>1, <3>2
  <2>4. m \notin newer
    BY <1>1, <1>3
  <2>5. PassOf(D, q, m) = PassOf(D, q, a) + 1
    BY <1>1, <1>3, <1>4, <2>2, <2>3, <2>4, FS_AddElement
  <2> QED BY <1>1, <1>3, <2>2, <2>5
<1> QED BY <1>5, <1>6

\* The loop of findUser() ends with the first pass in which the last iterator
\* stays, and there is one.
LEMMA PassesEnd ==
  ASSUME NEW D, D \subseteq Nav, NEW q, NEW s
  PROVE  LET p == UserPasses(D, q, s)
         IN  /\ p \in 1..(Cardinality(D) + 1)
             /\ ~BacksUp(D, q, s, p)
             /\ \A k \in 1..(Cardinality(D) + 1) : ~BacksUp(D, q, s, k) => p <= k
<1> DEFINE Ends == {k \in 1..(Cardinality(D) + 1) : ~BacksUp(D, q, s, k)}
<1>1. Cardinality(D) \in Nat /\ \A n \in Reachable(D, q, s) : PassOf(D, q, n) \in 1..Cardinality(D)
  BY PassIsRank
<1>2. Cardinality(D) + 1 \in Ends
  BY <1>1 DEF BacksUp
<1>3. \E k \in Ends : \A j \in Ends : k <= j
  <2>1. Ends \subseteq Nat /\ Ends # {}
    BY <1>1, <1>2
  <2> HIDE DEF Ends
  <2> QED BY <2>1, LeastExists
<1>4. Min(Ends) \in Ends /\ \A j \in Ends : Min(Ends) <= j
  BY <1>3 DEF Min
<1> QED BY <1>4 DEF UserPasses

\* For one signal findUser() returns the newest acceptable message.
LEMMA FindUserOfOne ==
  ASSUME NEW D, Keyed(D), NEW q, NEW s \in Nat, q.signals = {s}
  PROVE  FindUser(D, q) = Newest({n \in Reachable(D, q, s) : Acceptable(D, n, q)})
<1> DEFINE R    == Reachable(D, q, s)
           good == {n \in R : Acceptable(D, n, q)}
           p    == UserPasses(D, q, s)
<1>0. D \subseteq Nav
  BY DEF Keyed
<1>1. CASE R = {}
  BY <1>1 DEF FindUser, Newest
<1>2. CASE R # {}
  <2>1. /\ p \in 1..(Cardinality(D) + 1)
        /\ ~BacksUp(D, q, s, p)
    BY <1>0, PassesEnd
  <2>2. /\ Cardinality(D) \in Nat
        /\ \A n \in R : PassOf(D, q, n) \in Nat /\ n \in Nav /\ n.userTime \in Nat
    BY <1>0, PassIsRank, UserTimes
  <2>3. FirstGood(D, q) = Newest(good)
    BY DEF FirstGood
  <2>4. \A m, n \in Newest(good) : m = n
    <3> SUFFICES ASSUME NEW m \in Newest(good), NEW n \in Newest(good) PROVE m = n
      OBVIOUS
    <3>1. m \in R /\ n \in R /\ m.userTime = n.userTime
      BY <2>2 DEF Newest
    <3> QED BY <3>1 DEF Keyed, SameKey, Reachable
  <2>5. ASSUME NEW n \in Newest(good) PROVE PassOf(D, q, n) <= p
    <3> SUFFICES ASSUME p < PassOf(D, q, n) PROVE FALSE
      BY <2>1, <2>2, <2>5 DEF Newest
    <3>1. n \in R
      BY DEF Newest
    <3>2. PICK m \in R : PassOf(D, q, m) = p
      <4>1. p \in 1..PassOf(D, q, n)
        BY <2>1, <2>2, <3>1
      <4> QED BY <3>1, <4>1, PassReached
    <3>3. n.userTime < m.userTime
      <4>1. m.userTime # n.userTime
        BY <2>2, <3>1, <3>2 DEF Keyed, SameKey, Reachable
      <4>2. ~(m.userTime < n.userTime)
        <5> SUFFICES ASSUME m.userTime < n.userTime PROVE FALSE
          OBVIOUS
        <5>1. PassOf(D, q, n) < PassOf(D, q, m)
          BY <1>0, <3>1, NewerIsEarlier
        <5> QED BY <2>2, <3>1, <3>2, <5>1
      <4> QED BY <2>2, <3>1, <4>1, <4>2
    <3>4. ~Acceptable(D, m, q)
      BY <2>2, <3>1, <3>3 DEF Newest
    <3>5. FoundBy(D, q, p) = {}
      <4>1. \A x \in FirstGood(D, q) : x = n
        BY <2>3, <2>4, <2>5
      <4>2. PassOf(D, q, n) \in Nat /\ p \in Nat
        BY <2>1, <2>2, <3>1
      <4> QED BY <4>1, <4>2 DEF FoundBy
    <3> QED BY <2>1, <3>2, <3>4, <3>5 DEF BacksUp
  <2>6. FoundBy(D, q, p) = Newest(good)
    BY <2>3, <2>5 DEF FoundBy
  <2>7. FindUser(D, q) = Newest(FoundBy(D, q, p))
    <3>1. {x \in q.signals : Reachable(D, q, x) # {}} = {s}
      BY <1>2
    <3>2. Max({s}) = s
      BY DEF Max
    <3> QED BY <3>1, <3>2 DEF FindUser
  <2>8. Newest(Newest(good)) = Newest(good)
    BY DEF Newest
  <2> QED BY <2>6, <2>7, <2>8
<1> QED BY <1>1, <1>2

\* The User map stays keyed, whatever is added and cut.
LEMMA KeyedInvariant == Spec => []Keyed(data)
<1>1. Init => Keyed(data)
  BY DEF Init, Keyed
<1>2. Keyed(data) /\ [Next]_vars => Keyed(data)'
  <2> SUFFICES ASSUME Keyed(data), [Next]_vars PROVE Keyed(data')
    OBVIOUS
  <2>1. ASSUME NEW n \in Nav, AddNavData(n) PROVE Keyed(data')
    BY <2>1 DEF AddNavData, Stored, Keyed, SameKey
  <2>2. ASSUME data' \subseteq data PROVE Keyed(data')
    BY <2>2 DEF Keyed
  <2>3. \/ \E n \in Nav : AddNavData(n)
        \/ data' \subseteq data
    BY DEF Next, AddRefused, Edit, Clear, vars
  <2> QED BY <2>1, <2>2, <2>3
<1> QED BY <1>1, <1>2, PTL DEF Spec

\* However many newer messages it has to reject, a User search for a single
\* signal finds the latest acceptable one.
THEOREM LatestFound == Spec => []ExactUserLatest
<1>1. Keyed(data) => ExactUserLatest
  <2> SUFFICES ASSUME Keyed(data), NEW q \in Query, IsExact(q) PROVE FindsLatest(q)
    BY DEF ExactUserLatest
  <2>1. PICK s : q.signals = {s}
    BY QueryAssumption, FS_Singleton DEF IsExact
  <2>2. s \in Nat
    BY <2>1, QueryAssumption
  <2>3. FindUser(data, q) = Newest({n \in Reachable(data, q, s) : Acceptable(data, n, q)})
    BY <2>1, <2>2, FindUserOfOne
  <2> DEFINE good == {n \in Reachable(data, q, s) : Acceptable(data, n, q)}
             past == {n \in Matching(data, q) : n.userTime <= q.when}
  <2>4. good = past
    BY <2>1 DEF Matching, Reachable
  <2> QED BY <2>3, <2>4 DEF FindsLatest
<1> QED BY <1>1, KeyedInvariant, PTL

\* The last signal that the search has messages of, in the order of the maps.
LastListed(D, q, s) ==
  /\ s \in q.signals /\ Reachable(D, q, s) # {}
  /\ \A t \in q.signals : Reachable(D, q, t) # {} => t <= s

\* What a User search returns is acceptable and known at the search time, and
\* no older than any such message of the last signal.
FindsLatestOfLast(D, q) ==
  LET Known(s) == {n \in Reachable(D, q, s) : Acceptable(D, n, q)} IN
  /\ FindUser(D, q) \subseteq UNION {Known(s) : s \in q.signals}
  /\ \A s \in q.signals : LastListed(D, q, s) => \A m \in Known(s) :
       FindUser(D, q) # {} /\ \A n \in FindUser(D, q) : m.userTime <= n.userTime

LEMMA FindUserOfMany ==
  ASSUME NEW D, Keyed(D), NEW q, q.signals \subseteq Nat
  PROVE  FindsLatestOfLast(D, q)
<1> DEFINE Known(s) == {n \in Reachable(D, q, s) : Acceptable(D, n, q)}
<1>0. D \subseteq Nav
  BY DEF Keyed
<1>1. FirstGood(D, q) \subseteq UNION {Known(s) : s \in q.signals}
  BY DEF FirstGood, Newest
<1>2. FindUser(D, q) \subseteq FirstGood(D, q)
  BY DEF FindUser, Newest, FoundBy
<1>3. FirstGood(D, q) \subseteq Nav
  BY <1>0, <1>1 DEF Reachable
<1>4. ASSUME NEW s \in q.signals, LastListed(D, q, s), NEW m \in Known(s)
      PROVE  FindUser(D, q) # {} /\ \A n \in FindUser(D, q) : m.userTime <= n.userTime
  <2> DEFINE R == Reachable(D, q, s)
             good == Known(s)
             p == UserPasses(D, q, s)
  <2>1. p \in 1..(Cardinality(D) + 1) /\ ~BacksUp(D, q, s, p)
    BY <1>0, PassesEnd
  <2>2. /\ Cardinality(D) \in Nat
        /\ \A n \in R : PassOf(D, q, n) \in Nat /\ n \in Nav /\ n.userTime \in Nat
    BY <1>0, PassIsRank, UserTimes
  <2>3. FindUser(D, q) = Newest(FoundBy(D, q, p))
    <3> DEFINE listed == {t \in q.signals : Reachable(D, q, t) # {}}
    <3>1. s \in listed /\ listed \subseteq Nat /\ \A t \in listed : t <= s
      BY <1>4 DEF LastListed
    <3>2. Max(listed) = s
      <4> HIDE DEF listed
      <4>1. \A x \in listed : (\A y \in listed : x >= y) => x = s
        BY <3>1
      <4>2. \A y \in listed : s >= y
        BY <3>1
      <4> QED BY <3>1, <4>1, <4>2 DEF Max
    <3> QED BY <3>1, <3>2 DEF FindUser
  <2>4. PICK n \in good : \A x \in good : x.userTime <= n.userTime
    <3>1. good \subseteq Nav /\ good # {}
      BY <1>4, <2>2
    <3> HIDE DEF good
    <3> QED BY <3>1, NewestNav
  <2>5. n \in R /\ Acceptable(D, n, q) /\ n \in FirstGood(D, q)
    <3>1. n \in Newest(good)
      BY <2>4 DEF Newest
    <3> QED BY <1>4, <3>1 DEF FirstGood
  <2>6. \E x \in FoundBy(D, q, p) : n.userTime <= x.userTime
    <3>1. CASE PassOf(D, q, n) <= p
      BY <2>2, <2>5, <3>1 DEF FoundBy
    <3>2. CASE p < PassOf(D, q, n)
      <4>1. PICK k \in R : PassOf(D, q, k) = p
        <5>1. p \in 1..PassOf(D, q, n)
          BY <2>1, <2>2, <2>5, <3>2
        <5> QED BY <2>5, <5>1, PassReached
      <4>2. n.userTime < k.userTime
        <5>1. k.userTime # n.userTime
          BY <2>2, <2>5, <3>2, <4>1 DEF Keyed, SameKey, Reachable
        <5>2. ~(k.userTime < n.userTime)
          <6> SUFFICES ASSUME k.userTime < n.userTime PROVE FALSE
            OBVIOUS
          <6>1. PassOf(D, q, n) < PassOf(D, q, k)
            BY <1>0, <2>5, NewerIsEarlier
          <6> QED BY <2>2, <2>5, <3>2, <4>1, <6>1
        <5> QED BY <2>2, <2>5, <5>1, <5>2
      <4>3. ~Acceptable(D, k, q)
        <5>1. k \notin good
          BY <2>2, <2>4, <2>5, <4>2
        <5> QED BY <5>1
      <4>4. PICK x \in FoundBy(D, q, p) : ~(x.userTime <= k.userTime)
        BY <2>1, <4>1, <4>3 DEF BacksUp
      <4>5. x.userTime \in Nat
        BY <1>3, <4>4, UserTimes DEF FoundBy
      <4> QED BY <2>2, <2>5, <4>2, <4>4, <4>5
    <3> QED BY <2>1, <2>2, <2>5, <3>1, <3>2
  <2>7. FoundBy(D, q, p) \subseteq Nav
    BY <1>3 DEF FoundBy
  <2>8. Newest(FoundBy(D, q, p)) # {}
    BY <2>6, <2>7, NewestNav DEF Newest
  <2>9. ASSUME NEW y \in Newest(FoundBy(D, q, p)) PROVE m.userTime <= y.userTime
    <3>1. PICK x \in FoundBy(D, q, p) : n.userTime <= x.userTime
      BY <2>6
    <3>2. x.userTime <= y.userTime /\ y \in Nav /\ x \in Nav /\ n \in Nav /\ m \in Nav
      BY <1>4, <2>2, <2>5, <2>7, <2>9, <3>1 DEF Newest
    <3>3. m.userTime <= n.userTime
      BY <1>4, <2>4
    <3> QED BY <3>1, <3>2, <3>3, UserTimes
  <2> QED BY <2>3, <2>8, <2>9
<1> QED BY <1>1, <1>2, <1>4 DEF FindsLatestOfLast

\* What is left of "the latest message" for a search with wildcards, which need
\* not find that (UserLatest): the loop runs until the last signal is settled,
\* so the result is no older than what a search for that signal alone finds.
THEOREM LatestOfLastFound == Spec => [](\A q \in Query : FindsLatestOfLast(data, q))
<1>1. Keyed(data) => \A q \in Query : FindsLatestOfLast(data, q)
  BY FindUserOfMany, QueryAssumption
<1> QED BY <1>1, KeyedInvariant, PTL

-----------------------------------------------------------------------------
(* The Nearest search                                                      *)

\* How far a time is from the search time.
Away(t, when) == IF t < when THEN when - t ELSE t - when

\* Every non-empty set of numbers below a bound has a greatest element.
LEMMA GreatestExists ==
  ASSUME NEW S, S # {}, NEW b \in Nat, S \subseteq 0..b
  PROVE  \E x \in S : \A y \in S : x >= y
<1> DEFINE Left == {b - y : y \in S}
<1>1. Left \subseteq Nat /\ Left # {}
  <2>1. \A y \in S : b - y \in Nat
    OBVIOUS
  <2> QED BY <2>1
<1>2. PICK l \in Left : \A k \in Left : l <= k
  <2> HIDE DEF Left
  <2> QED BY <1>1, LeastExists
<1>3. PICK x \in S : l = b - x
  OBVIOUS
<1>4. ASSUME NEW y \in S PROVE x >= y
  <2>1. b - y \in Left
    OBVIOUS
  <2>2. l <= b - y
    BY <1>2, <2>1
  <2> QED BY <1>3, <2>2
<1> QED BY <1>4

\* The time tried next is one of those left, and none of them is nearer.
LEMMA TurnIsNearest ==
  ASSUME NEW rest, rest \subseteq Nat, rest # {}, NEW when \in Nat
  PROVE  /\ Turn(rest, when) \in rest
         /\ \A t \in rest : Away(Turn(rest, when), when) <= Away(t, when)
<1> DEFINE gt == {t \in rest : t >= when}
           lt == {t \in rest : t < when}
<1>1. gt # {} => Min(gt) \in gt /\ \A t \in gt : Min(gt) <= t
  <2> SUFFICES ASSUME gt # {} PROVE Min(gt) \in gt /\ \A t \in gt : Min(gt) <= t
    OBVIOUS
  <2>1. gt \subseteq Nat
    OBVIOUS
  <2>2. \E x \in gt : \A y \in gt : x <= y
    <3> HIDE DEF gt
    <3> QED BY <2>1, LeastExists
  <2> HIDE DEF gt
  <2> QED BY <2>2 DEF Min
<1>2. lt # {} => Max(lt) \in lt /\ \A t \in lt : t <= Max(lt)
  <2> SUFFICES ASSUME lt # {} PROVE Max(lt) \in lt /\ \A t \in lt : t <= Max(lt)
    OBVIOUS
  <2>1. lt \subseteq 0..when
    <3> SUFFICES ASSUME NEW t \in lt PROVE t \in 0..when
      OBVIOUS
    <3>1. t \in Nat /\ t < when
      OBVIOUS
    <3> QED BY <3>1
  <2>2. \E x \in lt : \A y \in lt : x >= y
    <3> HIDE DEF lt
    <3> QED BY <2>1, GreatestExists
  <2>3. Max(lt) \in lt /\ \A t \in lt : Max(lt) >= t
    <3> HIDE DEF lt
    <3> QED BY <2>2 DEF Max
  <2> QED BY <2>1, <2>3
<1>3. gt \cup lt = rest
  <2>1. \A t \in rest : t >= when \/ t < when
    OBVIOUS
  <2> QED BY <2>1
<1>4. Turn(rest, when) =
        IF gt # {} /\ (lt = {} \/ Min(gt) - when < when - Max(lt)) THEN Min(gt) ELSE Max(lt)
  BY DEF Turn
<1>5. /\ \A t \in gt : t \in Nat /\ Away(t, when) = t - when
      /\ \A t \in lt : t \in Nat /\ Away(t, when) = when - t
  BY DEF Away
<1> HIDE DEF gt, lt
<1>6. CASE gt # {} /\ lt = {}
  BY <1>1, <1>3, <1>4, <1>5, <1>6
<1>7. CASE gt = {} /\ lt # {}
  BY <1>2, <1>3, <1>4, <1>5, <1>7
<1>8. CASE gt # {} /\ lt # {}
  <2>1. CASE Min(gt) - when < when - Max(lt)
    BY <1>1, <1>2, <1>3, <1>4, <1>5, <1>8, <2>1
  <2>2. CASE ~(Min(gt) - when < when - Max(lt))
    BY <1>1, <1>2, <1>3, <1>4, <1>5, <1>8, <2>2
  <2> QED BY <2>1, <2>2
<1> QED BY <1>3, <1>6, <1>7, <1>8

\* One turn: the nearest time, then those a function gives for the rest.
Visited(f, rest, when) ==
  IF rest = {} THEN <<>>
  ELSE <<Turn(rest, when)>> \o f[rest \ {Turn(rest, when)}]

IsVisit(f, times, when) == f = [rest \in SUBSET times |-> Visited(f, rest, when)]

\* A finite set loses one element.
LEMMA OneLess ==
  ASSUME NEW S, IsFiniteSet(S), NEW x \in S
  PROVE  /\ IsFiniteSet(S \ {x})
         /\ Cardinality(S) \in Nat /\ Cardinality(S \ {x}) \in Nat
         /\ Cardinality(S) = Cardinality(S \ {x}) + 1
<1>1. IsFiniteSet(S \ {x}) /\ Cardinality(S \ {x}) = Cardinality(S) - 1
  BY FS_RemoveElement
<1>2. Cardinality(S) \in Nat /\ Cardinality(S \ {x}) \in Nat
  BY <1>1, FS_CardinalityType
<1> QED BY <1>1, <1>2

\* There is a function that satisfies the recursive definition of the visits:
\* one that does so for all sets with fewer than n elements gives one for n.
LEMMA VisitExists ==
  ASSUME NEW times, IsFiniteSet(times), times \subseteq Nat, NEW when \in Nat
  PROVE  \E f : IsVisit(f, times, when)
<1> DEFINE Solves(f, n) ==
             \A rest \in SUBSET times :
               Cardinality(rest) < n => f[rest] = Visited(f, rest, when)
           Solved(n) ==
             \E f : f = [rest \in SUBSET times |-> f[rest]] /\ Solves(f, n)
           Bad == {n \in Nat : ~Solved(n)}
<1>1. \A rest \in SUBSET times : IsFiniteSet(rest) /\ Cardinality(rest) \in Nat
  BY FS_Subset, FS_CardinalityType
<1>2. Solved(0)
  <2> DEFINE f == [rest \in SUBSET times |-> <<>>]
  <2>1. f = [rest \in SUBSET times |-> f[rest]]
    OBVIOUS
  <2>2. Solves(f, 0)
    BY <1>1
  <2> HIDE DEF f, Solves
  <2> QED BY <2>1, <2>2
<1>3. ASSUME NEW n \in Nat, Solved(n) PROVE Solved(n + 1)
  <2>1. PICK f : f = [rest \in SUBSET times |-> f[rest]] /\ Solves(f, n)
    BY <1>3
  <2> DEFINE g == [rest \in SUBSET times |-> Visited(f, rest, when)]
  <2>2. g = [rest \in SUBSET times |-> g[rest]]
    OBVIOUS
  <2>3. ASSUME NEW rest \in SUBSET times, Cardinality(rest) < n + 1
        PROVE  g[rest] = Visited(g, rest, when)
    <3>1. CASE rest = {}
      BY <3>1 DEF Visited
    <3>2. CASE rest # {}
      <4> DEFINE less == rest \ {Turn(rest, when)}
      <4>1. Turn(rest, when) \in rest
        BY <3>2, TurnIsNearest
      <4>2. Cardinality(less) < n
        BY <1>1, <2>3, <4>1, OneLess
      <4>3. f[less] = Visited(f, less, when)
        BY <2>1, <4>2
      <4>4. g[less] = f[less]
        BY <4>3
      <4>5. g[rest] = Visited(f, rest, when)
        OBVIOUS
      <4> HIDE DEF g
      <4> QED BY <4>4, <4>5 DEF Visited
    <3> QED BY <3>1, <3>2
  <2>4. Solves(g, n + 1)
    <3> HIDE DEF g
    <3> QED BY <2>3
  <2> HIDE DEF g, Solves
  <2> QED BY <2>2, <2>4
<1> HIDE DEF Solved
<1>4. ASSUME Bad # {} PROVE FALSE
  <2>1. Bad \subseteq Nat
    OBVIOUS
  <2>2. PICK b \in Bad : \A n \in Bad : b <= n
    <3> HIDE DEF Bad
    <3> QED BY <1>4, <2>1, LeastExists
  <2>3. b \in Nat /\ ~Solved(b) /\ b # 0
    BY <1>2
  <2>4. b - 1 \in Nat /\ Solved(b - 1)
    BY <2>2, <2>3
  <2>5. Solved((b - 1) + 1)
    BY <1>3, <2>4
  <2> QED BY <2>3, <2>5
<1>5. Cardinality(times) + 1 \in Nat
  BY FS_CardinalityType
<1>6. Solved(Cardinality(times) + 1)
  BY <1>4, <1>5
<1>7. PICK f : /\ f = [rest \in SUBSET times |-> f[rest]]
               /\ Solves(f, Cardinality(times) + 1)
  BY <1>6 DEF Solved
<1>8. \A rest \in SUBSET times : f[rest] = Visited(f, rest, when)
  <2> SUFFICES ASSUME NEW rest \in SUBSET times PROVE f[rest] = Visited(f, rest, when)
    OBVIOUS
  <2>1. Cardinality(rest) <= Cardinality(times)
    BY FS_Subset
  <2>2. Cardinality(rest) < Cardinality(times) + 1
    BY <1>1, <2>1, FS_CardinalityType
  <2> QED BY <1>7, <2>2
<1>9. IsVisit(f, times, when)
  BY <1>7, <1>8 DEF IsVisit
<1> QED BY <1>9

\* An iterator comes to the messages at time t.
Tried(visits, t) == \E i \in 1..Len(visits) : visits[i] = t

\* The times tried for a signal are all it has, each once, in order of their
\* distance from the search time.
LEMMA VisitsAll ==
  ASSUME NEW times, IsFiniteSet(times), times \subseteq Nat, NEW when \in Nat
  PROVE  /\ Visits(times, when) \in Seq(times)
         /\ Len(Visits(times, when)) = Cardinality(times)
         /\ \A t \in times : Tried(Visits(times, when), t)
         /\ \A i, j \in 1..Len(Visits(times, when)) :
              i <= j => Away(Visits(times, when)[i], when) <= Away(Visits(times, when)[j], when)
<1> DEFINE visit == CHOOSE f : IsVisit(f, times, when)
<1>1. IsVisit(visit, times, when)
  <2>1. \E f : IsVisit(f, times, when)
    BY VisitExists
  <2> QED BY <2>1
<1>2. Visits(times, when) = visit[times]
  BY DEF Visits, Visited, IsVisit
<1> HIDE DEF visit
<1>3. \A rest \in SUBSET times : visit[rest] = Visited(visit, rest, when)
  BY <1>1 DEF IsVisit
<1> DEFINE Right(rest) ==
             /\ visit[rest] \in Seq(rest)
             /\ Len(visit[rest]) = Cardinality(rest)
             /\ \A t \in rest : \E i \in 1..Len(visit[rest]) : visit[rest][i] = t
             /\ \A i, j \in 1..Len(visit[rest]) :
                  i <= j => Away(visit[rest][i], when) <= Away(visit[rest][j], when)
           Wrong == {rest \in SUBSET times : ~Right(rest)}
           Sizes == {Cardinality(rest) : rest \in Wrong}
<1>4. ASSUME NEW rest \in SUBSET times, rest = {} PROVE Right(rest)
  <2>1. visit[rest] = <<>>
    BY <1>3, <1>4 DEF Visited
  <2>2. Cardinality(rest) = 0
    BY <1>4, FS_EmptySet
  <2> QED BY <2>1, <2>2, <1>4
<1>5. ASSUME NEW rest \in SUBSET times, rest # {}, Right(rest \ {Turn(rest, when)})
      PROVE  Right(rest)
  <2> DEFINE first == Turn(rest, when)
             less  == rest \ {first}
             later == visit[less]
             all   == visit[rest]
  <2>1. /\ first \in rest
        /\ \A t \in rest : Away(first, when) <= Away(t, when)
    BY <1>5, TurnIsNearest
  <2>2. all = <<first>> \o later
    BY <1>3, <1>5 DEF Visited
  <2>3. /\ later \in Seq(less)
        /\ Len(later) = Cardinality(less)
        /\ \A t \in less : \E i \in 1..Len(later) : later[i] = t
        /\ \A i, j \in 1..Len(later) : i <= j => Away(later[i], when) <= Away(later[j], when)
    BY <1>5
  <2>4. /\ IsFiniteSet(rest)
        /\ Cardinality(rest) = Cardinality(less) + 1
        /\ Cardinality(less) \in Nat
    BY <2>1, FS_Subset, OneLess
  <2> HIDE DEF first, later, all
  <2>5. /\ all \in Seq(rest)
        /\ Len(all) = Len(later) + 1
        /\ Len(later) \in Nat
        /\ all[1] = first
        /\ \A i \in 1..Len(later) : all[i + 1] = later[i]
    <3> HIDE DEF less
    <3>1. later \in Seq(rest)
      BY <2>3 DEF less
    <3>2. <<first>> \in Seq(rest) /\ Len(<<first>>) = 1 /\ <<first>>[1] = first
      BY <2>1
    <3> QED BY <2>2, <3>1, <3>2
  <2>6. \A t \in rest : \E i \in 1..Len(all) : all[i] = t
    <3> SUFFICES ASSUME NEW t \in rest PROVE \E i \in 1..Len(all) : all[i] = t
      OBVIOUS
    <3>1. CASE t = first
      BY <2>3, <2>4, <2>5, <3>1
    <3>2. CASE t # first
      <4>1. PICK i \in 1..Len(later) : later[i] = t
        BY <2>3, <3>2
      <4>2. i + 1 \in 1..Len(all)
        BY <2>5
      <4>3. all[i + 1] = t
        BY <2>5, <4>1
      <4> QED BY <4>2, <4>3
    <3> QED BY <3>1, <3>2
  <2>7. \A i, j \in 1..Len(all) : i <= j => Away(all[i], when) <= Away(all[j], when)
    <3> SUFFICES ASSUME NEW i \in 1..Len(all), NEW j \in 1..Len(all), i <= j
                 PROVE  Away(all[i], when) <= Away(all[j], when)
      OBVIOUS
    <3>1. CASE i = 1
      <4>1. all[j] \in rest
        BY <2>5
      <4> QED BY <2>1, <2>5, <3>1, <4>1
    <3>2. CASE i # 1
      <4>1. /\ i - 1 \in 1..Len(later) /\ j - 1 \in 1..Len(later) /\ i - 1 <= j - 1
            /\ (i - 1) + 1 = i /\ (j - 1) + 1 = j
        BY <2>3, <2>4, <2>5, <3>2
      <4>2. all[i] = later[i - 1] /\ all[j] = later[j - 1]
        BY <2>5, <4>1
      <4> QED BY <2>3, <4>1, <4>2
    <3> QED BY <3>1, <3>2
  <2>8. Len(all) = Cardinality(rest)
    BY <2>3, <2>4, <2>5
  <2> QED BY <2>5, <2>6, <2>7, <2>8 DEF all
<1> HIDE DEF Right
<1>6. ASSUME Wrong # {} PROVE FALSE
  <2>1. Sizes \subseteq Nat /\ Sizes # {}
    <3>1. \A rest \in Wrong : IsFiniteSet(rest) /\ Cardinality(rest) \in Nat
      BY FS_Subset, FS_CardinalityType
    <3> QED BY <1>6, <3>1
  <2>2. PICK size \in Sizes : \A n \in Sizes : size <= n
    <3> HIDE DEF Sizes
    <3> QED BY <2>1, LeastExists
  <2>3. PICK rest \in Wrong : size = Cardinality(rest)
    OBVIOUS
  <2>4. rest # {} /\ rest \in SUBSET times /\ ~Right(rest)
    BY <1>4
  <2>5. Turn(rest, when) \in rest
    BY <2>4, TurnIsNearest
  <2> DEFINE less == rest \ {Turn(rest, when)}
  <2>6. /\ Cardinality(rest) = Cardinality(less) + 1
        /\ Cardinality(less) \in Nat
    BY <2>4, <2>5, FS_Subset, OneLess
  <2>7. less \in Wrong
    BY <1>5, <2>4
  <2>8. Cardinality(less) \in Sizes
    BY <2>7
  <2> QED BY <2>2, <2>3, <2>6, <2>8
<1>7. Right(times)
  BY <1>6
<1> QED BY <1>2, <1>7 DEF Right, Tried

\* The messages of one signal are tried from the nearest to the farthest.
LEMMA SignalVisits ==
  ASSUME nearestData \subseteq Nav, NEW q \in Query, NEW s
  PROVE  LET near   == nearestData
             times  == NearTimes(near, q, s)
             visits == Visits(times, q.when)
         IN  /\ q.when \in Nat /\ times \subseteq Nat
             /\ Cardinality(near) \in Nat /\ \A n \in near : n.nearTime \in Nat
             /\ Len(visits) = Cardinality(times)
             /\ Cardinality(times) \in Nat /\ Cardinality(times) <= Cardinality(near)
             /\ \A t \in times : \E j \in 1..Len(visits) : visits[j] = t
             /\ \A i, j \in 1..Len(visits) :
                  i <= j => Away(visits[i], q.when) <= Away(visits[j], q.when)
<1> DEFINE near   == nearestData
           times  == NearTimes(near, q, s)
           when   == q.when
           visits == Visits(times, when)
<1>1. /\ when \in Nat
      /\ IsFiniteSet(near) /\ Cardinality(near) \in Nat
      /\ \A n \in near : n.nearTime \in Nat
  BY NavAssumption, QueryAssumption, FS_Subset, FS_CardinalityType
<1>2. /\ times \subseteq Nat /\ IsFiniteSet(times)
      /\ Cardinality(times) \in Nat /\ Cardinality(times) <= Cardinality(near)
  <2> DEFINE those == {m \in near : m.type = q.type /\ m.signal = s}
  <2>1. IsFiniteSet(those) /\ Cardinality(those) <= Cardinality(near)
    BY <1>1, FS_Subset
  <2>2. times = {n.nearTime : n \in those}
    BY DEF NearTimes
  <2>3. IsFiniteSet(times) /\ Cardinality(times) <= Cardinality(those)
    <3> DEFINE g == [n \in those |-> n.nearTime]
    <3>1. g \in Surjection(those, times)
      BY <2>2 DEF Surjection
    <3> HIDE DEF those, times, g
    <3> QED BY <2>1, <3>1, FS_Surjection
  <2>4. Cardinality(times) \in Nat /\ Cardinality(those) \in Nat
    BY <2>1, <2>3, FS_CardinalityType
  <2> QED BY <1>1, <2>1, <2>2, <2>3, <2>4
<1>3. /\ Len(visits) = Cardinality(times)
      /\ \A t \in times : \E j \in 1..Len(visits) : visits[j] = t
      /\ \A i, j \in 1..Len(visits) : i <= j => Away(visits[i], when) <= Away(visits[j], when)
  <2> HIDE DEF times, when
  <2>1. Len(visits) = Cardinality(times)
    BY <1>1, <1>2, VisitsAll
  <2>2. \A t \in times : Tried(visits, t)
    BY <1>1, <1>2, VisitsAll
  <2>3. \A i, j \in 1..Len(visits) : i <= j => Away(visits[i], when) <= Away(visits[j], when)
    BY <1>1, <1>2, VisitsAll
  <2> QED BY <2>1, <2>2, <2>3 DEF Tried
<1> QED BY <1>1, <1>2, <1>3

\* A Nearest search of several signals returns the closest acceptable message
\* of one of them, and nothing only if one of them has none.
FindsClosestOfOne(q) ==
  LET found  == FindNearest(data, nearestData, q)
      Own(s) == {m \in Matching(nearestData, q) : m.signal = s}
      listed == {s \in q.signals : NearTimes(nearestData, q, s) # {}}
  IN  IF listed = {} THEN found = {}
      ELSE \E s \in listed :
             /\ found \subseteq Own(s)
             /\ \A n \in found, m \in Own(s) : Distance(n, q) <= Distance(m, q)
             /\ found = {} => Own(s) = {}

LEMMA FindNearestOfMany ==
  ASSUME nearestData \subseteq Nav, NEW q \in Query
  PROVE  FindsClosestOfOne(q)
<1> DEFINE near   == nearestData
           found  == FindNearest(data, near, q)
           Own(s) == {m \in Matching(near, q) : m.signal = s}
           listed == {s \in q.signals : NearTimes(near, q, s) # {}}
           lists  == [x \in listed |-> Visits(NearTimes(near, q, x), q.when)]
           GoodOf(p, x) == IF p > Len(lists[x]) THEN {}
                           ELSE GoodAt(data, near, q, x, lists[x][p])
           EndsAt(p)   == {x \in listed : p > Len(lists[x]) \/ GoodOf(p, x) # {}}
           Ending      == {p \in 1..(Cardinality(near) + 1) : EndsAt(p) # {}}
           last        == Min(Ending)
           s           == Min(EndsAt(last))
<1>1. found = IF listed = {} THEN {} ELSE GoodOf(last, s)
  BY DEF FindNearest
<1>2. CASE listed = {}
  BY <1>1, <1>2 DEF FindsClosestOfOne
<1>3. ASSUME listed # {}
      PROVE  \E x \in listed : /\ found \subseteq Own(x)
                               /\ \A n \in found, m \in Own(x) : Distance(n, q) <= Distance(m, q)
                               /\ found = {} => Own(x) = {}
  <2>1. listed \subseteq Nat /\ \A x \in listed : lists[x] = Visits(NearTimes(near, q, x), q.when)
    BY QueryAssumption
  <2>2. ASSUME NEW x \in listed
        PROVE  /\ Len(lists[x]) \in Nat /\ Len(lists[x]) <= Cardinality(near)
               /\ Cardinality(near) \in Nat
               /\ \A t \in NearTimes(near, q, x) : \E j \in 1..Len(lists[x]) : lists[x][j] = t
               /\ \A i, j \in 1..Len(lists[x]) :
                    i <= j => Away(lists[x][i], q.when) <= Away(lists[x][j], q.when)
    <3> DEFINE visits == Visits(NearTimes(near, q, x), q.when)
    <3>1. /\ Len(visits) = Cardinality(NearTimes(near, q, x))
          /\ Cardinality(NearTimes(near, q, x)) \in Nat /\ Cardinality(near) \in Nat
          /\ Cardinality(NearTimes(near, q, x)) <= Cardinality(near)
          /\ \A t \in NearTimes(near, q, x) : \E j \in 1..Len(visits) : visits[j] = t
          /\ \A i, j \in 1..Len(visits) :
               i <= j => Away(visits[i], q.when) <= Away(visits[j], q.when)
      BY SignalVisits
    <3>2. lists[x] = visits
      BY <2>1
    <3> HIDE DEF visits, lists, near, listed
    <3> QED BY <3>1, <3>2
  <2>3. last \in Ending /\ \A p \in Ending : last <= p
    <3>1. PICK x \in listed : TRUE
      BY <1>3
    <3>2. /\ Cardinality(near) + 1 > Len(lists[x])
          /\ Cardinality(near) + 1 \in 1..(Cardinality(near) + 1)
      <4>1. /\ Len(lists[x]) \in Nat /\ Len(lists[x]) <= Cardinality(near)
            /\ Cardinality(near) \in Nat
        BY <2>2
      <4> HIDE DEF lists, near
      <4> QED BY <4>1
    <3>3. Cardinality(near) + 1 \in Ending
      <4> HIDE DEF listed, lists, near, GoodOf
      <4> QED BY <3>2
    <3>4. Ending \subseteq Nat
      OBVIOUS
    <3> HIDE DEF Ending
    <3>5. \E p \in Ending : \A r \in Ending : p <= r
      BY <3>3, <3>4, LeastExists
    <3> QED BY <3>5 DEF Min
  <2>4. s \in EndsAt(last)
    <3>1. EndsAt(last) # {} /\ EndsAt(last) \subseteq Nat
      <4> HIDE DEF last, listed, lists, GoodOf
      <4> QED BY <2>1, <2>3
    <3> HIDE DEF EndsAt, last
    <3>2. \E x \in EndsAt(last) : \A y \in EndsAt(last) : x <= y
      BY <3>1, LeastExists
    <3> QED BY <3>2 DEF Min
  <2>5. s \in listed /\ (last > Len(lists[s]) \/ GoodOf(last, s) # {})
    <3> HIDE DEF s, last, listed, lists, GoodOf
    <3> QED BY <2>4
  <2>6. last \in Nat /\ last >= 1
    <3> HIDE DEF EndsAt, last
    <3> QED BY <2>3
  <2>7. found = GoodOf(last, s)
    BY <1>1, <1>3
  <2>8. PICK x \in listed : x = s
    BY <2>5
  <2>80. PICK v \in Nat : v = last /\ v >= 1
    BY <2>6
  <2> HIDE DEF found, listed, s, last
  <2>9. ASSUME NEW m \in Own(x)
        PROVE  \E j \in 1..Len(lists[x]) : lists[x][j] = m.nearTime /\ v <= j
    <3>1. m \in near /\ m.nearTime \in NearTimes(near, q, x) /\ m \in GoodAt(data, near, q, x, m.nearTime)
      BY DEF Matching, NearTimes, GoodAt
    <3>2. PICK j \in 1..Len(lists[x]) : lists[x][j] = m.nearTime
      BY <2>2, <3>1
    <3>3. Len(lists[x]) \in Nat /\ Len(lists[x]) <= Cardinality(near) /\ Cardinality(near) \in Nat
      BY <2>2
    <3> HIDE DEF lists, near, Own
    <3>4. j \in 1..(Cardinality(near) + 1)
      BY <3>3
    <3>5. GoodOf(j, x) # {}
      BY <3>1, <3>2, <3>3
    <3>6. j \in Ending
      <4> HIDE DEF GoodOf
      <4> QED BY <3>4, <3>5
    <3> HIDE DEF Ending
    <3> QED BY <2>3, <2>80, <3>2, <3>6
  <2>10. found = GoodOf(v, x) /\ (v > Len(lists[x]) \/ GoodOf(v, x) # {})
    <3> HIDE DEF GoodOf, lists
    <3> QED BY <2>5, <2>7, <2>8, <2>80
  <2>11. found \subseteq Own(x)
    BY <2>10 DEF GoodAt, Matching, listed
  <2>12. ASSUME found = {} PROVE Own(x) = {}
    <3> SUFFICES ASSUME NEW m \in Own(x) PROVE FALSE
      OBVIOUS
    <3>1. PICK j \in 1..Len(lists[x]) : v <= j
      BY <2>9
    <3>2. v > Len(lists[x]) /\ Len(lists[x]) \in Nat
      <4> HIDE DEF GoodOf, lists
      <4> QED BY <2>2, <2>10, <2>12
    <3> QED BY <3>1, <3>2
  <2>13. ASSUME NEW n \in found, NEW m \in Own(x) PROVE Distance(n, q) <= Distance(m, q)
    <3>1. v \in 1..Len(lists[x]) /\ n \in GoodAt(data, near, q, x, lists[x][v])
      <4>1. ~(v > Len(lists[x])) /\ n \in GoodAt(data, near, q, x, lists[x][v])
        BY <2>10, <2>13
      <4>2. Len(lists[x]) \in Nat
        BY <2>2
      <4> HIDE DEF lists, near
      <4> QED BY <2>80, <4>1, <4>2
    <3>2. n.nearTime = lists[x][v]
      BY <3>1 DEF GoodAt
    <3>3. PICK j \in 1..Len(lists[x]) : lists[x][j] = m.nearTime /\ v <= j
      BY <2>9
    <3>4. Away(lists[x][v], q.when) <= Away(lists[x][j], q.when)
      BY <2>2, <3>1, <3>3
    <3>5. /\ Distance(n, q) = Away(n.nearTime, q.when)
          /\ Distance(m, q) = Away(m.nearTime, q.when)
      BY DEF Distance, Away
    <3> QED BY <3>2, <3>3, <3>4, <3>5
  <2> QED BY <2>11, <2>12, <2>13
<1> HIDE DEF found, Own
<1>4. CASE listed # {}
  <2> QED BY <1>3, <1>4 DEF FindsClosestOfOne, found, Own
<1> QED BY <1>2, <1>4

\* For one signal findNearest() returns an acceptable message none of which is
\* closer, or nothing if there is none.
LEMMA FindNearestOfOne ==
  ASSUME nearestData \subseteq Nav, NEW q \in Query, NEW s, q.signals = {s}
  PROVE  FindsClosest(q)
<1> DEFINE all == Matching(nearestData, q)
           found == FindNearest(data, nearestData, q)
<1>1. \A m \in all : m.signal = s /\ NearTimes(nearestData, q, s) # {}
  BY DEF Matching, NearTimes
<1>2. CASE NearTimes(nearestData, q, s) = {}
  <2>1. all = {} /\ found = {}
    BY <1>1, <1>2 DEF FindNearest
  <2> QED BY <2>1 DEF FindsClosest
<1>3. CASE NearTimes(nearestData, q, s) # {}
  <2>1. {x \in q.signals : NearTimes(nearestData, q, x) # {}} = {s}
    BY <1>3
  <2>2. /\ \A n \in found, m \in {k \in all : k.signal = s} : Distance(n, q) <= Distance(m, q)
        /\ found = {} => {k \in all : k.signal = s} = {}
    BY <2>1, FindNearestOfMany DEF FindsClosestOfOne
  <2>3. {k \in all : k.signal = s} = all
    BY <1>1
  <2> HIDE DEF all, found
  <2>4. (\A n \in found, m \in all : Distance(n, q) <= Distance(m, q)) /\ (found = {} => all = {})
    BY <2>2, <2>3
  <2> QED BY <2>4 DEF FindsClosest, all, found
<1> QED BY <1>2, <1>3

\* However many closer messages it has to reject on either side of the search
\* time, a Nearest search for a single signal finds the closest acceptable one.
THEOREM ClosestFound == Spec => []ExactNearestClosest
<1>1. TypeOK => ExactNearestClosest
  <2> SUFFICES ASSUME TypeOK, NEW q \in Query, IsExact(q) PROVE FindsClosest(q)
    BY DEF ExactNearestClosest
  <2>1. PICK s : q.signals = {s}
    BY QueryAssumption, FS_Singleton DEF IsExact
  <2> QED BY <2>1, FindNearestOfOne DEF TypeOK
<1> QED BY <1>1, TypeCorrect, PTL

\* What "the closest message" comes to in a search with wildcards: the result is
\* the closest of its own signal, and nothing is found only if some signal that
\* the store has messages of has no acceptable one.
THEOREM ClosestOfOneFound == Spec => [](\A q \in Query : FindsClosestOfOne(q))
<1>1. TypeOK => \A q \in Query : FindsClosestOfOne(q)
  BY FindNearestOfMany DEF TypeOK
<1> QED BY <1>1, TypeCorrect, PTL

-----------------------------------------------------------------------------
(* What is added for later                                                 *)

\* findUser() depends on what its iterators can reach and on what of it is
\* acceptable, and on nothing else of the map.
LEMMA SameIterators ==
  ASSUME NEW D, D \subseteq Nav, NEW E, E \subseteq Nav, NEW q,
         \A s : Reachable(E, q, s) = Reachable(D, q, s),
         \A s : \A x \in Reachable(D, q, s) : Acceptable(E, x, q) <=> Acceptable(D, x, q)
  PROVE  FindUser(E, q) = FindUser(D, q)
<1>1. \A n : PassOf(E, q, n) = PassOf(D, q, n)
  BY DEF PassOf
<1>2. FirstGood(E, q) = FirstGood(D, q)
  <2>1. \A s : {n \in Reachable(E, q, s) : Acceptable(E, n, q)}
               = {n \in Reachable(D, q, s) : Acceptable(D, n, q)}
    OBVIOUS
  <2> QED BY <2>1 DEF FirstGood
<1>3. \A pass : FoundBy(E, q, pass) = FoundBy(D, q, pass)
  BY <1>1, <1>2 DEF FoundBy
<1>4. \A s, pass : BacksUp(E, q, s, pass) <=> BacksUp(D, q, s, pass)
  BY <1>1, <1>3 DEF BacksUp
<1>5. ASSUME NEW s PROVE UserPasses(E, q, s) = UserPasses(D, q, s)
  <2> DEFINE d == UserPasses(D, q, s)
             e == UserPasses(E, q, s)
  <2>1. /\ d \in 1..(Cardinality(D) + 1)
        /\ ~BacksUp(D, q, s, d)
        /\ \A k \in 1..(Cardinality(D) + 1) : ~BacksUp(D, q, s, k) => d <= k
    BY PassesEnd
  <2>2. /\ e \in 1..(Cardinality(E) + 1)
        /\ ~BacksUp(E, q, s, e)
        /\ \A k \in 1..(Cardinality(E) + 1) : ~BacksUp(E, q, s, k) => e <= k
    BY PassesEnd
  <2>3. Cardinality(D) \in Nat /\ Cardinality(E) \in Nat
    BY PassIsRank
  <2> HIDE DEF d, e
  <2>4. ~(d < e)
    BY <1>4, <2>1, <2>2, <2>3
  <2>5. ~(e < d)
    BY <1>4, <2>1, <2>2, <2>3
  <2>6. d = e
    BY <2>1, <2>2, <2>3, <2>4, <2>5
  <2> QED BY <2>6 DEF d, e
<1>6. {s \in q.signals : Reachable(E, q, s) # {}} = {s \in q.signals : Reachable(D, q, s) # {}}
  OBVIOUS
<1> QED BY <1>3, <1>5, <1>6 DEF FindUser

\* A message is acceptable or not for what was known when it was transmitted.
LEMMA SameAcceptable ==
  ASSUME NEW D, D \subseteq Nav, NEW n \in Nav, NEW E,
         \A m : m.userTime < n.userTime => (m \in E <=> m \in D),
         \A m \in E \cup D : m \in Nav,
         NEW x \in Nav, x.timeStamp < n.userTime
  PROVE  /\ \A health : MatchHealth(E, x, health) <=> MatchHealth(D, x, health)
         /\ \A q : Acceptable(E, x, q) <=> Acceptable(D, x, q)
<1> DEFINE known(S, s) == {h \in S : /\ h.type = "Health" /\ h.signal = s
                                     /\ h.userTime <= x.timeStamp}
<1>1. ASSUME NEW s PROVE LatestHealth(E, s, x.timeStamp) = LatestHealth(D, s, x.timeStamp)
  <2>1. n.userTime \in Nat /\ x.timeStamp \in Nat /\ \A m \in E \cup D : m.userTime \in Nat
    BY UserTimes
  <2>2. known(E, s) = known(D, s)
    <3>1. ASSUME NEW m \in E \cup D, m.userTime <= x.timeStamp PROVE m \in E <=> m \in D
      BY <2>1, <3>1
    <3> QED BY <3>1
  <2> QED BY <2>2 DEF LatestHealth
<1>2. \A health : MatchHealth(E, x, health) <=> MatchHealth(D, x, health)
  BY <1>1 DEF MatchHealth
<1> QED BY <1>2 DEF Acceptable

\* Adding a message that becomes available after the search time changes no
\* User search and no time offset found.
LEMMA AddedLater ==
  ASSUME Keyed(data), NEW n \in Nav, AddNavData(n), NEW q \in Query, q.when < n.userTime
  PROVE  /\ FindUser(data', q) = FindUser(data, q)
         /\ \A c \in Conversions :
              OffsetFor(data', offsetData', c, q) = OffsetFor(data, offsetData, c, q)
<1>1. /\ data \subseteq Nav /\ data' \subseteq Nav
      /\ data' = Stored(n) /\ offsetData' = OffsetsWith(n)
  BY DEF Keyed, AddNavData, Stored
<1>2. /\ q.when \in Nat /\ n.userTime \in Nat
      /\ \A x \in Nav : /\ x.userTime \in Nat
                       /\ x.timeStamp \in Nat
                       /\ x.timeStamp <= x.userTime
  BY QueryAssumption, UserTimes
<1>3. \A m : m.userTime < n.userTime => (m \in data' <=> m \in data)
  BY <1>1, <1>2 DEF Stored, SameKey
<1>4. ASSUME NEW x \in Nav, x.userTime <= q.when
      PROVE  /\ \A health : MatchHealth(data', x, health) <=> MatchHealth(data, x, health)
             /\ Acceptable(data', x, q) <=> Acceptable(data, x, q)
  <2>1. x.timeStamp < n.userTime
    BY <1>2, <1>4
  <2> QED BY <1>1, <1>3, <2>1, SameAcceptable
<1>5. ASSUME NEW s PROVE Reachable(data', q, s) = Reachable(data, q, s)
  <2>1. \A m \in data \cup data' : m.userTime <= q.when => (m \in data' <=> m \in data)
    BY <1>1, <1>2, <1>3
  <2> QED BY <2>1 DEF Reachable
<1>6. FindUser(data', q) = FindUser(data, q)
  <2>1. \A s : \A x \in Reachable(data, q, s) : Acceptable(data', x, q) <=> Acceptable(data, x, q)
    BY <1>1, <1>4 DEF Reachable
  <2> QED BY <1>1, <1>5, <2>1, SameIterators
<1>7. ASSUME NEW c \in Conversions
      PROVE  OffsetFor(data', offsetData', c, q) = OffsetFor(data, offsetData, c, q)
  <2> DEFINE good(D, O) == {x \in Nav : /\ <<c, x>> \in O
                                        /\ x.userTime <= q.when
                                        /\ ValidAs(x, q.valid)
                                        /\ MatchHealth(D, x, q.health)}
  <2>1. ASSUME NEW x \in Nav, x.userTime <= q.when
        PROVE  <<c, x>> \in offsetData' <=> <<c, x>> \in offsetData
    <3>1. x # n /\ x.userTime # n.userTime
      BY <1>2, <2>1
    <3> QED BY <1>1, <3>1 DEF OffsetsWith
  <2>2. good(data', offsetData') = good(data, offsetData)
    BY <1>4, <2>1
  <2> QED BY <2>2 DEF OffsetFor, GetOffset
<1> QED BY <1>6, <1>7

\* User searches and time offsets show what a receiver could know at the search
\* time, in every store and for every search.
THEOREM NothingForeseen == Spec => NoForesight
<1> DEFINE Blind == \A n \in Nav, q \in Query :
              AddNavData(n) /\ q.when < n.userTime =>
                /\ FindUser(data', q) = FindUser(data, q)
                /\ \A c \in Conversions :
                     OffsetFor(data', offsetData', c, q) = OffsetFor(data, offsetData, c, q)
<1>1. Keyed(data) => Blind
  BY AddedLater
<1>2. [][Blind]_vars => NoForesight
  BY PTL DEF NoForesight
<1> QED BY <1>1, <1>2, KeyedInvariant, PTL

=============================================================================
