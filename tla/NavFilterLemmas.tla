-------------------------- MODULE NavFilterLemmas --------------------------
(***************************************************************************)
(* What the operators of NavFilters do with a list of messages: no filter  *)
(* loses or duplicates one.  The proofs about the filters and about their  *)
(* cascade rest on these lemmas.                                           *)
(***************************************************************************)
EXTENDS NavFilters, TLAPS, FiniteSetTheorems, WellFoundedInduction

\* The window of the filter is a positive number of seconds.
LEMMA WindowType == Window \in Nat /\ Window > 0
  BY DepthAssumption DEF Window

\* Every non-empty set of natural numbers has a least element: an interval
\* 0..n is finite, and strict inclusion of finite sets is well-founded.
LEMMA LeastExists ==
  ASSUME NEW S, S \subseteq Nat, S # {}
  PROVE  \E x \in S : \A y \in S : x <= y
<1> DEFINE Below(n) == 0..(n - 1)
           Belows   == {Below(n) : n \in S}
           Finite   == FiniteSubsetsOf(Nat)
           Smaller  == StrictSubsetOrdering(Nat)
<1>1. \A n \in S : Below(n) \in Finite
  <2> SUFFICES ASSUME NEW n \in S PROVE Below(n) \in Finite
    OBVIOUS
  <2>1. Below(n) \subseteq Nat
    OBVIOUS
  <2>2. IsFiniteSet(Below(n))
    BY FS_Interval
  <2> QED BY <2>1, <2>2 DEF FiniteSubsetsOf
<1>2. Belows \subseteq Finite /\ Belows # {}
  BY <1>1
<1>3. PICK b \in Belows : \A c \in Belows : <<c, b>> \notin Smaller
  <2>1. IsWellFoundedOn(Smaller, Finite)
    BY FS_StrictSubsetOrderingWellFounded
  <2> HIDE DEF Belows, Smaller, Finite
  <2> QED BY <1>2, <2>1, WFMin
<1>4. PICK x \in S : b = Below(x)
  OBVIOUS
<1>5. ASSUME NEW y \in S PROVE x <= y
  <2> SUFFICES ASSUME y < x PROVE FALSE
    OBVIOUS
  <2>1. Below(y) \subseteq Below(x) /\ y \in Below(x) /\ y \notin Below(y)
    OBVIOUS
  <2>2. Below(x) \in SUBSET Nat /\ Below(y) \in SUBSET Nat
    OBVIOUS
  <2>3. <<Below(y), Below(x)>> \in Smaller
    BY <2>1, <2>2 DEF StrictSubsetOrdering
  <2> QED BY <1>3, <1>4, <2>3
<1> QED BY <1>5

\* Time stamps are numbers up to CommonTime::END_OF_TIME.
LEMMA TimeStampType ==
  /\ MaxTime \in Nat
  /\ \A m \in Msg : timeStamp[m] \in Nat /\ timeStamp[m] <= MaxTime
  BY MsgAssumption

\* A non-empty set of messages has an oldest one.
LEMMA OldestExists ==
  ASSUME NEW S, S \subseteq Msg, S # {}
  PROVE  \E n \in S : \A m \in S : timeStamp[n] <= timeStamp[m]
<1> DEFINE Times == {timeStamp[m] : m \in S}
<1>1. Times \subseteq Nat /\ Times # {}
  BY TimeStampType
<1>2. PICK t \in Times : \A u \in Times : t <= u
  BY <1>1, LeastExists
<1> QED BY <1>2

\* A non-empty set of messages has a newest one.
LEMMA NewestExists ==
  ASSUME NEW S, S \subseteq Msg, S # {}
  PROVE  \E n \in S : \A m \in S : timeStamp[m] <= timeStamp[n]
<1> DEFINE Ages == {MaxTime - timeStamp[m] : m \in S}
<1>1. Ages \subseteq Nat /\ Ages # {}
  BY TimeStampType
<1>2. PICK a \in Ages : \A b \in Ages : a <= b
  BY <1>1, LeastExists
<1>3. PICK n \in S : a = MaxTime - timeStamp[n]
  OBVIOUS
<1>4. ASSUME NEW m \in S PROVE timeStamp[m] <= timeStamp[n]
  <2>1. MaxTime - timeStamp[n] <= MaxTime - timeStamp[m]
    BY <1>2, <1>3
  <2> QED BY <2>1, TimeStampType
<1> QED BY <1>4

-----------------------------------------------------------------------------

\* An order filter releases, rejects or holds each message it is given.
LEMMA OrderPartition ==
  ASSUME NEW held, NEW list, held \cap list = {}
  PROVE  LET kept     == OrderInsert(held, list)
             released == OrderReleased(kept)
             refused  == OrderRejected(held, list)
         IN  /\ (kept \ released) \cup released \cup refused = held \cup list
             /\ refused \cap kept = {}
             /\ released \subseteq kept
  BY DEF OrderInsert, OrderReleased, OrderRejected

\* A cross source filter accepts, rejects or groups each message it is given,
\* and what it groups is of one epoch, provided that what it held was.
LEMMA CrossPartition ==
  ASSUME NEW held, NEW list,
         held \subseteq Msg, list \subseteq Msg, list # {}, held \cap list = {},
         \A m, n \in held : timeStamp[m] = timeStamp[n]
  PROVE  /\ Grouped(held, list) \cup CrossAccepted(held, list)
              \cup CrossRejected(held, list) = held \cup list
         /\ Grouped(held, list) \cap CrossAccepted(held, list) = {}
         /\ Grouped(held, list) \cap CrossRejected(held, list) = {}
         /\ CrossAccepted(held, list) \cap CrossRejected(held, list) = {}
         /\ \A m, n \in Grouped(held, list) : timeStamp[m] = timeStamp[n]
<1> DEFINE C(m) == Collection(held, list, m)
<1>1. PICK o \in Earliest(list) : TRUE
  BY OldestExists DEF Earliest
<1>2. PICK l \in Latest(list) : TRUE
  BY NewestExists DEF Latest
<1>3. \A m \in held \cup list : timeStamp[m] \in Nat
  BY TimeStampType
<1>4. \A m, n \in Latest(list) : timeStamp[m] = timeStamp[n]
  BY <1>3 DEF Latest
<1>5. \A m, n \in Earliest(list) : timeStamp[m] = timeStamp[n]
  BY <1>3 DEF Earliest
<1>6. \A m \in list : m \in C(m) /\ C(m) \subseteq held \cup list
  BY DEF Collection, Epoch
<1>7. \A m, n \in list : timeStamp[m] = timeStamp[n] => C(m) = C(n)
  BY <1>3 DEF Collection, Epoch, Earliest
<1>8. \A m, n \in list : timeStamp[m] # timeStamp[n] => C(m) \cap C(n) = {}
  BY <1>3, <1>5 DEF Collection, Epoch
<1>9. \A m \in list : \A n \in C(m) : timeStamp[n] = timeStamp[m]
  BY <1>1 DEF Collection, Epoch, Continues
<1>10. Continues(held, list) => held \subseteq C(o)
  BY DEF Collection
<1>11. ~Continues(held, list) => \A m \in list : C(m) \cap held = {}
  BY DEF Collection, Epoch
<1>12. Grouped(held, list) = C(l)
  BY <1>2, <1>4, <1>7 DEF Grouped, Latest
<1>13. UNION Examined(held, list) = (held \cup list) \ C(l)
  <2>1. ASSUME NEW m \in UNION Examined(held, list)
        PROVE  m \in (held \cup list) \ C(l)
    <3>1. CASE m \in held /\ ~Continues(held, list)
      BY <1>2, <1>11, <3>1 DEF Latest
    <3>2. ASSUME NEW n \in list \ Latest(list), m \in C(n)
          PROVE  m \in (held \cup list) \ C(l)
      <4>1. timeStamp[n] # timeStamp[l]
        BY <1>2, <1>3 DEF Latest
      <4> QED BY <1>2, <1>6, <1>8, <3>2, <4>1 DEF Latest
    <3> QED BY <2>1, <3>1, <3>2 DEF Examined
  <2>2. ASSUME NEW m \in (held \cup list) \ C(l)
        PROVE  m \in UNION Examined(held, list)
    <3>1. CASE m \in list
      <4>1. m \notin Latest(list)
        BY <1>2, <1>4, <1>6, <1>7 DEF Latest
      <4> QED BY <1>6, <3>1, <4>1 DEF Examined
    <3>2. CASE m \in held /\ ~Continues(held, list)
      BY <3>2 DEF Examined
    <3>3. CASE m \in held /\ Continues(held, list)
      <4>1. m \in C(o) /\ o \in list
        BY <1>1, <1>10, <3>3 DEF Earliest
      <4>2. o \notin Latest(list)
        BY <1>2, <1>4, <1>7, <4>1 DEF Latest
      <4> QED BY <4>1, <4>2 DEF Examined
    <3> QED BY <3>1, <3>2, <3>3
  <2> QED BY <2>1, <2>2
<1>14. \A c, d \in Examined(held, list) : c # d => c \cap d = {}
  BY <1>7, <1>8, <1>11 DEF Examined
<1>15. \A c \in Examined(held, list) : Winners(c) \subseteq c
  BY DEF Winners
<1>16. /\ CrossAccepted(held, list) \cup CrossRejected(held, list) = UNION Examined(held, list)
       /\ CrossAccepted(held, list) \cap CrossRejected(held, list) = {}
  <2> HIDE DEF C
  <2> QED BY <1>14, <1>15 DEF CrossAccepted, CrossRejected
<1>17. C(l) \subseteq held \cup list /\ \A m, n \in C(l) : timeStamp[m] = timeStamp[n]
  BY <1>2, <1>6, <1>9 DEF Latest
<1> QED BY <1>12, <1>13, <1>16, <1>17

-----------------------------------------------------------------------------
(* The vote                                                                *)

\* The messages of one collection are of one epoch.
LEMMA CollectionIsEpoch ==
  ASSUME NEW held, NEW list, list \subseteq Msg, list # {},
         \A m, n \in held : timeStamp[m] = timeStamp[n]
  PROVE  /\ \A k \in list : \A j \in Collection(held, list, k) : timeStamp[j] = timeStamp[k]
         /\ \A c \in Examined(held, list) : \A j, k \in c : timeStamp[j] = timeStamp[k]
<1>1. PICK o \in Earliest(list) : TRUE
  BY OldestExists DEF Earliest
<1>2. \A k \in list : \A j \in Collection(held, list, k) : timeStamp[j] = timeStamp[k]
  BY <1>1 DEF Collection, Epoch, Continues
<1> QED BY <1>2 DEF Examined

\* If the list is not older than what is held, two collections are of different
\* epochs.
LEMMA CollectionsDiffer ==
  ASSUME NEW held, NEW list, held \subseteq Msg, list \subseteq Msg, list # {},
         \A m, n \in held : timeStamp[m] = timeStamp[n],
         \A m \in list, n \in held : timeStamp[n] <= timeStamp[m],
         NEW c \in Examined(held, list), NEW d \in Examined(held, list),
         NEW m \in c, NEW n \in d, timeStamp[m] = timeStamp[n]
  PROVE  c = d
<1>2. \A k \in held \cup list : timeStamp[k] \in Nat
  BY TimeStampType
<1>3. \A k \in list : \A j \in Collection(held, list, k) : timeStamp[j] = timeStamp[k]
  BY CollectionIsEpoch
<1>4. \A j, k \in list : timeStamp[j] = timeStamp[k]
                           => Collection(held, list, j) = Collection(held, list, k)
  BY <1>2 DEF Collection, Epoch, Earliest
<1>5. ~Continues(held, list) => \A j \in held, k \in list : timeStamp[j] # timeStamp[k]
  BY <1>2 DEF Continues, Earliest
<1>6. CASE ~Continues(held, list) /\ c = held /\ d = held
  BY <1>6
<1>7. CASE /\ \E k \in list : c = Collection(held, list, k)
           /\ \E k \in list : d = Collection(held, list, k)
  BY <1>3, <1>4, <1>7
<1>8. CASE ~Continues(held, list) /\ c = held /\ \E k \in list : d = Collection(held, list, k)
  BY <1>3, <1>5, <1>8
<1>9. CASE ~Continues(held, list) /\ d = held /\ \E k \in list : c = Collection(held, list, k)
  BY <1>3, <1>5, <1>9
<1> QED BY <1>6, <1>7, <1>8, <1>9 DEF Examined

\* The winners of one collection agree on the content of each PRN, and no
\* content has more voters than theirs.
LEMMA WinnersAgree ==
  ASSUME NEW c, c \subseteq Msg, NEW m \in Winners(c), NEW n \in c, prn[m] = prn[n]
  PROVE  /\ n \in Winners(c) => bits[m] = bits[n]
         /\ Cardinality(Voters(c, n)) <= Cardinality(Voters(c, m))
<1>1. \A k \in c : Cardinality(Voters(c, k)) \in Nat
  <2> SUFFICES ASSUME NEW k \in c PROVE Cardinality(Voters(c, k)) \in Nat
    OBVIOUS
  <2>1. IsFiniteSet(Voters(c, k))
    BY FiniteAssumption, FS_Subset DEF Voters
  <2> QED BY <2>1, FS_CardinalityType
<1>2. m \in c /\ bits[m] \in Nat /\ bits[n] \in Nat
  BY AttributeAssumption DEF Winners
<1>3. \/ Cardinality(Voters(c, n)) < Cardinality(Voters(c, m))
      \/ /\ Cardinality(Voters(c, n)) = Cardinality(Voters(c, m))
         /\ bits[m] <= bits[n]
  BY DEF Winners, Ballot
<1>4. n \in Winners(c) =>
        \/ Cardinality(Voters(c, m)) < Cardinality(Voters(c, n))
        \/ /\ Cardinality(Voters(c, m)) = Cardinality(Voters(c, n))
           /\ bits[n] <= bits[m]
  BY <1>2 DEF Winners, Ballot
<1> QED BY <1>1, <1>2, <1>3, <1>4

=============================================================================
