--------------------- MODULE NavCrossSourceFilterProofs ---------------------
(***************************************************************************)
(* The cross source filter keeps every message, holds one epoch, votes on  *)
(* an epoch as a whole when messages come in time order, and accepts one   *)
(* content that no other outvotes, for every set of messages and every     *)
(* choice of the vote's thresholds.                                        *)
(***************************************************************************)
EXTENDS NavCrossSourceFilter, NavFilterLemmas

IInv == TypeOK /\ Conservation /\ OneEpochHeld

\* With nothing handed over every part of the invariant holds.
LEMMA InitInvariant == Init => IInv
  BY DEF Init, IInv, TypeOK, Conservation, OneEpochHeld

\* One validate() call preserves the invariant.
LEMMA ValidateInvariant ==
  ASSUME IInv, NEW batch \in SUBSET Msg, Validate(batch)
  PROVE  IInv'
<1>1. /\ groupedNav \subseteq Msg
      /\ batch # {}
      /\ groupedNav \cap batch = {}
      /\ \A m, n \in groupedNav : timeStamp[m] = timeStamp[n]
  BY DEF IInv, TypeOK, Conservation, OneEpochHeld, Validate
<1>2. /\ Grouped(groupedNav, batch) \cup CrossAccepted(groupedNav, batch)
           \cup CrossRejected(groupedNav, batch) = groupedNav \cup batch
      /\ Grouped(groupedNav, batch) \cap CrossAccepted(groupedNav, batch) = {}
      /\ Grouped(groupedNav, batch) \cap CrossRejected(groupedNav, batch) = {}
      /\ CrossAccepted(groupedNav, batch) \cap CrossRejected(groupedNav, batch) = {}
      /\ \A m, n \in Grouped(groupedNav, batch) : timeStamp[m] = timeStamp[n]
  BY <1>1, CrossPartition
<1>3. TypeOK'
  BY <1>1, <1>2 DEF IInv, TypeOK, Validate
<1>4. Conservation'
  BY <1>1, <1>2 DEF IInv, Conservation, Validate
<1>5. OneEpochHeld'
  BY <1>2 DEF OneEpochHeld, Validate
<1> QED BY <1>3, <1>4, <1>5 DEF IInv

\* Examining the last collection preserves the invariant.
LEMMA FinalizeInvariant == IInv /\ Finalize => IInv'
  BY DEF IInv, Finalize, TypeOK, Conservation, OneEpochHeld, Winners

LEMMA StepInvariant == IInv /\ [Next]_vars => IInv'
<1> SUFFICES ASSUME IInv, [Next]_vars PROVE IInv'
  OBVIOUS
<1>1. ASSUME NEW batch \in SUBSET Msg, Validate(batch) PROVE IInv'
  BY <1>1, ValidateInvariant
<1>2. CASE Finalize
  BY <1>2, FinalizeInvariant
<1>3. CASE UNCHANGED vars
  BY <1>3 DEF vars, IInv, TypeOK, Conservation, OneEpochHeld
<1> QED BY <1>1, <1>2, <1>3 DEF Next

LEMMA Invariance == Spec => []IInv
  BY InitInvariant, StepInvariant, PTL DEF Spec

\* The filter only groups, accepts and rejects messages it was given room for.
THEOREM TypeCorrect == Spec => []TypeOK
<1>1. IInv => TypeOK
  BY DEF IInv
<1> QED BY <1>1, Invariance, PTL

\* The cross source filters neither lose nor duplicate a message.
THEOREM NothingLost == Spec => []Conservation
<1>1. IInv => Conservation
  BY DEF IInv
<1> QED BY <1>1, Invariance, PTL

\* groupedNav holds messages of one epoch, the processing depth reported.
THEOREM DepthIsOne == Spec => []OneEpochHeld
<1>1. IInv => OneEpochHeld
  BY DEF IInv
<1> QED BY <1>1, Invariance, PTL

-----------------------------------------------------------------------------
(* The vote                                                                *)

\* The collections whose votes settle what a step settles: each is of one
\* epoch, and no two are of the same.
SettledBy(collections) ==
  /\ SettledNow = UNION collections
  /\ accepted' \ accepted = UNION {Winners(c) : c \in collections}
  /\ \A c \in collections : c \subseteq Msg
  /\ \A c \in collections : \A m, n \in c : timeStamp[m] = timeStamp[n]
  /\ \A c, d \in collections : \A m \in c, n \in d : timeStamp[m] = timeStamp[n] => c = d

\* In time order, a call settles the collections it examines.
LEMMA SettledCollections ==
  ASSUME IInv, Next, InTimeOrder
  PROVE  \E collections : SettledBy(collections)
<1>1. ASSUME Finalize PROVE SettledBy({groupedNav})
  <2>1. /\ SettledNow = UNION {groupedNav}
        /\ accepted' \ accepted = UNION {Winners(c) : c \in {groupedNav}}
    BY <1>1 DEF Finalize, SettledNow, Winners, IInv, Conservation
  <2> QED BY <2>1 DEF SettledBy, IInv, TypeOK, OneEpochHeld
<1>2. ASSUME NEW batch \in SUBSET Msg, Validate(batch)
      PROVE  SettledBy(Examined(groupedNav, batch))
  <2>1. /\ groupedNav \subseteq Msg
        /\ batch # {}
        /\ groupedNav \cap batch = {}
        /\ \A m, n \in groupedNav : timeStamp[m] = timeStamp[n]
        /\ \A m \in batch, n \in groupedNav : timeStamp[n] <= timeStamp[m]
    BY <1>2 DEF IInv, TypeOK, Conservation, OneEpochHeld, Validate, InTimeOrder
  <2>2. /\ CrossAccepted(groupedNav, batch) \subseteq groupedNav \cup batch
        /\ CrossRejected(groupedNav, batch) \subseteq groupedNav \cup batch
    BY <2>1, CrossPartition
  <2>3. (groupedNav \cup batch) \cap (accepted \cup rejected) = {}
    BY <1>2 DEF IInv, Conservation, Validate
  <2>4. /\ accepted' \ accepted = CrossAccepted(groupedNav, batch)
        /\ SettledNow = CrossAccepted(groupedNav, batch) \cup CrossRejected(groupedNav, batch)
    BY <1>2, <2>2, <2>3 DEF Validate, SettledNow
  <2>5. CrossAccepted(groupedNav, batch) \cup CrossRejected(groupedNav, batch)
          = UNION Examined(groupedNav, batch)
    BY DEF CrossAccepted, CrossRejected, Winners
  <2>6. \A c \in Examined(groupedNav, batch) : c \subseteq Msg
    BY <2>1 DEF Examined, Collection, Epoch
  <2> QED BY <2>1, <2>4, <2>5, <2>6, CollectionsDiffer, CollectionIsEpoch DEF CrossAccepted, SettledBy
<1> QED BY <1>1, <1>2 DEF Next

\* However the votes are split, a call accepts one content for a PRN and epoch.
THEOREM OneWinner == Spec => AcceptedAgree
<1> DEFINE Agree == InTimeOrder =>
             \A m, n \in accepted' \ accepted : SameEpoch(m, n) => bits[m] = bits[n]
<1>1. IInv /\ [Next]_vars => [Agree]_vars
  <2> SUFFICES ASSUME IInv, Next, InTimeOrder,
                      NEW m \in accepted' \ accepted, NEW n \in accepted' \ accepted,
                      SameEpoch(m, n)
               PROVE  bits[m] = bits[n]
    BY DEF vars
  <2>1. PICK collections : SettledBy(collections)
    BY SettledCollections
  <2>2. PICK c \in collections, d \in collections : m \in Winners(c) /\ n \in Winners(d)
    BY <2>1 DEF SettledBy
  <2>3. m \in c /\ n \in d
    BY <2>2 DEF Winners
  <2>4. c = d
    BY <2>1, <2>3 DEF SameEpoch, SettledBy
  <2> QED BY <2>1, <2>2, <2>3, <2>4, WinnersAgree DEF SameEpoch, SettledBy
<1>2. [][Agree]_vars => AcceptedAgree
  BY PTL DEF AcceptedAgree
<1> QED BY <1>1, <1>2, Invariance, PTL DEF Spec

\* No rejected content had more copies than the accepted one.
THEOREM WinnerNotOutvoted == Spec => AcceptedNotOutvoted
<1> DEFINE Copies(n) == {k \in SettledNow : SameEpoch(k, n) /\ bits[k] = bits[n]}
           NotOutvoted == InTimeOrder =>
             \A m \in accepted' \ accepted, n \in SettledNow :
                SameEpoch(m, n) => Cardinality(Copies(n)) <= Cardinality(Copies(m))
<1>1. IInv /\ [Next]_vars => [NotOutvoted]_vars
  <2> SUFFICES ASSUME IInv, Next, InTimeOrder,
                      NEW m \in accepted' \ accepted, NEW n \in SettledNow, SameEpoch(m, n)
               PROVE  Cardinality(Copies(n)) <= Cardinality(Copies(m))
    BY DEF vars
  <2>1. PICK collections : SettledBy(collections)
    BY SettledCollections
  <2>2. PICK c \in collections : m \in Winners(c)
    BY <2>1 DEF SettledBy
  <2>3. m \in c /\ n \in c
    BY <2>1, <2>2 DEF SameEpoch, Winners, SettledBy
  <2>4. ASSUME NEW k \in c PROVE Copies(k) = Voters(c, k)
    BY <2>1, <2>2, <2>3 DEF Voters, SameEpoch, SettledBy
  <2>5. Cardinality(Voters(c, n)) <= Cardinality(Voters(c, m))
    BY <2>1, <2>2, <2>3, WinnersAgree DEF SameEpoch, SettledBy
  <2> QED BY <2>3, <2>4, <2>5
<1>2. [][NotOutvoted]_vars => AcceptedNotOutvoted
  BY PTL DEF AcceptedNotOutvoted
<1> QED BY <1>1, <1>2, Invariance, PTL DEF Spec

\* What a call leaves grouped is of a later epoch than all it settles.
THEOREM WholeEpochs == Spec => VoteNotSplit
<1> DEFINE Later == InTimeOrder =>
             \A m \in SettledNow, n \in groupedNav' : timeStamp[m] < timeStamp[n]
<1>1. IInv /\ [Next]_vars => [Later]_vars
  <2> SUFFICES ASSUME IInv, Next, InTimeOrder,
                      NEW m \in SettledNow, NEW n \in groupedNav'
               PROVE  timeStamp[m] < timeStamp[n]
    BY DEF vars
  <2>1. CASE Finalize
    BY <2>1 DEF Finalize
  <2>2. ASSUME NEW batch \in SUBSET Msg, Validate(batch)
        PROVE  timeStamp[m] < timeStamp[n]
    <3>1. /\ groupedNav \subseteq Msg
          /\ batch # {}
          /\ \A j, k \in groupedNav : timeStamp[j] = timeStamp[k]
          /\ \A j \in batch, k \in groupedNav : timeStamp[k] <= timeStamp[j]
      BY <2>2 DEF IInv, TypeOK, Conservation, OneEpochHeld, Validate, InTimeOrder
    <3>2. \A k \in groupedNav \cup batch : timeStamp[k] \in Nat
      BY <3>1, TimeStampType
    <3>3. PICK l \in Latest(batch) : timeStamp[n] = timeStamp[l]
      <4>1. PICK l \in Latest(batch) : n \in Collection(groupedNav, batch, l)
        BY <2>2 DEF Validate, Grouped
      <4>2. l \in batch
        BY DEF Latest
      <4>3. \A k \in batch : \A j \in Collection(groupedNav, batch, k) :
               timeStamp[j] = timeStamp[k]
        BY <3>1, CollectionIsEpoch
      <4> QED BY <4>1, <4>2, <4>3
    <3>4. PICK c \in Examined(groupedNav, batch) : m \in c
      BY <2>2 DEF Validate, SettledNow, CrossAccepted, CrossRejected, Winners
    <3>5. CASE c = groupedNav /\ ~Continues(groupedNav, batch)
      BY <3>1, <3>2, <3>3, <3>4, <3>5 DEF Continues, Earliest, Latest
    <3>6. ASSUME NEW k \in batch \ Latest(batch), c = Collection(groupedNav, batch, k)
          PROVE  timeStamp[m] < timeStamp[n]
      <4>1. timeStamp[m] = timeStamp[k]
        BY <3>1, <3>4, <3>6, CollectionIsEpoch
      <4> QED BY <3>2, <3>3, <3>6, <4>1 DEF Latest
    <3> QED BY <3>4, <3>5, <3>6 DEF Examined
  <2> QED BY <2>1, <2>2 DEF Next
<1>2. [][Later]_vars => VoteNotSplit
  BY PTL DEF VoteNotSplit
<1> QED BY <1>1, <1>2, Invariance, PTL DEF Spec

=============================================================================
