------------------------- MODULE LNavEphMakerProofs -------------------------
(***************************************************************************)
(* LNavEphMaker misses no ephemeris, offers none twice, and offers none    *)
(* that was not broadcast, for every set of messages and every way to      *)
(* split the channels' subframes into lists.                               *)
(***************************************************************************)
EXTENDS LNavEphMaker, NavFilterLemmas

\* ephemerides holds the latest subframe received for each of its places.
LatestStored ==
  ephemerides = {m \in EphSubframes(received) :
                   \A n \in EphSubframes(received) :
                      SameSlot(m, n) => timeStamp[n] <= timeStamp[m]}

IInv == TypeOK /\ LatestStored

\* A list brings only messages not seen before, later than those of their
\* channel that were.
LEMMA BatchIsNew ==
  ASSUME NEW batch \in SUBSET Upcoming, Validate(batch)
  PROVE  /\ submitted' \ submitted = batch
         /\ batch \subseteq Msg
         /\ \A m \in batch, n \in submitted :
               channel[n] = channel[m] => timeStamp[n] < timeStamp[m]
  BY DEF Validate, Upcoming

\* A channel is offered for a subframe of the list, the last of which is stored.
OffersNew ==
  \A k \in completeEphs' :
    \E m \in submitted' \ submitted : channel[m] = k /\ m \in ephemerides'

LEMMA ValidateOffersNew ==
  ASSUME NEW batch \in SUBSET Upcoming, Validate(batch)
  PROVE  OffersNew
<1> SUFFICES ASSUME NEW k \in completeEphs'
             PROVE  \E m \in submitted' \ submitted : channel[m] = k /\ m \in ephemerides'
  BY DEF OffersNew
<1>1. submitted' \ submitted = batch /\ batch \subseteq Msg
  BY BatchIsNew
<1>2. PICK m \in EphSubframes(batch) : channel[m] = k
  BY DEF Validate, Completed
<1> DEFINE slot == {n \in EphSubframes(batch) : SameSlot(m, n)}
<1>3. slot \subseteq Msg /\ m \in slot
  BY <1>1, <1>2 DEF EphSubframes, SameSlot
<1>4. PICK l \in slot : \A n \in slot : timeStamp[n] <= timeStamp[l]
  <2> HIDE DEF slot
  <2> QED BY <1>3, NewestExists
<1>5. l \in EphStored(ephemerides, batch)
  BY <1>4 DEF EphStored, SameSlot
<1>6. l \in batch /\ channel[l] = k
  BY <1>2, <1>4 DEF EphSubframes, SameSlot
<1> QED BY <1>1, <1>5, <1>6 DEF Validate

LEMMA InitInvariant == Init => IInv
  BY DEF Init, IInv, TypeOK, LatestStored, EphSubframes

\* Storing a list keeps the latest subframe in each place.
LEMMA ValidateInvariant ==
  ASSUME IInv, NEW batch \in SUBSET Upcoming, Validate(batch)
  PROVE  IInv'
<1> DEFINE new == EphSubframes(batch)
           old == EphSubframes(received)
<1>1. /\ batch \subseteq Msg
      /\ \A m \in batch, n \in submitted :
            channel[n] = channel[m] => timeStamp[n] < timeStamp[m]
  BY BatchIsNew
<1>2. /\ ephemerides' = EphStored(ephemerides, batch)
      /\ received' = received \cup batch
      /\ submitted' = submitted \cup batch
  BY DEF Validate
<1>3. /\ ephemerides \subseteq received
      /\ submitted \subseteq Msg
      /\ received \subseteq submitted
  BY DEF IInv, TypeOK
<1>4. new \subseteq batch /\ old \subseteq submitted
  BY <1>3 DEF EphSubframes
<1>6. EphSubframes(received') = old \cup new
  BY <1>2 DEF EphSubframes
<1>7. \A m \in new, n \in old : SameSlot(m, n) \/ SameSlot(n, m)
        => timeStamp[n] < timeStamp[m]
  BY <1>1, <1>4 DEF SameSlot
<1>8. \A m \in old \cup new : timeStamp[m] \in Nat
  BY <1>1, <1>3, <1>4, TimeStampType
<1>9. ephemerides = {m \in old : \A n \in old : SameSlot(m, n) => timeStamp[n] <= timeStamp[m]}
  BY DEF IInv, LatestStored
<1>10. ephemerides' = {m \in new : \A n \in new : SameSlot(m, n) => timeStamp[n] <= timeStamp[m]}
                      \cup {m \in ephemerides : \A n \in new : ~SameSlot(m, n)}
  BY <1>2 DEF EphStored
<1>11. LatestStored'
  <2> HIDE DEF new, old
  <2> DEFINE latest == {m \in old \cup new : \A n \in old \cup new :
                          SameSlot(m, n) => timeStamp[n] <= timeStamp[m]}
  <2>1. ASSUME NEW m \in ephemerides' PROVE m \in latest
    <3>1. CASE m \in new
      BY <1>7, <1>8, <1>9, <1>10, <2>1, <3>1
    <3>2. CASE m \notin new
      BY <1>9, <1>10, <2>1, <3>2
    <3> QED BY <3>1, <3>2
  <2>2. ASSUME NEW m \in latest PROVE m \in ephemerides'
    <3>1. CASE m \in new
      BY <1>10, <3>1
    <3>2. CASE m \in old
      <4>1. \A n \in new : ~SameSlot(m, n)
        BY <1>7, <1>8, <3>2
      <4> QED BY <1>9, <1>10, <3>2, <4>1
    <3> QED BY <3>1, <3>2
  <2>3. ephemerides' = latest
    BY <2>1, <2>2
  <2> QED BY <1>6, <2>3 DEF LatestStored
<1>12. TypeOK'
  <2>1. completeEphs' \subseteq {channel[m] : m \in ephemerides'}
    BY ValidateOffersNew DEF OffersNew
  <2>2. submitted' \subseteq Msg /\ received' \subseteq submitted'
    BY <1>1, <1>2, <1>3
  <2>3. ephemerides' \subseteq EphSubframes(received')
    BY <1>11 DEF LatestStored
  <2>4. \A m, n \in ephemerides' : SameSlot(m, n) => m = n
    <3> SUFFICES ASSUME NEW m \in ephemerides', NEW n \in ephemerides', SameSlot(m, n)
                 PROVE  m = n
      OBVIOUS
    <3>1. timeStamp[n] <= timeStamp[m] /\ timeStamp[m] <= timeStamp[n]
      BY <1>11 DEF LatestStored, SameSlot
    <3>2. m \in Msg /\ n \in Msg
      BY <2>2, <2>3 DEF EphSubframes
    <3>3. timeStamp[m] = timeStamp[n]
      BY <3>1, <3>2, TimeStampType
    <3> QED BY <3>2, <3>3, ChannelAssumption DEF SameSlot
  <2> QED BY <2>1, <2>2, <2>3, <2>4 DEF TypeOK, EphSubframes
<1> QED BY <1>11, <1>12 DEF IInv

LEMMA StepInvariant == IInv /\ [Next]_vars => IInv'
<1> SUFFICES ASSUME IInv, [Next]_vars PROVE IInv'
  OBVIOUS
<1>1. ASSUME NEW batch \in SUBSET Upcoming, Validate(batch) PROVE IInv'
  BY <1>1, ValidateInvariant
<1>2. CASE Finalize
  BY <1>2 DEF Finalize, IInv, TypeOK, LatestStored, EphSubframes
<1>3. CASE UNCHANGED vars
  BY <1>3 DEF vars, IInv, TypeOK, LatestStored, EphSubframes
<1> QED BY <1>1, <1>2, <1>3 DEF Next

LEMMA Invariance == Spec => []IInv
  BY InitInvariant, StepInvariant, PTL DEF Spec

\* LNavEphMaker keeps one subframe per place, and completeEphs points to groups
\* that exist.
THEOREM TypeCorrect == Spec => []TypeOK
<1>1. IInv => TypeOK
  BY DEF IInv
<1> QED BY <1>1, Invariance, PTL

-----------------------------------------------------------------------------
(* What a step offers, as formulas about the step.                         *)

OffersComplete ==
  \A k \in completeEphs' :
    \E a, b, c \in received' :
      /\ channel[a] = k /\ Frame(a, b, c)
      /\ \E m \in {a, b, c} \cap (submitted' \ submitted) :
           \A x \in {a, b, c} :
             /\ timeStamp[x] <= timeStamp[m]
             /\ \A n \in received' \ {x} : SameSlot(x, n) =>
                  timeStamp[n] < timeStamp[x] \/ timeStamp[m] < timeStamp[n]

OffersAll ==
  \A a, b, c \in received' :
    /\ Frame(a, b, c)
    /\ timeStamp[a] < timeStamp[b] /\ timeStamp[b] < timeStamp[c]
    /\ {a, b, c} \cap (submitted' \ submitted) # {}
    /\ \A n \in EphSubframes(received') \ {a, b, c} :
          channel[n] = channel[a] => timeStamp[n] < timeStamp[a]
    => channel[a] \in completeEphs'

\* Right after a subframe of the list was stored, the group of its channel held
\* it and the latest of the other two kinds.
LEMMA ValidateOffersComplete ==
  ASSUME IInv, NEW batch \in SUBSET Upcoming, Validate(batch)
  PROVE  OffersComplete
<1> SUFFICES ASSUME NEW k \in completeEphs'
             PROVE  \E a, b, c \in received' :
                      /\ channel[a] = k /\ Frame(a, b, c)
                      /\ \E m \in {a, b, c} \cap (submitted' \ submitted) :
                           \A x \in {a, b, c} :
                             /\ timeStamp[x] <= timeStamp[m]
                             /\ \A n \in received' \ {x} : SameSlot(x, n) =>
                                  timeStamp[n] < timeStamp[x] \/ timeStamp[m] < timeStamp[n]
  BY DEF OffersComplete
<1>1. /\ submitted' \ submitted = batch
      /\ batch \subseteq Msg
      /\ \A m \in batch, n \in submitted :
            channel[n] = channel[m] => timeStamp[n] < timeStamp[m]
  BY BatchIsNew
<1>2. /\ received' = received \cup batch
      /\ received \subseteq submitted
      /\ submitted \subseteq Msg
      /\ ephemerides \subseteq received
      /\ completeEphs' = Completed(ephemerides, batch)
  BY DEF Validate, IInv, TypeOK
<1>3. PICK m \in EphSubframes(batch) :
        /\ channel[m] = k
        /\ ValidGroup(EphStored(ephemerides, {n \in batch : timeStamp[n] <= timeStamp[m]}), k)
  BY <1>2 DEF Completed
<1> DEFINE part == {n \in batch : timeStamp[n] <= timeStamp[m]}
           group == EphStored(ephemerides, part)
<1>4. PICK a, b, c \in group : channel[a] = k /\ Frame(a, b, c)
  BY <1>3 DEF ValidGroup
<1>5. m \in batch /\ m \in Msg /\ timeStamp[m] \in Nat /\ m \in EphSubframes(part)
  BY <1>1, <1>3, TimeStampType DEF EphSubframes
<1>6. \A x \in {a, b, c} : x \in group /\ channel[x] = k
  BY <1>4 DEF Frame
<1>7. ASSUME NEW x \in group, channel[x] = k
      PROVE  /\ x \in received' /\ timeStamp[x] <= timeStamp[m]
             /\ \A n \in received' \ {x} : SameSlot(x, n) =>
                  timeStamp[n] < timeStamp[x] \/ timeStamp[m] < timeStamp[n]
  <2>1. \A n \in received' : timeStamp[n] \in Nat /\ n \in Msg
    BY <1>1, <1>2, TimeStampType
  <2>2. CASE x \in EphSubframes(part) /\ \A n \in EphSubframes(part) :
                                          SameSlot(x, n) => timeStamp[n] <= timeStamp[x]
    <3>1. x \in batch /\ x \in received' /\ timeStamp[x] <= timeStamp[m]
      BY <1>2, <2>2 DEF EphSubframes
    <3>2. ASSUME NEW n \in received' \ {x}, SameSlot(x, n), ~(timeStamp[m] < timeStamp[n])
          PROVE  timeStamp[n] < timeStamp[x]
      <4>1. CASE n \in batch
        <5>1. n \in EphSubframes(part)
          BY <1>5, <2>1, <2>2, <3>2, <4>1 DEF EphSubframes, SameSlot
        <5>2. timeStamp[n] # timeStamp[x]
          BY <2>1, <3>1, <3>2, ChannelAssumption DEF SameSlot
        <5> QED BY <2>1, <2>2, <3>1, <3>2, <5>1, <5>2
      <4>2. CASE n \in received
        BY <1>1, <1>2, <3>1, <3>2, <4>2 DEF SameSlot
      <4> QED BY <1>2, <3>2, <4>1, <4>2
    <3> QED BY <3>1, <3>2
  <2>3. CASE x \in ephemerides /\ \A n \in EphSubframes(part) : ~SameSlot(x, n)
    <3>1. x \in received' /\ timeStamp[x] < timeStamp[m]
      BY <1>1, <1>2, <1>3, <1>5, <1>7, <2>3
    <3>2. x \in EphSubframes(received) /\ \A n \in EphSubframes(received) :
                                          SameSlot(x, n) => timeStamp[n] <= timeStamp[x]
      BY <2>3 DEF IInv, LatestStored
    <3>3. ASSUME NEW n \in received' \ {x}, SameSlot(x, n), ~(timeStamp[m] < timeStamp[n])
          PROVE  timeStamp[n] < timeStamp[x]
      <4>1. n \notin batch
        <5> SUFFICES ASSUME n \in batch PROVE FALSE
          OBVIOUS
        <5>1. n \in EphSubframes(part)
          BY <1>5, <2>1, <3>2, <3>3 DEF EphSubframes, SameSlot
        <5> QED BY <2>3, <3>3, <5>1
      <4>2. n \in EphSubframes(received)
        BY <1>2, <3>2, <3>3, <4>1 DEF EphSubframes, SameSlot
      <4>3. timeStamp[n] # timeStamp[x]
        BY <2>1, <3>1, <3>3, ChannelAssumption DEF SameSlot
      <4> QED BY <2>1, <3>1, <3>2, <3>3, <4>2, <4>3
    <3> QED BY <1>5, <2>1, <3>1, <3>3
  <2> QED BY <1>7, <2>2, <2>3 DEF EphStored
<1>8. m \in {a, b, c}
  <2>1. PICK x \in {a, b, c} : sfid[x] = sfid[m]
    <3>1. sfid[m] \in 1..3
      BY <1>3 DEF EphSubframes
    <3> QED BY <1>4, <3>1 DEF Frame
  <2>2. SameSlot(x, m) /\ x \in group /\ channel[x] = k /\ channel[m] = k
    BY <1>3, <1>6, <2>1 DEF SameSlot
  <2>3. CASE x \in EphSubframes(part) /\ \A n \in EphSubframes(part) :
                                          SameSlot(x, n) => timeStamp[n] <= timeStamp[x]
    <3>1. x \in Msg /\ timeStamp[x] \in Nat /\ timeStamp[x] <= timeStamp[m]
      BY <1>1, <2>3, TimeStampType DEF EphSubframes
    <3>2. timeStamp[m] <= timeStamp[x]
      BY <1>5, <2>2, <2>3
    <3>3. timeStamp[x] = timeStamp[m]
      BY <1>5, <3>1, <3>2
    <3>4. x = m
      BY <1>5, <2>2, <3>1, <3>3, ChannelAssumption
    <3> QED BY <2>1, <3>4
  <2>4. CASE x \in ephemerides /\ \A n \in EphSubframes(part) : ~SameSlot(x, n)
    BY <1>5, <2>2, <2>4
  <2> QED BY <2>2, <2>3, <2>4 DEF EphStored
<1>9. m \in {a, b, c} \cap (submitted' \ submitted)
  BY <1>1, <1>5, <1>8
<1>10. \A x \in {a, b, c} :
         /\ x \in received' /\ timeStamp[x] <= timeStamp[m]
         /\ \A n \in received' \ {x} : SameSlot(x, n) =>
              timeStamp[n] < timeStamp[x] \/ timeStamp[m] < timeStamp[n]
  BY <1>6, <1>7
<1> HIDE DEF part, group
<1> QED BY <1>4, <1>9, <1>10

\* The last three subframes of a channel, if they are an ephemeris, are in
\* their places when the third of them has been stored.
LEMMA ValidateOffersAll ==
  ASSUME IInv, NEW batch \in SUBSET Upcoming, Validate(batch)
  PROVE  OffersAll
<1> SUFFICES ASSUME NEW a \in received', NEW b \in received', NEW c \in received',
                    Frame(a, b, c),
                    timeStamp[a] < timeStamp[b], timeStamp[b] < timeStamp[c],
                    {a, b, c} \cap (submitted' \ submitted) # {},
                    \A n \in EphSubframes(received') \ {a, b, c} :
                       channel[n] = channel[a] => timeStamp[n] < timeStamp[a]
             PROVE  channel[a] \in completeEphs'
  BY DEF OffersAll
<1>1. /\ submitted' \ submitted = batch
      /\ batch \subseteq Msg
      /\ \A m \in batch, n \in submitted :
            channel[n] = channel[m] => timeStamp[n] < timeStamp[m]
  BY BatchIsNew
<1>2. /\ received' = received \cup batch
      /\ received \subseteq submitted
      /\ submitted \subseteq Msg
      /\ completeEphs' = Completed(ephemerides, batch)
  BY DEF Validate, IInv, TypeOK
<1>3. /\ timeStamp[a] \in Nat /\ timeStamp[b] \in Nat /\ timeStamp[c] \in Nat
      /\ channel[b] = channel[a] /\ channel[c] = channel[a]
      /\ sfid[a] = 1 /\ sfid[b] = 2 /\ sfid[c] = 3
  BY <1>1, <1>2, TimeStampType DEF Frame
<1>4. c \in batch
  BY <1>1, <1>2, <1>3
<1> DEFINE part == {n \in batch : timeStamp[n] <= timeStamp[c]}
           last == {a, b, c}
<1>5. \A x \in last : /\ x \in EphSubframes(received')
                      /\ timeStamp[a] <= timeStamp[x] /\ timeStamp[x] <= timeStamp[c]
                      /\ channel[x] = channel[a]
  BY <1>3 DEF EphSubframes
<1>6. ASSUME NEW x \in last, NEW n \in EphSubframes(received'), SameSlot(x, n)
      PROVE  n = x \/ timeStamp[n] < timeStamp[x]
  <2>1. CASE n \in last
    BY <1>3, <1>6, <2>1 DEF SameSlot
  <2>2. CASE n \notin last
    <3>1. timeStamp[n] < timeStamp[a] /\ timeStamp[n] \in Nat /\ timeStamp[x] \in Nat
      BY <1>1, <1>2, <1>5, <1>6, <2>2, TimeStampType DEF SameSlot, EphSubframes
    <3> QED BY <1>3, <1>5, <3>1
  <2> QED BY <2>1, <2>2
<1>7. ASSUME NEW x \in last PROVE x \in EphStored(ephemerides, part)
  <2>0. x \in Msg /\ timeStamp[x] \in Nat
    BY <1>1, <1>2, <1>3 DEF EphSubframes
  <2>1. EphSubframes(part) \subseteq EphSubframes(received') /\ EphSubframes(part) \subseteq batch
    BY <1>2 DEF EphSubframes
  <2>2. CASE x \in batch
    <3>1. x \in EphSubframes(part)
      BY <1>5, <2>2 DEF EphSubframes
    <3>2. \A n \in EphSubframes(part) : SameSlot(x, n) => timeStamp[n] <= timeStamp[x]
      <4> SUFFICES ASSUME NEW n \in EphSubframes(part), SameSlot(x, n)
                   PROVE  timeStamp[n] <= timeStamp[x]
        OBVIOUS
      <4>1. n = x \/ timeStamp[n] < timeStamp[x]
        BY <1>6, <2>1
      <4>2. timeStamp[n] \in Nat
        BY <1>1, <2>1, TimeStampType
      <4> QED BY <2>0, <4>1, <4>2
    <3> QED BY <3>1, <3>2 DEF EphStored
  <2>3. CASE x \notin batch
    <3>1. x \in EphSubframes(received) /\ x \in submitted
      BY <1>2, <1>5, <2>3 DEF EphSubframes
    <3>2. \A n \in EphSubframes(received) : n \in EphSubframes(received') /\ n \in Msg
      BY <1>2 DEF EphSubframes
    <3>3. \A n \in EphSubframes(received) : SameSlot(x, n) => timeStamp[n] <= timeStamp[x]
      <4> SUFFICES ASSUME NEW n \in EphSubframes(received), SameSlot(x, n)
                   PROVE  timeStamp[n] <= timeStamp[x]
        OBVIOUS
      <4>1. n = x \/ timeStamp[n] < timeStamp[x]
        BY <1>6, <3>2
      <4>2. timeStamp[n] \in Nat
        BY <3>2, TimeStampType
      <4> QED BY <2>0, <4>1, <4>2
    <3>4. x \in ephemerides
      BY <3>1, <3>3 DEF IInv, LatestStored
    <3>5. \A n \in EphSubframes(part) : ~SameSlot(x, n)
      <4> SUFFICES ASSUME NEW n \in EphSubframes(part), SameSlot(x, n) PROVE FALSE
        OBVIOUS
      <4>1. n \in batch /\ channel[n] = channel[x]
        BY <2>1 DEF SameSlot
      <4>2. timeStamp[x] < timeStamp[n] /\ timeStamp[n] \in Nat
        BY <1>1, <3>1, <4>1, TimeStampType
      <4>3. n = x \/ timeStamp[n] < timeStamp[x]
        BY <1>6, <2>1
      <4> QED BY <2>0, <2>3, <4>1, <4>2, <4>3
    <3> QED BY <3>4, <3>5 DEF EphStored
  <2> QED BY <2>2, <2>3
<1>8. ValidGroup(EphStored(ephemerides, part), channel[a])
  BY <1>7 DEF ValidGroup
<1>9. c \in EphSubframes(batch)
  BY <1>3, <1>4 DEF EphSubframes
<1> QED BY <1>2, <1>3, <1>8, <1>9 DEF Completed

\* finalize() offers nothing, and nothing is new.
LEMMA FinalizeOffers == Finalize => OffersComplete /\ OffersAll /\ OffersNew
  BY DEF Finalize, OffersComplete, OffersAll, OffersNew

\* Whatever is lost and whatever the lists, what a call offers are the latest
\* three subframes of a channel at some time, with one issue of data.
THEOREM OfferedIsBroadcast == Spec => OfferedWasComplete
<1>1. IInv /\ [Next]_vars => [OffersComplete]_vars
  BY ValidateOffersComplete, FinalizeOffers DEF Next
<1>2. [][OffersComplete]_vars => OfferedWasComplete
  BY PTL DEF OffersComplete, OfferedWasComplete
<1> QED BY <1>1, <1>2, Invariance, PTL DEF Spec

\* The call that brings the last subframe of an ephemeris reports it.
THEOREM NoEphemerisMissed == Spec => EphemerisReported
<1>1. IInv /\ [Next]_vars => [OffersAll]_vars
  BY ValidateOffersAll, FinalizeOffers DEF Next
<1>2. [][OffersAll]_vars => EphemerisReported
  BY PTL DEF OffersAll, EphemerisReported
<1> QED BY <1>1, <1>2, Invariance, PTL DEF Spec

\* No ephemeris is reported again by a call that brought nothing for it.
THEOREM NoneOfferedTwice == Spec => NoCarryOver
<1>1. [Next]_vars => [OffersNew]_vars
  BY ValidateOffersNew, FinalizeOffers DEF Next
<1>2. [][OffersNew]_vars => NoCarryOver
  BY PTL DEF OffersNew, NoCarryOver
<1> QED BY <1>1, <1>2, PTL DEF Spec

=============================================================================
