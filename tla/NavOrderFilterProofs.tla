------------------------ MODULE NavOrderFilterProofs ------------------------
(***************************************************************************)
(* The order filter keeps every message, holds at most procDepth epochs    *)
(* and passes messages on in time order, for every set of messages, every  *)
(* assignment of time stamps and every depth.                              *)
(***************************************************************************)
EXTENDS NavOrderFilter, NavFilterLemmas

\* The inductive invariant: AcceptedBehindHeld is what makes the time order
\* inductive, since a message that is not too old for what is held cannot
\* then be older than anything accepted.
IInv ==
  /\ TypeOK
  /\ Conservation
  /\ HeldWithinDepth
  /\ RejectedAreStale
  /\ AcceptedBehindHeld
  /\ HeldNotBeforeAccepted

-----------------------------------------------------------------------------

\* With nothing handed over every part of the invariant holds.
LEMMA InitInvariant == Init => IInv
  BY DEF Init, IInv, TypeOK, Conservation, HeldWithinDepth, RejectedAreStale,
         AcceptedBehindHeld, HeldNotBeforeAccepted

\* One validate() call preserves the invariant.
LEMMA ValidateInvariant ==
  ASSUME IInv, NEW batch \in SUBSET Msg, Validate(batch)
  PROVE  IInv'
<1> DEFINE held     == OrderInsert(orderedNav, batch)
           released == OrderReleased(held)
<1> USE DEF IInv
<1>1. /\ orderedNav' = held \ released
      /\ accepted' = accepted \cup released
      /\ rejected' = rejected \cup {m \in batch : OrderTooOld(orderedNav, m)}
      /\ submitted' = submitted \cup batch
      /\ flushed' = flushed
      /\ batch \cap submitted = {}
  BY DEF Validate, OrderRejected
<1>2. /\ held \subseteq Msg
      /\ released \subseteq held
      /\ held = orderedNav \cup {m \in batch : ~OrderTooOld(orderedNav, m)}
  BY DEF OrderInsert, OrderReleased, TypeOK
<1>3. \A m \in Msg : timeStamp[m] \in Int
  BY MsgAssumption
<1>4. \A m \in held : m \in released <=> \E n \in held : timeStamp[m] <= timeStamp[n] - Window
  BY DEF OrderReleased
<1> HIDE DEF held, released
<1>5. TypeOK'
  BY <1>1, <1>2 DEF TypeOK
<1>6. Conservation'
  BY <1>1, <1>2 DEF Conservation
<1>7. HeldWithinDepth'
  <2> SUFFICES ASSUME NEW m \in held \ released, NEW n \in held \ released
               PROVE  timeStamp[n] - timeStamp[m] < Window
    BY <1>1 DEF HeldWithinDepth
  <2> QED BY <1>2, <1>3, <1>4, WindowType
<1>8. RejectedAreStale'
  <2> SUFFICES ASSUME NEW r \in rejected'
               PROVE  \E n \in submitted' : timeStamp[r] < timeStamp[n] - Window
    BY DEF RejectedAreStale
  <2>1. CASE r \in rejected
    BY <1>1, <2>1 DEF RejectedAreStale
  <2>2. CASE OrderTooOld(orderedNav, r)
    BY <1>1, <2>2 DEF OrderTooOld, Conservation
  <2> QED BY <1>1, <2>1, <2>2
<1>9. AcceptedBehindHeld'
  <2> SUFFICES ASSUME NEW a \in accepted'
               PROVE  \E n \in held \ released : timeStamp[a] <= timeStamp[n] - Window
    BY <1>1 DEF AcceptedBehindHeld
  <2>1. PICK k \in held : timeStamp[a] <= timeStamp[k] - Window
    BY <1>1, <1>2, <1>4 DEF AcceptedBehindHeld
  <2>2. PICK n \in held : \A m \in held : timeStamp[m] <= timeStamp[n]
    BY <1>2, <2>1, NewestExists
  <2>3. n \notin released
    BY <1>2, <1>3, <1>4, <2>2, WindowType
  <2>4. a \in Msg
    BY <1>1, <1>2 DEF TypeOK
  <2>5. timeStamp[a] <= timeStamp[n] - Window
    BY <1>2, <1>3, <2>1, <2>2, <2>4, WindowType
  <2> QED BY <2>3, <2>5
<1>10. HeldNotBeforeAccepted'
  <2> SUFFICES ASSUME NEW a \in accepted', NEW m \in held \ released
               PROVE  timeStamp[a] <= timeStamp[m]
    BY <1>1 DEF HeldNotBeforeAccepted
  <2>1. a \in Msg /\ m \in Msg
    BY <1>1, <1>2 DEF TypeOK
  <2>2. CASE a \in released
    BY <1>2, <1>3, <1>4, <2>1, <2>2, WindowType
  <2>3. CASE a \in accepted /\ m \in orderedNav
    BY <2>3 DEF HeldNotBeforeAccepted
  <2>4. CASE a \in accepted /\ ~OrderTooOld(orderedNav, m)
    <3>1. PICK n \in orderedNav : timeStamp[a] <= timeStamp[n] - Window
      BY <2>4 DEF AcceptedBehindHeld
    <3>2. ~(timeStamp[m] < timeStamp[n] - Window)
      BY <2>4 DEF OrderTooOld
    <3>3. n \in Msg
      BY DEF TypeOK
    <3> QED BY <1>3, <2>1, <3>1, <3>2, <3>3, WindowType
  <2> QED BY <1>1, <1>2, <2>2, <2>3, <2>4
<1> QED BY <1>5, <1>6, <1>7, <1>8, <1>9, <1>10

\* Flushing the filter preserves the invariant.
LEMMA FinalizeInvariant == IInv /\ Finalize => IInv'
  BY DEF IInv, Finalize, TypeOK, Conservation, HeldWithinDepth, RejectedAreStale,
         AcceptedBehindHeld, HeldNotBeforeAccepted

LEMMA StepInvariant == IInv /\ [Next]_vars => IInv'
<1> SUFFICES ASSUME IInv, [Next]_vars PROVE IInv'
  OBVIOUS
<1>1. ASSUME NEW batch \in SUBSET Msg, Validate(batch) PROVE IInv'
  BY <1>1, ValidateInvariant
<1>2. CASE Finalize
  BY <1>2, FinalizeInvariant
<1>3. CASE UNCHANGED vars
  BY <1>3 DEF vars, IInv, TypeOK, Conservation, HeldWithinDepth, RejectedAreStale,
              AcceptedBehindHeld, HeldNotBeforeAccepted
<1> QED BY <1>1, <1>2, <1>3 DEF Next

-----------------------------------------------------------------------------

\* The invariant holds in every reachable state.
LEMMA Invariance == Spec => []IInv
  BY InitInvariant, StepInvariant, PTL DEF Spec

\* The filter only ever stores and returns messages it was given room for.
THEOREM TypeCorrect == Spec => []TypeOK
<1>1. IInv => TypeOK
  BY DEF IInv
<1> QED BY <1>1, Invariance, PTL

\* NavOrderFilter neither loses nor duplicates a message.
THEOREM NothingLost == Spec => []Conservation
<1>1. IInv => Conservation
  BY DEF IInv
<1> QED BY <1>1, Invariance, PTL

\* orderedNav never spans more than procDepth epochs.
THEOREM DepthBounded == Spec => []HeldWithinDepth
<1>1. IInv => HeldWithinDepth
  BY DEF IInv
<1> QED BY <1>1, Invariance, PTL

\* Only messages more than procDepth epochs behind are rejected.
THEOREM OnlyStaleRejected == Spec => []RejectedAreStale
<1>1. IInv => RejectedAreStale
  BY DEF IInv
<1> QED BY <1>1, Invariance, PTL

\* The watermark behind which messages were accepted never moves back.
THEOREM WatermarkHeld == Spec => []AcceptedBehindHeld
<1>1. IInv => AcceptedBehindHeld
  BY DEF IInv
<1> QED BY <1>1, Invariance, PTL

\* finalize() cannot put messages out of time order.
THEOREM FlushKeepsOrder == Spec => []HeldNotBeforeAccepted
<1>1. IInv => HeldNotBeforeAccepted
  BY DEF IInv
<1> QED BY <1>1, Invariance, PTL

\* Accepted messages come out in time order, whatever order they went in.
THEOREM TimeOrder == Spec => AcceptedInTimeOrder
<1> DEFINE Ordered == \A m \in accepted' \ accepted, a \in accepted :
                         timeStamp[a] <= timeStamp[m]
<1>1. IInv /\ IInv' /\ [Next]_vars => [Ordered]_vars
  <2> SUFFICES ASSUME IInv, Next, NEW m \in accepted' \ accepted, NEW a \in accepted
               PROVE  timeStamp[a] <= timeStamp[m]
    BY DEF vars
  <2>1. CASE Finalize
    BY <2>1 DEF Finalize
  <2>2. ASSUME NEW batch \in SUBSET Msg, Validate(batch)
        PROVE  timeStamp[a] <= timeStamp[m]
    <3>1. m \in orderedNav \/ (m \in batch /\ ~OrderTooOld(orderedNav, m))
      BY <2>2 DEF Validate, OrderReleased, OrderInsert
    <3>2. CASE m \in orderedNav
      BY <3>2 DEF IInv, HeldNotBeforeAccepted
    <3>3. CASE m \in batch /\ ~OrderTooOld(orderedNav, m)
      <4>1. PICK n \in orderedNav : timeStamp[a] <= timeStamp[n] - Window
        BY DEF IInv, AcceptedBehindHeld
      <4>2. ~(timeStamp[m] < timeStamp[n] - Window)
        BY <3>3 DEF OrderTooOld
      <4>3. timeStamp[a] \in Int /\ timeStamp[m] \in Int /\ timeStamp[n] \in Int
        BY <3>3, MsgAssumption DEF IInv, TypeOK
      <4> QED BY <4>1, <4>2, <4>3, WindowType
    <3> QED BY <3>1, <3>2, <3>3
  <2> QED BY <2>1, <2>2 DEF Next
<1>2. [][Ordered]_vars => AcceptedInTimeOrder
  BY PTL DEF AcceptedInTimeOrder
<1> QED BY <1>1, <1>2, Invariance, PTL DEF Spec

=============================================================================
