------------------------- MODULE NavFilterMgrProofs -------------------------
(***************************************************************************)
(* For every cascade of filters, of whatever kinds and in whatever order,  *)
(* validate() loses no message but the subframes that LNavEphMaker         *)
(* replaces, hands none back twice, and finalize() leaves none behind.  With an order filter in the cascade     *)
(* they come back in time order, and with a cross source filter after it   *)
(* each epoch is voted on once.  The messages in use are of no more epochs *)
(* than the depths of the filters add up to, and every call comes to its   *)
(* end.                                                                    *)
(***************************************************************************)
EXTENDS NavFilterMgr, NavFilterLemmas

\* What the kind of a filter says of the messages it holds.
StoredAsKind ==
  \A i \in DOMAIN filters :
    /\ filters[i] = "check" => stored[i] = {}
    /\ filters[i] = "cross" => \A m, n \in stored[i] : timeStamp[m] = timeStamp[n]

\* Within a validate() call the lists still to be collected are those of the
\* filters already called, and no message is in two places.
CallOK ==
  /\ call = "idle" => transit = {} /\ Pending \subseteq reported
  /\ call = "validate" =>
       /\ \A i \in rejectedFilters : i < next
       /\ transit \cap Held = {}
       /\ Pending \cap (Held \cup transit \cup reported) = {}

Active == call \in {"idle", "validate"}

IInv ==
  /\ TypeOK
  /\ NothingLost
  /\ Active => StoredAsKind /\ CallOK

LEMMA ChainType ==
  /\ DOMAIN filters \subseteq Nat
  /\ \A i \in DOMAIN filters : i + 1 \in 1..(Len(filters) + 1)
  /\ \A i \in DOMAIN filters : filters[i] \in {"check", "order", "cross", "eph"}
  /\ \A i \in DOMAIN filters : failing[i] \subseteq Msg
  BY ChainAssumption

-----------------------------------------------------------------------------
(* One filter call                                                         *)

\* In the place of a subframe that LNavEphMaker held or is given there is one
\* after the call.
LEMMA PlaceStaysTaken ==
  ASSUME NEW held, NEW list, list \subseteq Msg, NEW m \in held \cup EphSubframes(list)
  PROVE  \E n \in EphStored(held, list) : SameSlot(m, n)
<1> DEFINE slot == {n \in EphSubframes(list) : SameSlot(m, n)}
<1>1. CASE slot = {}
  <2>1. m \in held /\ \A n \in EphSubframes(list) : ~SameSlot(m, n)
    BY <1>1 DEF SameSlot
  <2>2. m \in EphStored(held, list) /\ SameSlot(m, m)
    BY <2>1 DEF EphStored, SameSlot
  <2> QED BY <2>2
<1>2. CASE slot # {}
  <2>1. slot \subseteq Msg
    BY DEF EphSubframes
  <2>2. PICK l \in slot : \A n \in slot : timeStamp[n] <= timeStamp[l]
    <3> HIDE DEF slot
    <3> QED BY <1>2, <2>1, NewestExists
  <2>3. l \in EphStored(held, list)
    BY <2>2 DEF EphStored, SameSlot
  <2> QED BY <2>2, <2>3
<1> QED BY <1>1, <1>2

\* A filter accepts, rejects or holds each message it is given or held, only
\* one of these; only LNavEphMaker drops subframes, when it replaces them.
LEMMA FilterPartition ==
  ASSUME NEW i \in DOMAIN filters, NEW list, list \subseteq Msg, list # {},
         stored[i] \subseteq Msg, stored[i] \cap list = {}, StoredAsKind
  PROVE  /\ Accepts(i, list) \cup Rejects(i, list) \cup Holds(i, list)
              \subseteq stored[i] \cup list
         /\ \A m \in stored[i] \cup list :
              \/ m \in Accepts(i, list) \cup Rejects(i, list) \cup Holds(i, list)
              \/ filters[i] = "eph" /\ \E n \in Holds(i, list) : n # m /\ SameSlot(m, n)
         /\ filters[i] = "eph" =>
              \A m \in stored[i] : \E n \in Holds(i, list) : SameSlot(m, n)
         /\ Accepts(i, list) \cap Rejects(i, list) = {}
         /\ Accepts(i, list) \cap Holds(i, list) = {}
         /\ Rejects(i, list) \cap Holds(i, list) = {}
         /\ filters[i] = "check" => Holds(i, list) = {}
         /\ filters[i] = "cross" =>
              \A m, n \in Holds(i, list) : timeStamp[m] = timeStamp[n]
<1>1. CASE filters[i] = "check"
  <2>1. stored[i] = {}
    BY <1>1 DEF StoredAsKind
  <2> QED BY <1>1, <2>1 DEF Accepts, Rejects, Holds, CheckAccepted, CheckRejected
<1>2. CASE filters[i] = "order"
  <2>1. /\ Accepts(i, list) = OrderReleased(OrderInsert(stored[i], list))
        /\ Rejects(i, list) = OrderRejected(stored[i], list)
        /\ Holds(i, list) = OrderInsert(stored[i], list) \ Accepts(i, list)
    BY <1>2 DEF Accepts, Rejects, Holds
  <2>2. /\ OrderInsert(stored[i], list) \cup OrderRejected(stored[i], list)
             = stored[i] \cup list
        /\ OrderRejected(stored[i], list) \cap OrderInsert(stored[i], list) = {}
        /\ OrderReleased(OrderInsert(stored[i], list)) \subseteq OrderInsert(stored[i], list)
    BY OrderPartition
  <2> QED BY <1>2, <2>1, <2>2
<1>3. CASE filters[i] = "cross"
  <2>1. /\ Accepts(i, list) = CrossAccepted(stored[i], list)
        /\ Rejects(i, list) = CrossRejected(stored[i], list)
        /\ Holds(i, list) = Grouped(stored[i], list)
    BY <1>3 DEF Accepts, Rejects, Holds
  <2>2. \A m, n \in stored[i] : timeStamp[m] = timeStamp[n]
    BY <1>3 DEF StoredAsKind
  <2>3. /\ Grouped(stored[i], list) \cup CrossAccepted(stored[i], list)
              \cup CrossRejected(stored[i], list) = stored[i] \cup list
        /\ Grouped(stored[i], list) \cap CrossAccepted(stored[i], list) = {}
        /\ Grouped(stored[i], list) \cap CrossRejected(stored[i], list) = {}
        /\ CrossAccepted(stored[i], list) \cap CrossRejected(stored[i], list) = {}
        /\ \A m, n \in Grouped(stored[i], list) : timeStamp[m] = timeStamp[n]
    BY <2>2, CrossPartition
  <2> QED BY <1>3, <2>1, <2>3
<1>4. CASE filters[i] = "eph"
  <2>2. /\ Accepts(i, list) = EphPassed(list)
        /\ Rejects(i, list) = {}
        /\ Holds(i, list) = EphStored(stored[i], list)
    BY <1>4 DEF Accepts, Rejects, Holds
  <2>3. /\ EphPassed(list) \cup EphSubframes(list) = list
        /\ EphPassed(list) \cap EphSubframes(list) = {}
        /\ EphStored(stored[i], list) \subseteq stored[i] \cup EphSubframes(list)
    BY DEF EphPassed, EphSubframes, EphStored
  <2>4. \A m \in stored[i] \cup EphSubframes(list) :
          \E n \in EphStored(stored[i], list) : SameSlot(m, n)
    BY PlaceStaysTaken
  <2>5. \A m \in stored[i] \cup list :
          \/ m \in EphPassed(list) \cup EphStored(stored[i], list)
          \/ \E n \in EphStored(stored[i], list) : n # m /\ SameSlot(m, n)
    BY <2>3, <2>4
  <2> QED BY <1>4, <2>2, <2>3, <2>4, <2>5
<1> QED BY <1>1, <1>2, <1>3, <1>4, ChainType

\* The types of what a filter call changes.
LEMMA CallFilterType ==
  ASSUME TypeOK, NEW i \in DOMAIN filters, CallFilter(i)
  PROVE  /\ transit' \subseteq Msg
         /\ stored' \in [DOMAIN filters -> SUBSET Msg]
         /\ rejected' \in [DOMAIN filters -> SUBSET Msg]
         /\ completeEphs' \cup found' \subseteq {channel[m] : m \in Msg}
<1>1. stored[i] \subseteq Msg /\ transit \subseteq Msg
  BY DEF TypeOK
<1>2. \A c \in Examined(stored[i], transit) : c \subseteq Msg
  BY <1>1 DEF Examined, Collection, Epoch
<1>3. /\ CrossAccepted(stored[i], transit) \subseteq Msg
      /\ CrossRejected(stored[i], transit) \subseteq Msg
  BY <1>2 DEF CrossAccepted, CrossRejected, Winners
<1>4. Grouped(stored[i], transit) \subseteq Msg
  BY <1>1 DEF Grouped, Collection, Epoch, Latest
<1>5. Accepts(i, transit) \subseteq Msg
  BY <1>1, <1>3, ChainType DEF Accepts, CheckAccepted, OrderReleased, OrderInsert, EphPassed
<1>6. Rejects(i, transit) \subseteq Msg
  BY <1>1, <1>3, ChainType DEF Rejects, CheckRejected, OrderRejected
<1>7. Holds(i, transit) \subseteq Msg
  BY <1>1, <1>4, ChainType DEF Holds, OrderInsert, EphStored, EphSubframes
<1>9. completeEphs' \cup found' \subseteq {channel[m] : m \in Msg}
  <2>1. Completed(stored[i], transit) \subseteq {channel[m] : m \in Msg}
    BY <1>1 DEF Completed, EphSubframes
  <2> QED BY <2>1 DEF CallFilter, TypeOK
<1> QED BY <1>5, <1>6, <1>7, <1>9 DEF CallFilter, TypeOK

-----------------------------------------------------------------------------
(* The invariant                                                           *)

LEMMA InitInvariant == Init => IInv
<1> SUFFICES ASSUME Init PROVE IInv
  OBVIOUS
<1>1. TypeOK
  BY ChainAssumption DEF Init, TypeOK
<1>2. Held = {} /\ Pending = {}
  BY DEF Init, Held, Pending
<1> QED BY <1>1, <1>2 DEF Init, IInv, NothingLost, StoredAsKind, CallOK, Active

\* An iteration of validate()'s loop moves messages but loses none.
LEMMA ValidateFilterInvariant == IInv /\ ValidateFilter => IInv'
<1> SUFFICES ASSUME IInv, ValidateFilter PROVE IInv'
  OBVIOUS
<1> DEFINE i == next
<1>1. /\ i \in DOMAIN filters
      /\ transit # {} /\ transit \subseteq Msg
      /\ stored \in [DOMAIN filters -> SUBSET Msg]
      /\ rejected \in [DOMAIN filters -> SUBSET Msg]
      /\ StoredAsKind /\ CallOK /\ NothingLost
      /\ call = "validate" /\ call' = "validate"
      /\ i \notin rejectedFilters
      /\ rejectedFilters \subseteq DOMAIN filters
  BY ChainType DEF IInv, TypeOK, Active, ValidateFilter, CallOK
<1>2. stored[i] \subseteq Held /\ stored[i] \cap transit = {} /\ stored[i] \subseteq Msg
  BY <1>1 DEF Held, CallOK
<1> DEFINE A == Accepts(i, transit)
           R == Rejects(i, transit)
           H == Holds(i, transit)
<1>3. /\ A \cup R \cup H \subseteq stored[i] \cup transit
      /\ \A m \in stored[i] \cup transit :
           \/ m \in A \cup R \cup H
           \/ filters[i] = "eph" /\ \E n \in H : n # m /\ SameSlot(m, n)
      /\ filters[i] = "eph" => \A m \in stored[i] : \E n \in H : SameSlot(m, n)
      /\ A \cap R = {} /\ A \cap H = {} /\ R \cap H = {}
      /\ filters[i] = "check" => H = {}
      /\ filters[i] = "cross" => \A m, n \in H : timeStamp[m] = timeStamp[n]
  BY <1>1, <1>2, FilterPartition
<1>5. /\ transit' = A
      /\ rejected' = [rejected EXCEPT ![i] = R]
      /\ stored' = [stored EXCEPT ![i] = H]
      /\ rejectedFilters' = rejectedFilters \cup {j \in {i} : rejected'[j] # {}}
      /\ next' = i + 1
      /\ submitted' = submitted /\ accepted' = accepted /\ reported' = reported
  BY DEF ValidateFilter, CallFilter
<1> HIDE DEF A, R, H, i
<1>6. Held' = (Held \ stored[i]) \cup H
  BY <1>1, <1>5 DEF Held, NothingLost
<1>7. Pending' = Pending \cup R
  BY <1>1, <1>5 DEF Pending
<1>8. TypeOK'
  <2>1. next' \in 1..(Len(filters) + 1) /\ rejectedFilters' \subseteq DOMAIN filters
    BY <1>1, <1>5, ChainType
  <2> QED BY <1>1, <2>1, CallFilterType DEF ValidateFilter, IInv, TypeOK, i
<1>9. CallOK'
  <2>1. \A j \in rejectedFilters' : j < next'
    BY <1>1, <1>5, ChainType DEF CallOK, i
  <2>2. transit' \cap Held' = {}
    BY <1>1, <1>2, <1>3, <1>5, <1>6 DEF CallOK
  <2>3. R \cap (Held' \cup transit') = {}
    BY <1>1, <1>2, <1>3, <1>5, <1>6 DEF CallOK
  <2>4. R \cap reported = {}
    BY <1>1, <1>2, <1>3 DEF NothingLost
  <2>5. Pending \cap (Held' \cup transit' \cup reported) = {}
    BY <1>1, <1>2, <1>3, <1>5, <1>6 DEF CallOK
  <2> QED BY <1>1, <1>5, <1>7, <2>1, <2>2, <2>3, <2>4, <2>5 DEF CallOK
<1>10. StoredAsKind'
  BY <1>1, <1>3, <1>5 DEF StoredAsKind
<1>11. NothingLost'
  <2>0. Held' \cup transit' \cup accepted' \cup reported' \cup Pending' \subseteq submitted'
    <3>1. Held \cup transit \cup accepted \cup reported \cup Pending \subseteq submitted
      BY <1>1 DEF NothingLost
    <3> QED BY <1>2, <1>3, <1>5, <1>6, <1>7, <3>1
  <2>1. ASSUME NEW m \in submitted',
               m \notin Held' \cup transit' \cup accepted' \cup reported' \cup Pending'
        PROVE  Replaced(m)'
    <3>1. stored'[i] = H /\ \A j \in DOMAIN filters : j # i => stored'[j] = stored[j]
      BY <1>1, <1>5
    <3>2. ASSUME NEW n \in H, filters[i] = "eph", n # m, SameSlot(m, n) PROVE Replaced(m)'
      BY <1>1, <3>1, <3>2 DEF Replaced
    <3>3. CASE m \in stored[i] \cup transit
      BY <1>3, <1>5, <1>6, <1>7, <2>1, <3>2, <3>3
    <3>4. CASE m \notin stored[i] \cup transit
      <4>1. m \in submitted /\ m \notin Held \cup transit \cup accepted \cup reported \cup Pending
        BY <1>5, <1>6, <1>7, <2>1, <3>4
      <4>0. PICK j \in DOMAIN filters :
              filters[j] = "eph" /\ \E n \in stored[j] : n # m /\ SameSlot(m, n)
        BY <1>1, <4>1 DEF NothingLost, Replaced
      <4>2. PICK n \in stored[j] : filters[j] = "eph" /\ n # m /\ SameSlot(m, n)
        BY <4>0
      <4>3. CASE j = i
        <5>1. PICK x \in H : SameSlot(n, x)
          BY <1>3, <4>2, <4>3
        <5>2. x # m /\ SameSlot(m, x)
          BY <1>6, <2>1, <4>2, <5>1 DEF SameSlot
        <5> QED BY <3>2, <4>2, <4>3, <5>2
      <4>4. CASE j # i
        BY <3>1, <4>2, <4>4 DEF Replaced
      <4> QED BY <4>3, <4>4
    <3> QED BY <3>3, <3>4
  <2>2. /\ (Held' \cup transit' \cup Pending') \cap accepted' = {}
        /\ (Held' \cup transit' \cup accepted') \cap reported' = {}
    BY <1>1, <1>2, <1>3, <1>5, <1>6, <1>7 DEF NothingLost
  <2>3. ASSUME NEW j \in DOMAIN filters, NEW k \in DOMAIN filters, j # k
        PROVE  stored'[j] \cap stored'[k] = {}
    <3>1. stored[j] \subseteq Held /\ stored[k] \subseteq Held
      BY DEF Held
    <3> QED BY <1>1, <1>3, <1>5, <2>3, <3>1 DEF NothingLost, CallOK
  <2>4. Pending' \cap reported' = {}
    BY <1>1, <1>9 DEF CallOK
  <2> QED BY <2>0, <2>1, <2>2, <2>3, <2>4 DEF NothingLost
<1> QED BY <1>8, <1>9, <1>10, <1>11 DEF IInv

\* The application takes back what validate() returned and rejected.
LEMMA ValidateReturnInvariant == IInv /\ ValidateReturn => IInv'
<1> SUFFICES ASSUME IInv, ValidateReturn PROVE IInv'
  OBVIOUS
<1>1. /\ StoredAsKind /\ CallOK /\ NothingLost /\ TypeOK
      /\ call = "validate" /\ call' = "idle" /\ transit' = {}
      /\ accepted' = accepted \cup transit
      /\ reported' = reported \cup Pending
      /\ stored' = stored /\ rejected' = rejected
      /\ completeEphs' = completeEphs /\ found' = found
      /\ rejectedFilters' = rejectedFilters /\ submitted' = submitted
      /\ next' = next /\ flushing' = flushing
  BY DEF IInv, Active, ValidateReturn, dataVars, Pending
<1>2. Held' = Held /\ Pending' = Pending
  BY <1>1 DEF Held, Pending
<1>3. Pending \subseteq Msg
  BY <1>1 DEF TypeOK, Pending
<1>4. TypeOK'
  BY <1>1, <1>3 DEF TypeOK
<1>5. NothingLost'
  <2>0. Held' \cup transit' \cup accepted' \cup reported' \cup Pending' \subseteq submitted'
    BY <1>1, <1>2 DEF NothingLost
  <2>1. ASSUME NEW m \in submitted'
        PROVE  m \in Held' \cup transit' \cup accepted' \cup reported' \cup Pending' \/ Replaced(m)'
    <3>1. Replaced(m)' <=> Replaced(m)
      BY <1>1 DEF Replaced
    <3>2. m \in Held \cup transit \cup accepted \cup reported \cup Pending \/ Replaced(m)
      BY <1>1 DEF NothingLost
    <3> QED BY <1>1, <1>2, <3>1, <3>2
  <2>2. /\ (Held' \cup transit' \cup Pending') \cap accepted' = {}
        /\ (Held' \cup transit' \cup accepted') \cap reported' = {}
    BY <1>1, <1>2 DEF NothingLost, CallOK
  <2> QED BY <1>1, <1>2, <2>0, <2>1, <2>2 DEF NothingLost
<1>6. StoredAsKind' /\ CallOK'
  BY <1>1, <1>2 DEF StoredAsKind, CallOK
<1> QED BY <1>4, <1>5, <1>6 DEF IInv

\* A new message is in transit and nowhere else.
LEMMA ValidateInvariant ==
  ASSUME IInv, NEW m \in Msg, Validate(m)
  PROVE  IInv'
<1>1. /\ StoredAsKind /\ CallOK /\ NothingLost /\ TypeOK
      /\ call = "idle" /\ call' = "validate" /\ transit = {} /\ transit' = {m}
      /\ m \notin submitted /\ submitted' = submitted \cup {m}
      /\ rejectedFilters' = {} /\ next' = 1 /\ found' = {}
      /\ stored' = stored /\ rejected' = rejected
      /\ accepted' = accepted /\ reported' = reported
      /\ completeEphs' = completeEphs /\ flushing' = flushing
  BY DEF IInv, Active, CallOK, Validate
<1>2. Held' = Held /\ Pending' = {}
  BY <1>1 DEF Held, Pending
<1>3. Pending \subseteq reported
  BY <1>1 DEF CallOK
<1>4. TypeOK'
  BY <1>1, ChainAssumption DEF TypeOK
<1>5. NothingLost'
  <2>1. ASSUME NEW n \in submitted'
        PROVE  n \in Held' \cup transit' \cup accepted' \cup reported' \cup Pending' \/ Replaced(n)'
    <3>1. Replaced(n)' <=> Replaced(n)
      BY <1>1 DEF Replaced
    <3> QED BY <1>1, <1>2, <1>3, <3>1 DEF NothingLost
  <2> QED BY <1>1, <1>2, <1>3, <2>1 DEF NothingLost
<1>6. StoredAsKind'
  BY <1>1 DEF StoredAsKind
<1>7. CallOK'
  BY <1>1, <1>2 DEF CallOK, NothingLost
<1> QED BY <1>4, <1>5, <1>6, <1>7 DEF IInv

\* finalize() has nothing to keep but types: what it loses, it loses.
LEMMA FinalizeInvariant ==
  ASSUME IInv,
         Finalize \/ FinalizeFilter \/ FinalizeCascade \/ FinalizeCollect \/ FinalizeReturn
  PROVE  IInv'
<1>1. ~Active'
  BY DEF Active, Finalize, FinalizeFilter, FinalizeCascade, FinalizeCollect, FinalizeReturn
<1>2. NothingLost'
  BY <1>1 DEF NothingLost, Active
<1>3. TypeOK'
  <2>1. CASE Finalize
    BY <2>1, ChainAssumption DEF Finalize, IInv, TypeOK
  <2>2. CASE FinalizeFilter
    <3> DEFINE i == flushing
    <3>1. i \in DOMAIN filters /\ stored[i] \subseteq Msg /\ i + 1 \in 1..(Len(filters) + 1)
      BY <2>2, ChainType DEF FinalizeFilter, IInv, TypeOK
    <3>2. Winners(stored[i]) \subseteq Msg
      BY <3>1 DEF Winners
    <3>3. transit' \subseteq Msg
      BY <2>2, <3>1, <3>2 DEF FinalizeFilter
    <3>4. rejected' \in [DOMAIN filters -> SUBSET Msg]
      BY <2>2, <3>1 DEF FinalizeFilter, IInv, TypeOK
    <3> QED BY <2>2, <3>1, <3>3, <3>4 DEF FinalizeFilter, IInv, TypeOK
  <2>3. CASE FinalizeCascade
    <3>1. next \in DOMAIN filters /\ TypeOK /\ CallFilter(next) /\ next' \in 1..(Len(filters) + 1)
      BY <2>3, ChainType DEF FinalizeCascade, IInv
    <3> QED BY <2>3, <3>1, CallFilterType DEF FinalizeCascade, TypeOK
  <2>4. CASE FinalizeCollect
    BY <2>4 DEF FinalizeCollect, IInv, TypeOK, dataVars
  <2>5. CASE FinalizeReturn
    <3>1. UNION {rejected[i] : i \in rejectedFilters} \subseteq Msg
      BY DEF IInv, TypeOK
    <3> QED BY <2>5, <3>1 DEF FinalizeReturn, IInv, TypeOK, dataVars
  <2> QED BY <2>1, <2>2, <2>3, <2>4, <2>5
<1> QED BY <1>1, <1>2, <1>3 DEF IInv, Active

LEMMA StepInvariant == IInv /\ [Next]_vars => IInv'
<1> SUFFICES ASSUME IInv, [Next]_vars PROVE IInv'
  OBVIOUS
<1>1. ASSUME NEW m \in Msg, Validate(m) PROVE IInv'
  BY <1>1, ValidateInvariant
<1>2. CASE Step
  BY <1>2, ValidateFilterInvariant, ValidateReturnInvariant, FinalizeInvariant DEF Step
<1>3. CASE Finalize
  BY <1>3, FinalizeInvariant
<1>4. CASE UNCHANGED vars
  <2>1. Held' = Held /\ Pending' = Pending
    BY <1>4 DEF vars, Held, Pending
  <2>2. \A m : Replaced(m)' <=> Replaced(m)
    BY <1>4 DEF vars, Replaced
  <2> QED BY <1>4, <2>1, <2>2 DEF vars, IInv, TypeOK, NothingLost, StoredAsKind, CallOK, Active
<1> QED BY <1>1, <1>2, <1>3, <1>4 DEF Next

LEMMA Invariance == Spec => []IInv
  BY InitInvariant, StepInvariant, PTL DEF Spec

-----------------------------------------------------------------------------

\* The manager's state has its types, through every filter call.
THEOREM TypeCorrect == Spec => []TypeOK
<1>1. IInv => TypeOK
  BY DEF IInv
<1> QED BY <1>1, Invariance, PTL

\* Whatever filters the cascade is made of, validate() calls lose no message
\* but subframes replaced in LNavEphMaker, and hand none back twice.
THEOREM OnlyReplacedAreLost == Spec => []NothingLost
<1>1. IInv => NothingLost
  BY DEF IInv
<1> QED BY <1>1, Invariance, PTL

-----------------------------------------------------------------------------
(* Draining                                                                *)

\* finalize() has emptied every filter before the one it is to flush next, and
\* what is in transit is on its way to later ones.
FlushOK ==
  /\ call \in {"idle", "done"} => transit = {}
  /\ call \in {"finalize", "done"} => \A i \in DOMAIN filters : i < flushing => stored[i] = {}
  /\ call = "finalize" /\ transit # {} => flushing <= next
  /\ call = "done" => flushing \notin DOMAIN filters

\* A filter that is called changes what it holds and what is in transit, and
\* nothing that another holds.
LEMMA CallFilterLocal ==
  ASSUME TypeOK, NEW i \in DOMAIN filters, CallFilter(i), NEW j \in DOMAIN filters, j # i
  PROVE  stored'[j] = stored[j]
  BY DEF CallFilter, TypeOK

LEMMA DrainStep ==
  ASSUME TypeOK, TypeOK', FlushOK, [Next]_vars
  PROVE  FlushOK'
<1>0. DOMAIN filters = 1..Len(filters) /\ Len(filters) \in Nat
  BY ChainAssumption
<1>00. flushing \in Nat /\ next \in Nat
  BY <1>0 DEF TypeOK
<1>1. CASE \E m \in Msg : Validate(m)
  BY <1>1 DEF Validate, FlushOK
<1>2. CASE ValidateFilter
  BY <1>2 DEF ValidateFilter, FlushOK
<1>3. CASE ValidateReturn
  BY <1>3 DEF ValidateReturn, FlushOK
<1>4. CASE Finalize
  BY <1>0, <1>4 DEF Finalize, FlushOK
<1>5. CASE FinalizeFilter
  <2>1. /\ call' = "finalize" /\ call = "finalize"
        /\ flushing \in DOMAIN filters
        /\ flushing' = flushing + 1 /\ next' = flushing + 1
        /\ stored' = [stored EXCEPT ![flushing] = {}]
    BY <1>5 DEF FinalizeFilter
  <2>2. ASSUME NEW i \in DOMAIN filters, i < flushing' PROVE stored'[i] = {}
    <3>1. CASE i = flushing
      BY <2>1, <3>1 DEF TypeOK
    <3>2. CASE i # flushing
      BY <1>0, <1>00, <2>1, <2>2, <3>2 DEF TypeOK, FlushOK
    <3> QED BY <3>1, <3>2
  <2> QED BY <1>00, <2>1, <2>2 DEF FlushOK
<1>6. CASE FinalizeCascade
  <2>1. /\ call' = "finalize" /\ call = "finalize"
        /\ next \in DOMAIN filters /\ next' = next + 1
        /\ transit # {} /\ flushing' = flushing /\ CallFilter(next)
    BY <1>6 DEF FinalizeCascade
  <2>2. flushing <= next
    BY <2>1 DEF FlushOK
  <2>3. ASSUME NEW i \in DOMAIN filters, i < flushing' PROVE stored'[i] = {}
    <3>1. i # next /\ stored[i] = {}
      BY <1>0, <1>00, <2>1, <2>2, <2>3 DEF FlushOK
    <3> QED BY <2>1, <3>1, CallFilterLocal
  <2> QED BY <1>00, <2>1, <2>2, <2>3 DEF FlushOK
<1>7. CASE FinalizeCollect
  BY <1>7 DEF FinalizeCollect, FlushOK, dataVars
<1>8. CASE FinalizeReturn
  BY <1>8 DEF FinalizeReturn, FlushOK, dataVars
<1>9. CASE UNCHANGED vars
  BY <1>9 DEF vars, FlushOK
<1> QED BY <1>1, <1>2, <1>3, <1>4, <1>5, <1>6, <1>7, <1>8, <1>9 DEF Next, Step

\* Whatever the filters release into each other while they are flushed, none
\* holds anything when finalize() returns.
THEOREM FiltersDrained == Spec => []DrainedWhenDone
<1>1. Init => FlushOK
  BY DEF Init, FlushOK
<1>2. FlushOK /\ TypeOK => DrainedWhenDone
  <2> SUFFICES ASSUME FlushOK, TypeOK, call = "done" PROVE Held = {} /\ transit = {}
    BY DEF DrainedWhenDone
  <2>1. DOMAIN filters = 1..Len(filters) /\ Len(filters) \in Nat
    BY ChainAssumption
  <2>2. flushing = Len(filters) + 1
    BY <2>1 DEF FlushOK, TypeOK
  <2>3. \A i \in DOMAIN filters : stored[i] = {}
    BY <2>1, <2>2 DEF FlushOK
  <2> QED BY <2>3 DEF FlushOK, Held
<1> QED BY <1>1, <1>2, DrainStep, TypeCorrect, PTL DEF Spec

-----------------------------------------------------------------------------
(* Time order                                                              *)

NotAfter(S, T) == \A x \in S, y \in T : timeStamp[x] <= timeStamp[y]

\* The filters that release what they hold.
Releases(i) == i \in DOMAIN filters /\ filters[i] # "eph"

\* The messages that filter k has let pass and that may be, or were, returned.
Behind(k) ==
  accepted \cup {m \in transit : next > k}
    \cup UNION {stored[i] : i \in {j \in DOMAIN filters : k < j /\ Releases(j)}}

\* Nothing will reach filter k any more.
Closed(k) ==
  /\ call \in {"finalize", "done"}
  /\ \A i \in DOMAIN filters : i <= k => stored[i] = {}
  /\ transit # {} => k < next

\* From the order filter k on, time order is the reverse of the order of the
\* filters, and of what filter k has released nothing is less than a window
\* older than what it holds.
InOrder(k) ==
  /\ \A i, j \in DOMAIN filters :
       k <= i /\ i < j /\ Releases(i) /\ Releases(j) => NotAfter(stored[j], stored[i])
  /\ \A i \in DOMAIN filters : k <= i /\ Releases(i) =>
       /\ NotAfter(accepted, stored[i])
       /\ k < next /\ i < next => NotAfter(transit, stored[i])
       /\ k < next /\ next <= i => NotAfter(stored[i], transit)
  /\ k < next => NotAfter(accepted, transit)
  /\ \/ \A x \in Behind(k) : \E n \in stored[k] : timeStamp[x] <= timeStamp[n] - Window
     \/ Closed(k)

\* The cross source filter c holds one epoch, which is later than all it has
\* let pass, and of that each PRN and epoch has one content.
OneVote(c) ==
  /\ \A m, n \in stored[c] : timeStamp[m] = timeStamp[n]
  /\ \A x \in Behind(c), y \in stored[c] : timeStamp[x] < timeStamp[y]
  /\ \A x, y \in Behind(c) :
       timeStamp[x] = timeStamp[y] /\ prn[x] = prn[y] => bits[x] = bits[y]
  /\ Behind(c) # {} => stored[c] # {} \/ Closed(c)

LEMMA StampType ==
  /\ Window \in Nat /\ Window > 0
  /\ \A m \in Msg : timeStamp[m] \in Nat
  BY WindowType, TimeStampType

\* What a filter other than LNavEphMaker passes on is not newer than what it
\* keeps, if what it is given is not older than what it held.
LEMMA FilterOrder ==
  ASSUME NEW i \in DOMAIN filters, Releases(i), NEW list, list \subseteq Msg, list # {},
         stored[i] \subseteq Msg, filters[i] # "order" => NotAfter(stored[i], list)
  PROVE  /\ Accepts(i, list) \subseteq stored[i] \cup list
         /\ Holds(i, list) \subseteq stored[i] \cup list
         /\ NotAfter(Accepts(i, list), Holds(i, list))
<1>0. \A m \in stored[i] \cup list : timeStamp[m] \in Nat
  BY StampType
<1>1. CASE filters[i] = "check"
  BY <1>1 DEF Accepts, Holds, CheckAccepted, NotAfter
<1>2. CASE filters[i] = "order"
  <2> DEFINE kept == OrderInsert(stored[i], list)
  <2>1. /\ Accepts(i, list) = OrderReleased(kept)
        /\ Holds(i, list) = kept \ OrderReleased(kept)
        /\ kept \subseteq stored[i] \cup list
    BY <1>2 DEF Accepts, Holds, OrderInsert
  <2>2. ASSUME NEW x \in OrderReleased(kept), NEW y \in kept \ OrderReleased(kept)
        PROVE  timeStamp[x] <= timeStamp[y]
    <3>1. PICK n \in kept : x \in kept /\ timeStamp[x] <= timeStamp[n] - Window
      BY DEF OrderReleased
    <3>2. ~(timeStamp[y] <= timeStamp[n] - Window)
      BY <3>1 DEF OrderReleased
    <3>3. timeStamp[x] \in Nat /\ timeStamp[y] \in Nat /\ timeStamp[n] \in Nat
      BY <1>0, <2>1, <3>1
    <3> QED BY <3>1, <3>2, <3>3, StampType
  <2> QED BY <2>1, <2>2 DEF NotAfter, OrderReleased
<1>3. CASE filters[i] = "cross"
  <2>1. /\ Accepts(i, list) = CrossAccepted(stored[i], list)
        /\ Holds(i, list) = Grouped(stored[i], list)
    BY <1>3 DEF Accepts, Holds
  <2>2. \A m \in list : /\ Collection(stored[i], list, m) \subseteq stored[i] \cup list
                        /\ \A n \in Collection(stored[i], list, m) : timeStamp[n] = timeStamp[m]
    BY DEF Collection, Epoch, Continues
  <2>3. PICK l \in Latest(list) : TRUE
    BY NewestExists DEF Latest
  <2>4. ASSUME NEW y \in Grouped(stored[i], list)
        PROVE  timeStamp[y] = timeStamp[l] /\ y \in stored[i] \cup list
    <3>1. PICK m \in Latest(list) : y \in Collection(stored[i], list, m)
      BY DEF Grouped
    <3>2. m \in list /\ timeStamp[m] = timeStamp[l]
      BY <1>0, <2>3, <3>1 DEF Latest
    <3> QED BY <2>2, <3>1, <3>2
  <2>5. ASSUME NEW x \in CrossAccepted(stored[i], list)
        PROVE  timeStamp[x] <= timeStamp[l] /\ x \in stored[i] \cup list
    <3>1. PICK e \in Examined(stored[i], list) : x \in e
      BY DEF CrossAccepted, Winners
    <3>2. CASE e = stored[i]
      BY <1>3, <2>3, <3>1, <3>2 DEF NotAfter, Latest
    <3>3. ASSUME NEW m \in list, e = Collection(stored[i], list, m)
          PROVE  timeStamp[x] <= timeStamp[l] /\ x \in stored[i] \cup list
      BY <2>2, <2>3, <3>1, <3>3 DEF Latest
    <3> QED BY <3>1, <3>2, <3>3 DEF Examined
  <2> QED BY <2>1, <2>4, <2>5 DEF NotAfter
<1> QED BY <1>1, <1>2, <1>3, ChainType DEF Releases

\* LNavEphMaker passes on part of the list.
LEMMA MakerPasses ==
  ASSUME NEW i \in DOMAIN filters, ~Releases(i), NEW list
  PROVE  Accepts(i, list) \subseteq list
  BY DEF Releases, Accepts, EphPassed

\* The order filter keeps the newest message, and lets pass only what is a
\* window behind it.
LEMMA OrderKeepsWindow ==
  ASSUME NEW i \in DOMAIN filters, filters[i] = "order", NEW list, list \subseteq Msg,
         list # {}, stored[i] \subseteq Msg
  PROVE  /\ \A x \in Accepts(i, list) :
              \E n \in Holds(i, list) : timeStamp[x] <= timeStamp[n] - Window
         /\ \A y \in stored[i] : \E n \in Holds(i, list) : timeStamp[y] <= timeStamp[n]
         /\ \A x \in Accepts(i, list) \cup Holds(i, list) :
              x \notin stored[i] => \A n \in stored[i] : timeStamp[n] - Window <= timeStamp[x]
<1> DEFINE kept == OrderInsert(stored[i], list)
<1>1. /\ Accepts(i, list) = OrderReleased(kept)
      /\ Holds(i, list) = kept \ OrderReleased(kept)
      /\ OrderReleased(kept) \subseteq kept
      /\ stored[i] \subseteq kept /\ kept \subseteq Msg
  BY DEF Accepts, Holds, OrderInsert, OrderReleased
<1>2. \A m \in kept : timeStamp[m] \in Nat
  BY <1>1, StampType
<1>3. \A x \in kept : x \notin stored[i] =>
        \A n \in stored[i] : timeStamp[n] - Window <= timeStamp[x]
  <2> SUFFICES ASSUME NEW x \in kept, x \notin stored[i], NEW n \in stored[i]
               PROVE  timeStamp[n] - Window <= timeStamp[x]
    OBVIOUS
  <2>1. ~(timeStamp[x] < timeStamp[n] - Window)
    BY DEF OrderInsert, OrderTooOld
  <2>2. timeStamp[x] \in Nat /\ timeStamp[n] \in Nat
    BY <1>1, <1>2
  <2> QED BY <2>1, <2>2, StampType
<1>4. CASE kept = {}
  BY <1>1, <1>3, <1>4
<1>5. CASE kept # {}
  <2>1. PICK top \in kept : \A m \in kept : timeStamp[m] <= timeStamp[top]
    BY <1>1, <1>5, NewestExists
  <2>2. top \notin OrderReleased(kept)
    <3> SUFFICES ASSUME NEW n \in kept, timeStamp[top] <= timeStamp[n] - Window PROVE FALSE
      BY DEF OrderReleased
    <3>1. timeStamp[n] <= timeStamp[top] /\ timeStamp[n] \in Nat /\ timeStamp[top] \in Nat
      BY <1>2, <2>1
    <3> QED BY <3>1, StampType
  <2>3. ASSUME NEW x \in OrderReleased(kept) PROVE timeStamp[x] <= timeStamp[top] - Window
    <3>1. PICK n \in kept : timeStamp[x] <= timeStamp[n] - Window
      BY DEF OrderReleased
    <3>2. timeStamp[n] <= timeStamp[top] /\ timeStamp[n] \in Nat /\ timeStamp[top] \in Nat
          /\ timeStamp[x] \in Nat
      BY <1>1, <1>2, <2>1
    <3> QED BY <3>1, <3>2, StampType
  <2> QED BY <1>1, <1>3, <2>1, <2>2, <2>3
<1> QED BY <1>4, <1>5

-----------------------------------------------------------------------------
(* The steps of a cascade with an order filter                             *)

\* What filters beyond k hold or have in transit is theirs to lose: a call of
\* one of them puts nothing behind k that was not there.
LEMMA BehindShrinks ==
  ASSUME TypeOK, NEW k \in DOMAIN filters, NEW i \in DOMAIN filters, i = next, k < i,
         transit # {}, Releases(i) => NotAfter(stored[i], transit),
         CallFilter(i), next' = next + 1, accepted' = accepted
  PROVE  Behind(k)' \subseteq Behind(k)
<1>0. next \in Nat /\ k \in Nat /\ next < next + 1 /\ k < next + 1
  BY ChainType DEF TypeOK
<1>1. /\ transit' = Accepts(i, transit)
      /\ stored'[i] = Holds(i, transit)
      /\ \A j \in DOMAIN filters : j # i => stored'[j] = stored[j]
      /\ stored[i] \subseteq Msg /\ transit \subseteq Msg
  BY CallFilterLocal DEF CallFilter, TypeOK
<1>2. transit \subseteq Behind(k) /\ accepted \subseteq Behind(k)
  BY DEF Behind
<1>3. \A j \in DOMAIN filters : k < j /\ Releases(j) => stored[j] \subseteq Behind(k)
  BY DEF Behind
<1>4. transit' \subseteq Behind(k) /\ (Releases(i) => stored'[i] \subseteq Behind(k))
  <2>1. CASE Releases(i)
    <3>1. /\ Accepts(i, transit) \subseteq stored[i] \cup transit
          /\ Holds(i, transit) \subseteq stored[i] \cup transit
      BY <1>1, <2>1, FilterOrder
    <3> QED BY <1>1, <1>2, <1>3, <2>1, <3>1
  <2>2. CASE ~Releases(i)
    BY <1>1, <1>2, <2>2, MakerPasses
  <2> QED BY <2>1, <2>2
<1>5. \A j \in DOMAIN filters : k < j /\ Releases(j) => stored'[j] \subseteq Behind(k)
  BY <1>1, <1>3, <1>4
<1> QED BY <1>2, <1>4, <1>5 DEF Behind, Releases

\* A call of a filter keeps the order.
LEMMA CallInOrder ==
  ASSUME TypeOK, TypeOK', NEW k \in DOMAIN filters, filters[k] = "order", InOrder(k),
         NEW i \in DOMAIN filters, i = next, transit # {},
         CallFilter(i), next' = next + 1, accepted' = accepted, call' = call
  PROVE  InOrder(k)'
<1>0. k \in Nat /\ next' = i + 1 /\ \A j \in DOMAIN filters : j \in Nat
  BY ChainType
<1>1. /\ transit' = Accepts(i, transit)
      /\ stored'[i] = Holds(i, transit)
      /\ \A j \in DOMAIN filters : j # i => stored'[j] = stored[j]
      /\ \A j \in DOMAIN filters : stored[j] \subseteq Msg
      /\ transit \subseteq Msg /\ accepted \subseteq Msg
  BY CallFilterLocal DEF CallFilter, TypeOK
<1>2. \A a, b \in DOMAIN filters :
        k <= a /\ a < b /\ Releases(a) /\ Releases(b) => NotAfter(stored[b], stored[a])
  BY DEF InOrder
<1>3. \A j \in DOMAIN filters : k <= j /\ Releases(j) =>
        /\ NotAfter(accepted, stored[j])
        /\ k < i /\ j < i => NotAfter(transit, stored[j])
        /\ k < i /\ i <= j => NotAfter(stored[j], transit)
  BY DEF InOrder
<1>4. k < i => NotAfter(accepted, transit)
  BY DEF InOrder
<1>5. \/ \A x \in Behind(k) : \E n \in stored[k] : timeStamp[x] <= timeStamp[n] - Window
      \/ Closed(k)
  BY DEF InOrder
<1>6. CASE k < i
  <2>1. Releases(i) => /\ transit' \subseteq stored[i] \cup transit
                       /\ stored'[i] \subseteq stored[i] \cup transit
                       /\ NotAfter(transit', stored'[i])
    BY <1>0, <1>1, <1>3, <1>6, FilterOrder
  <2>2. ~Releases(i) => transit' \subseteq transit
    BY <1>1, MakerPasses
  <2>3. ASSUME NEW a \in DOMAIN filters, NEW b \in DOMAIN filters,
               k <= a, a < b, Releases(a), Releases(b)
        PROVE  NotAfter(stored'[b], stored'[a])
    <3>1. CASE a # i /\ b # i
      BY <1>1, <1>2, <2>3, <3>1
    <3>2. CASE a = i
      <4>1. NotAfter(stored[b], stored[i]) /\ NotAfter(stored[b], transit)
        BY <1>0, <1>2, <1>3, <1>6, <2>3, <3>2
      <4>2. stored'[b] = stored[b]
        BY <1>0, <1>1, <2>3, <3>2
      <4> QED BY <2>1, <2>3, <3>2, <4>1, <4>2 DEF NotAfter
    <3>3. CASE b = i
      <4>1. NotAfter(stored[i], stored[a]) /\ NotAfter(transit, stored[a])
        BY <1>0, <1>2, <1>3, <1>6, <2>3, <3>3
      <4>2. stored'[a] = stored[a]
        BY <1>0, <1>1, <2>3, <3>3
      <4> QED BY <2>1, <2>3, <3>3, <4>1, <4>2 DEF NotAfter
    <3> QED BY <3>1, <3>2, <3>3
  <2>4. ASSUME NEW j \in DOMAIN filters, k <= j, Releases(j)
        PROVE  /\ NotAfter(accepted, stored'[j])
               /\ j < next' => NotAfter(transit', stored'[j])
               /\ next' <= j => NotAfter(stored'[j], transit')
    <3>1. CASE j = i
      <4>1. NotAfter(accepted, stored[i]) /\ NotAfter(accepted, transit)
        BY <1>3, <1>4, <1>6, <2>4, <3>1
      <4>2. NotAfter(accepted, stored'[j])
        BY <2>1, <2>4, <3>1, <4>1 DEF NotAfter
      <4> QED BY <1>0, <2>1, <2>4, <3>1, <4>2
    <3>2. CASE j < i
      <4>1. /\ NotAfter(accepted, stored[j]) /\ NotAfter(transit, stored[j])
            /\ Releases(i) => NotAfter(stored[i], stored[j])
        BY <1>2, <1>3, <1>6, <2>4, <3>2
      <4>2. stored'[j] = stored[j]
        BY <1>0, <1>1, <3>2
      <4>3. NotAfter(transit', stored[j])
        BY <2>1, <2>2, <4>1 DEF NotAfter
      <4> QED BY <1>0, <3>2, <4>1, <4>2, <4>3
    <3>3. CASE i < j
      <4>1. /\ NotAfter(accepted, stored[j]) /\ NotAfter(stored[j], transit)
            /\ Releases(i) => NotAfter(stored[j], stored[i])
        BY <1>0, <1>2, <1>3, <1>6, <2>4, <3>3
      <4>2. stored'[j] = stored[j]
        BY <1>0, <1>1, <3>3
      <4>3. NotAfter(stored[j], transit')
        BY <2>1, <2>2, <4>1 DEF NotAfter
      <4> QED BY <1>0, <3>3, <4>1, <4>2, <4>3
    <3> QED BY <1>0, <3>1, <3>2, <3>3
  <2>5. NotAfter(accepted, transit')
    <3>1. Releases(i) => NotAfter(accepted, stored[i])
      BY <1>0, <1>3, <1>6
    <3> QED BY <1>4, <1>6, <2>1, <2>2, <3>1 DEF NotAfter
  <2>6. Behind(k)' \subseteq Behind(k)
    BY <1>0, <1>3, <1>6, BehindShrinks
  <2>7. Closed(k) => Closed(k)'
    BY <1>0, <1>1, <1>6 DEF Closed
  <2>8. stored'[k] = stored[k]
    BY <1>0, <1>1, <1>6
  <2>9. \/ \A x \in Behind(k)' : \E n \in stored'[k] : timeStamp[x] <= timeStamp[n] - Window
        \/ Closed(k)'
    BY <1>5, <2>6, <2>7, <2>8
  <2> QED BY <2>3, <2>4, <2>5, <2>9 DEF InOrder
<1>7. CASE k = i
  <2>1. \A x \in Behind(k) : \E n \in stored[k] : timeStamp[x] <= timeStamp[n] - Window
    BY <1>0, <1>5, <1>7 DEF Closed
  <2>2. /\ \A x \in transit' : \E n \in stored'[k] : timeStamp[x] <= timeStamp[n] - Window
        /\ \A y \in stored[k] : \E n \in stored'[k] : timeStamp[y] <= timeStamp[n]
        /\ \A z \in transit' \cup stored'[k] :
             z \notin stored[k] => \A n \in stored[k] : timeStamp[n] - Window <= timeStamp[z]
    BY <1>1, <1>7, OrderKeepsWindow
  <2>3. Releases(k)
    BY DEF Releases
  <2>4. /\ transit' \subseteq Msg /\ stored'[k] \subseteq Msg
        /\ NotAfter(transit', stored'[k])
    BY <1>1, <1>7, <2>3, FilterOrder
  <2>5. /\ accepted \subseteq Behind(k)
        /\ \A j \in DOMAIN filters : k < j /\ Releases(j) => stored[j] \subseteq Behind(k)
        /\ Behind(k) \subseteq Msg
    BY <1>1 DEF Behind
  <2>6. Behind(k) = accepted \cup UNION {stored[j] : j \in {a \in DOMAIN filters : k < a /\ Releases(a)}}
    BY <1>0, <1>7 DEF Behind
  <2>7. ASSUME NEW x \in Behind(k), NEW z \in transit' \cup stored'[k]
        PROVE  timeStamp[x] <= timeStamp[z]
    <3>1. CASE z \in stored[k]
      <4>1. CASE x \in accepted
        BY <1>0, <1>3, <2>3, <3>1, <4>1 DEF NotAfter
      <4>2. ASSUME NEW j \in DOMAIN filters, k < j, Releases(j), x \in stored[j]
            PROVE  timeStamp[x] <= timeStamp[z]
        BY <1>0, <1>2, <2>3, <3>1, <4>2 DEF NotAfter
      <4> QED BY <2>6, <4>1, <4>2
    <3>2. CASE z \notin stored[k]
      <4>1. PICK n \in stored[k] : timeStamp[x] <= timeStamp[n] - Window
        BY <2>1
      <4>2. timeStamp[n] - Window <= timeStamp[z]
        BY <2>2, <3>2
      <4>3. timeStamp[x] \in Nat /\ timeStamp[z] \in Nat /\ timeStamp[n] \in Nat
        BY <1>1, <2>4, <2>5, StampType
      <4> QED BY <4>1, <4>2, <4>3, StampType
    <3> QED BY <3>1, <3>2
  <2>8. \A a, b \in DOMAIN filters :
          k <= a /\ a < b /\ Releases(a) /\ Releases(b) => NotAfter(stored'[b], stored'[a])
    <3> SUFFICES ASSUME NEW a \in DOMAIN filters, NEW b \in DOMAIN filters,
                        k <= a, a < b, Releases(a), Releases(b)
                 PROVE  NotAfter(stored'[b], stored'[a])
      OBVIOUS
    <3>1. stored'[b] = stored[b] /\ k < b
      BY <1>0, <1>1, <1>7
    <3>2. CASE a = k
      BY <2>5, <2>7, <3>1, <3>2 DEF NotAfter
    <3>3. CASE a # k
      BY <1>1, <1>2, <1>7, <3>1, <3>3
    <3> QED BY <3>2, <3>3
  <2>9. \A j \in DOMAIN filters : k <= j /\ Releases(j) =>
          /\ NotAfter(accepted, stored'[j])
          /\ j < next' => NotAfter(transit', stored'[j])
          /\ next' <= j => NotAfter(stored'[j], transit')
    <3> SUFFICES ASSUME NEW j \in DOMAIN filters, k <= j, Releases(j)
                 PROVE  /\ NotAfter(accepted, stored'[j])
                        /\ j < next' => NotAfter(transit', stored'[j])
                        /\ next' <= j => NotAfter(stored'[j], transit')
      OBVIOUS
    <3>1. CASE j = k
      BY <1>0, <1>7, <2>4, <2>5, <2>7, <3>1 DEF NotAfter
    <3>2. CASE k < j
      <4>1. stored'[j] = stored[j] /\ stored[j] \subseteq Behind(k) /\ ~(j < next')
        BY <1>0, <1>1, <1>7, <2>5, <3>2
      <4> QED BY <1>3, <2>7, <4>1 DEF NotAfter
    <3> QED BY <1>0, <3>1, <3>2
  <2>10. NotAfter(accepted, transit')
    BY <2>5, <2>7 DEF NotAfter
  <2>11. \A x \in Behind(k)' : \E n \in stored'[k] : timeStamp[x] <= timeStamp[n] - Window
    <3> SUFFICES ASSUME NEW x \in Behind(k)'
                 PROVE  \E n \in stored'[k] : timeStamp[x] <= timeStamp[n] - Window
      OBVIOUS
    <3>1. x \in transit' \/ x \in Behind(k)
      <4>1. \A j \in DOMAIN filters : k < j => stored'[j] = stored[j]
        BY <1>0, <1>1, <1>7
      <4> QED BY <2>5, <4>1 DEF Behind
    <3>2. CASE x \in transit'
      BY <2>2, <3>2
    <3>3. CASE x \in Behind(k)
      <4>1. PICK y \in stored[k] : timeStamp[x] <= timeStamp[y] - Window
        BY <2>1, <3>3
      <4>2. PICK n \in stored'[k] : timeStamp[y] <= timeStamp[n]
        BY <2>2
      <4>3. timeStamp[x] \in Nat /\ timeStamp[y] \in Nat /\ timeStamp[n] \in Nat
        BY <1>1, <2>4, <2>5, <3>3, StampType
      <4> QED BY <4>1, <4>2, <4>3, StampType
    <3> QED BY <3>1, <3>2, <3>3
  <2> QED BY <2>8, <2>9, <2>10, <2>11 DEF InOrder
<1>8. CASE i < k
  <2>1. ~(k < next) /\ ~(k < next')
    BY <1>0, <1>8
  <2>2. \A j \in DOMAIN filters : k <= j => stored'[j] = stored[j]
    BY <1>0, <1>1, <1>8
  <2>3. stored'[k] = stored[k]
    BY <1>0, <2>2
  <2>4. Behind(k)' \subseteq Behind(k)
    BY <1>0, <2>1, <2>2 DEF Behind, Releases
  <2>5. ~Closed(k)
    BY <2>1 DEF Closed
  <2>6. \A a, b \in DOMAIN filters :
          k <= a /\ a < b /\ Releases(a) /\ Releases(b) => NotAfter(stored'[b], stored'[a])
    BY <1>0, <1>2, <2>2
  <2> QED BY <1>3, <1>5, <2>1, <2>2, <2>3, <2>4, <2>5, <2>6 DEF InOrder
<1> QED BY <1>0, <1>6, <1>7, <1>8

\* What is returned was the last of the cascade.
LEMMA ReturnInOrder ==
  ASSUME TypeOK, NEW k \in DOMAIN filters, InOrder(k),
         next \notin DOMAIN filters \/ transit = {},
         accepted' = accepted \cup transit, transit' = {}, next' = next,
         stored' = stored, Closed(k) => Closed(k)'
  PROVE  InOrder(k)'
<1>0. k \in Nat /\ next \in Nat /\ \A j \in DOMAIN filters : next \notin DOMAIN filters => j < next
  BY ChainAssumption DEF TypeOK
<1>1. \A j \in DOMAIN filters : k <= j /\ Releases(j) => NotAfter(accepted', stored[j])
  BY <1>0 DEF InOrder, NotAfter
<1>2. Behind(k)' \subseteq Behind(k)
  BY <1>0 DEF Behind, Releases
<1> QED BY <1>1, <1>2 DEF InOrder, NotAfter

\* A filter that is flushed sends what it held after what it has released, and
\* before what the filters before it hold: nothing.
LEMMA FlushInOrder ==
  ASSUME TypeOK, FlushOK, NEW k \in DOMAIN filters, InOrder(k), FinalizeFilter
  PROVE  InOrder(k)'
<1> DEFINE i == flushing
<1>0. /\ k \in Nat /\ i \in DOMAIN filters /\ \A j \in DOMAIN filters : j \in Nat
      /\ next' = i + 1 /\ transit = {} /\ accepted' = accepted
      /\ call = "finalize" /\ call' = "finalize"
  BY ChainType DEF FinalizeFilter
<1>1. /\ \A j \in DOMAIN filters : j # i => stored'[j] = stored[j]
      /\ stored'[i] = {}
      /\ transit' \subseteq stored[i]
      /\ Releases(i) \/ transit' = {}
  BY <1>0 DEF FinalizeFilter, TypeOK, Winners, Releases
<1>2. \A j \in DOMAIN filters : j < i => stored[j] = {}
  BY <1>0 DEF FlushOK
<1>3. \A a, b \in DOMAIN filters :
        k <= a /\ a < b /\ Releases(a) /\ Releases(b) => NotAfter(stored[b], stored[a])
  BY DEF InOrder
<1>4. \A j \in DOMAIN filters : k <= j /\ Releases(j) => NotAfter(accepted, stored[j])
  BY DEF InOrder
<1>5. \A j \in DOMAIN filters : stored'[j] = {} \/ stored'[j] = stored[j]
  BY <1>1
<1>6. \A a, b \in DOMAIN filters :
        k <= a /\ a < b /\ Releases(a) /\ Releases(b) => NotAfter(stored'[b], stored'[a])
  BY <1>3, <1>5 DEF NotAfter
<1>7. \A j \in DOMAIN filters : k <= j /\ Releases(j) =>
        /\ NotAfter(accepted, stored'[j])
        /\ k < next' /\ j < next' => NotAfter(transit', stored'[j])
        /\ k < next' /\ next' <= j => NotAfter(stored'[j], transit')
  <2> SUFFICES ASSUME NEW j \in DOMAIN filters, k <= j, Releases(j)
               PROVE  /\ NotAfter(accepted, stored'[j])
                      /\ k < next' /\ j < next' => NotAfter(transit', stored'[j])
                      /\ k < next' /\ next' <= j => NotAfter(stored'[j], transit')
    OBVIOUS
  <2>1. NotAfter(accepted, stored'[j])
    BY <1>4, <1>5 DEF NotAfter
  <2>2. j < next' => stored'[j] = {}
    BY <1>0, <1>1, <1>2
  <2>3. ASSUME k < next', next' <= j PROVE NotAfter(stored'[j], transit')
    <3>1. k <= i /\ i < j
      BY <1>0, <2>3
    <3>2. Releases(i) => NotAfter(stored[j], stored[i])
      BY <1>0, <1>3, <3>1
    <3> QED BY <1>1, <1>5, <3>2 DEF NotAfter
  <2> QED BY <2>1, <2>2, <2>3 DEF NotAfter
<1>8. k < next' => NotAfter(accepted, transit')
  <2> SUFFICES ASSUME k < next' PROVE NotAfter(accepted, transit')
    OBVIOUS
  <2>1. k <= i
    BY <1>0
  <2> QED BY <1>0, <1>1, <1>4, <2>1 DEF NotAfter
<1>9. \/ \A x \in Behind(k)' : \E n \in stored'[k] : timeStamp[x] <= timeStamp[n] - Window
      \/ Closed(k)'
  <2>1. CASE k <= i
    <3>1. \A j \in DOMAIN filters : j <= k => stored'[j] = {}
      BY <1>0, <1>1, <1>2, <2>1
    <3> QED BY <1>0, <2>1, <3>1 DEF Closed
  <2>2. CASE i < k
    <3>1. Behind(k)' \subseteq Behind(k)
      BY <1>0, <1>5, <2>2 DEF Behind, Releases
    <3>2. stored'[k] = stored[k]
      BY <1>0, <1>1, <2>2
    <3>3. Closed(k) => Closed(k)'
      <4> SUFFICES ASSUME Closed(k) PROVE Closed(k)'
        OBVIOUS
      <4>1. stored[i] = {} /\ \A j \in DOMAIN filters : j <= k => stored[j] = {}
        BY <1>0, <2>2 DEF Closed
      <4>2. transit' = {}
        BY <1>1, <4>1
      <4> QED BY <1>0, <1>5, <4>1, <4>2 DEF Closed
    <3> QED BY <3>1, <3>2, <3>3 DEF InOrder
  <2> QED BY <1>0, <2>1, <2>2
<1> QED BY <1>0, <1>6, <1>7, <1>8, <1>9 DEF InOrder

LEMMA OrderStep ==
  ASSUME TypeOK, TypeOK', FlushOK, NEW k \in DOMAIN filters, filters[k] = "order",
         InOrder(k), [Next]_vars
  PROVE  InOrder(k)'
<1>0. k \in Nat /\ 1 <= k
  BY ChainAssumption
<1>1. ASSUME NEW m \in Msg, Validate(m) PROVE InOrder(k)'
  <2>1. next' = 1 /\ stored' = stored /\ accepted' = accepted /\ ~Closed(k)
    BY <1>1 DEF Validate, Closed
  <2>2. ~(k < next')
    BY <1>0, <2>1
  <2>3. Behind(k)' \subseteq Behind(k)
    BY <2>1, <2>2 DEF Behind, Releases
  <2> QED BY <2>1, <2>2, <2>3 DEF InOrder
<1>2. CASE ValidateFilter
  BY <1>2, CallInOrder DEF ValidateFilter
<1>3. CASE ValidateReturn
  BY <1>3, ReturnInOrder DEF ValidateReturn, Closed, dataVars
<1>4. CASE Finalize
  <2>1. Behind(k)' = Behind(k)
    BY <1>4 DEF Finalize, Behind, Releases
  <2>2. Closed(k) => Closed(k)'
    BY <1>4 DEF Finalize, Closed
  <2> QED BY <1>4, <2>1, <2>2 DEF Finalize, InOrder
<1>5. CASE FinalizeFilter
  BY <1>5, FlushInOrder
<1>6. CASE FinalizeCascade
  BY <1>6, CallInOrder DEF FinalizeCascade
<1>7. CASE FinalizeCollect
  BY <1>7, ReturnInOrder DEF FinalizeCollect, Closed, dataVars
<1>8. CASE FinalizeReturn
  <2>1. Behind(k)' = Behind(k)
    BY <1>8 DEF FinalizeReturn, Behind, Releases, dataVars
  <2>2. Closed(k) => Closed(k)'
    BY <1>8 DEF FinalizeReturn, Closed, dataVars
  <2> QED BY <1>8, <2>1, <2>2 DEF FinalizeReturn, InOrder, dataVars
<1>9. CASE UNCHANGED vars
  BY <1>9 DEF vars, InOrder, Behind, Closed, Releases
<1> QED BY <1>1, <1>2, <1>3, <1>4, <1>5, <1>6, <1>7, <1>8, <1>9 DEF Next, Step

LEMMA OrderInit ==
  ASSUME Init, NEW k \in DOMAIN filters
  PROVE  InOrder(k)
<1>1. /\ \A i \in DOMAIN filters : stored[i] = {}
      /\ accepted = {} /\ transit = {}
  BY DEF Init
<1>2. Behind(k) = {}
  BY <1>1 DEF Behind
<1> QED BY <1>1, <1>2 DEF InOrder, NotAfter

LEMMA FlushInvariance == Spec => []FlushOK
<1>1. Init => FlushOK
  BY DEF Init, FlushOK
<1> QED BY <1>1, DrainStep, TypeCorrect, PTL DEF Spec

LEMMA OrderInvariance ==
  ASSUME NEW k \in DOMAIN filters, filters[k] = "order"
  PROVE  Spec => []InOrder(k)
<1>1. Init => InOrder(k)
  BY OrderInit
<1>2. TypeOK /\ TypeOK' /\ FlushOK /\ InOrder(k) /\ [Next]_vars => InOrder(k)'
  BY OrderStep
<1> QED BY <1>1, <1>2, TypeCorrect, FlushInvariance, PTL DEF Spec

\* If there is an order filter in the cascade, the application gets messages in
\* time order, whatever filters come before and after it.
THEOREM OrderReturned ==
  ASSUME NEW k \in DOMAIN filters, filters[k] = "order"
  PROVE  Spec => ReturnedInTimeOrder
<1> DEFINE InTime == \A m \in accepted' \ accepted, n \in accepted : timeStamp[n] <= timeStamp[m]
<1>1. TypeOK /\ InOrder(k) /\ [Next]_vars => [InTime]_vars
  <2> SUFFICES ASSUME TypeOK, InOrder(k), [Next]_vars,
                      NEW m \in accepted' \ accepted, NEW n \in accepted
               PROVE  timeStamp[n] <= timeStamp[m]
    OBVIOUS
  <2>1. m \in transit /\ next \notin DOMAIN filters
    BY DEF Next, Step, Validate, ValidateFilter, ValidateReturn, Finalize, FinalizeFilter,
           FinalizeCascade, FinalizeCollect, FinalizeReturn, vars
  <2>2. k < next
    BY <2>1, ChainAssumption DEF TypeOK
  <2> QED BY <2>1, <2>2 DEF InOrder, NotAfter
<1>2. [][InTime]_vars => ReturnedInTimeOrder
  BY PTL DEF ReturnedInTimeOrder
<1> QED BY <1>1, <1>2, OrderInvariance, TypeCorrect, PTL DEF Spec

-----------------------------------------------------------------------------
(* An order filter before a cross source filter                            *)

\* A cross source filter that is given nothing older than what it holds keeps
\* the last epoch and lets each earlier one pass with one content per PRN.
LEMMA CrossVotes ==
  ASSUME NEW i \in DOMAIN filters, filters[i] = "cross", NEW list, list \subseteq Msg, list # {},
         stored[i] \subseteq Msg, \A m, n \in stored[i] : timeStamp[m] = timeStamp[n],
         NotAfter(stored[i], list)
  PROVE  /\ Holds(i, list) # {}
         /\ \A m, n \in Holds(i, list) : timeStamp[m] = timeStamp[n]
         /\ \A x \in Accepts(i, list), y \in Holds(i, list) : timeStamp[x] < timeStamp[y]
         /\ \A x, y \in Accepts(i, list) :
              timeStamp[x] = timeStamp[y] /\ prn[x] = prn[y] => bits[x] = bits[y]
<1> DEFINE held == stored[i]
<1>0. \A m \in held \cup list : timeStamp[m] \in Nat
  BY StampType
<1>1. Accepts(i, list) = CrossAccepted(held, list) /\ Holds(i, list) = Grouped(held, list)
  BY DEF Accepts, Holds
<1>2. PICK l \in Latest(list) : TRUE
  BY NewestExists DEF Latest
<1>3. \A m \in list : /\ m \in Collection(held, list, m)
                      /\ Collection(held, list, m) \subseteq held \cup list
                      /\ \A n \in Collection(held, list, m) : timeStamp[n] = timeStamp[m]
  BY DEF Collection, Epoch, Continues
<1>4. \A m \in Latest(list) : m \in list /\ timeStamp[m] = timeStamp[l]
  BY <1>0, <1>2 DEF Latest
<1>5. \A y \in Grouped(held, list) : timeStamp[y] = timeStamp[l]
  BY <1>3, <1>4 DEF Grouped
<1>6. l \in Grouped(held, list)
  BY <1>2, <1>3, <1>4 DEF Grouped
<1>7. ASSUME NEW e \in Examined(held, list)
      PROVE  e \subseteq Msg /\ \A x \in e : timeStamp[x] < timeStamp[l]
  <2>1. CASE e = held /\ ~Continues(held, list)
    <3>1. PICK a \in held, b \in Earliest(list) : timeStamp[a] # timeStamp[b]
      BY <2>1 DEF Continues
    <3>2. b \in list /\ l \in list /\ timeStamp[b] <= timeStamp[l] /\ timeStamp[a] <= timeStamp[b]
      BY <1>2, <1>4, <3>1 DEF Earliest, NotAfter
    <3>3. timeStamp[a] < timeStamp[l]
      BY <1>0, <3>1, <3>2
    <3> QED BY <2>1, <3>1, <3>3
  <2>2. ASSUME NEW m \in list \ Latest(list), e = Collection(held, list, m)
        PROVE  e \subseteq Msg /\ \A x \in e : timeStamp[x] < timeStamp[l]
    <3>1. timeStamp[m] < timeStamp[l]
      <4>1. PICK n \in list : ~(timeStamp[n] <= timeStamp[m])
        BY <2>2 DEF Latest
      <4>2. timeStamp[n] <= timeStamp[l] /\ l \in list
        BY <1>2 DEF Latest
      <4> QED BY <1>0, <4>1, <4>2
    <3> QED BY <1>3, <2>2, <3>1
  <2> QED BY <2>1, <2>2 DEF Examined
<1>8. ASSUME NEW x \in CrossAccepted(held, list)
      PROVE  \E e \in Examined(held, list) : x \in e /\ x \in Winners(e)
  BY DEF CrossAccepted, Winners
<1>9. ASSUME NEW x \in CrossAccepted(held, list), NEW y \in CrossAccepted(held, list),
             timeStamp[x] = timeStamp[y], prn[x] = prn[y]
      PROVE  bits[x] = bits[y]
  <2>1. PICK d \in Examined(held, list) : x \in d /\ x \in Winners(d)
    BY <1>8
  <2>2. PICK e \in Examined(held, list) : y \in e /\ y \in Winners(e)
    BY <1>8
  <2>3. d = e
    <3>1. \A m \in list, n \in held : timeStamp[n] <= timeStamp[m]
      BY DEF NotAfter
    <3> QED BY <1>9, <2>1, <2>2, <3>1, CollectionsDiffer
  <2> QED BY <1>7, <1>9, <2>1, <2>2, <2>3, WinnersAgree
<1>10. \A x \in CrossAccepted(held, list) : timeStamp[x] < timeStamp[l]
  BY <1>7, <1>8
<1> QED BY <1>1, <1>5, <1>6, <1>9, <1>10

LEMMA CallOneVote ==
  ASSUME TypeOK, TypeOK', NEW k \in DOMAIN filters, NEW c \in DOMAIN filters, k < c,
         filters[c] = "cross", InOrder(k), OneVote(c),
         NEW i \in DOMAIN filters, i = next, transit # {},
         CallFilter(i), next' = next + 1, accepted' = accepted, call' = call
  PROVE  OneVote(c)'
<1>0. k \in Nat /\ c \in Nat /\ next' = i + 1 /\ \A j \in DOMAIN filters : j \in Nat
  BY ChainType
<1>1. /\ transit' = Accepts(i, transit)
      /\ stored'[i] = Holds(i, transit)
      /\ \A j \in DOMAIN filters : j # i => stored'[j] = stored[j]
      /\ \A j \in DOMAIN filters : stored[j] \subseteq Msg
      /\ transit \subseteq Msg /\ accepted \subseteq Msg
  BY CallFilterLocal DEF CallFilter, TypeOK
<1>2. Releases(c)
  BY DEF Releases
<1>3. CASE c = i
  <2>1. NotAfter(stored[c], transit)
    BY <1>0, <1>2, <1>3 DEF InOrder
  <2>2. \A m, n \in stored[c] : timeStamp[m] = timeStamp[n]
    BY DEF OneVote
  <2>3. /\ stored'[c] # {}
        /\ \A m, n \in stored'[c] : timeStamp[m] = timeStamp[n]
        /\ \A x \in transit', y \in stored'[c] : timeStamp[x] < timeStamp[y]
        /\ \A x, y \in transit' :
             timeStamp[x] = timeStamp[y] /\ prn[x] = prn[y] => bits[x] = bits[y]
    BY <1>1, <1>3, <2>1, <2>2, CrossVotes
  <2>4. transit' \cup stored'[c] \subseteq stored[c] \cup transit
    BY <1>1, <1>2, <1>3, <2>1, FilterOrder
  <2>5. ASSUME NEW x \in Behind(c), NEW z \in stored[c] \cup transit
        PROVE  timeStamp[x] < timeStamp[z]
    <3>1. stored[c] # {}
      BY <1>0, <1>3 DEF OneVote, Closed
    <3>2. PICK y \in stored[c] : TRUE
      BY <3>1
    <3>3. timeStamp[x] < timeStamp[y] /\ (z \in stored[c] => timeStamp[x] < timeStamp[z])
      BY DEF OneVote
    <3>4. z \in transit => timeStamp[y] <= timeStamp[z]
      BY <2>1 DEF NotAfter
    <3>5. x \in Msg /\ y \in Msg /\ z \in Msg
      BY <1>1 DEF Behind
    <3> QED BY <3>3, <3>4, <3>5, StampType
  <2>6. Behind(c)' \subseteq Behind(c) \cup transit'
    <3>1. \A j \in DOMAIN filters : c < j => stored'[j] = stored[j]
      BY <1>0, <1>1, <1>3
    <3> QED BY <3>1 DEF Behind, Releases
  <2>7. \A x \in Behind(c)', y \in stored'[c] : timeStamp[x] < timeStamp[y]
    BY <2>3, <2>4, <2>5, <2>6
  <2>8. \A x, y \in Behind(c)' :
          timeStamp[x] = timeStamp[y] /\ prn[x] = prn[y] => bits[x] = bits[y]
    <3> SUFFICES ASSUME NEW x \in Behind(c)', NEW y \in Behind(c)',
                        timeStamp[x] = timeStamp[y], prn[x] = prn[y]
                 PROVE  bits[x] = bits[y]
      OBVIOUS
    <3>1. timeStamp[x] \in Nat /\ timeStamp[y] \in Nat
      <4>1. Behind(c) \subseteq Msg
        BY <1>1 DEF Behind
      <4>2. x \in Msg /\ y \in Msg
        BY <1>1, <2>4, <2>6, <4>1
      <4> QED BY <4>2, StampType
    <3>2. CASE x \in Behind(c) /\ y \in Behind(c)
      BY <3>2 DEF OneVote
    <3>3. CASE x \in transit' /\ y \in transit'
      BY <2>3, <3>3
    <3>4. CASE x \in Behind(c) /\ y \in transit'
      BY <2>4, <2>5, <3>1, <3>4
    <3>5. CASE x \in transit' /\ y \in Behind(c)
      BY <2>4, <2>5, <3>1, <3>5
    <3> QED BY <2>6, <3>2, <3>3, <3>4, <3>5
  <2> QED BY <2>3, <2>7, <2>8 DEF OneVote
<1>4. CASE c < i
  <2>1. stored'[c] = stored[c]
    BY <1>0, <1>1, <1>4
  <2>2. Releases(i) => NotAfter(stored[i], transit)
    BY <1>0, <1>4 DEF InOrder
  <2>3. Behind(c)' \subseteq Behind(c)
    BY <1>4, <2>2, BehindShrinks
  <2>4. Closed(c) => Closed(c)'
    BY <1>0, <1>1, <1>4 DEF Closed
  <2> QED BY <2>1, <2>3, <2>4 DEF OneVote
<1>5. CASE i < c
  <2>1. \A j \in DOMAIN filters : c <= j => stored'[j] = stored[j]
    BY <1>0, <1>1, <1>5
  <2>2. Behind(c)' \subseteq Behind(c)
    BY <1>0, <1>5, <2>1 DEF Behind, Releases
  <2>3. stored'[c] = stored[c] /\ ~Closed(c)
    BY <1>0, <1>5, <2>1 DEF Closed
  <2> QED BY <2>2, <2>3 DEF OneVote
<1> QED BY <1>0, <1>3, <1>4, <1>5

\* A flushed collection is the last of its epoch.
LEMMA FlushOneVote ==
  ASSUME TypeOK, FlushOK, NEW c \in DOMAIN filters, filters[c] = "cross", OneVote(c),
         FinalizeFilter
  PROVE  OneVote(c)'
<1> DEFINE i == flushing
<1>0. /\ c \in Nat /\ i \in DOMAIN filters /\ \A j \in DOMAIN filters : j \in Nat
      /\ next' = i + 1 /\ transit = {} /\ accepted' = accepted
      /\ call = "finalize" /\ call' = "finalize"
  BY ChainType DEF FinalizeFilter
<1>1. /\ \A j \in DOMAIN filters : j # i => stored'[j] = stored[j]
      /\ stored'[i] = {}
      /\ transit' \subseteq stored[i]
      /\ Releases(i) \/ transit' = {}
      /\ \A j \in DOMAIN filters : stored[j] \subseteq Msg
  BY <1>0 DEF FinalizeFilter, TypeOK, Winners, Releases
<1>2. \A j \in DOMAIN filters : j < i => stored[j] = {}
  BY <1>0 DEF FlushOK
<1>3. CASE i = c
  <2>1. stored'[c] = {} /\ Closed(c)'
    BY <1>0, <1>1, <1>2, <1>3 DEF Closed
  <2>2. transit' = Winners(stored[c])
    BY <1>3 DEF FinalizeFilter
  <2>3. Behind(c)' \subseteq Behind(c) \cup Winners(stored[c])
    <3>1. \A j \in DOMAIN filters : c < j => stored'[j] = stored[j]
      BY <1>0, <1>1, <1>3
    <3> QED BY <1>0, <2>2, <3>1 DEF Behind, Releases
  <2>4. Winners(stored[c]) \subseteq stored[c]
    BY DEF Winners
  <2>5. \A x, y \in Behind(c)' :
          timeStamp[x] = timeStamp[y] /\ prn[x] = prn[y] => bits[x] = bits[y]
    <3> SUFFICES ASSUME NEW x \in Behind(c)', NEW y \in Behind(c)',
                        timeStamp[x] = timeStamp[y], prn[x] = prn[y]
                 PROVE  bits[x] = bits[y]
      OBVIOUS
    <3>0. timeStamp[x] \in Nat /\ timeStamp[y] \in Nat
      <4>1. Behind(c) \subseteq Msg
        BY <1>1, <1>0 DEF Behind, TypeOK
      <4> QED BY <1>1, <2>3, <2>4, <4>1, StampType
    <3>1. CASE x \in Behind(c) /\ y \in Behind(c)
      BY <3>1 DEF OneVote
    <3>2. CASE x \in Winners(stored[c]) /\ y \in Winners(stored[c])
      BY <1>1, <2>4, <3>2, WinnersAgree
    <3>3. CASE x \in Behind(c) /\ y \in Winners(stored[c])
      BY <2>4, <3>0, <3>3 DEF OneVote
    <3>4. CASE x \in Winners(stored[c]) /\ y \in Behind(c)
      BY <2>4, <3>0, <3>4 DEF OneVote
    <3> QED BY <2>3, <3>1, <3>2, <3>3, <3>4
  <2> QED BY <2>1, <2>5 DEF OneVote
<1>4. CASE c < i
  <2>1. stored'[c] = stored[c]
    BY <1>0, <1>1, <1>4
  <2>2. Behind(c)' \subseteq Behind(c)
    BY <1>0, <1>1, <1>4 DEF Behind, Releases
  <2>3. Closed(c)'
    <3>1. \A j \in DOMAIN filters : j <= c => stored'[j] = {}
      BY <1>0, <1>1, <1>2, <1>4
    <3> QED BY <1>0, <1>4, <3>1 DEF Closed
  <2> QED BY <2>1, <2>2, <2>3 DEF OneVote
<1>5. CASE i < c
  <2>1. \A j \in DOMAIN filters : c <= j => stored'[j] = stored[j]
    BY <1>0, <1>1, <1>5
  <2>2. Behind(c)' \subseteq Behind(c)
    BY <1>0, <1>5, <2>1 DEF Behind, Releases
  <2>3. Closed(c) => Closed(c)'
    <3> SUFFICES ASSUME Closed(c) PROVE Closed(c)'
      OBVIOUS
    <3>1. stored[i] = {} /\ \A j \in DOMAIN filters : j <= c => stored[j] = {}
      BY <1>0, <1>5 DEF Closed
    <3>2. transit' = {} /\ \A j \in DOMAIN filters : j <= c => stored'[j] = {}
      BY <1>1, <3>1
    <3> QED BY <1>0, <3>2 DEF Closed
  <2> QED BY <1>0, <2>1, <2>2, <2>3 DEF OneVote
<1> QED BY <1>0, <1>3, <1>4, <1>5

LEMMA VoteStep ==
  ASSUME TypeOK, TypeOK', FlushOK, NEW k \in DOMAIN filters, NEW c \in DOMAIN filters, k < c,
         filters[c] = "cross", InOrder(k), OneVote(c), [Next]_vars
  PROVE  OneVote(c)'
<1>0. c \in Nat /\ 1 <= c
  BY ChainAssumption
<1>1. ASSUME NEW m \in Msg, Validate(m) PROVE OneVote(c)'
  <2>1. next' = 1 /\ stored' = stored /\ accepted' = accepted /\ ~Closed(c)
    BY <1>1 DEF Validate, Closed
  <2>2. ~(c < next')
    BY <1>0, <2>1
  <2>3. Behind(c)' \subseteq Behind(c)
    BY <2>1, <2>2 DEF Behind, Releases
  <2> QED BY <2>1, <2>3 DEF OneVote
<1>2. CASE ValidateFilter
  BY <1>2, CallOneVote DEF ValidateFilter
<1>3. ASSUME next \notin DOMAIN filters \/ transit = {}, Closed(c) => Closed(c)',
             accepted' = accepted \cup transit, transit' = {}, next' = next, stored' = stored
      PROVE  OneVote(c)'
  <2>1. next \notin DOMAIN filters => c < next
    BY ChainAssumption DEF TypeOK
  <2>2. Behind(c)' \subseteq Behind(c)
    BY <1>3, <2>1 DEF Behind, Releases
  <2> QED BY <1>3, <2>2 DEF OneVote
<1>4. CASE ValidateReturn
  BY <1>3, <1>4 DEF ValidateReturn, Closed, dataVars
<1>5. CASE FinalizeFilter
  BY <1>5, FlushOneVote
<1>6. CASE FinalizeCascade
  BY <1>6, CallOneVote DEF FinalizeCascade
<1>7. CASE FinalizeCollect
  BY <1>3, <1>7 DEF FinalizeCollect, Closed, dataVars
<1>8. CASE Finalize \/ FinalizeReturn \/ UNCHANGED vars
  <2>1. Behind(c)' = Behind(c) /\ stored' = stored
    BY <1>8 DEF Finalize, FinalizeReturn, vars, dataVars, Behind, Releases
  <2>2. Closed(c) => Closed(c)'
    BY <1>8 DEF Finalize, FinalizeReturn, vars, dataVars, Closed
  <2> QED BY <2>1, <2>2 DEF OneVote
<1> QED BY <1>1, <1>2, <1>4, <1>5, <1>6, <1>7, <1>8 DEF Next, Step

\* If an order filter comes before a cross source filter, with whatever filters
\* before, between and after them, each epoch is voted on once.
THEOREM OneContentReturned ==
  ASSUME NEW k \in DOMAIN filters, filters[k] = "order",
         NEW c \in DOMAIN filters, filters[c] = "cross", k < c
  PROVE  Spec => []OneContentPerEpoch
<1>1. Init => OneVote(c)
  <2> SUFFICES ASSUME Init PROVE OneVote(c)
    OBVIOUS
  <2>1. Behind(c) = {} /\ stored[c] = {}
    BY DEF Init, Behind
  <2> QED BY <2>1 DEF OneVote
<1>2. TypeOK /\ TypeOK' /\ FlushOK /\ InOrder(k) /\ OneVote(c) /\ [Next]_vars => OneVote(c)'
  BY VoteStep
<1>3. OneVote(c) => OneContentPerEpoch
  BY DEF OneVote, OneContentPerEpoch, Behind
<1>4. Spec => []InOrder(k)
  BY OrderInvariance
<1> QED BY <1>1, <1>2, <1>3, <1>4, TypeCorrect, FlushInvariance, PTL DEF Spec
-----------------------------------------------------------------------------
(* The epochs in use                                                       *)

Stamps(S) == {timeStamp[m] : m \in S}

\* What a filter holds, whatever call is in progress.
Shape ==
  \A i \in DOMAIN filters :
    /\ filters[i] = "check" => stored[i] = {}
    /\ filters[i] = "order" => \A m, n \in stored[i] : timeStamp[n] - timeStamp[m] < Window
    /\ filters[i] = "cross" => \A m, n \in stored[i] : timeStamp[m] = timeStamp[n]
    /\ filters[i] = "eph"   => /\ \A m \in stored[i] : sfid[m] \in 1..3
                               /\ \A m, n \in stored[i] : SameSlot(m, n) => m = n

\* The time stamps of some messages are no more than the messages.
LEMMA StampsCount ==
  ASSUME NEW S, S \subseteq Msg
  PROVE  /\ IsFiniteSet(S) /\ IsFiniteSet(Stamps(S))
         /\ Cardinality(S) \in Nat /\ Cardinality(Stamps(S)) \in Nat
         /\ Cardinality(Stamps(S)) <= Cardinality(S)
<1>1. IsFiniteSet(S) /\ Cardinality(S) \in Nat
  BY FiniteAssumption, FS_Subset, FS_CardinalityType
<1> DEFINE f == [m \in S |-> timeStamp[m]]
<1>2. f \in Surjection(S, Stamps(S))
  BY DEF Surjection, Stamps
<1> HIDE DEF f
<1>3. IsFiniteSet(Stamps(S)) /\ Cardinality(Stamps(S)) <= Cardinality(S)
  BY <1>1, <1>2, FS_Surjection
<1> QED BY <1>1, <1>3, FS_CardinalityType

LEMMA StampsOfSubset ==
  ASSUME NEW S, NEW T, T \subseteq Msg, S \subseteq T
  PROVE  Cardinality(Stamps(S)) <= Cardinality(Stamps(T))
<1>1. Stamps(S) \subseteq Stamps(T) /\ IsFiniteSet(Stamps(T))
  BY StampsCount DEF Stamps
<1> QED BY <1>1, FS_Subset

\* A product by a positive number orders as its factor does.
LEMMA FactorOrder ==
  ASSUME NEW a \in Int, NEW b \in Int, NEW e \in Nat, e > 0, a * e < b * e
  PROVE  a < b
<1> SUFFICES ASSUME b <= a PROVE FALSE
  OBVIOUS
<1>1. a - b \in Nat
  OBVIOUS
<1>2. (a - b) * e >= 0
  BY <1>1
<1>3. (a - b) * e = a * e - b * e
  OBVIOUS
<1>4. a * e \in Int /\ b * e \in Int
  OBVIOUS
<1> QED BY <1>2, <1>3, <1>4

\* Messages less than a window apart span at most procDepth epochs.
LEMMA WindowEpochs ==
  ASSUME Aligned, NEW S, S \subseteq Msg,
         \A m, n \in S : timeStamp[n] - timeStamp[m] < Window
  PROVE  Cardinality(Stamps(S)) <= procDepth
<1> DEFINE e == epochInSeconds
           d == procDepth
<1>1. /\ d \in Nat /\ d > 0 /\ e \in Nat /\ e > 0 /\ Window = e * d
  BY DepthAssumption DEF Window
<1>2. CASE S = {}
  <2>1. Cardinality(Stamps(S)) = 0
    BY <1>2, FS_EmptySet DEF Stamps
  <2> QED BY <1>1, <2>1
<1>3. CASE S # {}
  <2>1. PICK o \in S : \A m \in S : timeStamp[o] <= timeStamp[m]
    BY <1>3, OldestExists
  <2>2. PICK k \in Nat : timeStamp[o] = k * e
    BY <2>1, TimeStampType DEF Aligned
  <2> DEFINE f == [j \in 0..(d - 1) |-> (k + j) * e]
             T == {(k + j) * e : j \in 0..(d - 1)}
  <2>3. ASSUME NEW m \in S PROVE timeStamp[m] \in T
    <3>1. PICK l \in Nat : timeStamp[m] = l * e
      BY TimeStampType DEF Aligned
    <3>2. timeStamp[o] <= timeStamp[m] /\ timeStamp[m] - timeStamp[o] < e * d
      BY <1>1, <2>1
    <3> HIDE DEF e, d
    <3>3. k * e \in Nat /\ l * e \in Nat /\ d * e \in Nat
      BY <1>1
    <3>4. k < l + 1
      <4>1. (l + 1) * e = l * e + e
        BY <1>1
      <4>2. k * e < (l + 1) * e
        BY <1>1, <2>2, <3>1, <3>2, <3>3, <4>1
      <4> QED BY <1>1, <4>2, FactorOrder
    <3>5. l < k + d
      <4>1. (k + d) * e = k * e + e * d
        BY <1>1
      <4>2. l * e < (k + d) * e
        BY <1>1, <2>2, <3>1, <3>2, <3>3, <4>1
      <4> QED BY <1>1, <4>2, FactorOrder
    <3>6. l - k \in 0..(d - 1) /\ k + (l - k) = l
      BY <1>1, <3>4, <3>5
    <3> QED BY <3>1, <3>6
  <2>4. IsFiniteSet(T) /\ Cardinality(T) <= d
    <3>1. f \in Surjection(0..(d - 1), T)
      BY DEF Surjection
    <3>2. IsFiniteSet(0..(d - 1)) /\ Cardinality(0..(d - 1)) = d
      BY <1>1, FS_Interval
    <3> HIDE DEF f, T, d
    <3> QED BY <3>1, <3>2, FS_Surjection
  <2>5. Stamps(S) \subseteq T
    BY <2>3 DEF Stamps
  <2>6. Cardinality(Stamps(S)) <= Cardinality(T)
    <3> HIDE DEF T
    <3> QED BY <2>4, <2>5, FS_Subset
  <2>7. Cardinality(Stamps(S)) \in Nat /\ Cardinality(T) \in Nat
    <3> HIDE DEF T
    <3> QED BY <2>4, StampsCount, FS_CardinalityType
  <2> HIDE DEF T
  <2> QED BY <1>1, <2>4, <2>6, <2>7
<1> QED BY <1>2, <1>3

\* Each filter keeps at most the epochs its processingDepth() says, of one
\* channel if it is LNavEphMaker.
LEMMA FilterDepth ==
  ASSUME Aligned, Shape, TypeOK, NEW i \in DOMAIN filters, NEW k
  PROVE  Cardinality(Stamps(Kept(i, k))) <= ProcessingDepth(filters[i])
<1>0. stored[i] \subseteq Msg /\ Kept(i, k) \subseteq Msg
  BY DEF TypeOK, Kept
<1>1. CASE filters[i] = "check"
  <2>1. Stamps(Kept(i, k)) = {}
    BY <1>1 DEF Shape, Kept, Stamps
  <2> QED BY <1>1, <2>1, FS_EmptySet DEF ProcessingDepth
<1>2. CASE filters[i] = "order"
  <2>1. Kept(i, k) = stored[i] /\ ProcessingDepth(filters[i]) = procDepth
    BY <1>2 DEF Kept, ProcessingDepth
  <2>2. \A m, n \in stored[i] : timeStamp[n] - timeStamp[m] < Window
    BY <1>2 DEF Shape
  <2> QED BY <1>0, <2>1, <2>2, WindowEpochs
<1>3. CASE filters[i] = "cross"
  <2>1. Kept(i, k) = stored[i] /\ ProcessingDepth(filters[i]) = 1
    BY <1>3 DEF Kept, ProcessingDepth
  <2>2. CASE stored[i] = {}
    <3>1. Stamps(stored[i]) = {}
      BY <2>2 DEF Stamps
    <3> QED BY <2>1, <3>1, FS_EmptySet
  <2>3. CASE stored[i] # {}
    <3>1. PICK m \in stored[i] : TRUE
      BY <2>3
    <3>2. Stamps(stored[i]) = {timeStamp[m]}
      BY <1>3, <3>1 DEF Shape, Stamps
    <3>3. Cardinality({timeStamp[m]}) = 1
      BY FS_Singleton
    <3> QED BY <2>1, <3>2, <3>3
  <2> QED BY <2>2, <2>3
<1>4. CASE filters[i] = "eph"
  <2> DEFINE S == {m \in stored[i] : channel[m] = k}
             f == [m \in S |-> sfid[m]]
  <2>1. Kept(i, k) = S /\ ProcessingDepth(filters[i]) = 3
    BY <1>4 DEF Kept, ProcessingDepth
  <2>2. f \in Injection(S, 1..3)
    <3>1. \A m \in stored[i] : sfid[m] \in 1..3
      BY <1>4 DEF Shape
    <3>2. f \in [S -> 1..3]
      BY <3>1
    <3>3. ASSUME NEW m \in S, NEW n \in S, f[m] = f[n] PROVE m = n
      <4>1. SameSlot(m, n)
        BY <3>3 DEF SameSlot
      <4> QED BY <1>4, <4>1 DEF Shape
    <3> HIDE DEF f, S
    <3> QED BY <3>2, <3>3 DEF Injection, IsInjective
  <2>3. IsFiniteSet(1..3) /\ Cardinality(1..3) = 3
    <3>1. 1 \in Int /\ 3 \in Int
      OBVIOUS
    <3>2. IsFiniteSet(1..3)
      BY <3>1, FS_Interval
    <3>3. Cardinality(1..3) = IF 1 > 3 THEN 0 ELSE 3 - 1 + 1
      BY <3>1, FS_Interval, Zenon
    <3> QED BY <3>2, <3>3
  <2>4. Cardinality(S) <= 3
    <3> HIDE DEF f, S
    <3> QED BY <2>2, <2>3, FS_Injection
  <2>5. /\ Cardinality(S) \in Nat /\ Cardinality(Stamps(S)) \in Nat
        /\ Cardinality(Stamps(S)) <= Cardinality(S)
    BY <1>0, <2>1, StampsCount
  <2> HIDE DEF S
  <2> QED BY <2>1, <2>4, <2>5
<1> QED BY <1>1, <1>2, <1>3, <1>4, ChainType
\* A filter that is called keeps what its kind holds, of what it held and what
\* it was given.
LEMMA HoldsShape ==
  ASSUME Shape, NEW i \in DOMAIN filters, stored[i] \subseteq Msg,
         NEW list, list \subseteq Msg, list # {}
  PROVE  /\ Accepts(i, list) \cup Holds(i, list) \subseteq stored[i] \cup list
         /\ filters[i] = "check" => Holds(i, list) = {}
         /\ filters[i] = "order" =>
              \A m, n \in Holds(i, list) : timeStamp[n] - timeStamp[m] < Window
         /\ filters[i] = "cross" =>
              \A m, n \in Holds(i, list) : timeStamp[m] = timeStamp[n]
         /\ filters[i] = "eph" =>
              /\ \A m \in Holds(i, list) : sfid[m] \in 1..3
              /\ \A m, n \in Holds(i, list) : SameSlot(m, n) => m = n
<1>0. \A m \in stored[i] \cup list : timeStamp[m] \in Nat
  BY StampType
<1>1. CASE filters[i] = "check"
  BY <1>1 DEF Accepts, Holds, CheckAccepted
<1>2. CASE filters[i] = "order"
  <2> DEFINE kept == OrderInsert(stored[i], list)
  <2>1. /\ Accepts(i, list) = OrderReleased(kept)
        /\ Holds(i, list) = kept \ OrderReleased(kept)
        /\ OrderReleased(kept) \subseteq kept
        /\ kept \subseteq stored[i] \cup list
    BY <1>2 DEF Accepts, Holds, OrderInsert, OrderReleased
  <2>2. ASSUME NEW m \in kept \ OrderReleased(kept), NEW n \in kept
        PROVE  timeStamp[n] - timeStamp[m] < Window
    <3>1. ~(timeStamp[m] <= timeStamp[n] - Window)
      BY DEF OrderReleased
    <3>2. timeStamp[m] \in Nat /\ timeStamp[n] \in Nat
      BY <1>0, <2>1
    <3> QED BY <3>1, <3>2, StampType
  <2> QED BY <1>2, <2>1, <2>2
<1>3. CASE filters[i] = "cross"
  <2>1. /\ Accepts(i, list) = CrossAccepted(stored[i], list)
        /\ Holds(i, list) = Grouped(stored[i], list)
    BY <1>3 DEF Accepts, Holds
  <2>2. \A m \in list : /\ Collection(stored[i], list, m) \subseteq stored[i] \cup list
                        /\ \A n \in Collection(stored[i], list, m) : timeStamp[n] = timeStamp[m]
    BY DEF Collection, Epoch, Continues
  <2>3. Accepts(i, list) \subseteq stored[i] \cup list
    BY <2>1, <2>2 DEF CrossAccepted, Examined, Winners
  <2>4. ASSUME NEW x \in Holds(i, list), NEW y \in Holds(i, list)
        PROVE  timeStamp[x] = timeStamp[y] /\ x \in stored[i] \cup list
    <3>1. PICK m \in Latest(list) : x \in Collection(stored[i], list, m)
      BY <2>1 DEF Grouped
    <3>2. PICK n \in Latest(list) : y \in Collection(stored[i], list, n)
      BY <2>1 DEF Grouped
    <3>3. m \in list /\ n \in list /\ timeStamp[m] = timeStamp[n]
      BY <1>0 DEF Latest
    <3> QED BY <2>2, <3>1, <3>2, <3>3
  <2> QED BY <1>3, <2>3, <2>4
<1>4. CASE filters[i] = "eph"
  <2>1. /\ Accepts(i, list) = EphPassed(list)
        /\ Holds(i, list) = EphStored(stored[i], list)
    BY <1>4 DEF Accepts, Holds
  <2> DEFINE new == EphSubframes(list)
  <2>2. /\ \A m \in new : m \in list /\ sfid[m] \in 1..3
        /\ \A m \in stored[i] : sfid[m] \in 1..3
        /\ \A m, n \in stored[i] : SameSlot(m, n) => m = n
    BY <1>4 DEF EphSubframes, Shape
  <2>3. ASSUME NEW m \in EphStored(stored[i], list)
        PROVE  \/ m \in new /\ \A n \in new : SameSlot(m, n) => timeStamp[n] <= timeStamp[m]
               \/ m \in stored[i] /\ \A n \in new : ~SameSlot(m, n)
    BY DEF EphStored
  <2>4. ASSUME NEW m \in EphStored(stored[i], list), NEW n \in EphStored(stored[i], list),
               SameSlot(m, n)
        PROVE  m = n
    <3>1. SameSlot(n, m)
      BY <2>4 DEF SameSlot
    <3>2. CASE m \in new /\ n \in new
      <4>1. timeStamp[n] <= timeStamp[m] /\ timeStamp[m] <= timeStamp[n]
        BY <2>3, <2>4, <3>1, <3>2
      <4>2. timeStamp[m] = timeStamp[n] /\ m \in Msg /\ n \in Msg
        BY <1>0, <2>2, <3>2, <4>1
      <4> QED BY <2>4, <4>2, ChannelAssumption DEF SameSlot
    <3> QED BY <2>2, <2>3, <2>4, <3>1, <3>2
  <2>5. EphPassed(list) \cup EphStored(stored[i], list) \subseteq stored[i] \cup list
    BY <2>2, <2>3 DEF EphPassed
  <2>6. \A m \in EphStored(stored[i], list) : sfid[m] \in 1..3
    BY <2>2, <2>3
  <2> QED BY <1>4, <2>1, <2>4, <2>5, <2>6
<1> QED BY <1>1, <1>2, <1>3, <1>4, ChainType

\* Calling a filter leaves every filter with what its kind holds, and brings
\* nothing into use that was not.
LEMMA CallFilterShape ==
  ASSUME Shape, TypeOK, NEW i \in DOMAIN filters, transit # {}, CallFilter(i)
  PROVE  /\ Shape'
         /\ \A k : InUse(k)' \subseteq InUse(k)
<1> DEFINE A == Accepts(i, transit)
           H == Holds(i, transit)
<1>1. /\ stored \in [DOMAIN filters -> SUBSET Msg]
      /\ stored[i] \subseteq Msg /\ transit \subseteq Msg
      /\ stored' = [stored EXCEPT ![i] = H] /\ transit' = A
  BY DEF TypeOK, CallFilter
<1>2. /\ A \cup H \subseteq stored[i] \cup transit
      /\ filters[i] = "check" => H = {}
      /\ filters[i] = "order" => \A m, n \in H : timeStamp[n] - timeStamp[m] < Window
      /\ filters[i] = "cross" => \A m, n \in H : timeStamp[m] = timeStamp[n]
      /\ filters[i] = "eph" => /\ \A m \in H : sfid[m] \in 1..3
                               /\ \A m, n \in H : SameSlot(m, n) => m = n
  BY <1>1, HoldsShape
<1>3. filters[i] = "eph" => A \subseteq transit
  BY DEF Accepts, EphPassed
<1> HIDE DEF A, H
<1>4. Shape'
  BY <1>1, <1>2 DEF Shape
<1>5. ASSUME NEW k PROVE InUse(k)' \subseteq InUse(k)
  <2>1. transit \cup Kept(i, k) \subseteq InUse(k)
    BY DEF InUse
  <2>2. A \cup Kept(i, k)' \subseteq transit \cup Kept(i, k)
    BY <1>1, <1>2, <1>3 DEF Kept
  <2>3. ASSUME NEW j \in DOMAIN filters, j # i PROVE Kept(j, k)' \subseteq InUse(k)
    BY <1>1, <2>3 DEF Kept, InUse
  <2> QED BY <1>1, <2>1, <2>2, <2>3 DEF InUse
<1> QED BY <1>4, <1>5
\* processingDepth() adds up the depths of the filters one after the other.
Summed(f, I) ==
  IF I = {} THEN 0
  ELSE LET x == CHOOSE x \in I : TRUE IN ProcessingDepth(filters[x]) + f[I \ {x}]

IsSum(f) == f = [I \in SUBSET DOMAIN filters |-> Summed(f, I)]

DepthSum == CHOOSE f : IsSum(f)

\* A finite set loses one element.
LEMMA OneLess ==
  ASSUME NEW S, IsFiniteSet(S), NEW x \in S
  PROVE  /\ IsFiniteSet(S \ {x})
         /\ Cardinality(S) \in Nat /\ Cardinality(S \ {x}) \in Nat
         /\ Cardinality(S) = Cardinality(S \ {x}) + 1
<1>1. IsFiniteSet(S \ {x}) /\ Cardinality(S \ {x}) = Cardinality(S) - 1
  BY FS_RemoveElement
<1>2. Cardinality(S) \in Nat /\ Cardinality(S \ {x}) \in Nat
  BY <1>1, FS_CardinalityType
<1> QED BY <1>1, <1>2

LEMMA FiltersFinite ==
  /\ IsFiniteSet(DOMAIN filters)
  /\ \A I \in SUBSET DOMAIN filters : IsFiniteSet(I) /\ Cardinality(I) \in Nat
<1>1. DOMAIN filters = 1..Len(filters) /\ Len(filters) \in Int
  BY ChainAssumption
<1>2. IsFiniteSet(1..Len(filters))
  BY <1>1, FS_Interval
<1> QED BY <1>1, <1>2, FS_Subset, FS_CardinalityType

\* The recursive definition has a solution: one that is right for all sets of
\* fewer than n filters gives one for n.
LEMMA SumExists == IsSum(DepthSum)
<1> DEFINE Solves(f, n) ==
             \A I \in SUBSET DOMAIN filters : Cardinality(I) < n => f[I] = Summed(f, I)
           Solved(n) ==
             \E f : f = [I \in SUBSET DOMAIN filters |-> f[I]] /\ Solves(f, n)
           Bad == {n \in Nat : ~Solved(n)}
<1>1. Solved(0)
  <2> DEFINE f == [I \in SUBSET DOMAIN filters |-> 0]
  <2>1. f = [I \in SUBSET DOMAIN filters |-> f[I]]
    OBVIOUS
  <2>2. Solves(f, 0)
    BY FiltersFinite
  <2> HIDE DEF f, Solves
  <2> QED BY <2>1, <2>2
<1>2. ASSUME NEW n \in Nat, Solved(n) PROVE Solved(n + 1)
  <2>1. PICK f : f = [I \in SUBSET DOMAIN filters |-> f[I]] /\ Solves(f, n)
    BY <1>2
  <2> DEFINE g == [I \in SUBSET DOMAIN filters |-> Summed(f, I)]
  <2>2. g = [I \in SUBSET DOMAIN filters |-> g[I]]
    OBVIOUS
  <2>3. ASSUME NEW I \in SUBSET DOMAIN filters, Cardinality(I) < n + 1
        PROVE  g[I] = Summed(g, I)
    <3>1. CASE I = {}
      BY <3>1 DEF Summed
    <3>2. CASE I # {}
      <4> DEFINE x == CHOOSE x \in I : TRUE
                 less == I \ {x}
      <4>1. x \in I
        BY <3>2
      <4>2. Cardinality(less) < n
        <5> HIDE DEF x
        <5> QED BY <2>3, <4>1, FiltersFinite, OneLess
      <4>3. f[less] = Summed(f, less)
        BY <2>1, <4>2
      <4>4. g[less] = f[less]
        BY <4>3
      <4>5. g[I] = Summed(f, I)
        OBVIOUS
      <4> HIDE DEF g
      <4> QED BY <3>2, <4>4, <4>5 DEF Summed
    <3> QED BY <3>1, <3>2
  <2>4. Solves(g, n + 1)
    <3> HIDE DEF g
    <3> QED BY <2>3
  <2> HIDE DEF g, Solves
  <2> QED BY <2>2, <2>4
<1> HIDE DEF Solved
<1>3. ASSUME Bad # {} PROVE FALSE
  <2>1. Bad \subseteq Nat
    OBVIOUS
  <2>2. PICK b \in Bad : \A n \in Bad : b <= n
    <3> HIDE DEF Bad
    <3> QED BY <1>3, <2>1, LeastExists
  <2>3. b \in Nat /\ ~Solved(b) /\ b # 0
    BY <1>1
  <2>4. b - 1 \in Nat /\ Solved(b - 1)
    BY <2>2, <2>3
  <2>5. Solved((b - 1) + 1)
    BY <1>2, <2>4
  <2> QED BY <2>3, <2>5
<1>4. Solved(Cardinality(DOMAIN filters) + 1)
  BY <1>3, FiltersFinite
<1>5. PICK f : /\ f = [I \in SUBSET DOMAIN filters |-> f[I]]
               /\ Solves(f, Cardinality(DOMAIN filters) + 1)
  BY <1>4 DEF Solved
<1>6. \A I \in SUBSET DOMAIN filters : f[I] = Summed(f, I)
  <2> SUFFICES ASSUME NEW I \in SUBSET DOMAIN filters PROVE f[I] = Summed(f, I)
    OBVIOUS
  <2>1. Cardinality(I) <= Cardinality(DOMAIN filters)
    BY FiltersFinite, FS_Subset
  <2>2. Cardinality(I) < Cardinality(DOMAIN filters) + 1
    BY <2>1, FiltersFinite
  <2> QED BY <1>5, <2>2
<1>7. IsSum(f)
  BY <1>5, <1>6 DEF IsSum
<1> QED BY <1>7 DEF DepthSum

LEMMA ManagerDepthIsSum == ManagerDepth = 1 + DepthSum[DOMAIN filters]
  BY DEF ManagerDepth, MapThenSumSet, MapThenFoldSet, DepthSum, IsSum, Summed
\* Together the filters keep no more epochs than the sum of their depths.
LEMMA KeptWithinDepth ==
  ASSUME Aligned, Shape, TypeOK, NEW k
  PROVE  /\ DepthSum[DOMAIN filters] \in Nat
         /\ Cardinality(Stamps(UNION {Kept(i, k) : i \in DOMAIN filters}))
              <= DepthSum[DOMAIN filters]
<1> DEFINE All(I) == UNION {Kept(i, k) : i \in I}
           Bounded(I) == /\ DepthSum[I] \in Nat
                         /\ Cardinality(Stamps(All(I))) <= DepthSum[I]
           Unbounded == {I \in SUBSET DOMAIN filters : ~Bounded(I)}
           Sizes == {Cardinality(I) : I \in Unbounded}
<1>1. \A I \in SUBSET DOMAIN filters : DepthSum[I] = Summed(DepthSum, I)
  BY SumExists DEF IsSum
<1>2. \A i \in DOMAIN filters : ProcessingDepth(filters[i]) \in Nat
  BY ChainType, DepthAssumption DEF ProcessingDepth
<1>3. \A i \in DOMAIN filters : Kept(i, k) \subseteq Msg
  BY DEF Kept, TypeOK
<1>4. Bounded({})
  <2>1. DepthSum[{}] = 0
    BY <1>1 DEF Summed
  <2>2. Stamps(All({})) = {}
    BY DEF Stamps
  <2>3. Cardinality({}) = 0
    BY FS_EmptySet
  <2> HIDE DEF All
  <2> QED BY <2>1, <2>2, <2>3
<1>5. ASSUME NEW I \in SUBSET DOMAIN filters, I # {}, Bounded(I \ {CHOOSE x \in I : TRUE})
      PROVE  Bounded(I)
  <2> DEFINE x == CHOOSE x \in I : TRUE
             less == I \ {x}
  <2>1. x \in I
    BY <1>5
  <2>2. DepthSum[I] = ProcessingDepth(filters[x]) + DepthSum[less]
    BY <1>1, <1>5 DEF Summed
  <2>3. Bounded(less)
    BY <1>5
  <2> HIDE DEF x
  <2>4. DepthSum[I] \in Nat
    BY <1>2, <2>1, <2>2, <2>3
  <2>5. Stamps(All(I)) = Stamps(Kept(x, k)) \cup Stamps(All(less))
    BY <2>1 DEF Stamps
  <2>6. Kept(x, k) \subseteq Msg /\ All(less) \subseteq Msg
    BY <1>3, <2>1
  <2> HIDE DEF All, less
  <2>7. /\ IsFiniteSet(Stamps(Kept(x, k))) /\ Cardinality(Stamps(Kept(x, k))) \in Nat
        /\ IsFiniteSet(Stamps(All(less))) /\ Cardinality(Stamps(All(less))) \in Nat
    BY <2>6, StampsCount
  <2>8. Cardinality(Stamps(All(I)))
          <= Cardinality(Stamps(Kept(x, k))) + Cardinality(Stamps(All(less)))
    <3> DEFINE P == Stamps(Kept(x, k))
               Q == Stamps(All(less))
    <3>1. Cardinality(P \cup Q) = Cardinality(P) + Cardinality(Q) - Cardinality(P \cap Q)
      BY <2>7, FS_Union
    <3>2. Cardinality(P \cap Q) \in Nat
      BY <2>7, FS_Intersection, FS_CardinalityType
    <3> QED BY <2>5, <2>7, <3>1, <3>2
  <2>9. Cardinality(Stamps(Kept(x, k))) <= ProcessingDepth(filters[x])
    BY <2>1, FilterDepth
  <2>10. Cardinality(Stamps(All(I))) \in Nat
    <3>1. All(I) \subseteq Msg
      BY <1>3 DEF All
    <3> QED BY <3>1, StampsCount
  <2> QED BY <1>2, <2>1, <2>2, <2>3, <2>4, <2>7, <2>8, <2>9, <2>10
<1> HIDE DEF Bounded
<1>6. ASSUME Unbounded # {} PROVE FALSE
  <2>1. Sizes \subseteq Nat /\ Sizes # {}
    BY <1>6, FiltersFinite
  <2>2. PICK size \in Sizes : \A n \in Sizes : size <= n
    <3> HIDE DEF Sizes
    <3> QED BY <2>1, LeastExists
  <2>3. PICK I \in Unbounded : size = Cardinality(I)
    OBVIOUS
  <2>4. I # {} /\ I \in SUBSET DOMAIN filters /\ ~Bounded(I)
    BY <1>4
  <2> DEFINE x == CHOOSE x \in I : TRUE
             less == I \ {x}
  <2>5. x \in I
    BY <2>4
  <2>6. less \in Unbounded
    BY <1>5, <2>4
  <2> HIDE DEF x
  <2>7. Cardinality(I) = Cardinality(less) + 1 /\ Cardinality(less) \in Nat
    BY <2>4, <2>5, FiltersFinite, OneLess
  <2>8. Cardinality(less) \in Sizes
    BY <2>6
  <2> HIDE DEF less, Sizes, Unbounded
  <2> QED BY <2>2, <2>3, <2>7, <2>8
<1>7. Bounded(DOMAIN filters)
  BY <1>6
<1> QED BY <1>7 DEF Bounded

\* A step either starts a call with a message, with nothing else in transit, or
\* brings nothing into use.
LEMMA DepthStep ==
  ASSUME TypeOK, TypeOK', FlushOK, Shape, EpochsWithinDepth, [Next]_vars
  PROVE  Shape' /\ EpochsWithinDepth'
<1>1. CASE \E m \in Msg : Validate(m)
  <2>1. PICK m \in Msg : Validate(m)
    BY <1>1
  <2>2. stored' = stored /\ transit = {} /\ transit' = {m}
    BY <2>1 DEF Validate, FlushOK
  <2>3. Shape'
    BY <2>2 DEF Shape
  <2>4. ASSUME Aligned, NEW k PROVE Cardinality(Stamps(InUse(k)')) <= ManagerDepth
    <3> DEFINE K == UNION {Kept(i, k) : i \in DOMAIN filters}
    <3>1. InUse(k)' = {m} \cup K
      BY <2>2 DEF InUse, Kept
    <3>2. K \subseteq Msg
      BY DEF Kept, TypeOK
    <3>3. /\ DepthSum[DOMAIN filters] \in Nat
          /\ Cardinality(Stamps(K)) <= DepthSum[DOMAIN filters]
      BY <2>4, KeptWithinDepth
    <3> HIDE DEF K
    <3>4. Stamps({m} \cup K) = Stamps(K) \cup {timeStamp[m]}
      BY DEF Stamps
    <3>5. IsFiniteSet(Stamps(K)) /\ Cardinality(Stamps(K)) \in Nat
      BY <3>2, StampsCount
    <3>6. \/ Cardinality(Stamps(K) \cup {timeStamp[m]}) = Cardinality(Stamps(K))
          \/ Cardinality(Stamps(K) \cup {timeStamp[m]}) = Cardinality(Stamps(K)) + 1
      BY <3>5, FS_AddElement
    <3>7. Stamps(InUse(k)') = Stamps(K) \cup {timeStamp[m]}
      BY <3>1, <3>4
    <3>8. Cardinality(Stamps(InUse(k)')) <= Cardinality(Stamps(K)) + 1
      BY <3>5, <3>6, <3>7
    <3>9. Cardinality(Stamps(InUse(k)')) \in Nat
      BY <3>5, <3>6, <3>7
    <3> QED BY <3>3, <3>5, <3>8, <3>9, ManagerDepthIsSum
  <2> QED BY <2>3, <2>4 DEF EpochsWithinDepth, Stamps
<1>2. ASSUME Shape', \A k : InUse(k)' \subseteq InUse(k) PROVE Shape' /\ EpochsWithinDepth'
  <2>1. ASSUME Aligned, NEW k \in {channel[m] : m \in Msg}
        PROVE  Cardinality(Stamps(InUse(k)')) <= ManagerDepth
    <3>1. InUse(k) \subseteq Msg
      BY DEF InUse, Kept, TypeOK
    <3>2. Cardinality(Stamps(InUse(k)')) <= Cardinality(Stamps(InUse(k)))
      BY <1>2, <3>1, StampsOfSubset
    <3>3. Cardinality(Stamps(InUse(k))) <= ManagerDepth
      BY <2>1 DEF EpochsWithinDepth, Stamps
    <3>4. InUse(k)' \subseteq Msg
      BY <1>2, <3>1
    <3>5. /\ Cardinality(Stamps(InUse(k)')) \in Nat
          /\ Cardinality(Stamps(InUse(k))) \in Nat
      BY <3>1, <3>4, StampsCount
    <3>6. ManagerDepth \in Int
      BY <2>1, KeptWithinDepth, ManagerDepthIsSum
    <3> QED BY <3>2, <3>3, <3>5, <3>6
  <2> QED BY <1>2, <2>1 DEF EpochsWithinDepth, Stamps
<1>3. ASSUME stored' = stored, transit' \subseteq transit PROVE Shape' /\ EpochsWithinDepth'
  <2>1. Shape'
    BY <1>3 DEF Shape
  <2>2. \A k : InUse(k)' \subseteq InUse(k)
    BY <1>3 DEF InUse, Kept
  <2> QED BY <1>2, <2>1, <2>2
<1>4. CASE ValidateFilter
  <2>1. next \in DOMAIN filters /\ transit # {} /\ CallFilter(next)
    BY <1>4 DEF ValidateFilter
  <2> QED BY <1>2, <2>1, CallFilterShape
<1>5. CASE FinalizeCascade
  <2>1. next \in DOMAIN filters /\ transit # {} /\ CallFilter(next)
    BY <1>5 DEF FinalizeCascade
  <2> QED BY <1>2, <2>1, CallFilterShape
<1>6. CASE ValidateReturn \/ Finalize \/ FinalizeCollect \/ FinalizeReturn
  <2>1. stored' = stored /\ transit' \subseteq transit
    BY <1>6 DEF ValidateReturn, Finalize, FinalizeCollect, FinalizeReturn, dataVars
  <2> QED BY <1>3, <2>1
<1>7. CASE FinalizeFilter
  <2>1. PICK i \in DOMAIN filters : i = flushing
    BY <1>7 DEF FinalizeFilter
  <2>2. /\ transit = {}
        /\ stored' = [stored EXCEPT ![i] = {}]
        /\ transit' = CASE filters[i] = "order" -> stored[i]
                        [] filters[i] = "cross" -> Winners(stored[i])
                        [] OTHER -> {}
        /\ stored \in [DOMAIN filters -> SUBSET Msg]
    BY <1>7, <2>1 DEF FinalizeFilter, TypeOK
  <2>3. transit' \subseteq stored[i] /\ (filters[i] = "eph" => transit' = {})
    BY <2>2 DEF Winners
  <2>4. Shape'
    BY <2>2 DEF Shape
  <2>5. ASSUME NEW k PROVE InUse(k)' \subseteq InUse(k)
    <3>1. transit' \cup Kept(i, k)' \subseteq Kept(i, k)
      BY <2>2, <2>3 DEF Kept
    <3>2. ASSUME NEW j \in DOMAIN filters, j # i PROVE Kept(j, k)' \subseteq InUse(k)
      BY <2>2, <3>2 DEF Kept, InUse
    <3> QED BY <2>2, <3>1, <3>2 DEF InUse
  <2> QED BY <1>2, <2>4, <2>5
<1>8. CASE UNCHANGED vars
  BY <1>3, <1>8 DEF vars
<1> QED BY <1>1, <1>4, <1>5, <1>6, <1>7, <1>8 DEF Next, Step

\* A buffer of processingDepth() epochs per channel is enough: whatever filters
\* are cascaded, the messages still in use are of no more epochs than that.
THEOREM BufferSuffices == Spec => []EpochsWithinDepth
<1>1. Init => Shape /\ EpochsWithinDepth
  <2> SUFFICES ASSUME Init PROVE Shape /\ EpochsWithinDepth
    OBVIOUS
  <2>1. Shape
    BY DEF Init, Shape
  <2>2. ASSUME Aligned, NEW k PROVE Cardinality(Stamps(InUse(k))) <= ManagerDepth
    <3>1. TypeOK
      BY InitInvariant DEF IInv
    <3>2. InUse(k) = UNION {Kept(i, k) : i \in DOMAIN filters}
      BY DEF Init, InUse
    <3>3. InUse(k) \subseteq Msg
      BY <3>1, <3>2 DEF Kept, TypeOK
    <3>4. Cardinality(Stamps(InUse(k))) \in Nat
      BY <3>3, StampsCount
    <3>5. /\ DepthSum[DOMAIN filters] \in Nat
          /\ Cardinality(Stamps(InUse(k))) <= DepthSum[DOMAIN filters]
      BY <2>1, <2>2, <3>1, <3>2, KeptWithinDepth
    <3> QED BY <3>4, <3>5, ManagerDepthIsSum
  <2> QED BY <2>1, <2>2 DEF EpochsWithinDepth, Stamps
<1>2. TypeOK /\ TypeOK' /\ FlushOK /\ (Shape /\ EpochsWithinDepth) /\ [Next]_vars
        => (Shape /\ EpochsWithinDepth)'
  BY DepthStep
<1> QED BY <1>1, <1>2, TypeCorrect, FlushInvariance, PTL DEF Spec

-----------------------------------------------------------------------------
(* Calls come to an end: what is left to do, in filter calls, decreases    *)
(* with every step of a call, and a call not at its end has a step to do.  *)

Chain == Len(filters)

\* Of a flush there is left the rest of the cascade, and per filter not yet
\* flushed as much again as a whole cascade takes.
LeftToDo ==
  CASE call = "validate" -> Chain + 2 - next
    [] call = "finalize" -> (Chain + 1 - flushing) * (Chain + 3)
                              + (IF transit = {} THEN 1 ELSE Chain + 3 - next)
    [] call \in {"idle", "done"} -> 0

\* The conditions of the steps, in the order of Step.
CanStep ==
  \/ call = "validate" /\ next \in DOMAIN filters /\ transit # {}
  \/ call = "validate" /\ (next \notin DOMAIN filters \/ transit = {})
  \/ call = "finalize" /\ transit = {} /\ flushing \in DOMAIN filters
  \/ call = "finalize" /\ next \in DOMAIN filters /\ transit # {}
  \/ call = "finalize" /\ next \notin DOMAIN filters /\ transit # {}
  \/ call = "finalize" /\ transit = {} /\ flushing \notin DOMAIN filters

LEMMA ChainLength == Chain \in Nat /\ DOMAIN filters = 1..Chain
BY ChainAssumption DEF Chain

LEMMA ProductOrder ==
  ASSUME NEW a \in Nat, NEW b \in Nat, NEW c \in Nat, a <= b
  PROVE  a * c \in Nat /\ a * c <= b * c /\ (a + 1) * c = a * c + c
<1>1. a * c \in Nat /\ (b - a) * c \in Nat /\ b * c = a * c + (b - a) * c
  OBVIOUS
<1>2. (a + 1) * c = a * c + c
  OBVIOUS
<1> QED BY <1>1, <1>2

LEMMA LeftToDoBounds ==
  ASSUME TypeOK
  PROVE  /\ LeftToDo \in Nat
         /\ LeftToDo = 0 <=> call \in {"idle", "done"}
         /\ call = "validate" => LeftToDo <= Chain + 1
         /\ LeftToDo <= (Chain + 1) * (Chain + 3)
<1>1. Chain \in Nat /\ next \in 1..(Chain + 1) /\ flushing \in 1..(Chain + 1)
  BY ChainLength DEF TypeOK, Chain
<1>2. call \in {"idle", "validate", "finalize", "done"}
  BY DEF TypeOK
<1> DEFINE b == (Chain + 1) * (Chain + 3)
<1>3. b \in Nat /\ Chain + 3 <= b
  <2>1. 0 * (Chain + 3) \in Nat /\ 0 * (Chain + 3) <= Chain * (Chain + 3)
        /\ (0 + 1) * (Chain + 3) = 0 * (Chain + 3) + (Chain + 3)
    BY <1>1, ProductOrder
  <2>2. Chain * (Chain + 3) \in Nat /\ (Chain + 1) * (Chain + 3) = Chain * (Chain + 3) + (Chain + 3)
    BY <1>1, ProductOrder
  <2> QED BY <1>1, <2>1, <2>2
<1>4. CASE call = "finalize"
  <2>1. PICK a \in 0..Chain : a = Chain + 1 - flushing
    BY <1>1
  <2>2. a * (Chain + 3) \in Nat /\ a * (Chain + 3) <= Chain * (Chain + 3)
    BY <1>1, <2>1, ProductOrder
  <2>3. Chain * (Chain + 3) \in Nat /\ b = Chain * (Chain + 3) + (Chain + 3)
    BY <1>1, ProductOrder
  <2>4. PICK r \in 1..(Chain + 3) : r = IF transit = {} THEN 1 ELSE Chain + 3 - next
    <3>1. 1 \in 1..(Chain + 3) /\ Chain + 3 - next \in 1..(Chain + 3)
      BY <1>1
    <3> QED BY <3>1
  <2>5. LeftToDo = a * (Chain + 3) + r
    BY <1>4, <2>1, <2>4 DEF LeftToDo
  <2> HIDE DEF b
  <2> QED BY <1>1, <1>4, <2>2, <2>3, <2>4, <2>5
<1>5. CASE call = "validate"
  <2>1. LeftToDo = Chain + 2 - next
    BY <1>5 DEF LeftToDo
  <2> HIDE DEF b
  <2>2. LeftToDo \in Nat /\ LeftToDo # 0 /\ LeftToDo <= Chain + 1 /\ LeftToDo <= b
    BY <1>1, <1>3, <2>1
  <2> QED BY <1>5, <2>2 DEF b
<1>6. CASE call \in {"idle", "done"}
  <2>1. LeftToDo = 0
    BY <1>6 DEF LeftToDo
  <2> HIDE DEF b
  <2>2. 0 <= b
    BY <1>3
  <2> QED BY <1>6, <2>1, <2>2 DEF b
<1> QED BY <1>2, <1>4, <1>5, <1>6

LEMMA StepDescends ==
  ASSUME TypeOK, TypeOK', Step
  PROVE  LeftToDo' < LeftToDo
<1>0. PICK L \in Nat : L = Chain
  BY ChainLength
<1>1. /\ next \in 1..(L + 1) /\ flushing \in 1..(L + 1)
      /\ next' \in 1..(L + 1) /\ flushing' \in 1..(L + 1)
  BY <1>0, ChainLength DEF TypeOK, Chain
<1>3. PICK m \in 1..(L + 1) : m = next'
  BY <1>1
<1>2. LeftToDo \in Nat /\ (call \notin {"idle", "done"} => LeftToDo # 0)
  BY LeftToDoBounds
<1>8. call' \in {"idle", "done"} => LeftToDo' = 0
  BY DEF LeftToDo
<1>4. CASE ValidateFilter
  <2>1. LeftToDo = L + 2 - next /\ LeftToDo' = L + 2 - next' /\ next' = next + 1
    BY <1>0, <1>4 DEF ValidateFilter, LeftToDo, Chain
  <2> QED BY <1>1, <2>1
<1>5. CASE ValidateReturn \/ FinalizeReturn
  BY <1>2, <1>8, <1>5 DEF ValidateReturn, FinalizeReturn
<1>6. CASE FinalizeFilter
  <2>1. PICK a \in 0..L : a = L - flushing
    BY <1>0, <1>1, <1>6, ChainLength DEF FinalizeFilter
  <2>2. call = "finalize" /\ call' = "finalize" /\ transit = {} /\ flushing' = flushing + 1
        /\ next' = flushing + 1
    BY <1>6 DEF FinalizeFilter
  <2>3. a * (L + 3) \in Nat /\ (a + 1) * (L + 3) = a * (L + 3) + (L + 3)
    BY <1>1, <2>1, ProductOrder
  <2>4. L + 1 - flushing = a + 1 /\ L + 1 - flushing' = a
    BY <1>1, <2>1, <2>2
  <2>5. LeftToDo = (a + 1) * (L + 3) + 1
    BY <1>0, <2>2, <2>4 DEF LeftToDo
  <2>6. LeftToDo' = a * (L + 3) + (IF transit' = {} THEN 1 ELSE L + 3 - next')
    BY <1>0, <2>2, <2>4 DEF LeftToDo, Chain
  <2>7. PICK r \in 1..(L + 3) : r = IF transit' = {} THEN 1 ELSE L + 3 - next'
    <3>1. 1 \in 1..(L + 3) /\ L + 3 - m \in 1..(L + 3)
      OBVIOUS
    <3> QED BY <1>3, <3>1
  <2>8. PICK c \in Nat : c = a * (L + 3)
    BY <2>3
  <2>9. LeftToDo = c + (L + 4)
    BY <1>1, <2>3, <2>5, <2>8
  <2>10. LeftToDo' = c + r
    BY <2>6, <2>7, <2>8
  <2>11. r \in Nat /\ r < L + 4
    OBVIOUS
  <2> QED BY <1>1, <2>9, <2>10, <2>11
<1>7. CASE FinalizeCascade \/ FinalizeCollect
  <2>1. call = "finalize" /\ call' = "finalize" /\ transit # {} /\ flushing' = flushing
    BY <1>7 DEF FinalizeCascade, FinalizeCollect
  <2>2. next' = next + 1 \/ (next' = next /\ transit' = {})
    BY <1>7 DEF FinalizeCascade, FinalizeCollect
  <2>3. PICK c \in Nat : c = (L + 1 - flushing) * (L + 3)
    BY <1>1, ProductOrder
  <2>4. PICK n \in 1..(L + 1) : n = next
    BY <1>1
  <2>5. PICK d \in Nat : d = L + 3 - n /\ d >= 2
    OBVIOUS
  <2>6. LeftToDo = c + d
    BY <1>0, <2>1, <2>3, <2>4, <2>5 DEF LeftToDo
  <2>7. CASE transit' = {}
    <3>1. LeftToDo' = c + 1
      BY <1>0, <2>1, <2>3, <2>7 DEF LeftToDo, Chain
    <3> QED BY <2>5, <2>6, <3>1
  <2>8. CASE transit' # {}
    <3>1. next' = n + 1
      BY <2>2, <2>4, <2>8
    <3>2. L + 3 - (n + 1) = d - 1
      BY <2>5
    <3>3. LeftToDo' = c + (d - 1)
      BY <1>0, <2>1, <2>3, <2>8, <3>1, <3>2 DEF LeftToDo, Chain
    <3> QED BY <2>6, <3>3
  <2> QED BY <2>7, <2>8
<1> QED BY <1>4, <1>5, <1>6, <1>7 DEF Step

\* The loops of validate() and finalize() come to their ends: there is less to
\* do after each step, and at the start a call of validate() has a step for each
\* filter and its return, one of finalize() a cascade for each filter.
THEOREM CallsDescend ==
  Spec => /\ [](/\ LeftToDo \in Nat
                /\ LeftToDo = 0 <=> call \in {"idle", "done"}
                /\ call = "validate" => LeftToDo <= Chain + 1
                /\ LeftToDo <= (Chain + 1) * (Chain + 3))
          /\ [][Step => LeftToDo' < LeftToDo]_vars
<1>1. TypeOK => /\ LeftToDo \in Nat
                /\ LeftToDo = 0 <=> call \in {"idle", "done"}
                /\ call = "validate" => LeftToDo <= Chain + 1
                /\ LeftToDo <= (Chain + 1) * (Chain + 3)
  BY LeftToDoBounds
<1>2. TypeOK /\ TypeOK' /\ [Next]_vars => [Step => LeftToDo' < LeftToDo]_vars
  BY StepDescends
<1> QED BY <1>1, <1>2, TypeCorrect, PTL DEF Spec

\* Nor does a call stop half way: as long as it has not returned one of its
\* steps can be taken.
THEOREM CallsAdvance == Spec => [](call \notin {"idle", "done"} => CanStep)
<1>1. TypeOK => (call \notin {"idle", "done"} => CanStep)
  BY DEF TypeOK, CanStep
<1> QED BY <1>1, TypeCorrect, PTL

-----------------------------------------------------------------------------
(* What finalize() offers                                                  *)

\* Once the last LNavEphMaker is flushed, no other call stores ephemerides.
MakersFlushed ==
  call \in {"finalize", "done"} =>
    ((\E i \in DOMAIN filters : filters[i] = "eph" /\ i < flushing)
       /\ (\A i \in DOMAIN filters : flushing <= i => filters[i] # "eph")
     => completeEphs = {})

LEMMA MakersStep ==
  ASSUME TypeOK, FlushOK, MakersFlushed, [Next]_vars
  PROVE  MakersFlushed'
<1>0. DOMAIN filters = 1..Len(filters) /\ Len(filters) \in Nat
  BY ChainAssumption
<1>1. flushing \in Nat /\ next \in Nat
  BY <1>0 DEF TypeOK
<1>2. CASE (\E m \in Msg : Validate(m)) \/ ValidateFilter \/ ValidateReturn
  BY <1>2 DEF Validate, ValidateFilter, ValidateReturn, MakersFlushed
<1>3. CASE Finalize
  <2>1. flushing' = 1 /\ \A i \in DOMAIN filters : ~(i < 1)
    BY <1>0, <1>3 DEF Finalize
  <2> QED BY <2>1 DEF MakersFlushed
<1>4. CASE FinalizeFilter
  <2>1. /\ call = "finalize" /\ flushing \in DOMAIN filters /\ flushing' = flushing + 1
        /\ completeEphs' = IF filters[flushing] = "eph" THEN {} ELSE completeEphs
    BY <1>4 DEF FinalizeFilter
  <2>2. CASE filters[flushing] = "eph"
    BY <2>1, <2>2 DEF MakersFlushed
  <2>3. CASE filters[flushing] # "eph"
    <3>1. \A i \in DOMAIN filters : filters[i] = "eph" /\ i < flushing' => i < flushing
      BY <1>0, <1>1, <2>1, <2>3
    <3>2. \A i \in DOMAIN filters : flushing <= i => i = flushing \/ flushing' <= i
      BY <1>0, <1>1, <2>1
    <3> QED BY <2>1, <2>3, <3>1, <3>2 DEF MakersFlushed
  <2> QED BY <2>2, <2>3
<1>5. CASE FinalizeCascade
  <2>1. /\ call = "finalize" /\ next \in DOMAIN filters /\ transit # {}
        /\ flushing' = flushing /\ call' = call /\ CallFilter(next)
    BY <1>5 DEF FinalizeCascade
  <2>2. flushing <= next
    BY <2>1 DEF FlushOK
  <2>3. filters[next] # "eph" => completeEphs' = completeEphs
    BY <2>1 DEF CallFilter
  <2> QED BY <2>1, <2>2, <2>3 DEF MakersFlushed
<1>6. CASE FinalizeCollect \/ FinalizeReturn
  BY <1>6 DEF FinalizeCollect, FinalizeReturn, dataVars, MakersFlushed
<1>7. CASE UNCHANGED vars
  BY <1>7 DEF vars, MakersFlushed
<1> QED BY <1>2, <1>3, <1>4, <1>5, <1>6, <1>7 DEF Next, Step

\* In no cascade is an ephemeris that finalize() completes produced: flushing
\* LNavEphMaker clears what the filters before it have just completed.
THEOREM FinalizeOffersNothing ==
  Spec => [](call = "done" /\ (\E i \in DOMAIN filters : filters[i] = "eph")
               => completeEphs = {})
<1>1. Init => MakersFlushed
  BY DEF Init, MakersFlushed
<1>2. TypeOK /\ FlushOK /\ MakersFlushed /\ [Next]_vars => MakersFlushed'
  BY MakersStep
<1>3. TypeOK /\ FlushOK /\ MakersFlushed
        => (call = "done" /\ (\E i \in DOMAIN filters : filters[i] = "eph") => completeEphs = {})
  <2> SUFFICES ASSUME TypeOK, FlushOK, MakersFlushed, call = "done",
                      \E i \in DOMAIN filters : filters[i] = "eph"
               PROVE  completeEphs = {}
    OBVIOUS
  <2>1. DOMAIN filters = 1..Len(filters) /\ Len(filters) \in Nat
    BY ChainAssumption
  <2>2. flushing = Len(filters) + 1
    BY <2>1 DEF FlushOK, TypeOK
  <2> QED BY <2>1, <2>2 DEF MakersFlushed
<1> QED BY <1>1, <1>2, <1>3, TypeCorrect, FlushInvariance, PTL DEF Spec

=============================================================================
