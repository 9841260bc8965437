----------------------------- MODULE NavFilters -----------------------------
(***************************************************************************)
(* The navigation message filters of core/lib/NavFilter as functions of    *)
(* their stored data: what each filter keeps, accepts and rejects when it  *)
(* is handed messages.  NavOrderFilter, NavCrossSourceFilter and           *)
(* LNavEphMaker turn one filter into a state machine; NavFilterMgr         *)
(* cascades them.                                                          *)
(*                                                                         *)
(* A message is a NavFilterKey pointer.  The filters never look at a       *)
(* message beyond its time stamp, its PRN and its bits, so these are       *)
(* functions on the set of pointers; pointers are numbers because          *)
(* NavTimeSort breaks ties by address.                                     *)
(*                                                                         *)
(* A list passed between filters is a set here.  NavFilterMgr starts with  *)
(* one message, and every filter appends to its output in time order, so   *)
(* the list is that set in time order; among messages of one time no       *)
(* filter depends on the order.                                            *)
(***************************************************************************)
EXTENDS Integers, FiniteSets

CONSTANTS
  Msg,             \* the messages the application owns (their addresses)
  timeStamp,       \* NavFilterKey::timeStamp, in seconds
  prn,             \* NavFilterKey::prn
  bits,            \* the message content, as its rank in LNavMsgSort order
  MaxTime,         \* CommonTime::END_OF_TIME: no time stamp is later
  procDepth,       \* NavOrderFilter::procDepth
  epochInSeconds,  \* NavOrderFilter::epochInSeconds
  minIdentical,    \* votes a winning message needs (2; CNav: configurable)
  minTotal         \* messages a vote needs (LNav: 3; CNav: minIdentical)

ASSUME MsgAssumption ==
  /\ Msg \subseteq Nat
  /\ MaxTime \in Nat
  /\ timeStamp \in [Msg -> 0..MaxTime]

\* The messages fit in the application's memory.
ASSUME FiniteAssumption == IsFiniteSet(Msg)

ASSUME AttributeAssumption ==
  /\ DOMAIN prn = Msg
  /\ bits \in [Msg -> Nat]

\* A depth of zero keeps nothing and orders nothing.
ASSUME DepthAssumption ==
  /\ procDepth \in Nat \ {0}
  /\ epochInSeconds \in Nat \ {0}

ASSUME VoteAssumption ==
  /\ minIdentical \in Nat \ {0}
  /\ minTotal \in Nat \ {0}

-----------------------------------------------------------------------------
(* NavOrderFilter and LNavOrderFilter: held is the std::set orderedNav.    *)

\* How far behind the newest held message a message may be.
Window == epochInSeconds * procDepth

OrderTooOldMutant(held, m) == \E n \in held : timeStamp[m] <= timeStamp[n] - Window

\* validate() computes oldestAllowed from the messages held BEFORE the call;
\* with nothing held no message is too old.
OrderTooOld(held, m) == \E n \in held : timeStamp[m] < timeStamp[n] - Window

OrderInsertMutant(held, batch) == held \cup batch

\* The messages of a validate() call that are not too old join orderedNav.
OrderInsert(held, batch) ==
  held \cup {m \in batch : ~OrderTooOld(held, m)}

OrderRejectedMutant(held, batch) == {0 : m \in {n \in batch : OrderTooOld(held, n)}}

\* The messages of a validate() call that go on the rejected list instead.
OrderRejected(held, batch) == {m \in batch : OrderTooOld(held, m)}

OrderReleasedMutant(held) ==
  {m \in held : \E n \in held : timeStamp[m] < timeStamp[n] - Window}

OrderReleasedAllMutant(held) ==
  {m \in held : \E k, n \in held : timeStamp[k] <= timeStamp[n] - Window}

\* examineSubframes(): accepted is everything at least Window older than the
\* newest message, and it leaves orderedNav.
OrderReleased(held) ==
  {m \in held : \E n \in held : timeStamp[m] <= timeStamp[n] - Window}

-----------------------------------------------------------------------------
(* The filters of depth 0 (parity, empty, TLM/HOW, TOW, sanity, almanac    *)
(* value): each message is accepted or rejected on its own content.        *)

CheckRejected(failing, batch) == batch \cap failing

CheckAccepted(failing, batch) == batch \ failing

-----------------------------------------------------------------------------
(* LNavCrossSourceFilter and CNavCrossSourceFilter: held is the map        *)
(* groupedNav, every message of which has the time stamp currentTime.      *)

\* The messages of S with the time stamp of m.
Epoch(S, m) == {n \in S : timeStamp[n] = timeStamp[m]}

Earliest(S) == {m \in S : \A n \in S : timeStamp[m] <= timeStamp[n]}

Latest(S) == {m \in S : \A n \in S : timeStamp[n] <= timeStamp[m]}

\* The first messages of the list have the time of those already grouped.
Continues(held, batch) ==
  \A m \in held, n \in Earliest(batch) : timeStamp[m] = timeStamp[n]

\* The collection that message m of the list becomes part of.
Collection(held, batch, m) ==
  Epoch(batch, m) \cup {n \in held : m \in Earliest(batch) /\ Continues(held, batch)}

GroupedTogetherMutant(held, batch) ==
  UNION {Collection(held, batch, m) : m \in batch}

\* groupedNav when validate() returns: the collection of the last time stamp.
Grouped(held, batch) ==
  UNION {Collection(held, batch, m) : m \in Latest(batch)}

\* Every change of time stamp hands a collection to examineSubframes().
Examined(held, batch) ==
  {Collection(held, batch, m) : m \in batch \ Latest(batch)}
  \cup {h \in {held} : ~Continues(held, batch)}

\* The votes for the content of m in a collection, and all votes of its PRN.
Voters(collection, m) ==
  {n \in collection : prn[n] = prn[m] /\ bits[n] = bits[m]}
Ballot(collection, m) == {n \in collection : prn[n] = prn[m]}

WinnersMutant(collection) ==
  {m \in collection : Cardinality(Voters(collection, m)) >= minIdentical}

WinnersFirstMutant(collection) ==
  {m \in collection :
     /\ Cardinality(Voters(collection, m)) >= minIdentical
     /\ Cardinality(Ballot(collection, m)) >= minTotal
     /\ \A n \in Ballot(collection, m) :
          Cardinality(Voters(collection, n)) >= minIdentical => bits[m] <= bits[n]}

WinnersNullMutant(collection) ==
  {0 : m \in {n \in collection : Cardinality(Voters(collection, n)) >= minIdentical}}

\* examineSubframes(): for each PRN the content with the most votes wins, the
\* first in LNavMsgSort order if there are several, provided that it has
\* minIdentical votes and that minTotal were cast.
Winners(collection) ==
  {m \in collection :
     /\ Cardinality(Voters(collection, m)) >= minIdentical
     /\ Cardinality(Ballot(collection, m)) >= minTotal
     /\ \A n \in Ballot(collection, m) :
          LET ours   == Cardinality(Voters(collection, m))
              theirs == Cardinality(Voters(collection, n))
          IN  theirs < ours \/ (theirs = ours /\ bits[m] <= bits[n])}

\* What one validate() call accepts and rejects, for all it examines.
CrossAccepted(held, batch) == UNION {Winners(c) : c \in Examined(held, batch)}
CrossRejected(held, batch) == UNION {c \ Winners(c) : c \in Examined(held, batch)}

=============================================================================
