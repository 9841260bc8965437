------------------------ MODULE NavCrossSourceFilter ------------------------
(***************************************************************************)
(* LNavCrossSourceFilter and CNavCrossSourceFilter: the copies of one      *)
(* subframe that several receivers decoded are grouped by PRN and content; *)
(* when the time stamp changes, each PRN's copies vote and only the        *)
(* winning content is passed on.                                           *)
(***************************************************************************)
EXTENDS NavFilters

VARIABLES
  groupedNav,  \* the messages in groupedNav; their time is currentTime
  submitted,   \* history: every message given to validate()
  accepted,    \* history: every message accepted
  rejected     \* history: every message put on NavFilter::rejected

vars == <<groupedNav, submitted, accepted, rejected>>

TypeOK ==
  /\ groupedNav \subseteq Msg
  /\ submitted \subseteq Msg
  /\ accepted \subseteq Msg
  /\ rejected \subseteq Msg

Init ==
  /\ groupedNav = {}
  /\ submitted = {}
  /\ accepted = {}
  /\ rejected = {}

-----------------------------------------------------------------------------

\* validate(msgBitsIn, msgBitsOut) with a list in time order.
Validate(batch) ==
  /\ batch # {}
  /\ batch \cap submitted = {}
  /\ submitted' = submitted \cup batch
  /\ groupedNav' = Grouped(groupedNav, batch)
  /\ accepted' = accepted \cup CrossAccepted(groupedNav, batch)
  /\ rejected' = rejected \cup CrossRejected(groupedNav, batch)

\* finalize(msgBitsOut): the last collection is examined too.
Finalize ==
  /\ accepted' = accepted \cup Winners(groupedNav)
  /\ rejected' = rejected \cup (groupedNav \ Winners(groupedNav))
  /\ groupedNav' = {}
  /\ UNCHANGED submitted

Next ==
  \/ \E batch \in SUBSET Msg : Validate(batch)
  \/ Finalize

Spec == Init /\ [][Next]_vars

-----------------------------------------------------------------------------
(* Properties *)

\* No message is lost or comes back twice: each one handed over is grouped,
\* accepted or rejected, and only one of these.
Conservation ==
  /\ submitted = groupedNav \cup accepted \cup rejected
  /\ groupedNav \cap (accepted \cup rejected) = {}
  /\ accepted \cap rejected = {}

\* groupedNav holds a single epoch: the processing depth the filter reports.
OneEpochHeld == \A m, n \in groupedNav : timeStamp[m] = timeStamp[n]

\* The call's messages are not older than those grouped.  Otherwise one epoch
\* can be voted on twice, which is what NavOrderFilter is put upstream for.
InTimeOrder ==
  \A m \in submitted' \ submitted, n \in groupedNav : timeStamp[n] <= timeStamp[m]

SettledNow == (accepted' \cup rejected') \ (accepted \cup rejected)

SameEpoch(m, n) == timeStamp[m] = timeStamp[n] /\ prn[m] = prn[n]

\* The messages of one PRN and epoch that a call accepts agree on their
\* content, however the votes are split, ties included.
AcceptedAgree ==
  [][InTimeOrder =>
       \A m, n \in accepted' \ accepted : SameEpoch(m, n) => bits[m] = bits[n]]_vars

\* No content that a call rejects had more copies than the one it accepts for
\* the same PRN and epoch.
AcceptedNotOutvoted ==
  [][InTimeOrder =>
       \A m \in accepted' \ accepted, n \in SettledNow :
          SameEpoch(m, n) =>
            Cardinality({k \in SettledNow : SameEpoch(k, n) /\ bits[k] = bits[n]})
              <= Cardinality({k \in SettledNow : SameEpoch(k, m) /\ bits[k] = bits[m]})]_vars

\* An epoch is voted on as a whole: whatever a call leaves grouped is of a
\* later epoch than all it settles.
VoteNotSplit ==
  [][InTimeOrder =>
       \A m \in SettledNow, n \in groupedNav' : timeStamp[m] < timeStamp[n]]_vars

=============================================================================
