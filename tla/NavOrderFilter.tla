--------------------------- MODULE NavOrderFilter ---------------------------
(***************************************************************************)
(* NavOrderFilter (and LNavOrderFilter, the same code for LNAV): messages  *)
(* arrive from several sites roughly in time order; the filter holds       *)
(* procDepth epochs of them and passes them on in time order.              *)
(*                                                                         *)
(* validate() receives a list, because the filter before it in the cascade *)
(* may release several messages at once.  The list is a set here: the      *)
(* filter's own std::set forgets the order of the list.  The accepted      *)
(* messages of one call leave in the order of that std::set, so only the   *)
(* order between calls can go wrong.                                       *)
(***************************************************************************)
EXTENDS NavFilters

VARIABLES
  orderedNav,  \* NavOrderFilter::orderedNav
  submitted,   \* history: every message given to validate()
  accepted,    \* history: messages accepted since the last finalize()
  rejected,    \* history: every message put on NavFilter::rejected
  flushed      \* history: messages accepted up to the last finalize()

vars == <<orderedNav, submitted, accepted, rejected, flushed>>

TypeOK ==
  /\ orderedNav \subseteq Msg
  /\ submitted \subseteq Msg
  /\ accepted \subseteq Msg
  /\ rejected \subseteq Msg
  /\ flushed \subseteq Msg

Init ==
  /\ orderedNav = {}
  /\ submitted = {}
  /\ accepted = {}
  /\ rejected = {}
  /\ flushed = {}

-----------------------------------------------------------------------------

\* validate(msgBitsIn, msgBitsOut), examineSubframes included.  A message is
\* handed over once: its memory belongs to the filter until it comes back.
Validate(batch) ==
  LET held     == OrderInsert(orderedNav, batch)
      released == OrderReleased(held)
  IN  /\ batch # {}
      /\ batch \cap submitted = {}
      /\ submitted' = submitted \cup batch
      /\ rejected' = rejected \cup OrderRejected(orderedNav, batch)
      /\ accepted' = accepted \cup released
      /\ orderedNav' = held \ released
      /\ UNCHANGED flushed

\* finalize(msgBitsOut): everything still held is accepted.
Finalize ==
  /\ flushed' = flushed \cup accepted \cup orderedNav
  /\ orderedNav' = {}
  /\ accepted' = {}
  /\ UNCHANGED <<submitted, rejected>>

Next ==
  \/ \E batch \in SUBSET Msg : Validate(batch)
  \/ Finalize

Spec == Init /\ [][Next]_vars

-----------------------------------------------------------------------------
(* Properties *)

\* No message is lost or comes back twice: each one handed over is in
\* exactly one of orderedNav, the accepted and the rejected messages.
Conservation ==
  /\ submitted = orderedNav \cup accepted \cup rejected \cup flushed
  /\ orderedNav \cap (accepted \cup rejected \cup flushed) = {}
  /\ accepted \cap (rejected \cup flushed) = {}
  /\ rejected \cap flushed = {}

\* The filter never holds more than procDepth epochs: this is the buffer the
\* application sizes with processingDepth().
HeldWithinDepth ==
  \A m, n \in orderedNav : timeStamp[n] - timeStamp[m] < Window

\* A message is rejected only if it is more than procDepth epochs older than
\* another message the filter has been given.
RejectedAreStale ==
  \A r \in rejected : \E n \in submitted : timeStamp[r] < timeStamp[n] - Window

\* Whatever was accepted is a full window behind some message still held:
\* the newest message never leaves, so the watermark never moves back.
AcceptedBehindHeld ==
  \A a \in accepted : \E n \in orderedNav : timeStamp[a] <= timeStamp[n] - Window

\* Nothing held is older than something already accepted, so finalize()
\* cannot put messages out of time order either.
HeldNotBeforeAccepted ==
  \A a \in accepted, m \in orderedNav : timeStamp[a] <= timeStamp[m]

\* Accepted messages are in time order: what a call accepts is never older
\* than what an earlier call accepted.
AcceptedInTimeOrder ==
  [][\A m \in accepted' \ accepted, a \in accepted :
        timeStamp[a] <= timeStamp[m]]_vars

=============================================================================
