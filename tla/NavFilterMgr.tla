---------------------------- MODULE NavFilterMgr ----------------------------
(***************************************************************************)
(* NavFilterMgr: a cascade of navigation message filters.  validate()      *)
(* pushes one message through the filters in turn; finalize() flushes each *)
(* filter in turn and pushes what it held through those after it.  The     *)
(* actions are the iterations of these two loops, one filter call each.    *)
(*                                                                         *)
(* The application owns the messages.  After each call it takes back the   *)
(* returned messages and those on the rejected lists of the filters in     *)
(* NavFilterMgr::rejected, as the examples do.                             *)
(***************************************************************************)
EXTENDS LNavEphGroups, Sequences, FiniteSetsExt

CONSTANTS
  filters,  \* NavFilterMgr::filters: "check", "order", "cross" or "eph"
  failing   \* per filter, the messages its check rejects (depth 0 filters)

ASSUME ChainAssumption ==
  /\ filters \in Seq({"check", "order", "cross", "eph"})
  /\ failing \in [DOMAIN filters -> SUBSET Msg]

VARIABLES
  call,             \* the call in progress, or "idle", or "done" when finalized
  next,             \* the filter to call next with the messages in transit
  flushing,         \* finalize(): the filter fliCur
  transit,          \* rv of validate(), rv1 of finalize()
  stored,           \* per filter, the messages it holds
  rejected,         \* per filter, NavFilter::rejected
  rejectedFilters,  \* NavFilterMgr::rejected
  completeEphs,     \* LNavEphMaker::completeEphs, if there is such a filter
  submitted,        \* history: every message given to validate()
  accepted,         \* history: every message returned
  reported,         \* history: every message the application found rejected
  found             \* history: the ephemerides completed during the last call

dataVars == <<stored, rejected, completeEphs, found>>
vars == <<call, next, flushing, transit, stored, rejected, rejectedFilters,
          completeEphs, submitted, accepted, reported, found>>

TypeOK ==
  /\ call \in {"idle", "validate", "finalize", "done"}
  /\ next \in 1..(Len(filters) + 1)
  /\ flushing \in 1..(Len(filters) + 1)
  /\ transit \subseteq Msg
  /\ stored \in [DOMAIN filters -> SUBSET Msg]
  /\ rejected \in [DOMAIN filters -> SUBSET Msg]
  /\ rejectedFilters \subseteq DOMAIN filters
  /\ completeEphs \cup found \subseteq {channel[m] : m \in Msg}
  /\ submitted \cup accepted \cup reported \subseteq Msg

Init ==
  /\ call = "idle"
  /\ next = 1
  /\ flushing = 1
  /\ transit = {}
  /\ stored = [i \in DOMAIN filters |-> {}]
  /\ rejected = [i \in DOMAIN filters |-> {}]
  /\ rejectedFilters = {}
  /\ completeEphs = {}
  /\ submitted = {}
  /\ accepted = {}
  /\ reported = {}
  /\ found = {}

-----------------------------------------------------------------------------
(* One call of a filter's validate(): what filter i does with a list.      *)

\* accept(): the messages filter i passes on.
Accepts(i, list) ==
  CASE filters[i] = "check" -> CheckAccepted(failing[i], list)
    [] filters[i] = "order" -> OrderReleased(OrderInsert(stored[i], list))
    [] filters[i] = "cross" -> CrossAccepted(stored[i], list)
    [] filters[i] = "eph"   -> EphPassed(list)

\* reject(): the messages filter i puts on its rejected list.
Rejects(i, list) ==
  CASE filters[i] = "check" -> CheckRejected(failing[i], list)
    [] filters[i] = "order" -> OrderRejected(stored[i], list)
    [] filters[i] = "cross" -> CrossRejected(stored[i], list)
    [] filters[i] = "eph"   -> {}

\* What filter i holds afterwards.
Holds(i, list) ==
  CASE filters[i] = "check" -> {}
    [] filters[i] = "order" -> OrderInsert(stored[i], list) \ Accepts(i, list)
    [] filters[i] = "cross" -> Grouped(stored[i], list)
    [] filters[i] = "eph"   -> EphStored(stored[i], list)

CallFilterMutant(i) ==
  /\ rejected' = [rejected EXCEPT ![i] = @ \cup Rejects(i, transit)]
  /\ transit' = Accepts(i, transit)
  /\ stored' = [stored EXCEPT ![i] = Holds(i, transit)]
  /\ IF filters[i] = "eph"
     THEN /\ completeEphs' = Completed(stored[i], transit)
          /\ found' = found \cup completeEphs'
     ELSE UNCHANGED <<completeEphs, found>>

\* rejected.clear(), then validate(transit, ...): what it accepts is the next
\* list in transit.
CallFilter(i) ==
  /\ rejected' = [rejected EXCEPT ![i] = Rejects(i, transit)]
  /\ transit' = Accepts(i, transit)
  /\ stored' = [stored EXCEPT ![i] = Holds(i, transit)]
  /\ IF filters[i] = "eph"
     THEN /\ completeEphs' = Completed(stored[i], transit)
          /\ found' = found \cup completeEphs'
     ELSE UNCHANGED <<completeEphs, found>>

-----------------------------------------------------------------------------
(* NavFilterMgr::validate()                                                *)

\* The application hands over a message it has not handed over before.
Validate(m) ==
  /\ call = "idle"
  /\ m \notin submitted
  /\ call' = "validate"
  /\ next' = 1
  /\ transit' = {m}
  /\ rejectedFilters' = {}
  /\ found' = {}
  /\ submitted' = submitted \cup {m}
  /\ UNCHANGED <<flushing, stored, rejected, completeEphs, accepted, reported>>

\* An iteration of the loop over the filters.
ValidateFilter ==
  /\ call = "validate"
  /\ next \in DOMAIN filters
  /\ transit # {}
  /\ CallFilter(next)
  /\ rejectedFilters' = rejectedFilters \cup {i \in {next} : rejected'[i] # {}}
  /\ next' = next + 1
  /\ UNCHANGED <<call, flushing, submitted, accepted, reported>>

\* The end of the loop: the application takes its messages back.
ValidateReturn ==
  /\ call = "validate"
  /\ next \notin DOMAIN filters \/ transit = {}
  /\ call' = "idle"
  /\ accepted' = accepted \cup transit
  /\ reported' = reported \cup UNION {rejected[i] : i \in rejectedFilters}
  /\ transit' = {}
  /\ UNCHANGED <<next, flushing, rejectedFilters, submitted>>
  /\ UNCHANGED dataVars

-----------------------------------------------------------------------------
(* NavFilterMgr::finalize()                                                *)

\* finalize() is called when all data has been added, or once more.
Finalize ==
  /\ call \in {"idle", "done"}
  /\ call' = "finalize"
  /\ flushing' = 1
  /\ rejectedFilters' = {}
  /\ found' = {}
  /\ UNCHANGED <<next, transit, stored, rejected, completeEphs,
                 submitted, accepted, reported>>

FinalizeFilterMutant ==
  /\ call = "finalize"
  /\ transit = {}
  /\ flushing \in DOMAIN filters
  /\ LET i == flushing IN
       /\ transit' = (CASE filters[i] = "order" -> stored[i]
                        [] filters[i] = "cross" -> Winners(stored[i])
                        [] OTHER -> {})
       /\ rejected' = [rejected EXCEPT ![i] =
                         IF filters[i] = "cross" THEN stored[i] \ Winners(stored[i]) ELSE {}]
       /\ completeEphs' = IF filters[i] = "eph" THEN {} ELSE completeEphs
       /\ next' = i + 1
  /\ flushing' = flushing + 1
  /\ UNCHANGED <<call, stored, rejectedFilters, submitted, accepted, reported, found>>

\* The outer loop: fliCur is flushed.
FinalizeFilter ==
  /\ call = "finalize"
  /\ transit = {}
  /\ flushing \in DOMAIN filters
  /\ LET i == flushing IN
       /\ transit' = (CASE filters[i] = "order" -> stored[i]
                        [] filters[i] = "cross" -> Winners(stored[i])
                        [] OTHER -> {})
       /\ rejected' = [rejected EXCEPT ![i] =
                         IF filters[i] = "cross" THEN stored[i] \ Winners(stored[i]) ELSE {}]
       /\ stored' = [stored EXCEPT ![i] = {}]
       /\ completeEphs' = IF filters[i] = "eph" THEN {} ELSE completeEphs
       /\ next' = i + 1
  /\ flushing' = flushing + 1
  /\ UNCHANGED <<call, rejectedFilters, submitted, accepted, reported, found>>

\* The inner loop: what fliCur held goes through the next filter.
FinalizeCascade ==
  /\ call = "finalize"
  /\ next \in DOMAIN filters
  /\ transit # {}
  /\ CallFilter(next)
  /\ next' = next + 1
  /\ UNCHANGED <<call, flushing, rejectedFilters, submitted, accepted, reported>>

\* The end of the inner loop: what passed every filter joins the result.
FinalizeCollect ==
  /\ call = "finalize"
  /\ next \notin DOMAIN filters
  /\ transit # {}
  /\ accepted' = accepted \cup transit
  /\ transit' = {}
  /\ UNCHANGED <<call, next, flushing, rejectedFilters, submitted, reported>>
  /\ UNCHANGED dataVars

\* The end of the outer loop.
FinalizeReturn ==
  /\ call = "finalize"
  /\ transit = {}
  /\ flushing \notin DOMAIN filters
  /\ call' = "done"
  /\ reported' = reported \cup UNION {rejected[i] : i \in rejectedFilters}
  /\ UNCHANGED <<next, flushing, transit, rejectedFilters, submitted, accepted>>
  /\ UNCHANGED dataVars

\* The steps of a call in progress.
Step ==
  \/ ValidateFilter
  \/ ValidateReturn
  \/ FinalizeFilter
  \/ FinalizeCascade
  \/ FinalizeCollect
  \/ FinalizeReturn

Next ==
  \/ \E m \in Msg : Validate(m)
  \/ Finalize
  \/ Step

Spec == Init /\ [][Next]_vars

-----------------------------------------------------------------------------
(* processingDepth(): one more than the sum over the filters.              *)

ProcessingDepth(kind) ==
  CASE kind = "check" -> 0
    [] kind = "order" -> procDepth
    [] kind = "cross" -> 1
    [] kind = "eph"   -> 3

ManagerDepth == 1 + MapThenSumSet(LAMBDA i : ProcessingDepth(filters[i]), DOMAIN filters)

-----------------------------------------------------------------------------
(* Properties *)

Held == UNION {stored[i] : i \in DOMAIN filters}
Pending == UNION {rejected[i] : i \in rejectedFilters}

\* LNavEphMaker has stored another subframe in the place of m.
Replaced(m) ==
  \E i \in DOMAIN filters :
     filters[i] = "eph" /\ \E n \in stored[i] : n # m /\ SameSlot(m, n)

\* As long as the application only calls validate() the manager loses track of
\* no message but ephemeris subframes whose place LNavEphMaker has given to
\* another: each one is held, on its way, returned, or on the rejected list of
\* a filter that NavFilterMgr::rejected names.  And none is handed back twice:
\* what is returned or reported is nowhere else, and a list that was reported
\* is not named again.
NothingLost ==
  call \in {"idle", "validate"} =>
    /\ Held \cup transit \cup accepted \cup reported \cup Pending \subseteq submitted
    /\ \A m \in submitted :
         m \in Held \cup transit \cup accepted \cup reported \cup Pending \/ Replaced(m)
    /\ (Held \cup transit \cup Pending) \cap accepted = {}
    /\ (Held \cup transit \cup accepted) \cap reported = {}
    /\ call = "validate" => Pending \cap reported = {}
    /\ \A i, j \in DOMAIN filters : i # j => stored[i] \cap stored[j] = {}

\* Flushing reaches what flushing moved: after finalize() no filter holds
\* anything, whatever the filters before it released into it.
DrainedWhenDone == call = "done" => Held = {} /\ transit = {}

\* The time stamps of an epoch's messages agree with the epochInSeconds that
\* the order filters were set to.
Aligned == \A m \in Msg : \E k \in 0..timeStamp[m] : timeStamp[m] = k * epochInSeconds

\* What the filters keep, of the subframes in LNavEphMaker only those of
\* channel k: it has a group for every channel it ever saw.
Kept(i, k) == IF filters[i] = "eph" THEN {m \in stored[i] : channel[m] = k} ELSE stored[i]
InUse(k) == transit \cup UNION {Kept(i, k) : i \in DOMAIN filters}

\* The application provides a buffer of processingDepth() epochs for each
\* channel: the messages in use are of no more epochs.
EpochsWithinDepth ==
  Aligned => \A k \in {channel[m] : m \in Msg} :
               Cardinality({timeStamp[m] : m \in InUse(k)}) <= ManagerDepth

\* With an order filter before a cross source filter, one PRN and epoch is
\* voted on once: everything accepted for it has one content.
OneContentPerEpoch ==
  \A m, n \in accepted :
     timeStamp[m] = timeStamp[n] /\ prn[m] = prn[n] => bits[m] = bits[n]

\* With an order filter in the cascade the application gets the messages in
\* time order, across calls and through finalize().
ReturnedInTimeOrder ==
  [][\A m \in accepted' \ accepted, n \in accepted : timeStamp[n] <= timeStamp[m]]_vars

-----------------------------------------------------------------------------
(* What the documentation says of finalize().                              *)

\* Ephemerides completed during finalize() are produced.
EphemeridesProducedByFinalize == call = "done" => found \subseteq completeEphs

=============================================================================
