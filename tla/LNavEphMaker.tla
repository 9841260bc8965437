---------------------------- MODULE LNavEphMaker ----------------------------
(***************************************************************************)
(* LNavEphMaker: the last filter of a cascade collects subframes 1, 2 and  *)
(* 3 of each receiver channel and offers every complete ephemeris in       *)
(* completeEphs, which the application reads after each validate() call.   *)
(*                                                                         *)
(* Subframes may be missing, but those of one channel come in time order.  *)
(***************************************************************************)
EXTENDS LNavEphGroups

VARIABLES
  ephemerides,   \* the subframes in LNavEphMaker::ephemerides
  completeEphs,  \* the channels LNavEphMaker::completeEphs points to
  submitted,     \* history: every message given to validate()
  received       \* history: those given since the last finalize()

vars == <<ephemerides, completeEphs, submitted, received>>

\* A group has one place per subframe ID, and completeEphs points to groups that
\* are in ephemerides: finalize() may not leave it pointing to erased ones.
TypeOK ==
  /\ ephemerides \subseteq {m \in received : sfid[m] \in 1..3}
  /\ \A m, n \in ephemerides : SameSlot(m, n) => m = n
  /\ completeEphs \subseteq {channel[m] : m \in ephemerides}
  /\ submitted \subseteq Msg
  /\ received \subseteq submitted

Init ==
  /\ ephemerides = {}
  /\ completeEphs = {}
  /\ submitted = {}
  /\ received = {}

\* The messages a caller may hand over next.
Upcoming ==
  {m \in Msg \ submitted :
     \A n \in submitted : channel[n] = channel[m] => timeStamp[n] < timeStamp[m]}

ValidateMutant(batch) ==
  /\ batch # {}
  /\ ephemerides' = EphStored(ephemerides, batch)
  /\ completeEphs' = completeEphs \cup Completed(ephemerides, batch)
  /\ submitted' = submitted \cup batch
  /\ received' = received \cup batch

\* validate(msgBitsIn, msgBitsOut)
Validate(batch) ==
  /\ batch # {}
  /\ ephemerides' = EphStored(ephemerides, batch)
  /\ completeEphs' = Completed(ephemerides, batch)
  /\ submitted' = submitted \cup batch
  /\ received' = received \cup batch

FinalizeMutant ==
  /\ ephemerides' = {}
  /\ received' = {}
  /\ UNCHANGED <<completeEphs, submitted>>

\* finalize(msgBitsOut)
Finalize ==
  /\ ephemerides' = {}
  /\ completeEphs' = {}
  /\ received' = {}
  /\ UNCHANGED submitted

Next ==
  \/ \E batch \in SUBSET Upcoming : Validate(batch)
  \/ Finalize

Spec == Init /\ [][Next]_vars

-----------------------------------------------------------------------------
(* Properties *)

\* What a call offers is an ephemeris that was broadcast: three subframes in
\* sequence with one issue of data, the last of them in the list of this call,
\* and each the latest of its kind on the channel when that last one came.
OfferedWasComplete ==
  [][\A k \in completeEphs' :
       \E a, b, c \in received' :
         /\ channel[a] = k /\ Frame(a, b, c)
         /\ \E m \in {a, b, c} \cap (submitted' \ submitted) :
              \A x \in {a, b, c} :
                /\ timeStamp[x] <= timeStamp[m]
                /\ \A n \in received' \ {x} : SameSlot(x, n) =>
                     timeStamp[n] < timeStamp[x] \/ timeStamp[m] < timeStamp[n]]_vars

\* No ephemeris is missed: when the last three ephemeris subframes received on
\* a channel form one, the call that brought the last of them reports it,
\* whatever was stored for the channel before and whatever else is in the list.
EphemerisReported ==
  [][\A a, b, c \in received' :
       /\ Frame(a, b, c)
       /\ timeStamp[a] < timeStamp[b] /\ timeStamp[b] < timeStamp[c]
       /\ {a, b, c} \cap (submitted' \ submitted) # {}
       /\ \A n \in EphSubframes(received') \ {a, b, c} :
             channel[n] = channel[a] => timeStamp[n] < timeStamp[a]
       => channel[a] \in completeEphs']_vars

\* Every ephemeris is offered once: none is reported again by a call that
\* brought nothing new for it.
NoCarryOver ==
  [][\A k \in completeEphs' :
       \E m \in submitted' \ submitted : channel[m] = k /\ m \in ephemerides']_vars

-----------------------------------------------------------------------------
(* What the documentation says of completeEphs.                            *)

\* After a validate() call completeEphs contains valid ephemerides: the groups
\* it points to hold three subframes in sequence with one issue of data.
CompleteEphsValid == \A k \in completeEphs : ValidGroup(ephemerides, k)

=============================================================================
