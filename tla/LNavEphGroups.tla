--------------------------- MODULE LNavEphGroups ---------------------------
(***************************************************************************)
(* How LNavEphMaker assembles ephemerides, as functions of the subframes   *)
(* it has stored.  Its map ephemerides holds, for each receiver channel    *)
(* (station, receiver, PRN, carrier and code), the latest subframe 1, 2    *)
(* and 3; here it is the set of the subframes so held.                     *)
(***************************************************************************)
EXTENDS NavFilters

CONSTANTS
  channel,  \* the LNavEphMakerSort key of a message
  sfid,     \* EngNav::getSFID() of a message
  tow,      \* EngNav::getTOW() of a message, the TOW count
  iode      \* the IODE of subframe 2 or 3, the low 8 bits of IODC of 1

\* A channel decodes one subframe at a time.
ASSUME ChannelAssumption ==
  /\ DOMAIN channel = Msg
  /\ sfid \in [Msg -> Int]
  /\ tow \in [Msg -> Nat]
  /\ DOMAIN iode = Msg
  /\ \A m, n \in Msg : channel[m] = channel[n] /\ timeStamp[m] = timeStamp[n] => m = n

\* The subframes validate() stores, and those it passes on at once.
EphSubframes(batch) == {m \in batch : sfid[m] \in 1..3}

EphPassed(batch) == batch \ EphSubframes(batch)

SameSlot(m, n) == channel[m] = channel[n] /\ sfid[m] = sfid[n]

EphStoredMutant(held, batch) ==
  held \cup {m \in EphSubframes(batch) : \A n \in held : ~SameSlot(m, n)}

\* ephemerides after the subframes of a list: each replaces the one stored
\* for its channel and subframe ID.
EphStored(held, batch) ==
  LET new == EphSubframes(batch)
  IN  {m \in new : \A n \in new : SameSlot(m, n) => timeStamp[n] <= timeStamp[m]}
      \cup {m \in held : \A n \in new : ~SameSlot(m, n)}

\* Three subframes make up an ephemeris: TOW counts consecutive, issues equal.
Frame(a, b, c) ==
  /\ sfid[a] = 1 /\ sfid[b] = 2 /\ sfid[c] = 3
  /\ channel[a] = channel[b] /\ channel[b] = channel[c]
  /\ tow[b] - tow[a] = 1 /\ tow[c] - tow[b] = 1
  /\ iode[a] = iode[b] /\ iode[a] = iode[c]

ValidGroup(held, k) == \E a, b, c \in held : channel[a] = k /\ Frame(a, b, c)

CompletedUncheckedMutant(held, batch) ==
  {k \in {channel[m] : m \in EphSubframes(batch)} :
     \A id \in 1..3 : \E m \in EphStored(held, batch) : channel[m] = k /\ sfid[m] = id}

\* completeEphs after a list: the channels whose group was an ephemeris right
\* after one of the list's subframes was stored.  The code pushes a pointer to
\* the group, so a channel stands for whatever its group holds later.
Completed(held, batch) ==
  {k \in {channel[m] : m \in EphSubframes(batch)} :
     \E m \in EphSubframes(batch) :
        /\ channel[m] = k
        /\ ValidGroup(EphStored(held, {n \in batch : timeStamp[n] <= timeStamp[m]}), k)}

=============================================================================
