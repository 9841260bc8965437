------------------------------- MODULE PNBPages -------------------------------
(***************************************************************************)
(* The accumulators of the PNB*NavDataFactory decoders: pages of one       *)
(* transmitter come in any order, some of them lost, repeated, of another  *)
(* upload or damaged, and leave as ephemerides and almanacs.  All decoders *)
(* are there at once, as in PNBMultiGNSSNavDataFactory.                    *)
(***************************************************************************)
EXTENDS PNBDecoders

CONSTANT
  Setups   \* what can be on the air ("air", a set of pages), wanted
           \* (setTypeFilter) and let through (setValidityFilter)

ASSUME SetupAssumption ==
  \A s \in Setups :
    /\ s.air \subseteq Page
    /\ s.wanted \subseteq Types
    /\ s.validity \in {"Any", "ValidOnly", "InvalidOnly"}

VARIABLES
  setup,     \* the setup, which does not change
  acc,       \* the pages held; a key is in a map while a page with it is here
  navOut,    \* the messages the last call put out, each with its pages
  made,      \* the pages the last call used up
  heard,     \* history: pages kept since their key's last data set or a reset
  run,       \* history: pages kept, per key, with none of another upload between
  reported   \* history: keys with a data set made since their run began

vars == <<setup, acc, navOut, made, heard, run, reported>>

Init ==
  /\ setup \in Setups
  /\ acc = {} /\ navOut = {} /\ made = {}
  /\ heard = {} /\ run = {} /\ reported = {}

-----------------------------------------------------------------------------
(* addData()                                                               *)

WithKey(S, k) == {q \in S : Key(q) = k}

OtherKeys(S, k) == {q \in S : Key(q) # k}

HeldMutant(p) == WithKey(acc, Key(p)) \cup {p}

\* The vector of the page's key, once the page is in its slot.
Held(p) == {q \in WithKey(acc, Key(p)) : q.slot # p.slot} \cup {p}

Open(p) == WithKey(acc, Key(p)) # {}

Dropped(p) ==
  \/ ChecksLength(p.acc) /\ ~p.sized
  \/ ~PassesValidity(p, setup.validity)

Kept(p) == KeptFor(p.acc) \cap setup.wanted # {}

CompleteMutant(p) ==
  Kept(p) /\ Open(p) /\ p.slot = 3 /\ Ready(p.acc, Held(p))

\* The first page with its key only opens the accumulator.
Complete(p) == Kept(p) /\ Open(p) /\ Ready(p.acc, Held(p))

UsedUp(p) == Complete(p) /\ UsesUp(p.acc, setup.wanted)

Messages(p) ==
  [type : AtOnce(p, Open(p), Held(p)) \cap setup.wanted, pages : {{p}}]
    \cup (IF Complete(p)
            THEN [type : AtEnd(p.acc) \cap setup.wanted, pages : {Held(p)}]
            ELSE {})

\* A page of another upload, or one that cannot be used, ends a run.
Breaks(p) ==
  ~p.sized \/ \E q \in WithKey(run, Key(p)) : q.upload # p.upload

NoteHeard(p) ==
  /\ heard' = IF UsedUp(p) THEN OtherKeys(heard, Key(p)) ELSE heard \cup {p}
  /\ run' = (IF Breaks(p) THEN OtherKeys(run, Key(p)) ELSE run)
              \cup {q \in {p} : q.sized}
  /\ reported' = (IF Breaks(p) THEN reported \ {Key(p)} ELSE reported)
                   \cup {k \in {Key(p)} : UsedUp(p)}

\* addData() does not let the page through.
Discard(p) ==
  /\ Dropped(p)
  /\ navOut' = {} /\ made' = {}
  /\ UNCHANGED <<acc, heard, run, reported>>

\* The page is not kept, whatever it yields by itself.
Pass(p) ==
  /\ ~Dropped(p) /\ ~Kept(p)
  /\ navOut' = Messages(p) /\ made' = {}
  /\ UNCHANGED <<acc, heard, run, reported>>

\* The page goes into its slot, in place of the one that is there.
Store(p) ==
  /\ ~Dropped(p) /\ Kept(p) /\ ~UsedUp(p)
  /\ acc' = OtherKeys(acc, Key(p)) \cup Held(p)
  /\ navOut' = Messages(p) /\ made' = {}
  /\ NoteHeard(p)

AssembleMutant(p) ==
  /\ ~Dropped(p) /\ UsedUp(p)
  /\ acc' = OtherKeys(acc, Key(p)) \cup Held(p)
  /\ navOut' = Messages(p) /\ made' = Held(p)
  /\ NoteHeard(p)

\* The page completes a data set; the key is erased from the map.
Assemble(p) ==
  /\ ~Dropped(p) /\ UsedUp(p)
  /\ acc' = OtherKeys(acc, Key(p))
  /\ navOut' = Messages(p) /\ made' = Held(p)
  /\ NoteHeard(p)

\* Pages that go to no accumulator are not this module's.
Elsewhere(p) ==
  /\ p.acc \notin Accumulators
  /\ navOut' = {} /\ made' = {}
  /\ UNCHANGED <<acc, heard, run, reported>>

AddData(p) ==
  /\ p \in setup.air
  /\ \/ p.acc \in Accumulators /\ (Discard(p) \/ Pass(p) \/ Store(p) \/ Assemble(p))
     \/ Elsewhere(p)
  /\ UNCHANGED setup

ResetState ==
  /\ acc' = {} /\ navOut' = {} /\ made' = {}
  /\ heard' = {} /\ run' = {} /\ reported' = {}
  /\ UNCHANGED setup

Next == ResetState \/ \E p \in setup.air : AddData(p)

Spec == Init /\ [][Next]_vars

-----------------------------------------------------------------------------
(* Properties                                                              *)

\* The accumulators hold at most one page for each of their slots, and what
\* comes out is of a wanted type and made of pages that were on the air.
TypeOK ==
  /\ setup \in Setups
  /\ acc \subseteq {p \in setup.air : p.acc \in Accumulators}
  /\ \A p, q \in acc : Key(p) = Key(q) /\ p.slot = q.slot => p = q
  /\ \A m \in navOut : m.type \in setup.wanted /\ m.pages \subseteq setup.air
  /\ made \subseteq setup.air
  /\ acc \subseteq heard /\ heard \subseteq setup.air
  /\ run \subseteq {p \in setup.air : p.sized}

\* An ephemeris or almanac is never put together from the pages of two
\* uploads, though the pages of the next one come while some of the last are
\* still held and any page can be lost.  (processEph, processAlm)
OneUpload ==
  \A m \in navOut : m.type \in {"Ephemeris", "Almanac"} =>
    \A p, q \in m.pages : Versioned(p) /\ Versioned(q) => p.upload = q.upload

\* When all pages of an upload have been heard, in whatever order, with no
\* page of another between them, a data set has been made: no earlier page
\* left in an accumulator keeps it from being complete.
CompleteFrameReported ==
  \A p \in run :
    /\ UsesUp(p.acc, setup.wanted)
    /\ \A s \in Needed(p.acc) : \E q \in WithKey(run, Key(p)) : q.slot = s
    => Key(p) \in reported

NeededOf(k) == Needed(k.acc)

Sets == INSTANCE PageSets WITH Needed <- NeededOf

\* The decoders make data sets as PageSets promises: of pages of one
\* transmitter, one of each slot, none used in an earlier data set.
MakesPageSets == Sets!Spec

=============================================================================
