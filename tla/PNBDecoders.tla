----------------------------- MODULE PNBDecoders -----------------------------
(***************************************************************************)
(* What the PNB*NavDataFactory classes know of the pages (subframes,       *)
(* messages, words, strings) of the navigation messages they decode: which *)
(* accumulator a page goes to and at which index, when a set of pages is   *)
(* complete and belongs together, and what a page yields by itself.        *)
(*                                                                         *)
(* A page is a record.  "acc" names the accumulator: ephAcc or almAcc of   *)
(* one of the decoders.  "upload" is not in the bits: it is the data set   *)
(* the transmitter had when it sent the page and, where the decoder goes   *)
(* by the time of the pages, the frame of that data set.                   *)
(***************************************************************************)
EXTENDS Integers, FiniteSets

CONSTANTS
  Page,    \* the pages a receiver can hear
  Week     \* length of a week, in the seconds of the model

Accumulators == {"LNavEph", "CNavEph", "GalIEph", "GalIAlm", "GalFEph", "GalFAlm",
                 "GLOFEph", "GLOCEph", "D1Eph", "D2Eph"}

Types == {"Ephemeris", "Almanac", "Health", "TimeOffset", "Iono", "ISC", "System"}

\* The slots of an accumulator: the size its vector is given.
Slots(a) ==
  CASE a \in {"LNavEph", "CNavEph", "GLOCEph", "D1Eph"} -> 1..3
    [] a \in {"GalIAlm", "GalFEph", "GLOFEph"}          -> 1..4
    [] a = "GalIEph"                                    -> 1..5
    [] a = "GalFAlm"                                    -> 1..2
    [] a = "D2Eph"                                      -> 1..10
    [] OTHER                                            -> {}

\* Page 2 of D2 has the ionospheric parameters and no part of the orbit.
Needed(a) == IF a = "D2Eph" THEN Slots(a) \ {2} ELSE Slots(a)

Numbers(p) == {p.upload, p.issue, p.time} \subseteq Nat

ASSUME PageAssumption ==
  /\ Week \in Nat \ {0}
  /\ \A p \in Page :
       /\ Numbers(p)
       /\ {p.sized, p.valid} \subseteq BOOLEAN
       /\ p.acc \in Accumulators => p.slot \in Slots(p.acc)

\* The key of the accumulator's map: the transmitting satellite and signal,
\* but for CNAV the PRN alone, whatever the signal.
Key(p) == [acc |-> p.acc, sat |-> p.sat,
           signal |-> IF p.acc = "CNavEph" THEN "any" ELSE p.signal]

-----------------------------------------------------------------------------
(* Which pages go together                                                 *)

\* Galileo's word type 5 has no issue of data though it is part of the
\* ephemeris, and page 2 of D2 is not part of it.
Versioned(p) == ~(p.acc = "GalIEph" /\ p.slot = 5) /\ ~(p.acc = "D2Eph" /\ p.slot = 2)

\* The issues of data of all the pages that have one are equal.
SameIssue(S) == \A p, q \in S : Versioned(p) /\ Versioned(q) => p.issue = q.issue

\* The pages were transmitted one after the other, each a step after the last.
InStep(S, step) == \A p, q \in S : q.time - p.time = step * (q.slot - p.slot)

\* The same of the seconds of week that the pages have in their bits.
InStepOfWeek(S, step) ==
  \A p, q \in S : (q.time % Week) - (p.time % Week) = step * (q.slot - p.slot)

LNavAgree(S) == SameIssue(S)            \* IODC's low bits, IODE 2, IODE 3
CNavAgree(S) == SameIssue(S)            \* toe of type 10, toe of type 11, toc
GalIAgree(S) == SameIssue(S)            \* IODnav
GalIAlmAgree(S) == SameIssue(S)         \* IODa
GalFAgree(S) == SameIssue(S)            \* IODnav
GalFAlmAgree(S) == SameIssue(S)         \* IODa
GLOFAgree(S) == InStep(S, 2)
GLOCAgree(S) == InStep(S, 3)
D1Agree(S) == InStepOfWeek(S, 6)
D2Agree(S) == InStepOfWeek({p \in S : Versioned(p)}, 3)

Agree(a, S) ==
  CASE a = "LNavEph" -> LNavAgree(S)
    [] a = "CNavEph" -> CNavAgree(S)
    [] a = "GalIEph" -> GalIAgree(S)
    [] a = "GalIAlm" -> GalIAlmAgree(S)
    [] a = "GalFEph" -> GalFAgree(S)
    [] a = "GalFAlm" -> GalFAlmAgree(S)
    [] a = "GLOFEph" -> GLOFAgree(S)
    [] a = "GLOCEph" -> GLOCAgree(S)
    [] a = "D1Eph"   -> D1Agree(S)
    [] a = "D2Eph"   -> D2Agree(S)
    [] OTHER         -> FALSE

ReadyMutant(a, S) == \A s \in Needed(a) : \E p \in S : p.slot = s /\ p.sized

\* Every slot needed holds a page of the right length, and they go together.
Ready(a, S) ==
  /\ \A s \in Needed(a) : \E p \in S : p.slot = s /\ p.sized
  /\ Agree(a, S)

\* What the decoders rely on to tell one upload from the next: the issue of
\* data, and the time, of a page are those of its upload and of no other.
ASSUME UploadAssumption ==
  \A p, q \in Page :
    p.acc \in Accumulators /\ Key(p) = Key(q) /\ Versioned(p) /\ Versioned(q) =>
      (Agree(p.acc, {p, q}) <=> p.upload = q.upload)

-----------------------------------------------------------------------------
(* What addData() lets through, and what it keeps                          *)

\* These decoders look at the length of a page in addData().
ChecksLength(a) == a \in {"GalIEph", "GalIAlm", "GLOFEph", "GLOCEph", "D1Eph", "D2Eph"}

\* Parity of LNAV, preamble of GLONASS CDMA; the other decoders have yet to
\* check anything.
ChecksValidity(a) == a \in {"LNavEph", "GLOCEph"}

PassesValidity(p, validity) ==
  ChecksValidity(p.acc) =>
    /\ validity = "ValidOnly" => p.valid
    /\ validity = "InvalidOnly" => ~p.valid

\* A page is kept when one of these types is wanted.
KeptFor(a) ==
  CASE a = "GalIEph" -> {"Ephemeris", "Health", "Iono", "ISC"}
    [] a = "GalFEph" -> {"Ephemeris", "Health", "Iono", "ISC", "TimeOffset"}
    [] a = "GalIAlm" -> {"Almanac", "Health", "TimeOffset"}
    [] a = "GalFAlm" -> {"Almanac", "Health"}
    [] a = "GLOFEph" -> {"Ephemeris", "Health"}
    [] OTHER         -> {"Ephemeris"}

\* A complete set is used up, except that these decoders go on with it when
\* an ephemeris is not wanted.
UsesUp(a, wanted) ==
  a \in {"GalIEph", "GalFEph", "GLOFEph"} => "Ephemeris" \in wanted

-----------------------------------------------------------------------------
(* What the decoders put in navOut                                         *)

\* What a page yields as soon as it is added.
LNavAtOnce(p) == IF p.slot = 1 THEN {"Health", "ISC"} ELSE {}
CNavAtOnce(p) == IF p.slot = 1 THEN {"Health"} ELSE {}
GalFAtOnce(p) ==
  CASE p.slot = 1 -> {"Iono", "Health", "ISC"}
    [] p.slot = 4 -> {"TimeOffset"}
    [] OTHER      -> {}
GLOFAtOnce(p) == IF p.slot = 4 THEN {"ISC"} ELSE {}
GLOCAtOnce(p) == {"Health"}
D1AtOnce(p) == IF p.slot = 1 THEN {"Health", "Iono", "ISC"} ELSE {}
D2AtOnce(p) ==
  CASE p.slot = 1 -> {"ISC", "Health"}
    [] p.slot = 2 -> {"Iono"}
    [] OTHER      -> {}

\* Only a page added to an accumulator that is open yields these; the health
\* of word type 5 is completed by the accuracy in word type 3.
GalIAtOnce(p, S) ==
  IF p.slot # 5 THEN {}
  ELSE {"Iono", "ISC"} \cup {t \in {"Health"} : \E q \in S : q.slot = 3}
GalIAlmAtOnce(p) == IF p.slot = 4 THEN {"TimeOffset"} ELSE {}

AtOnce(p, open, S) ==
  CASE p.acc = "LNavEph" -> LNavAtOnce(p)
    [] p.acc = "CNavEph" -> CNavAtOnce(p)
    [] p.acc = "GalFEph" -> GalFAtOnce(p)
    [] p.acc = "GLOFEph" -> GLOFAtOnce(p)
    [] p.acc = "GLOCEph" -> GLOCAtOnce(p)
    [] p.acc = "D1Eph"   -> D1AtOnce(p)
    [] p.acc = "D2Eph"   -> D2AtOnce(p)
    [] p.acc = "GalIEph" /\ open -> GalIAtOnce(p, S)
    [] p.acc = "GalIAlm" /\ open -> GalIAlmAtOnce(p)
    [] OTHER             -> {}

\* What a complete set yields.
LNavAtEnd == {"Ephemeris"}
CNavAtEnd == {"Ephemeris"}
GalIAtEnd == {"Ephemeris"}
GalFAtEnd == {"Ephemeris"}
GalIAlmAtEnd == {"Almanac", "Health"}
GalFAlmAtEnd == {"Almanac", "Health"}
GLOFAtEnd == {"Ephemeris", "Health"}
GLOCAtEnd == {"Ephemeris"}       \* its LTDMP, from strings 31 and 32, left out
D1AtEnd == {"Ephemeris"}
D2AtEnd == {"Ephemeris"}

AtEnd(a) ==
  CASE a = "LNavEph" -> LNavAtEnd
    [] a = "CNavEph" -> CNavAtEnd
    [] a = "GalIEph" -> GalIAtEnd
    [] a = "GalIAlm" -> GalIAlmAtEnd
    [] a = "GalFEph" -> GalFAtEnd
    [] a = "GalFAlm" -> GalFAlmAtEnd
    [] a = "GLOFEph" -> GLOFAtEnd
    [] a = "GLOCEph" -> GLOCAtEnd
    [] a = "D1Eph"   -> D1AtEnd
    [] a = "D2Eph"   -> D2AtEnd
    [] OTHER         -> {}

=============================================================================
