-------------------------- MODULE PNBMultiGNSSProofs --------------------------
(***************************************************************************)
(* Proofs about PNBMultiGNSSNavDataFactory, for every set of pages and     *)
(* every filter.  First its accumulators: that no data set mixes uploads,  *)
(* that a complete upload is made into a data set, and that they implement *)
(* PageSets.  Then the pages that wait for another.                        *)
(***************************************************************************)
EXTENDS PNBMultiGNSS, TLAPS

-----------------------------------------------------------------------------
(* Keys and agreement                                                      *)

LEMMA KeyAcc ==
  ASSUME NEW p, NEW q, Key(p) = Key(q)
  PROVE  p.acc = q.acc
  BY DEF Key

\* Pages go together when every two of them that have an issue or a time do.
LEMMA AgreePairwise ==
  ASSUME NEW a \in Accumulators, NEW S, \A p \in S : p.acc = a
  PROVE  Agree(a, S) <=>
           \A p, q \in S : Versioned(p) /\ Versioned(q) => Agree(a, {p, q})
<1>1. CASE a \in {"LNavEph", "CNavEph", "GalIEph", "GalIAlm", "GalFEph", "GalFAlm"}
  <2>1. \A T : Agree(a, T) <=> SameIssue(T)
    BY <1>1 DEF Agree, LNavAgree, CNavAgree, GalIAgree, GalIAlmAgree, GalFAgree, GalFAlmAgree
  <2>2. SameIssue(S) <=>
          \A p, q \in S : Versioned(p) /\ Versioned(q) => SameIssue({p, q})
    BY DEF SameIssue
  <2> QED
    BY <2>1, <2>2
<1>2. CASE a \in {"GLOFEph", "GLOCEph", "D1Eph"}
  <2>1. \A p \in S : Versioned(p)
    BY <1>2 DEF Versioned
  <2>2. \A T, step : InStep(T, step) <=> \A p, q \in T : InStep({p, q}, step)
    BY DEF InStep
  <2>3. \A T, step : InStepOfWeek(T, step) <=> \A p, q \in T : InStepOfWeek({p, q}, step)
    BY DEF InStepOfWeek
  <2>4. CASE a = "GLOFEph"
    BY <2>1, <2>2, <2>4 DEF Agree, GLOFAgree
  <2>5. CASE a = "GLOCEph"
    BY <2>1, <2>2, <2>5 DEF Agree, GLOCAgree
  <2>6. CASE a = "D1Eph"
    BY <2>1, <2>3, <2>6 DEF Agree, D1Agree
  <2> QED
    BY <1>2, <2>4, <2>5, <2>6
<1>3. CASE a = "D2Eph"
  <2>1. \A T : Agree(a, T) <=> InStepOfWeek({p \in T : Versioned(p)}, 3)
    BY <1>3 DEF Agree, D2Agree
  <2>2. InStepOfWeek({p \in S : Versioned(p)}, 3) <=>
          \A p, q \in S : Versioned(p) /\ Versioned(q) =>
            InStepOfWeek({r \in {p, q} : Versioned(r)}, 3)
    BY DEF InStepOfWeek
  <2> QED
    BY <2>1, <2>2
<1> QED
  BY <1>1, <1>2, <1>3 DEF Accumulators

\* Pages of one key go together exactly when they are of one upload.
LEMMA AgreeIsOneUpload ==
  ASSUME NEW S \in SUBSET Page, NEW r \in S, r.acc \in Accumulators,
         \A q \in S : Key(q) = Key(r)
  PROVE  Agree(r.acc, S) <=>
           \A p, q \in S : Versioned(p) /\ Versioned(q) => p.upload = q.upload
<1>1. \A q \in S : q.acc = r.acc
  BY KeyAcc
<1>2. Agree(r.acc, S) <=>
        \A p, q \in S : Versioned(p) /\ Versioned(q) => Agree(r.acc, {p, q})
  BY <1>1, AgreePairwise
<1>3. \A p, q \in S : Versioned(p) /\ Versioned(q) =>
        (Agree(r.acc, {p, q}) <=> p.upload = q.upload)
  BY <1>1, UploadAssumption
<1> QED
  BY <1>2, <1>3

\* A data set needs two pages at least, and every page that has an issue or a
\* time is one it needs.
LEMMA NeededSlots ==
  ASSUME NEW a \in Accumulators
  PROVE  /\ 1 \in Needed(a) /\ \E s \in Needed(a) : s # 1
         /\ \A p \in Page : p.acc = a /\ Versioned(p) => p.slot \in Needed(a)
<1>1. 1 \in Needed(a) /\ \E s \in Needed(a) : s # 1
  <2>1. 1 \in Slots(a) /\ (a = "D2Eph" => 3 \in Slots(a)) /\ (a # "D2Eph" => 2 \in Slots(a))
    BY DEF Slots, Accumulators
  <2> QED
    BY <2>1 DEF Needed
<1>2. \A p \in Page : p.acc = a /\ Versioned(p) => p.slot \in Needed(a)
  BY PageAssumption DEF Needed, Versioned
<1> QED
  BY <1>1, <1>2

-----------------------------------------------------------------------------
(* The inductive invariant                                                 *)

\* A run is of one upload.
RunOneUpload == \A p, q \in run : Key(p) = Key(q) => p.upload = q.upload

\* Until its key has been reported, a run's pages are in the accumulator, or
\* a page of the run that took the place of one.
RunHeld ==
  \A p \in run : Key(p) \notin reported =>
    \E q \in run \cap acc : Key(q) = Key(p) /\ q.slot = p.slot

IInv ==
  /\ TypeOK
  /\ OneUpload
  /\ RunOneUpload
  /\ RunHeld
  /\ CompleteFrameReported

LEMMA InitInvariant == Init => IInv
  BY SetupAssumption DEF Init, IInv, TypeOK, OneUpload, RunOneUpload, RunHeld,
                         CompleteFrameReported, WithKey

\* A page that is on the air and goes to an accumulator.
Incoming(p) == p \in setup.air /\ p \in Page /\ p.acc \in Accumulators

LEMMA IncomingPage ==
  ASSUME TypeOK, NEW p \in setup.air, p.acc \in Accumulators
  PROVE  Incoming(p)
  BY SetupAssumption DEF TypeOK, Incoming

\* What is held of a key, with the page in its slot.
LEMMA HeldPages ==
  ASSUME TypeOK, NEW p, Incoming(p)
  PROVE  /\ p \in Held(p)
         /\ Held(p) \subseteq acc \cup {p}
         /\ Held(p) \subseteq {q \in setup.air : q.acc \in Accumulators}
         /\ Held(p) \in SUBSET Page
         /\ \A q \in Held(p) : Key(q) = Key(p)
         /\ \A q, r \in Held(p) : q.slot = r.slot => q = r
  BY SetupAssumption DEF TypeOK, Incoming, Held, WithKey

\* No page yields an ephemeris or almanac by itself.
LEMMA AtOnceTypes ==
  ASSUME NEW p, NEW open, NEW S
  PROVE  AtOnce(p, open, S) \cap {"Ephemeris", "Almanac"} = {}
<1>1. /\ LNavAtOnce(p) \subseteq {"Health", "ISC"}
      /\ CNavAtOnce(p) \subseteq {"Health"}
      /\ GalFAtOnce(p) \subseteq {"Iono", "Health", "ISC", "TimeOffset"}
      /\ GLOFAtOnce(p) \subseteq {"ISC"}
      /\ GLOCAtOnce(p) \subseteq {"Health"}
      /\ D1AtOnce(p) \subseteq {"Health", "Iono", "ISC"}
      /\ D2AtOnce(p) \subseteq {"Health", "Iono", "ISC"}
      /\ GalIAtOnce(p, S) \subseteq {"Health", "Iono", "ISC"}
      /\ GalIAlmAtOnce(p) \subseteq {"TimeOffset"}
  BY DEF LNavAtOnce, CNavAtOnce, GalFAtOnce, GLOFAtOnce, GLOCAtOnce, D1AtOnce, D2AtOnce,
         GalIAtOnce, GalIAlmAtOnce
<1> QED
  BY <1>1 DEF AtOnce

\* The messages a page makes are of wanted types, of pages that were on the
\* air, and an ephemeris or almanac is of one upload.
LEMMA GoodMessages ==
  ASSUME TypeOK, NEW p, Incoming(p), NEW m \in Messages(p)
  PROVE  /\ m.type \in setup.wanted
         /\ m.pages \subseteq setup.air
         /\ m.type \in {"Ephemeris", "Almanac"} =>
              \A q, r \in m.pages : Versioned(q) /\ Versioned(r) => q.upload = r.upload
<1>1. CASE m \in [type : AtOnce(p, Open(p), Held(p)) \cap setup.wanted, pages : {{p}}]
  <2>1. m.type \in AtOnce(p, Open(p), Held(p)) \cap setup.wanted /\ m.pages = {p}
    BY <1>1
  <2> QED
    BY <2>1, AtOnceTypes DEF Incoming
<1>2. CASE /\ Complete(p)
           /\ m \in [type : AtEnd(p.acc) \cap setup.wanted, pages : {Held(p)}]
  <2>1. m.type \in setup.wanted /\ m.pages = Held(p)
    BY <1>2
  <2>2. Agree(p.acc, Held(p))
    BY <1>2 DEF Complete, Ready
  <2> QED
    BY <2>1, <2>2, HeldPages, AgreeIsOneUpload DEF Incoming
<1> QED
  BY <1>1, <1>2 DEF Messages

-----------------------------------------------------------------------------
(* The steps keep it                                                       *)

\* What addData() puts out.
LEMMA MessagesStep ==
  ASSUME TypeOK, NEW p, Incoming(p), UNCHANGED setup,
         navOut' = Messages(p) \/ navOut' = {}
  PROVE  /\ OneUpload'
         /\ \A m \in navOut' : m.type \in setup'.wanted /\ m.pages \subseteq setup'.air
  BY GoodMessages DEF OneUpload

\* A step that leaves the accumulators and the history alone.
LEMMA OutputOnly ==
  ASSUME IInv, UNCHANGED <<setup, acc, heard, run, reported>>, made' = {}, OneUpload',
         \A m \in navOut' : m.type \in setup'.wanted /\ m.pages \subseteq setup'.air
  PROVE  IInv'
  BY DEF IInv, TypeOK, RunOneUpload, RunHeld, CompleteFrameReported, WithKey

\* The pages of other keys, and what is known of them, do not change.
LEMMA OtherRuns ==
  ASSUME NEW p, NoteHeard(p)
  PROVE  \A k : k # Key(p) =>
           /\ WithKey(run', k) = WithKey(run, k)
           /\ k \in reported' <=> k \in reported
  BY DEF NoteHeard, WithKey, OtherKeys

\* The run of a page's key goes on with it, or begins again.
LEMMA OwnRun ==
  ASSUME NEW p, NoteHeard(p)
  PROVE  /\ Breaks(p) => WithKey(run', Key(p)) \subseteq {p}
         /\ ~Breaks(p) => /\ WithKey(run', Key(p)) = WithKey(run, Key(p)) \cup {p}
                          /\ reported \subseteq reported'
                          /\ p \in run'
  BY DEF NoteHeard, WithKey, OtherKeys, Breaks

LEMMA RunStep ==
  ASSUME IInv, NEW p, Incoming(p), NoteHeard(p), UNCHANGED setup
  PROVE  /\ RunOneUpload'
         /\ run' \subseteq {q \in setup'.air : q.sized}
         /\ heard' \subseteq setup'.air
<1>1. RunOneUpload'
  BY DEF IInv, RunOneUpload, NoteHeard, Breaks, WithKey, OtherKeys
<1>2. run' \subseteq {q \in setup'.air : q.sized}
  BY DEF IInv, TypeOK, NoteHeard, OtherKeys, Incoming
<1>3. heard' \subseteq setup'.air
  BY DEF IInv, TypeOK, NoteHeard, OtherKeys, Incoming
<1> QED
  BY <1>1, <1>2, <1>3

\* A run's pages, those it lost to a later page of their slot aside, are held
\* when the page that continues the run has been put in its slot.
LEMMA RunIsHeld ==
  ASSUME IInv, NEW p, Incoming(p), NoteHeard(p), ~Breaks(p), Key(p) \notin reported,
         NEW q \in WithKey(run', Key(p))
  PROVE  \E r \in Held(p) : r \in run' /\ Key(r) = Key(p) /\ r.slot = q.slot /\ r.sized
<1>1. p \in Held(p) /\ p \in run' /\ p.sized
  BY HeldPages, OwnRun DEF IInv, Breaks
<1>2. CASE q.slot = p.slot
  BY <1>1, <1>2
<1>3. CASE q.slot # p.slot
  <2>1. q \in run /\ Key(q) = Key(p)
    BY <1>3, OwnRun DEF WithKey
  <2>2. PICK r \in run \cap acc : Key(r) = Key(p) /\ r.slot = q.slot
    BY <2>1 DEF IInv, RunHeld
  <2>3. r \in Held(p) /\ r.sized
    BY <1>3, <2>2 DEF Held, WithKey, IInv, TypeOK
  <2>4. r \in run'
    BY <2>2, OwnRun DEF WithKey
  <2> QED
    BY <2>2, <2>3, <2>4
<1> QED
  BY <1>2, <1>3

\* When the run of a key that is kept has all its slots, the page that was
\* added completes a data set: it is the heart of CompleteFrameReported.
LEMMA RunCompletes ==
  ASSUME IInv, NEW p, Incoming(p), Kept(p), NoteHeard(p), RunOneUpload',
         Key(p) \notin reported',
         \A s \in Needed(p.acc) : \E q \in WithKey(run', Key(p)) : q.slot = s
  PROVE  Complete(p)
<1>1. PICK s \in Needed(p.acc) : s # p.slot
  BY NeededSlots DEF Incoming
<1>2. ~Breaks(p)
  BY <1>1, OwnRun
<1>3. Key(p) \notin reported
  BY <1>2, OwnRun
<1>4. \A t \in Needed(p.acc) :
        \E r \in Held(p) : r \in run' /\ Key(r) = Key(p) /\ r.slot = t /\ r.sized
  BY <1>2, <1>3, RunIsHeld
<1>5. Open(p)
  <2>1. PICK r \in Held(p) : Key(r) = Key(p) /\ r.slot = s
    BY <1>4
  <2> QED
    BY <1>1, <2>1 DEF Held, Open, WithKey
<1>6. Agree(p.acc, Held(p))
  <2>1. \A q \in Held(p) : Versioned(q) => q \in run' /\ Key(q) = Key(p)
    <3> SUFFICES ASSUME NEW q \in Held(p), Versioned(q)
                 PROVE  q \in run' /\ Key(q) = Key(p)
      OBVIOUS
    <3>1. q \in Page /\ Key(q) = Key(p) /\ q.acc = p.acc
      BY HeldPages, KeyAcc DEF IInv
    <3>2. q.slot \in Needed(p.acc)
      BY <3>1, NeededSlots DEF Incoming
    <3>3. PICK r \in Held(p) : r \in run' /\ r.slot = q.slot
      BY <3>2, <1>4
    <3>4. r = q
      BY <3>3, HeldPages DEF IInv
    <3> QED
      BY <3>1, <3>3, <3>4
  <2>2. \A q, r \in Held(p) : Versioned(q) /\ Versioned(r) => q.upload = r.upload
    BY <2>1 DEF RunOneUpload
  <2> QED
    BY <2>2, HeldPages, AgreeIsOneUpload DEF IInv, Incoming
<1> QED
  BY <1>4, <1>5, <1>6 DEF Complete, Ready

\* Store, with the page held, and Assemble, with the key erased: for other keys
\* nothing changes, and for the page's key RunCompletes decides.
LEMMA StoreStep ==
  ASSUME IInv, NEW p, Incoming(p), Store(p), UNCHANGED setup
  PROVE  IInv'
<1>1. /\ RunOneUpload' /\ heard' \subseteq setup'.air
      /\ run' \subseteq {q \in setup'.air : q.sized}
  BY RunStep DEF Store
<1>2. /\ OneUpload'
      /\ \A m \in navOut' : m.type \in setup'.wanted /\ m.pages \subseteq setup'.air
  BY MessagesStep DEF Store, IInv
<1>3. TypeOK'
  <2>1. acc' \subseteq {q \in setup'.air : q.acc \in Accumulators}
    BY HeldPages DEF IInv, TypeOK, Store, OtherKeys
  <2>2. \A q, r \in acc' : Key(q) = Key(r) /\ q.slot = r.slot => q = r
    <3>1. \A q, r \in Held(p) : q.slot = r.slot => q = r
      BY HeldPages DEF IInv
    <3>2. \A q \in Held(p) : Key(q) = Key(p)
      BY HeldPages DEF IInv
    <3> QED
      BY <3>1, <3>2 DEF IInv, TypeOK, Store, OtherKeys
  <2>3. acc' \subseteq heard'
    BY HeldPages DEF IInv, TypeOK, Store, NoteHeard, OtherKeys
  <2> QED
    BY <1>1, <1>2, <2>1, <2>2, <2>3 DEF TypeOK, IInv, Store
<1>4. RunHeld'
  <2> SUFFICES ASSUME NEW q \in run', Key(q) \notin reported'
               PROVE  \E r \in run' \cap acc' : Key(r) = Key(q) /\ r.slot = q.slot
    BY DEF RunHeld
  <2>1. CASE Key(q) # Key(p)
    <3>1. q \in run /\ Key(q) \notin reported
      BY <2>1, OtherRuns DEF Store, WithKey
    <3>2. PICK r \in run \cap acc : Key(r) = Key(q) /\ r.slot = q.slot
      BY <3>1 DEF IInv, RunHeld
    <3>3. r \in run' /\ r \in acc'
      BY <2>1, <3>2, OtherRuns DEF Store, WithKey, OtherKeys
    <3> QED
      BY <3>2, <3>3
  <2>2. CASE Key(q) = Key(p) /\ Breaks(p)
    <3>1. q = p
      BY <2>2, OwnRun DEF Store, WithKey
    <3> QED
      BY <3>1, HeldPages DEF Store, IInv
  <2>3. CASE Key(q) = Key(p) /\ ~Breaks(p)
    <3>1. Key(p) \notin reported
      BY <2>3, OwnRun DEF Store
    <3>2. q \in WithKey(run', Key(p))
      BY <2>3 DEF WithKey
    <3>3. PICK r \in Held(p) : r \in run' /\ Key(r) = Key(p) /\ r.slot = q.slot
      BY <2>3, <3>1, <3>2, RunIsHeld DEF Store
    <3> QED
      BY <2>3, <3>3 DEF Store
  <2> QED
    BY <2>1, <2>2, <2>3
<1>5. CompleteFrameReported'
  <2> SUFFICES ASSUME NEW q \in run', UsesUp(q.acc, setup.wanted),
                      \A s \in Needed(q.acc) : \E r \in WithKey(run', Key(q)) : r.slot = s
               PROVE  Key(q) \in reported'
    BY DEF CompleteFrameReported, WithKey
  <2>1. CASE Key(q) # Key(p)
    BY <2>1, OtherRuns DEF Store, IInv, CompleteFrameReported, WithKey
  <2>2. CASE Key(q) = Key(p)
    <3>1. q.acc = p.acc
      BY <2>2, KeyAcc
    <3> QED
      BY <1>1, <2>2, <3>1, RunCompletes DEF Store, UsedUp
  <2> QED
    BY <2>1, <2>2
<1> QED
  BY <1>1, <1>2, <1>3, <1>4, <1>5 DEF IInv

LEMMA AssembleStep ==
  ASSUME IInv, NEW p, Incoming(p), Assemble(p), UNCHANGED setup
  PROVE  IInv'
<1>1. /\ RunOneUpload' /\ heard' \subseteq setup'.air
      /\ run' \subseteq {q \in setup'.air : q.sized}
  BY RunStep DEF Assemble
<1>2. /\ OneUpload'
      /\ \A m \in navOut' : m.type \in setup'.wanted /\ m.pages \subseteq setup'.air
  BY MessagesStep DEF Assemble, IInv
<1>3. Key(p) \in reported'
  BY DEF Assemble, NoteHeard
<1>4. TypeOK'
  <2>1. acc' \subseteq acc /\ acc' \subseteq heard'
    BY DEF IInv, TypeOK, Assemble, NoteHeard, OtherKeys
  <2>2. made' \subseteq setup'.air
    BY HeldPages DEF IInv, Assemble
  <2> QED
    BY <1>1, <1>2, <2>1, <2>2 DEF TypeOK, IInv
<1>5. \A q \in run' : Key(q) \notin reported' =>
        /\ Key(q) # Key(p) /\ q \in run /\ Key(q) \notin reported
  BY <1>3, OtherRuns DEF Assemble, WithKey
<1>6. RunHeld'
  <2> SUFFICES ASSUME NEW q \in run', Key(q) \notin reported'
               PROVE  \E r \in run' \cap acc' : Key(r) = Key(q) /\ r.slot = q.slot
    BY DEF RunHeld
  <2>1. PICK r \in run \cap acc : Key(r) = Key(q) /\ r.slot = q.slot
    BY <1>5 DEF IInv, RunHeld
  <2>2. r \in run' /\ r \in acc'
    BY <1>5, <2>1, OtherRuns DEF Assemble, WithKey, OtherKeys
  <2> QED
    BY <2>1, <2>2
<1>7. CompleteFrameReported'
  <2> SUFFICES ASSUME NEW q \in run', UsesUp(q.acc, setup.wanted), Key(q) \notin reported',
                      \A s \in Needed(q.acc) : \E r \in WithKey(run', Key(q)) : r.slot = s
               PROVE  FALSE
    BY DEF CompleteFrameReported, WithKey
  <2>1. Key(q) # Key(p) /\ q \in run /\ Key(q) \notin reported
    BY <1>5
  <2>2. WithKey(run', Key(q)) = WithKey(run, Key(q))
    BY <2>1, OtherRuns DEF Assemble
  <2> QED
    BY <2>1, <2>2 DEF IInv, CompleteFrameReported
<1> QED
  BY <1>1, <1>2, <1>4, <1>6, <1>7 DEF IInv

LEMMA AddDataStep ==
  ASSUME IInv, NEW p, AddData(p)
  PROVE  IInv'
<1>1. CASE p.acc \in Accumulators /\ (Discard(p) \/ Pass(p))
  <2>1. Incoming(p)
    BY <1>1, IncomingPage DEF AddData, IInv
  <2> QED
    BY <1>1, <2>1, MessagesStep, OutputOnly DEF AddData, Discard, Pass, IInv
<1>2. CASE p.acc \in Accumulators /\ Store(p)
  BY <1>2, IncomingPage, StoreStep DEF AddData, IInv
<1>3. CASE p.acc \in Accumulators /\ Assemble(p)
  BY <1>3, IncomingPage, AssembleStep DEF AddData, IInv
<1>4. CASE Elsewhere(p)
  <2>1. OneUpload' /\ \A m \in navOut' : m.type \in setup'.wanted /\ m.pages \subseteq setup'.air
    BY <1>4 DEF Elsewhere, OneUpload
  <2> QED
    BY <1>4, <2>1, OutputOnly DEF AddData, Elsewhere
<1> QED
  BY <1>1, <1>2, <1>3, <1>4 DEF AddData

LEMMA StepInvariant == IInv /\ [Next]_vars => IInv'
<1> SUFFICES ASSUME IInv, [Next]_vars
             PROVE  IInv'
  OBVIOUS
<1>1. CASE ResetState
  BY <1>1 DEF ResetState, IInv, TypeOK, OneUpload, RunOneUpload, RunHeld,
              CompleteFrameReported, WithKey
<1>2. CASE \E p \in setup.air : AddData(p)
  BY <1>2, AddDataStep
<1>3. CASE UNCHANGED vars
  BY <1>3 DEF vars, IInv, TypeOK, OneUpload, RunOneUpload, RunHeld,
              CompleteFrameReported, WithKey
<1> QED
  BY <1>1, <1>2, <1>3 DEF Next

LEMMA Invariance == Spec => []IInv
  BY InitInvariant, StepInvariant, PTL DEF Spec

-----------------------------------------------------------------------------
(* The accumulators as a part of the factory                               *)

LEMMA PagesPart == MultiSpec => Spec
<1>1. MultiInit => Init
  BY DEF MultiInit
<1>2. [MultiNext]_multiVars => [Next]_vars
  BY DEF MultiNext, MultiResetState, MultiAddData, multiVars, Next
<1> QED
  BY <1>1, <1>2, PTL DEF MultiSpec, Spec

\* The accumulators keep their type: one page for a slot, all of them heard
\* since their key's last data set, and messages of wanted types only.
THEOREM TypeCorrect == MultiSpec => []TypeOK
<1>1. IInv => TypeOK
  BY DEF IInv
<1> QED
  BY <1>1, Invariance, PagesPart, PTL

\* Whatever is on the air, no ephemeris or almanac mixes two uploads.
THEOREM NoMixedUploads == MultiSpec => []OneUpload
<1>1. IInv => OneUpload
  BY DEF IInv
<1> QED
  BY <1>1, Invariance, PagesPart, PTL

\* Whatever was heard before, all pages of one upload in a row give a data set.
THEOREM FramesReported == MultiSpec => []CompleteFrameReported
<1>1. IInv => CompleteFrameReported
  BY DEF IInv
<1> QED
  BY <1>1, Invariance, PagesPart, PTL

LEMMA InitRefines == Init => Sets!Init
  BY DEF Init, Sets!Init

LEMMA AssembleRefines ==
  ASSUME TypeOK, NEW p, Incoming(p), Assemble(p)
  PROVE  Sets!Make(p)
<1>1. made' = Held(p) /\ heard' = {q \in heard : Key(q) # Key(p)}
  BY DEF Assemble, NoteHeard, OtherKeys
<1>2. /\ made' \subseteq heard \cup {p} /\ p \in made'
      /\ \A q \in made' : Key(q) = Key(p)
  BY <1>1, HeldPages DEF TypeOK
<1>3. Sets!OneOfEach(Key(p), made')
  <2>1. \A s \in Needed(p.acc) : \E q \in Held(p) : q.slot = s
    BY DEF Assemble, UsedUp, Complete, Ready
  <2>2. NeededOf(Key(p)) = Needed(p.acc)
    BY DEF NeededOf, Key
  <2> QED
    BY <1>1, <2>1, <2>2, HeldPages DEF Sets!OneOfEach
<1> QED
  BY <1>1, <1>2, <1>3 DEF Sets!Make

LEMMA StepRefines ==
  ASSUME TypeOK, [Next]_vars
  PROVE  [Sets!Next]_(Sets!vars)
<1>1. CASE ResetState
  BY <1>1 DEF ResetState, Sets!Next, Sets!Forget
<1>2. ASSUME NEW p \in setup.air, AddData(p)
      PROVE  Sets!Next
  <2>1. CASE Discard(p) \/ Pass(p) \/ Elsewhere(p)
    BY <2>1 DEF Discard, Pass, Elsewhere, Sets!Next, Sets!Ignore
  <2>2. CASE p.acc \in Accumulators /\ Store(p)
    <3>1. p \in Page
      BY <2>2, IncomingPage DEF Incoming
    <3>2. Sets!Hear(p)
      BY <2>2 DEF Store, NoteHeard, Sets!Hear
    <3> QED
      BY <3>1, <3>2 DEF Sets!Next
  <2>3. CASE p.acc \in Accumulators /\ Assemble(p)
    <3>1. Incoming(p)
      BY <2>3, IncomingPage
    <3> QED
      BY <2>3, <3>1, AssembleRefines DEF Sets!Next, Incoming
  <2> QED
    BY <1>2, <2>1, <2>2, <2>3 DEF AddData
<1>3. CASE UNCHANGED vars
  BY <1>3 DEF vars, Sets!vars
<1> QED
  BY <1>1, <1>2, <1>3 DEF Next

\* The accumulators implement PageSets: they make data sets of the pages of
\* one transmitter, one of each slot, none of which was used before.
THEOREM Refinement == MultiSpec => MakesPageSets
<1>1. IInv => TypeOK
  BY DEF IInv
<1> QED
  BY <1>1, InitRefines, StepRefines, Invariance, PagesPart, PTL DEF Spec, MakesPageSets, Sets!Spec

-----------------------------------------------------------------------------
(* Almanac pages that wait for a reference                                 *)

OrbitPages ==
  {p \in Page : p.dec \in Alm!Decoders /\ p.kind \in {"orbit", "expanded"}}

ReferencePages ==
  {p \in Page : p.dec \in Alm!Decoders /\ p.kind = "reference"}

\* The maps have pages of the right kind, and only while almanacs are wanted.
AlmTypeOK ==
  /\ setup \in Setups
  /\ fullWNaMap \subseteq ReferencePages
  /\ almAcc \subseteq OrbitPages
  /\ almAcc \cup fullWNaMap # {} => Alm!Wanted("Almanac")

\* The steps of the part, as those of the whole.
LEMMA AlmStep ==
  ASSUME [MultiNext]_multiVars, setup \in Setups
  PROVE  \/ UNCHANGED Alm!vars
         \/ Alm!ResetState
         \/ \E p \in Page : Alm!AddData(p)
BY SetupAssumption DEF MultiNext, MultiResetState, MultiAddData, multiVars

\* What each kind of page does to the orbits that wait.
LEMMA AlmTypeStep ==
  ASSUME AlmTypeOK, NEW p \in Page, Alm!AddData(p)
  PROVE  AlmTypeOK'
<1> USE DEF AlmTypeOK, OrbitPages, ReferencePages, Alm!Decoders, Alm!Wanted
<1>1. CASE UNCHANGED Alm!state /\ UNCHANGED setup
  BY <1>1 DEF Alm!state
<1>2. CASE p.dec = "LNAV" /\ Alm!LNavAlmOrb(p)
  BY <1>2 DEF Alm!LNavAlmOrb, Alm!AddData
<1>3. CASE p.dec = "LNAV" /\ Alm!LNavSVID51(p)
  BY <1>3 DEF Alm!LNavSVID51, Alm!LNavFreed, Alm!AddData
<1>4. CASE Alm!LNavNMCT(p)
  BY <1>4 DEF Alm!LNavNMCT, Alm!AddData
<1>5. CASE p.dec \in {"D1", "D2"} /\ Alm!BDSAlm(p)
  BY <1>5 DEF Alm!BDSAlm, Alm!AddData
<1>6. CASE Alm!BDSHealth(p)
  BY <1>6 DEF Alm!BDSHealth, Alm!FinishList, Alm!AddData
<1>7. CASE p.dec \in {"D1", "D2"} /\ Alm!BDSReference(p)
  BY <1>7 DEF Alm!BDSReference, Alm!FinishList, Alm!AddData
<1> QED
  BY <1>1, <1>2, <1>3, <1>4, <1>5, <1>6, <1>7
  DEF Alm!AddData, Alm!LNavPage, Alm!D1Page, Alm!D2Page, Alm!BDSPage

\* No change of toa has been heard since the references in use, nor since the
\* orbits of the BeiDou decoders that wait.
NothingOutdated ==
  /\ \A r \in fullWNaMap : r \notin outdated
  /\ \A q \in almAcc : q.dec # "LNAV" => q \notin outdated

\* What holds of the message for an orbit and a reference with its toa.
LEMMA DatedByReference ==
  ASSUME NEW out, NEW q \in OrbitPages, NEW r, NEW with, r \in with,
         r \in ReferencePages, r.toa = q.toa, r \notin out,
         q.dec # "LNAV" => q \notin out
  PROVE  LET m == Alm!Message("Almanac", q, with) IN
         /\ \E x \in m.with : x.kind = "reference" /\ x.toa = m.page.toa /\ x \notin out
         /\ m.page.dec # "LNAV" => m.page \notin out
BY DEF Alm!Message, ReferencePages

\* An almanac that a BeiDou decoder finishes has a reference with its toa.
LEMMA FinishedWith ==
  ASSUME NEW q, NEW refs \in SUBSET ReferencePages, NEW hea, NEW wna \in BOOLEAN,
         Alm!Fate(q, wna, refs, hea) = "out", ~q.default
  PROVE  \E with : /\ Alm!Finished(q, refs, hea) = Alm!Message("Almanac", q, with)
                   /\ \E r \in refs \cap with : Alm!SameSat(q, r) /\ r.toa = q.toa
<1>1. PICK r \in refs : Alm!SameSat(q, r) /\ r.toa = q.toa
  BY DEF Alm!Fate
<1> QED
  BY <1>1 DEF Alm!Finished

\* What a page outdates: nothing, unless it is a reference; not itself, nor
\* orbits of another key or of its own toa.
LEMMA OutdatedBy ==
  ASSUME NEW p, outdated' = Alm!OutdatedAfter(p)
  PROVE  /\ p \notin outdated'
         /\ \A x : x \notin outdated /\ p.kind # "reference" => x \notin outdated'
         /\ \A q \in OrbitPages :
              q \notin outdated /\ (Alm!SameKey(p, q) => p.toa = q.toa) => q \notin outdated'
BY DEF Alm!OutdatedAfter, Alm!Outdates, OrbitPages

\* The references in use are the last of their transmitters.
LEMMA ReferencesCurrent ==
  ASSUME AlmTypeOK, NothingOutdated, NEW p \in Page, outdated' = Alm!OutdatedAfter(p),
         NEW r \in fullWNaMap',
         \/ fullWNaMap' = fullWNaMap /\ (p.kind = "reference" => ~Alm!Wanted("Almanac"))
         \/ fullWNaMap' = {x \in fullWNaMap : ~Alm!SameSat(p, x)} \cup {p}
  PROVE  r \notin outdated'
<1>1. \A x \in fullWNaMap : x \notin outdated /\ x.kind = "reference"
  BY DEF NothingOutdated, AlmTypeOK, ReferencePages
<1>2. CASE fullWNaMap' = fullWNaMap /\ (p.kind = "reference" => ~Alm!Wanted("Almanac"))
  BY <1>1, <1>2, OutdatedBy DEF AlmTypeOK
<1>3. CASE fullWNaMap' = {x \in fullWNaMap : ~Alm!SameSat(p, x)} \cup {p}
  BY <1>1, <1>3, OutdatedBy DEF Alm!OutdatedAfter, Alm!Outdates
<1> QED
  BY <1>2, <1>3

\* What a BeiDou page does to the list of its key: what stays, and what is put
\* out, has heard of no other toa.
LEMMA FinishListStep ==
  ASSUME AlmTypeOK, NothingOutdated, NEW p \in Page, p.dec \in {"D1", "D2"},
         NEW wna \in BOOLEAN, NEW refs \in SUBSET ReferencePages, NEW hea,
         Alm!FinishList(p, wna, refs, hea), outdated' = Alm!OutdatedAfter(p),
         \A r \in refs : r \notin outdated',
         p.kind = "reference" =>
           wna /\ p \in refs /\ \A r \in refs : Alm!SameSat(p, r) => r = p
  PROVE  /\ \A q \in almAcc' : q.dec # "LNAV" => q \notin outdated'
         /\ DatedByOwnToa'
<1>1. ASSUME NEW q \in almAcc, q.dec # "LNAV",
             Alm!SameKey(p, q) /\ p.kind = "reference" => p.toa = q.toa
      PROVE  q \notin outdated'
  BY <1>1, OutdatedBy DEF NothingOutdated, AlmTypeOK
<1>2. \A q \in almAcc' : q.dec # "LNAV" => q \notin outdated'
  <2> SUFFICES ASSUME NEW q \in almAcc', q.dec # "LNAV" PROVE q \notin outdated'
    OBVIOUS
  <2>1. q \in almAcc
    BY DEF Alm!FinishList
  <2>2. ASSUME Alm!SameKey(p, q), p.kind = "reference"
        PROVE  p.toa = q.toa
    <3>1. Alm!Fate(q, wna, refs, hea) = "kept"
      BY <2>1, <2>2 DEF Alm!FinishList
    <3>2. Alm!SameSat(q, p)
      BY <2>2 DEF Alm!SameKey, Alm!SameSat
    <3> QED
      BY <2>2, <3>1, <3>2 DEF Alm!Fate
  <2> QED
    BY <1>1, <2>1, <2>2
<1>3. DatedByOwnToa'
  <2> SUFFICES ASSUME NEW m \in almOut', m.type = "Almanac", ~m.page.default
               PROVE  /\ \E r \in m.with : r.kind = "reference" /\ r.toa = m.page.toa
                                             /\ r \notin outdated'
                      /\ m.page.dec # "LNAV" => m.page \notin outdated'
    BY DEF DatedByOwnToa, Alm!DatedByOwnToa
  <2>1. PICK q \in almAcc : /\ m = Alm!Finished(q, refs, hea)
                            /\ Alm!Fate(q, wna, refs, hea) = "out"
                            /\ Alm!SameKey(p, q)
    BY DEF Alm!FinishList, Alm!Message
  <2>2. q = m.page
    BY <2>1 DEF Alm!Finished, Alm!Message
  <2>3. PICK with : /\ m = Alm!Message("Almanac", q, with)
                    /\ \E r \in refs \cap with : Alm!SameSat(q, r) /\ r.toa = q.toa
    BY <2>1, <2>2, FinishedWith
  <2>4. PICK r \in refs \cap with : Alm!SameSat(q, r) /\ r.toa = q.toa
    BY <2>3
  <2>5. q.dec # "LNAV" => q \notin outdated'
    <3>1. p.kind = "reference" => r = p
      BY <2>1, <2>4 DEF Alm!SameKey, Alm!SameSat
    <3> QED
      BY <1>1, <2>4, <3>1
  <2>6. q \in OrbitPages /\ r \in ReferencePages /\ r \notin outdated' /\ r \in with
    BY <2>4 DEF AlmTypeOK
  <2>7. r.toa = q.toa /\ m = Alm!Message("Almanac", q, with)
    BY <2>3, <2>4
  <2> QED
    BY ONLY <2>5, <2>6, <2>7, DatedByReference
<1> QED
  BY <1>2, <1>3

LEMMA DatedStep ==
  ASSUME AlmTypeOK, NothingOutdated, NEW p \in Page, Alm!AddData(p)
  PROVE  NothingOutdated' /\ DatedByOwnToa'
<1>1. CASE almOut' = {} /\ UNCHANGED <<Alm!state, outdated>>
  BY <1>1 DEF NothingOutdated, Alm!state, DatedByOwnToa, Alm!DatedByOwnToa
<1> SUFFICES ASSUME outdated' = Alm!OutdatedAfter(p)
             PROVE  NothingOutdated' /\ DatedByOwnToa'
  BY <1>1 DEF Alm!AddData
<1> DEFINE Dated(m) ==
             m.type = "Almanac" /\ ~m.page.default =>
               /\ \E r \in m.with : r.kind = "reference" /\ r.toa = m.page.toa /\ r \notin outdated'
               /\ m.page.dec # "LNAV" => m.page \notin outdated'
<1>a. (\A m \in almOut' : Dated(m)) => DatedByOwnToa'
  BY DEF DatedByOwnToa, Alm!DatedByOwnToa
<1>2. CASE p.dec = "LNAV" /\ Alm!LNavAlmOrb(p)
  <2>1. \A r \in fullWNaMap : r \notin outdated'
    BY <1>2, OutdatedBy DEF Alm!LNavAlmOrb, NothingOutdated
  <2>2. NothingOutdated'
    BY <1>2, <2>1, OutdatedBy DEF Alm!LNavAlmOrb, NothingOutdated
  <2>3. ASSUME NEW m \in almOut', m.type = "Almanac" PROVE Dated(m)
    <3>1. PICK r \in Alm!LNavWeek(p, fullWNaMap) : m = Alm!Message("Almanac", p, {r})
      BY <1>2, <2>3 DEF Alm!LNavAlmOrb, Alm!Message
    <3>2. p \in OrbitPages /\ r \in ReferencePages /\ r.toa = p.toa /\ r \notin outdated'
      BY <1>2, <2>1 DEF Alm!LNavAlmOrb, Alm!LNavWeek, AlmTypeOK, OrbitPages, Alm!Decoders
    <3> QED
      BY <1>2, <3>1, <3>2, DatedByReference
  <2> QED
    BY <1>a, <2>2, <2>3
<1>3. CASE p.dec = "LNAV" /\ Alm!LNavSVID51(p)
  <2>1. \A q \in almAcc' : q \in almAcc
    BY <1>3 DEF Alm!LNavSVID51
  <2>2. \A q \in almAcc' : q.dec # "LNAV" => q \notin outdated'
    BY <1>3, <2>1, OutdatedBy DEF NothingOutdated, AlmTypeOK, Alm!SameKey, Alm!SameSat
  <2>3. \A r \in fullWNaMap' : r \notin outdated'
    BY <1>3, ReferencesCurrent DEF Alm!LNavSVID51
  <2>4. ASSUME NEW m \in almOut', m.type = "Almanac" PROVE Dated(m)
    <3>1. PICK q \in Alm!LNavFreed(p) : m = Alm!Message("Almanac", q, {p})
      BY <1>3, <2>4 DEF Alm!LNavSVID51, Alm!Message
    <3>2. /\ p \in ReferencePages /\ q \in OrbitPages /\ p.toa = q.toa /\ q.dec = "LNAV"
          /\ p \notin outdated'
      BY <1>3, OutdatedBy DEF Alm!LNavSVID51, Alm!LNavFreed, Alm!SameKey, Alm!SameSat, AlmTypeOK,
                  ReferencePages, Alm!Decoders
    <3> QED
      BY <3>1, <3>2, DatedByReference
  <2> QED
    BY <1>a, <2>2, <2>3, <2>4 DEF NothingOutdated
<1>4. CASE Alm!LNavNMCT(p)
  <2>1. NothingOutdated'
    BY <1>4, OutdatedBy DEF Alm!LNavNMCT, NothingOutdated
  <2>2. \A m \in almOut' : m.type # "Almanac"
    BY <1>4 DEF Alm!LNavNMCT, Alm!Message
  <2> QED
    BY <1>a, <2>1, <2>2
<1>5. CASE p.dec \in {"D1", "D2"} /\ Alm!BDSAlm(p)
  <2>1. \A r \in fullWNaMap : r \notin outdated'
    BY <1>5, OutdatedBy DEF Alm!BDSAlm, NothingOutdated
  <2>2. NothingOutdated'
    BY <1>5, <2>1, OutdatedBy DEF Alm!BDSAlm, NothingOutdated
  <2>3. ASSUME NEW m \in almOut', ~m.page.default PROVE Dated(m)
    <3>1. /\ m = Alm!Finished(p, fullWNaMap, heaAcc)
          /\ Alm!Fate(p, FALSE, fullWNaMap, heaAcc) = "out"
      BY <1>5 DEF Alm!BDSAlm
    <3>2. p = m.page
      BY <3>1 DEF Alm!Finished, Alm!Message
    <3>3. p \in OrbitPages /\ fullWNaMap \in SUBSET ReferencePages
      BY <1>5 DEF Alm!BDSAlm, OrbitPages, Alm!Decoders, AlmTypeOK
    <3>4. \E with : /\ Alm!Finished(p, fullWNaMap, heaAcc) = Alm!Message("Almanac", p, with)
                    /\ \E r \in fullWNaMap \cap with : Alm!SameSat(p, r) /\ r.toa = p.toa
      <4>1. ~p.default
        BY <2>3, <3>2
      <4> QED
        BY <3>1, <3>3, <4>1, FinishedWith
    <3>5. PICK with : /\ m = Alm!Message("Almanac", p, with)
                      /\ \E r \in fullWNaMap \cap with : Alm!SameSat(p, r) /\ r.toa = p.toa
      BY <3>1, <3>4
    <3> QED
      BY <2>1, <3>3, <3>5, OutdatedBy, DatedByReference
  <2> QED
    BY <1>a, <2>2, <2>3
<1>6. CASE p.dec \in {"D1", "D2"} /\ Alm!BDSHealth(p)
  <2>1. \A r \in fullWNaMap : r \notin outdated'
    BY <1>6, OutdatedBy DEF Alm!BDSHealth, NothingOutdated
  <2>2. CASE almOut' = {} /\ UNCHANGED almAcc
    BY <1>6, <2>1, <2>2, OutdatedBy
    DEF Alm!BDSHealth, NothingOutdated, DatedByOwnToa, Alm!DatedByOwnToa
  <2>3. CASE Alm!FinishList(p, FALSE, fullWNaMap, Alm!HealthWith(p))
    <3>1. p.kind # "reference" /\ fullWNaMap' = fullWNaMap /\ fullWNaMap \in SUBSET ReferencePages
      BY <1>6 DEF Alm!BDSHealth, AlmTypeOK
    <3> QED
      BY <1>6, <2>1, <2>3, <3>1, FinishListStep DEF NothingOutdated
  <2> QED
    BY <1>6, <2>2, <2>3 DEF Alm!BDSHealth
<1>7. CASE p.dec \in {"D1", "D2"} /\ Alm!BDSReference(p)
  <2> DEFINE refs == {r \in fullWNaMap : ~Alm!SameSat(p, r)} \cup {p}
  <2>1. \A r \in fullWNaMap' : r \notin outdated'
    BY <1>7, ReferencesCurrent DEF Alm!BDSReference
  <2>2. CASE Alm!Wanted("Almanac")
    <3>1. fullWNaMap' = refs /\ Alm!FinishList(p, TRUE, refs, Alm!HealthWith(p))
      BY <1>7, <2>2 DEF Alm!BDSReference
    <3>2. refs \in SUBSET ReferencePages
      BY <1>7 DEF Alm!BDSReference, AlmTypeOK, ReferencePages, Alm!Decoders
    <3>3. p \in refs /\ \A r \in refs : Alm!SameSat(p, r) => r = p
      OBVIOUS
    <3> HIDE DEF refs
    <3> QED
      BY <1>7, <2>1, <3>1, <3>2, <3>3, FinishListStep DEF NothingOutdated
  <2>3. CASE ~Alm!Wanted("Almanac")
    <3>1. almAcc' = {}
      BY <1>7, <2>3 DEF Alm!BDSReference, AlmTypeOK
    <3>2. \A m \in almOut' : m.type # "Almanac"
      BY <1>7, <2>3 DEF Alm!BDSReference, Alm!Message
    <3> QED
      BY <1>a, <2>1, <3>1, <3>2 DEF NothingOutdated
  <2> QED
    BY <2>2, <2>3
<1> QED
  BY <1>1, <1>2, <1>3, <1>4, <1>5, <1>6, <1>7
  DEF Alm!AddData, Alm!LNavPage, Alm!D1Page, Alm!D2Page, Alm!BDSPage

LEMMA AlmInit == MultiInit => AlmTypeOK /\ NothingOutdated /\ DatedByOwnToa /\ NoneOverdue
BY DEF MultiInit, Init, Alm!Init, AlmTypeOK, NothingOutdated, DatedByOwnToa,
       Alm!DatedByOwnToa, NoneOverdue, Alm!NoneOverdue

LEMMA AlmReset ==
  ASSUME AlmTypeOK, Alm!ResetState
  PROVE  (AlmTypeOK /\ NothingOutdated /\ DatedByOwnToa /\ NoneOverdue)'
BY DEF Alm!ResetState, AlmTypeOK, NothingOutdated, DatedByOwnToa, Alm!DatedByOwnToa,
       NoneOverdue, Alm!NoneOverdue

\* An almanac is dated by the last reference of its transmitter, which has its
\* toa; in the BeiDou decoders its orbit, too, has lived through no change of toa.
\* Nothing is assumed of the pages: a toa may come again in any week.
THEOREM AlmanacsDated == MultiSpec => [](AlmTypeOK /\ DatedByOwnToa)
<1> DEFINE Inv == AlmTypeOK /\ NothingOutdated /\ DatedByOwnToa
<1>1. MultiInit => Inv
  BY AlmInit
<1>2. Inv /\ [MultiNext]_multiVars => Inv'
  <2> SUFFICES ASSUME Inv, [MultiNext]_multiVars
               PROVE  Inv'
    OBVIOUS
  <2>1. CASE UNCHANGED Alm!vars
    BY <2>1 DEF Alm!vars, Alm!state, AlmTypeOK, NothingOutdated, DatedByOwnToa,
                Alm!DatedByOwnToa, Alm!Wanted
  <2>2. CASE Alm!ResetState
    BY <2>2, AlmReset
  <2>3. CASE \E p \in Page : Alm!AddData(p)
    BY <2>3, AlmTypeStep, DatedStep
  <2> QED
    BY <2>1, <2>2, <2>3, AlmStep DEF AlmTypeOK
<1> QED
  BY <1>1, <1>2, PTL DEF MultiSpec

-----------------------------------------------------------------------------
(* Orbits wait for nothing that has come                                   *)

\* NoneOverdue for one orbit, with the maps as they are then.
NotOverdue(q, refs, hea) ==
  LET healthy == q.dec = "LNAV" \/ Alm!HealthOf(q, hea) # {} IN
  /\ ~\E r \in refs : Alm!SameKey(q, r) /\ r.toa = q.toa /\ healthy
  /\ q.dec # "LNAV" /\ q.default => ~healthy

LEMMA OverdueByPage ==
  NoneOverdue <=> \A q \in almAcc : NotOverdue(q, fullWNaMap, heaAcc)
BY DEF NoneOverdue, Alm!NoneOverdue, NotOverdue

\* What finishAlm() keeps is not overdue.
LEMMA KeptNotOverdue ==
  ASSUME NEW q, q.dec # "LNAV", NEW refs, NEW hea, NEW wna \in BOOLEAN,
         Alm!Fate(q, wna, refs, hea) = "kept"
  PROVE  NotOverdue(q, refs, hea)
BY DEF NotOverdue, Alm!Fate, Alm!SameKey, Alm!SameSat

\* A page does not change the health of the satellites of another key.
LEMMA HealthOfOthers ==
  ASSUME NEW p, NEW q, ~Alm!SameKey(p, q)
  PROVE  Alm!HealthOf(q, Alm!HealthWith(p)) = Alm!HealthOf(q, heaAcc)
<1> DEFINE new == [subject : p.subjects, page : {p}]
<1>1. \A h \in new : ~Alm!SameKey(q, h.page)
  BY DEF Alm!SameKey, Alm!SameSat
<1>2. \A h : Alm!SameKey(p, h.page) => ~Alm!SameKey(q, h.page)
  BY DEF Alm!SameKey, Alm!SameSat
<1> QED
  BY <1>1, <1>2 DEF Alm!HealthOf, Alm!HealthWith

LEMMA NoneOverdueStep ==
  ASSUME AlmTypeOK, NoneOverdue, NEW p \in Page, Alm!AddData(p)
  PROVE  NoneOverdue'
<1> SUFFICES ASSUME NEW q \in almAcc' PROVE NotOverdue(q, fullWNaMap', heaAcc')
  BY DEF NoneOverdue, Alm!NoneOverdue, NotOverdue
<1>1. \A o \in almAcc : NotOverdue(o, fullWNaMap, heaAcc)
  BY OverdueByPage
<1>2. CASE UNCHANGED <<almAcc, fullWNaMap, heaAcc>>
  BY <1>1, <1>2
<1>3. CASE p.dec = "LNAV" /\ Alm!LNavAlmOrb(p)
  BY <1>1, <1>3 DEF Alm!LNavAlmOrb, Alm!LNavWeek, NotOverdue, Alm!SameKey
<1>4. CASE p.dec = "LNAV" /\ Alm!LNavSVID51(p)
  BY <1>1, <1>4 DEF Alm!LNavSVID51, Alm!LNavFreed, NotOverdue, Alm!SameKey, Alm!SameSat
<1>5. CASE p.dec \in {"D1", "D2"} /\ Alm!BDSAlm(p)
  <2>1. UNCHANGED <<fullWNaMap, heaAcc>>
    BY <1>5 DEF Alm!BDSAlm
  <2>2. q \in almAcc \/ (q = p /\ Alm!Fate(p, FALSE, fullWNaMap, heaAcc) = "kept")
    BY <1>5 DEF Alm!BDSAlm
  <2> QED
    BY <1>1, <1>5, <2>1, <2>2, KeptNotOverdue
<1>6. ASSUME p.dec \in {"D1", "D2"}, NEW wna \in BOOLEAN, NEW refs, NEW hea,
             Alm!FinishList(p, wna, refs, hea), Alm!SameKey(p, q)
      PROVE  NotOverdue(q, refs, hea)
  BY <1>6, KeptNotOverdue DEF Alm!FinishList, Alm!SameKey, Alm!SameSat
<1>7. ASSUME NEW refs, NEW hea, \/ Alm!FinishList(p, TRUE, refs, hea)
                                \/ Alm!FinishList(p, FALSE, refs, hea)
      PROVE  q \in almAcc
  BY <1>7 DEF Alm!FinishList
<1>8. CASE p.dec \in {"D1", "D2"} /\ Alm!BDSHealth(p)
  <2>1. UNCHANGED fullWNaMap
    BY <1>8 DEF Alm!BDSHealth
  <2>2. CASE UNCHANGED <<heaAcc, almAcc>>
    BY <1>2, <2>1, <2>2
  <2>3. CASE heaAcc' = Alm!HealthWith(p)
             /\ Alm!FinishList(p, FALSE, fullWNaMap, Alm!HealthWith(p))
    <3>1. CASE Alm!SameKey(p, q)
      BY <1>6, <1>8, <2>1, <2>3, <3>1
    <3>2. CASE ~Alm!SameKey(p, q)
      BY <1>1, <1>7, <2>1, <2>3, <3>2, HealthOfOthers DEF NotOverdue
    <3> QED
      BY <3>1, <3>2
  <2> QED
    BY <1>8, <2>2, <2>3 DEF Alm!BDSHealth
<1>9. CASE p.dec \in {"D1", "D2"} /\ Alm!BDSReference(p)
  <2> DEFINE refs == {r \in fullWNaMap : ~Alm!SameSat(p, r)} \cup {p}
  <2>1. CASE ~Alm!Wanted("Almanac")
    BY <1>9, <2>1 DEF Alm!BDSReference, AlmTypeOK
  <2>2. CASE Alm!Wanted("Almanac")
    <3>1. /\ heaAcc' = Alm!HealthWith(p) /\ fullWNaMap' = refs
          /\ Alm!FinishList(p, TRUE, refs, Alm!HealthWith(p))
      BY <1>9, <2>2 DEF Alm!BDSReference
    <3>2. CASE Alm!SameKey(p, q)
      BY <1>6, <1>9, <3>1, <3>2
    <3>3. CASE ~Alm!SameKey(p, q)
      <4>1. q \in almAcc /\ NotOverdue(q, fullWNaMap, heaAcc)
        BY <1>1, <1>7, <3>1
      <4>2. Alm!HealthOf(q, heaAcc') = Alm!HealthOf(q, heaAcc)
        BY <3>1, <3>3, HealthOfOthers
      <4>3. ~Alm!SameKey(q, p)
        BY <3>3 DEF Alm!SameKey, Alm!SameSat
      <4>4. \A r \in fullWNaMap' : Alm!SameKey(q, r) => r \in fullWNaMap
        BY <3>1, <4>3
      <4> QED
        BY <4>1, <4>2, <4>4 DEF NotOverdue
    <3> QED
      BY <3>2, <3>3
  <2> QED
    BY <2>1, <2>2
<1>10. Alm!LNavNMCT(p) => UNCHANGED <<almAcc, fullWNaMap, heaAcc>>
  BY DEF Alm!LNavNMCT
<1> QED
  BY <1>2, <1>3, <1>4, <1>5, <1>8, <1>9, <1>10
  DEF Alm!AddData, Alm!state, Alm!LNavPage, Alm!D1Page, Alm!D2Page, Alm!BDSPage

\* No orbit is left waiting for a reference or health page of its own signal
\* that has come, in whatever order, before it or after it.
THEOREM OrbitsNotOverdue == MultiSpec => []NoneOverdue
<1>1. MultiInit => AlmTypeOK /\ NoneOverdue
  BY AlmInit
<1>2. AlmTypeOK /\ NoneOverdue /\ [MultiNext]_multiVars => (AlmTypeOK /\ NoneOverdue)'
  <2> SUFFICES ASSUME AlmTypeOK, NoneOverdue, [MultiNext]_multiVars
               PROVE  (AlmTypeOK /\ NoneOverdue)'
    OBVIOUS
  <2>1. CASE UNCHANGED Alm!vars
    BY <2>1 DEF Alm!vars, Alm!state, AlmTypeOK, NoneOverdue, Alm!NoneOverdue, Alm!Wanted
  <2>2. CASE Alm!ResetState
    BY <2>2, AlmReset
  <2>3. CASE \E p \in Page : Alm!AddData(p)
    BY <2>3, AlmTypeStep, NoneOverdueStep
  <2> QED
    BY <2>1, <2>2, <2>3, AlmStep DEF AlmTypeOK
<1> QED
  BY <1>1, <1>2, PTL DEF MultiSpec

-----------------------------------------------------------------------------
(* What becomes of orbits that wait                                        *)

\* The action of WaitsUntilUsed.
LeavesUsed ==
  \A p \in almAcc \ almAcc' :
    \/ \E m \in almOut' : m.type = "Almanac" /\ m.page = p
    \/ p.dec # "LNAV" /\ \E r \in fullWNaMap' : Alm!SameSat(p, r) /\ r.toa # p.toa
    \/ p.default /\ setup.validity = "ValidOnly"
    \/ Alm!ResetState

\* finishAlm() makes a message of an orbit, keeps it, or has a reason to drop it.
LEMMA FateOfList ==
  ASSUME NEW p, NEW refs, NEW hea, NEW wna \in BOOLEAN, Alm!FinishList(p, wna, refs, hea),
         NEW q \in almAcc, q \notin almAcc'
  PROVE  \/ \E m \in almOut' : m.type = "Almanac" /\ m.page = q
         \/ wna /\ \E r \in refs : Alm!SameSat(q, r) /\ r.toa # q.toa
         \/ q.default /\ setup.validity = "ValidOnly"
<1>1. Alm!SameKey(p, q) /\ Alm!Fate(q, wna, refs, hea) # "kept"
  BY DEF Alm!FinishList
<1>2. CASE Alm!Fate(q, wna, refs, hea) = "out"
  <2>1. Alm!Finished(q, refs, hea) \in almOut'
    BY <1>1, <1>2 DEF Alm!FinishList
  <2> QED
    BY <2>1 DEF Alm!Finished, Alm!Message
<1>3. CASE Alm!Fate(q, wna, refs, hea) # "out"
  BY <1>1, <1>3 DEF Alm!Fate
<1> QED
  BY <1>2, <1>3

LEMMA LeavesUsedStep ==
  ASSUME NEW p \in Page, Alm!AddData(p)
  PROVE  LeavesUsed
<1> SUFFICES ASSUME NEW q \in almAcc, q \notin almAcc'
             PROVE  \/ \E m \in almOut' : m.type = "Almanac" /\ m.page = q
                    \/ q.dec # "LNAV" /\ \E r \in fullWNaMap' : Alm!SameSat(q, r) /\ r.toa # q.toa
                    \/ q.default /\ setup.validity = "ValidOnly"
  BY DEF LeavesUsed
<1>1. CASE p.dec = "LNAV" /\ Alm!LNavSVID51(p)
  <2>1. Alm!Message("Almanac", q, {p}) \in almOut'
    BY <1>1 DEF Alm!LNavSVID51
  <2> QED
    BY <2>1 DEF Alm!Message
<1>2. CASE Alm!BDSHealth(p)
  <2>1. Alm!FinishList(p, FALSE, fullWNaMap, Alm!HealthWith(p))
    BY <1>2 DEF Alm!BDSHealth
  <2> QED
    BY <2>1, FateOfList
<1>3. CASE p.dec \in {"D1", "D2"} /\ Alm!BDSReference(p)
  <2>1. Alm!FinishList(p, TRUE, fullWNaMap', Alm!HealthWith(p))
    BY <1>3 DEF Alm!BDSReference
  <2>2. q.dec # "LNAV"
    BY <1>3, <2>1 DEF Alm!FinishList, Alm!SameKey, Alm!SameSat
  <2> QED
    BY <2>1, <2>2, FateOfList
<1>4. UNCHANGED Alm!state => UNCHANGED almAcc
  BY DEF Alm!state
<1>5. Alm!LNavAlmOrb(p) \/ Alm!LNavNMCT(p) \/ Alm!BDSAlm(p) => almAcc \subseteq almAcc'
  BY DEF Alm!LNavAlmOrb, Alm!LNavNMCT, Alm!BDSAlm
<1> QED
  BY <1>1, <1>2, <1>3, <1>4, <1>5
  DEF Alm!AddData, Alm!LNavPage, Alm!D1Page, Alm!D2Page, Alm!BDSPage

\* No orbit is lost while it waits, but to a change of toa or health bits that a
\* BeiDou decoder takes as a reason to give it up.
THEOREM OrbitsWaitUntilUsed == MultiSpec => WaitsUntilUsed
<1>1. setup \in Setups /\ [MultiNext]_multiVars => [LeavesUsed]_(Alm!vars)
  <2> SUFFICES ASSUME setup \in Setups, [MultiNext]_multiVars PROVE [LeavesUsed]_(Alm!vars)
    OBVIOUS
  <2>1. Alm!ResetState => LeavesUsed
    BY DEF LeavesUsed
  <2> QED
    BY <2>1, AlmStep, LeavesUsedStep
<1>2. MultiInit => setup \in Setups
  BY DEF MultiInit, Init
<1>3. setup \in Setups /\ [MultiNext]_multiVars => (setup \in Setups)'
  BY DEF MultiNext, MultiResetState, ResetState, MultiAddData, AddData, multiVars, vars
<1>4. MultiSpec => [][LeavesUsed]_(Alm!vars)
  BY <1>1, <1>2, <1>3, PTL DEF MultiSpec
<1>5. [][LeavesUsed]_(Alm!vars) => WaitsUntilUsed
  BY PTL DEF WaitsUntilUsed, Alm!WaitsUntilUsed, LeavesUsed
<1> QED
  BY <1>4, <1>5

-----------------------------------------------------------------------------
(* CNAV-2                                                                  *)

LEMMA PublishedStep ==
  ASSUME EverySF2Published, NEW p, Two!AddData(p)
  PROVE  EverySF2Published'
<1> USE DEF EverySF2Published, Two!EverySF2Published, Two!Mine
<1> DEFINE NotLookedAt(q) == q.kind = "complete" /\ Two!Fails(q)
<1>a. \A q : NotLookedAt(q)' <=> NotLookedAt(q)
  BY DEF Two!AddData, Two!Fails, Two!Wanted
<1>1. CASE UNCHANGED Two!state
  BY <1>1, <1>a DEF Two!state
<1>3. CASE /\ UNCHANGED <<sf2Acc, sf3Acc>> /\ Two!Fails(p)
           /\ unpublished' = Two!Waiting(p)
  BY <1>3, <1>a DEF Two!Waiting, Two!HasSF2, Two!Fails, Two!HasSF3
<1>2. CASE Two!ProcessISC(p)
  <2> DEFINE out == Two!PublishedBefore(p) \cup Two!PublishedNow(p)
  <2> SUFFICES ASSUME NEW q \in unpublished', ~NotLookedAt(q)
               PROVE  q \in sf2Acc' /\ Two!Mine(sf3Acc', q) = {}
    BY <1>a
  <2>1. /\ q \in unpublished \/ (q = p /\ Two!HasSF2(p))
        /\ \A m \in out : q \notin m.sf2
        /\ sf2Acc' = Two!NewSF2(p) /\ sf3Acc' = Two!NewSF3(p)
    BY <1>2 DEF Two!ProcessISC, Two!Waiting
  <2>2. CASE q = p /\ Two!HasSF2(p)
    <3>1. p \in Two!NewSF2(p)
      BY <2>2 DEF Two!NewSF2, Two!Replaced
    <3>2. Two!Mine(Two!NewSF3(p), p) # {} =>
             Two!Isc(Two!Mine(Two!NewSF2(p), p), Two!Mine(Two!NewSF3(p), p)) \in out
      BY <2>2, <3>1 DEF Two!PublishedNow
    <3> QED
      BY <2>1, <2>2, <3>1, <3>2 DEF Two!Isc
  <2>3. CASE q \in unpublished /\ q \notin Two!Mine(sf2Acc, p)
    BY <2>1, <2>3 DEF Two!NewSF2, Two!NewSF3, Two!Replaced
  <2>4. CASE q \in unpublished /\ q \in Two!Mine(sf2Acc, p)
    <3>1. Two!Mine(sf3Acc, p) = {}
      BY <2>4
    <3>2. ~Two!HasSF2(p)
      <4>1. Two!HasSF2(p) => Two!Isc({q}, {}) \in out
        BY <2>4, <3>1 DEF Two!PublishedBefore
      <4> QED
        BY <2>1, <4>1 DEF Two!Isc
    <3>3. Two!NewSF2(p) = sf2Acc
      BY <3>2 DEF Two!NewSF2
    <3>4. ~Two!TakesPage1(p)
      <4>1. ASSUME Two!TakesPage1(p)
            PROVE  Two!Isc(Two!Mine(sf2Acc, p), Two!Mine(Two!NewSF3(p), p)) \in out
        BY <2>4, <3>3, <4>1 DEF Two!PublishedNow, Two!NewSF3, Two!Replaced
      <4> QED
        BY <2>1, <2>4, <4>1 DEF Two!Isc
    <3> QED
      BY <2>1, <2>4, <3>3, <3>4 DEF Two!NewSF3
  <2> QED
    BY <2>1, <2>2, <2>3, <2>4
<1> QED
  BY <1>1, <1>2, <1>3 DEF Two!AddData, Two!state

\* A subframe 2 is not put out in two cases only: it is the last, and no first page
\* of subframe 3 has been heard; or page 2 of its message names an unknown GNSS,
\* which ends addData() before the ISC.
THEOREM SF2Published == MultiSpec => []EverySF2Published
<1>1. MultiInit => EverySF2Published
  BY DEF MultiInit, Two!Init, EverySF2Published, Two!EverySF2Published
<1>2. EverySF2Published /\ [MultiNext]_multiVars => EverySF2Published'
  <2>1. Two!ResetState => EverySF2Published'
    BY DEF Two!ResetState, EverySF2Published, Two!EverySF2Published
  <2>2. EverySF2Published /\ UNCHANGED Two!vars => EverySF2Published'
    BY DEF Two!vars, Two!state, EverySF2Published, Two!EverySF2Published, Two!Mine,
           Two!Fails, Two!Wanted
  <2> QED
    BY <2>1, <2>2, PublishedStep DEF MultiNext, MultiResetState, MultiAddData, multiVars
<1> QED
  BY <1>1, <1>2, PTL DEF MultiSpec

-----------------------------------------------------------------------------
(* GLONASS                                                                 *)

\* Only keys that are open have strings.
OpenedOK == \A q \in almS : Glo!Key(q) \in opened

\* A pair has the strings of one key and number, so two pairs share none.
LEMMA PairOf ==
  ASSUME NEW S, NEW pair \in Glo!Pairs(S), NEW q \in pair
  PROVE  q \in S /\ pair = Glo!Pair(S, Glo!Key(q), Glo!AlmIdx(q))
BY DEF Glo!Pairs, Glo!Pair

LEMMA OneStringIsNoPair ==
  ASSUME NEW p, p.slot \in 6..15
  PROVE  ~Glo!Whole({p})
BY DEF Glo!Whole

LEMMA StoreStringStep ==
  ASSUME OpenedOK, NoPairWaits, NEW p, Glo!StoreString(p), UNCHANGED setup
  PROVE  (OpenedOK /\ NoPairWaits)'
<1> DEFINE held == {q \in almS : ~(Glo!Key(q) = Glo!Key(p) /\ q.slot = p.slot)} \cup {p}
           pair == Glo!Pair(held, Glo!Key(p), Glo!AlmIdx(p))
           whole == Glo!Key(p) \in opened /\ Glo!Whole(pair)
<1>1. CASE ~Glo!Wanted("Almanac") /\ ~Glo!Wanted("Health")
  BY <1>1 DEF Glo!StoreString, OpenedOK, NoPairWaits, Glo!NoPairWaits, Glo!Wanted
<1>2. CASE Glo!Wanted("Almanac") \/ Glo!Wanted("Health")
  <2>1. /\ p.slot \in 6..15
        /\ opened' = opened \cup {Glo!Key(p)} /\ almDOY' = almDOY
        /\ pendingAlms' = (pendingAlms \/ (whole /\ almDOY = {}))
        /\ almS' = IF whole /\ almDOY # {} /\ Glo!Wanted("Almanac") THEN held \ pair ELSE held
    BY <1>2 DEF Glo!StoreString
  <2> HIDE DEF whole
  <2>2. OpenedOK'
    BY <2>1 DEF OpenedOK
  <2>3. ASSUME Glo!Wanted("Almanac"), NEW P \in Glo!Pairs(almS'), Glo!Whole(P)
        PROVE  almDOY' = {} /\ pendingAlms'
    <3>1. PICK q \in P : TRUE
      BY <2>3 DEF Glo!Whole
    <3>2. q \in almS' /\ P = Glo!Pair(almS', Glo!Key(q), Glo!AlmIdx(q))
      BY <3>1, PairOf
    <3>3. CASE Glo!Key(q) = Glo!Key(p) /\ Glo!AlmIdx(q) = Glo!AlmIdx(p)
      <4>1. almS' = held /\ P = pair /\ ~(whole /\ almDOY # {})
        BY <2>1, <2>3, <3>2, <3>3 DEF Glo!Pair
      <4>2. Glo!Key(p) \in opened
        <5>1. Glo!Key(p) \notin opened => pair = {p}
          BY DEF OpenedOK, Glo!Pair
        <5> QED
          BY <2>1, <2>3, <4>1, <5>1, OneStringIsNoPair
      <4> QED
        BY <2>1, <2>3, <4>1, <4>2 DEF whole
    <3>4. CASE ~(Glo!Key(q) = Glo!Key(p) /\ Glo!AlmIdx(q) = Glo!AlmIdx(p))
      <4>1. \A o : Glo!Key(o) = Glo!Key(q) /\ Glo!AlmIdx(o) = Glo!AlmIdx(q) =>
                     (o \in almS' <=> o \in almS)
        <5> SUFFICES ASSUME NEW o, Glo!Key(o) = Glo!Key(q), Glo!AlmIdx(o) = Glo!AlmIdx(q)
                     PROVE  o \in almS' <=> o \in almS
          OBVIOUS
        <5>1. o # p /\ o \notin pair
          BY <3>4 DEF Glo!Pair
        <5>2. ~(Glo!Key(o) = Glo!Key(p) /\ o.slot = p.slot)
          BY <3>4 DEF Glo!AlmIdx
        <5> QED
          BY <2>1, <5>1, <5>2
      <4>2. P = Glo!Pair(almS, Glo!Key(q), Glo!AlmIdx(q)) /\ q \in almS
        BY <3>2, <4>1 DEF Glo!Pair
      <4>3. P \in Glo!Pairs(almS)
        BY <4>2 DEF Glo!Pairs
      <4> QED
        BY <2>1, <2>3, <4>3 DEF NoPairWaits, Glo!NoPairWaits
    <3> QED
      BY <3>3, <3>4
  <2> QED
    BY <2>2, <2>3 DEF NoPairWaits, Glo!NoPairWaits, Glo!Wanted
<1> QED
  BY <1>1, <1>2

LEMMA String5Step ==
  ASSUME OpenedOK, NoPairWaits, NEW p, Glo!String5(p), UNCHANGED setup
  PROVE  (OpenedOK /\ NoPairWaits)'
<1>1. OpenedOK'
  BY DEF Glo!String5, OpenedOK
<1>2. ASSUME Glo!Wanted("Almanac"), NEW P \in Glo!Pairs(almS'), Glo!Whole(P)
      PROVE  FALSE
  <2> DEFINE freed == {pair \in Glo!Pairs(almS) : pendingAlms /\ Glo!Whole(pair)}
  <2>1. almS' = almS \ UNION freed
    BY <1>2 DEF Glo!String5
  <2>2. PICK q \in P : TRUE
    BY <1>2 DEF Glo!Whole
  <2>3. q \in almS' /\ P = Glo!Pair(almS', Glo!Key(q), Glo!AlmIdx(q))
    BY <2>2, PairOf
  <2> DEFINE Q == Glo!Pair(almS, Glo!Key(q), Glo!AlmIdx(q))
  <2>4. Q \in Glo!Pairs(almS) /\ q \in Q
    BY <2>1, <2>3 DEF Glo!Pairs, Glo!Pair
  <2>5. Q \notin freed
    BY <2>1, <2>3, <2>4
  <2>6. ~Glo!Whole(Q)
    BY <1>2, <2>4, <2>5 DEF NoPairWaits, Glo!NoPairWaits
  <2>7. P \subseteq Q
    BY <2>1, <2>3 DEF Glo!Pair
  <2> QED
    BY <1>2, <2>6, <2>7 DEF Glo!Whole
<1> QED
  BY <1>1, <1>2 DEF NoPairWaits, Glo!NoPairWaits, Glo!Wanted

\* No pair of almanac strings that could go out waits any longer, whatever other
\* strings come or are lost, once a string 5 has been heard.
THEOREM NoPairsWait == MultiSpec => []NoPairWaits
<1>1. MultiInit => OpenedOK /\ NoPairWaits
  BY DEF MultiInit, Glo!Init, OpenedOK, NoPairWaits, Glo!NoPairWaits, Glo!Pairs
<1>2. OpenedOK /\ NoPairWaits /\ [MultiNext]_multiVars => (OpenedOK /\ NoPairWaits)'
  <2> SUFFICES ASSUME OpenedOK, NoPairWaits, [MultiNext]_multiVars
               PROVE  (OpenedOK /\ NoPairWaits)'
    OBVIOUS
  <2>1. ASSUME UNCHANGED <<setup, opened, almS, almDOY, pendingAlms>>
        PROVE  (OpenedOK /\ NoPairWaits)'
    BY <2>1 DEF OpenedOK, NoPairWaits, Glo!NoPairWaits, Glo!Wanted
  <2>2. CASE Glo!ResetState
    BY <2>2 DEF Glo!ResetState, OpenedOK, NoPairWaits, Glo!NoPairWaits, Glo!Pairs
  <2>3. ASSUME NEW p, Glo!AddData(p) PROVE (OpenedOK /\ NoPairWaits)'
    <3>1. CASE Glo!StoreString(p)
      BY <2>3, <3>1, StoreStringStep DEF Glo!AddData
    <3>2. CASE Glo!String5(p)
      BY <2>3, <3>2, String5Step DEF Glo!AddData
    <3> QED
      BY <2>1, <2>3, <3>1, <3>2 DEF Glo!AddData, Glo!String4, Glo!String14, Glo!state
  <2> QED
    BY <2>1, <2>2, <2>3
    DEF MultiNext, MultiResetState, MultiAddData, multiVars, Glo!vars, Glo!state
<1> QED
  BY <1>1, <1>2, PTL DEF MultiSpec

=============================================================================
