------------------------------- MODULE PageSets -------------------------------
(***************************************************************************)
(* What a decoder of packed navigation bits promises, apart from how it    *)
(* keeps the pages: a data set is made when a page is added, from that     *)
(* page and pages of the same transmitter and kind, one of each slot, none *)
(* of which has gone into a data set since it was last heard.              *)
(***************************************************************************)
EXTENDS FiniteSets

CONSTANTS
  Page,         \* the pages a receiver can hear
  Key(_),       \* what the pages of one data set have in common
  Needed(_)     \* the slots a data set with this key needs

VARIABLES
  heard,        \* pages heard and not yet made into a data set
  made          \* the pages of the data set the last call made, if it made one

vars == <<heard, made>>

Init == heard = {} /\ made = {}

\* The page is of no use to the decoder, or not wanted.
Ignore == heard' = heard /\ made' = {}

Hear(p) == heard' = heard \cup {p} /\ made' = {}

OneOfEach(k, S) ==
  \A s \in Needed(k) : \E p \in S : p.slot = s /\ \A q \in S : q.slot = s => q = p

Make(p) ==
  /\ made' \subseteq heard \cup {p}
  /\ p \in made'
  /\ \A q \in made' : Key(q) = Key(p)
  /\ OneOfEach(Key(p), made')
  /\ heard' = {q \in heard : Key(q) # Key(p)}

Forget == heard' = {} /\ made' = {}

Next == Ignore \/ Forget \/ \E p \in Page : Hear(p) \/ Make(p)

Spec == Init /\ [][Next]_vars

=============================================================================
