---------------------------- MODULE NavDataSearch ----------------------------
(***************************************************************************)
(* The searches of NavDataFactoryWithStore as functions of its maps.       *)
(*                                                                         *)
(* A NavData object is a record; NavMap, keyed by message type, signal and *)
(* user time, is the set of the objects in it, and so is NavNearMap.       *)
(* Signals (NavSatelliteID) are numbered in the order of the maps, and a   *)
(* NavMessageID is a type and the set of the signals it matches: one,      *)
(* unless it has wildcards.                                                *)
(***************************************************************************)
EXTENDS Integers, FiniteSets, Sequences, FiniteSetsExt

CONSTANTS
  Nav,    \* the NavData objects
  NoSat   \* a SatID whose id is 0

\* A message is available to a receiver no earlier than it is transmitted.
ASSUME NavAssumption ==
  /\ IsFiniteSet(Nav)
  /\ \A n \in Nav :
       /\ {"type", "xmitSat", "navSignal", "conversions", "offset", "system", "sat", "span"}
            \subseteq DOMAIN n
       /\ {n.signal, n.healthSignal} \subseteq Nat
       /\ {n.timeStamp, n.userTime, n.nearTime, n.beginFit, n.endFit} \subseteq Nat
       /\ n.timeStamp <= n.userTime
       /\ {n.valid, n.own} \subseteq BOOLEAN

-----------------------------------------------------------------------------
(* Which messages a search accepts                                         *)

Newest(S) == {n \in S : \A m \in S : m.userTime <= n.userTime}

LatestHealthMutant(data, s, when) ==
  Newest({h \in data : h.type = "Health" /\ h.signal = s})

\* The Health message the store has for a signal at a time, if any.
LatestHealth(data, s, when) ==
  Newest({h \in data : h.type = "Health" /\ h.signal = s /\ h.userTime <= when})

\* The transmitter of n has the health asked for: as n itself says, if it is
\* about its transmitter, otherwise as the latest Health message says.
MatchHealth(data, n, health) ==
  \/ n.xmitSat = NoSat
  \/ health = "Any"
  \/ n.own /\ n.health = health
  \/ /\ ~n.own \/ n.health = "none"
     /\ \E h \in LatestHealth(data, n.healthSignal, n.timeStamp) : h.health = health

ValidAs(n, valid) ==
  CASE valid = "ValidOnly"   -> n.valid
    [] valid = "InvalidOnly" -> ~n.valid
    [] OTHER                 -> TRUE

\* validityCheck() at the time of a query.
Acceptable(data, n, q) ==
  /\ n.span = "fit" => n.beginFit <= q.when /\ q.when <= n.endFit
  /\ ValidAs(n, q.valid)
  /\ n.type = "Health" \/ MatchHealth(data, n, q.health)

-----------------------------------------------------------------------------
(* findUser(): one iterator per matching signal.                           *)

\* What the iterator of a signal passes, from the newest to the oldest.
Reachable(data, q, s) ==
  {n \in data : n.type = q.type /\ n.signal = s /\ n.userTime <= q.when}

\* The pass over the iterators in which its iterator is at message n.
PassOf(data, q, n) ==
  Cardinality({m \in Reachable(data, q, n.signal) : n.userTime <= m.userTime})

\* The first acceptable message of each iterator.
FirstGood(data, q) ==
  UNION {Newest({n \in Reachable(data, q, s) : Acceptable(data, n, q)}) : s \in q.signals}

FoundBy(data, q, pass) == {n \in FirstGood(data, q) : PassOf(data, q, n) <= pass}

\* The iterator of signal s is moved back in a pass: its message is not
\* acceptable, but not older than what has been found either.
BacksUp(data, q, s, pass) ==
  \E n \in Reachable(data, q, s) :
    /\ PassOf(data, q, n) = pass
    /\ ~Acceptable(data, n, q)
    /\ \A m \in FoundBy(data, q, pass) : m.userTime <= n.userTime

\* The loop sets done anew for each iterator, so it ends with the first pass
\* in which the last of them is not moved.
UserPasses(data, q, last) ==
  Min({pass \in 1..(Cardinality(data) + 1) : ~BacksUp(data, q, last, pass)})

FindUserMutant(data, q) ==
  Newest(UNION {Newest(Reachable(data, q, s)) : s \in q.signals})

\* The messages one of which findUser() returns; {} is "not found".
FindUser(data, q) ==
  LET listed == {s \in q.signals : Reachable(data, q, s) # {}}
  IN  IF listed = {} THEN {}
      ELSE Newest(FoundBy(data, q, UserPasses(data, q, Max(listed))))

-----------------------------------------------------------------------------
(* findNearest(): per matching signal, an iterator moving away from the    *)
(* search time in each direction.                                          *)

NearTimes(near, q, s) ==
  {n.nearTime : n \in {m \in near : m.type = q.type /\ m.signal = s}}

TurnMutant(rest, when) ==
  LET gt == {t \in rest : t >= when}
      lt == {t \in rest : t < when}
  IN  IF gt # {} THEN Min(gt) ELSE Max(lt)

\* The nearer of itGT and itLT, which is tried next.
Turn(rest, when) ==
  LET gt == {t \in rest : t >= when}
      lt == {t \in rest : t < when}
  IN  IF gt # {} /\ (lt = {} \/ Min(gt) - when < when - Max(lt)) THEN Min(gt) ELSE Max(lt)

\* The times tried for one signal, in order.
Visits(times, when) ==
  LET visit[rest \in SUBSET times] ==
        IF rest = {} THEN <<>>
        ELSE <<Turn(rest, when)>> \o visit[rest \ {Turn(rest, when)}]
  IN  visit[times]

GoodAt(data, near, q, s, t) ==
  {n \in near : n.type = q.type /\ n.signal = s /\ n.nearTime = t /\ Acceptable(data, n, q)}

\* The signals take turns.  The search ends at the first signal that has an
\* acceptable message, and at the first that has no message left to try.  These
\* are the messages one of which findNearest() returns; {} is "not found".
FindNearest(data, near, q) ==
  LET listed == {s \in q.signals : NearTimes(near, q, s) # {}}
      visits == [s \in listed |-> Visits(NearTimes(near, q, s), q.when)]
      Good(pass, s) == IF pass > Len(visits[s]) THEN {}
                       ELSE GoodAt(data, near, q, s, visits[s][pass])
      Ends(pass) == {s \in listed : pass > Len(visits[s]) \/ Good(pass, s) # {}}
      lastPass == Min({pass \in 1..(Cardinality(near) + 1) : Ends(pass) # {}})
  IN  IF listed = {} THEN {} ELSE Good(lastPass, Min(Ends(lastPass)))

-----------------------------------------------------------------------------
(* Other queries                                                           *)

\* getOffset(): the messages one of which is returned for a conversion.
GetOffset(data, offsets, conversion, when, health, valid) ==
  Newest({n \in Nav : /\ <<conversion, n>> \in offsets
                      /\ n.userTime <= when
                      /\ ValidAs(n, valid)
                      /\ MatchHealth(data, n, health)})

=============================================================================
