--------------------------- MODULE MCNavDataStore ---------------------------
(* Almanacs of two satellites, both transmitted by the first, in two time   *)
(* systems, one invalid, one unhealthy and one with a short fit interval;   *)
(* two Health messages of the first; two time offsets it transmits with the *)
(* same parameters, the second without a satellite of its own; and an SP3   *)
(* orbit in a time system that cannot be converted.  The searches have      *)
(* every time and the wildcard that matches both signals.                   *)
EXTENDS NavDataStore

Message == [type |-> "Almanac", signal |-> 1, healthSignal |-> 1, xmitSat |-> 1,
            navSignal |-> "LNAV", sat |-> 1, own |-> TRUE, system |-> "GPS",
            span |-> "fit", beginFit |-> 1, endFit |-> 9, conversions |-> {},
            offset |-> "none", health |-> "Healthy", valid |-> TRUE,
            timeStamp |-> 1, userTime |-> 2, nearTime |-> 3]

Alm1 == [Message EXCEPT !.endFit = 6]
Alm2 == [Message EXCEPT !.valid = FALSE, !.timeStamp = 3, !.userTime = 4, !.nearTime = 5]
Alm3 == [Message EXCEPT !.timeStamp = 4, !.userTime = 5, !.nearTime = 7, !.health = "Unhealthy"]
Oth == [Message EXCEPT !.signal = 2, !.sat = 2, !.own = FALSE, !.system = "UTC",
                       !.timeStamp = 2, !.userTime = 3, !.nearTime = 4]
Health1 == [Message EXCEPT !.type = "Health", !.span = "none", !.nearTime = 1]
Health2 == [Health1 EXCEPT !.health = "Unhealthy", !.timeStamp = 4, !.userTime = 4, !.nearTime = 4]
Sp3 == [Oth EXCEPT !.type = "Ephemeris", !.system = "Unknown", !.span = "epoch",
                   !.timeStamp = 0, !.userTime = 0]

Offset1 == [Message EXCEPT !.type = "TimeOffset", !.span = "none", !.own = FALSE,
                           !.conversions = {"GPS-UTC", "GPS-GAL"}, !.offset = "a",
                           !.timeStamp = 4, !.userTime = 5, !.nearTime = 4]
Offset2 == [Offset1 EXCEPT !.timeStamp = 3, !.userTime = 6, !.sat = 0, !.conversions = {"GPS-UTC"}]

MCNav == {Alm1, Alm2, Alm3, Oth, Health1, Health2, Sp3, Offset1, Offset2}
MCEditSpan == {<<3, 5>>, <<4, 6>>}
MCEditSignals == {{1}}
MCConvertible == {"GPS", "UTC"}
MCQuery ==
  {[type |-> "Almanac", signals |-> s, when |-> t, health |-> a[1], valid |-> a[2]] :
     s \in {{1}, {2}, {1, 2}}, t \in 2..8,
     a \in {<<"Any", "ValidOnly">>, <<"Healthy", "Any">>}}

=============================================================================
