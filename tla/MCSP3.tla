--------------------------------- MODULE MCSP3 ---------------------------------
EXTENDS SP3NavDataFactory

Ln(kind, sat) ==
  [kind |-> kind, fault |-> "none", sat |-> sat, zero |-> {}, badClk |-> FALSE, pred |-> {}]

E == Ln("epoch", 1)
P(s) == Ln("P", s)
V(s) == Ln("V", s)
EOF == Ln("EOF", 1)
Blank == Ln("blank", 1)

File(lines) == [format |-> "SP3", system |-> "GPS", lines |-> lines, whole |-> TRUE]
Cut(lines) == [File(lines) EXCEPT !.whole = FALSE]

\* Two satellites and two epochs, with the text EOF and without.
Body == <<E, P(1), P(2), E, P(1), P(2)>>
PVBody == <<E, P(1), V(1), P(2), V(2), E, P(1), V(1)>>

Undamaged ==
  {File(Body \o <<EOF>>), Cut(Body \o <<EOF>>), File(Body), Cut(Body),
   File(PVBody \o <<EOF>>), File(PVBody), Cut(PVBody),
   File(<<E, P(1), Ln("EP", 1), P(2), V(2), Ln("EV", 2), EOF>>),
   File(<<E, P(1), P(2), Ln("EP", 2)>>), Cut(<<E, P(1), P(2), Ln("EP", 2)>>),
   File(<<Blank, E, P(1), Blank, Ln("stub", 1), P(2), Blank, EOF>>),
   File(<<E, P(1), Blank>>), Cut(<<E, P(1), Blank>>), Cut(<<E, P(1), Blank, Blank>>),
   Cut(<<E, P(1), EOF, Blank>>), Cut(<<EOF, Blank>>), Cut(<<Blank, EOF>>), File(<<EOF>>), Cut(<<EOF>>), Cut(<<E>>),
   File(<<P(1), E, P(2), E, EOF>>), File(<<E, P(1), E>>)}

Damaged ==
  {File(<<E, P(1), Ln("other", 1), P(2), EOF>>), File(<<E, E, P(1), EOF>>),
   File(<<E, P(1), EOF, P(2)>>), File(<<E, P(1), EOF, Blank>>),
   File(<<E, P(1), [P(2) EXCEPT !.fault = "short"], EOF>>),
   File(<<[E EXCEPT !.fault = "short"], P(1), EOF>>),
   File(<<E, P(1), [Ln("EP", 1) EXCEPT !.fault = "short"], EOF>>),
   File(<<E, P(1), Ln("binary", 1), P(2), EOF>>), Cut(<<E, P(1), EOF, Ln("binary", 1)>>),
   File(<<E, P(1), [P(3) EXCEPT !.fault = "alien"], P(2), EOF>>),
   File(<<E, [P(3) EXCEPT !.fault = "alien"], P(2), EOF>>),
   File(<<E, P(1), Ln("EV", 1), P(2), EOF>>), File(<<E, Ln("EP", 1), P(1), EOF>>),
   Cut(<<E, P(1), P(2), Ln("stub", 1)>>)}

Filtered ==
  {File(<<E, [P(1) EXCEPT !.zero = {"x"}], P(2), [P(3) EXCEPT !.zero = {"yz"}], V(3), EOF>>),
   File(<<E, [P(1) EXCEPT !.badClk = TRUE], V(1), [P(2) EXCEPT !.pred = {"orbit"}],
          [P(3) EXCEPT !.pred = {"clock"}], EOF>>)}

Short == File(<<E, P(1), V(1), P(2), EOF>>)
UTC == [Short EXCEPT !.system = "UTC"]
NoSystem == [Short EXCEPT !.system = "Any"]
Clk == [Short EXCEPT !.format = "RINEX", !.lines = <<P(1), P(2)>>]
Neither == [Short EXCEPT !.format = "none"]

MCSources == Undamaged \cup Damaged \cup Filtered \cup
             {Short, UTC, NoSystem, Clk, [Clk EXCEPT !.system = "Any"], Neither}

Both == {"Ephemeris", "Clock"}
Loads(files, options) == [files |-> files, options |-> options]

MCSetups ==
  {Loads(<<f>>, Both) : f \in Undamaged \cup Damaged}
    \cup {Loads(<<f, g>>, Both) : f \in {File(PVBody), Cut(<<E, P(1), Blank>>),
                                         File(<<E, P(1), EOF, P(2)>>)},
                                  g \in {Short, File(Body)}}
    \cup {Loads(<<f>>, Both \cup o) : f \in Filtered,
            o \in SUBSET {"rejectBadPos", "rejectBadClock", "rejectPredPos", "rejectPredClock"}}
    \cup {Loads(<<Short>>, o) : o \in {{"Ephemeris"}, {"Clock"}, {"Clock", "InvalidOnly"}}}
    \cup {Loads(<<f, g, h>>, Both \cup {"useRinexClockData"}) :
            f \in {Short, Clk, UTC}, g \in {Short, NoSystem, Neither, [Clk EXCEPT !.system = "Any"]},
            h \in {Short, Clk}}
    \cup {Loads(<<Clk, Short>>, {"Ephemeris"}), Loads(<<Clk>>, {"Clock", "InvalidOnly"})}

=============================================================================
