-------------------------------- MODULE MCPNB --------------------------------
EXTENDS PNBMultiGNSS

\* Pages of a data set.  Subframes 1 to 3 of LNAV also go to the NMCT.
Slot(a, s, u, t) ==
  [acc |-> a, dec |-> CASE a = "LNavEph" -> "LNAV"
                        [] a = "GLOFEph" -> "GLOF"
                        [] OTHER -> "other",
   kind |-> IF a = "LNavEph" THEN "sf" ELSE "none",
   sat |-> 1, signal |-> "a", slot |-> s, upload |-> u, issue |-> u,
   time |-> t, sized |-> TRUE, valid |-> TRUE,
   subject |-> 0, subjects |-> {}, toa |-> 0, default |-> FALSE,
   setsAmEp |-> FALSE, amEpID |-> 0, frame5 |-> FALSE, head |-> 8, bits |-> 96, gnss |-> "known"]

\* Two uploads of an accumulator, the second of which starts a week.
Twice(a, step) ==
  {Slot(a, s, u, 30 * (u + 1) + step * (s - 1)) : s \in Slots(a), u \in 1..2}

Long(a) == {[Slot(a, 2, 3, 9) EXCEPT !.sized = FALSE, !.bits = 100]}
Damaged(a) == {[Slot(a, 3, 4, 9) EXCEPT !.valid = FALSE]}
Elsewhere2(a) == {[Slot(a, 1, 1, 40) EXCEPT !.sat = 2]}

LNavAir == Twice("LNavEph", 6) \cup Long("LNavEph") \cup Elsewhere2("LNavEph")
CNavAir == Twice("CNavEph", 12) \cup {[Slot("CNavEph", 2, 1, 50) EXCEPT !.signal = "b"]}
             \cup Long("CNavEph")
GalIAir == {p \in Twice("GalIEph", 2) : p.upload = 1 \/ p.slot \in {1, 3, 5}}
GalIAlmAir == Twice("GalIAlm", 2)
GalFAir == {p \in Twice("GalFEph", 10) : p.upload = 1 \/ p.slot # 2} \cup Long("GalFEph")
GalFAlmAir == Twice("GalFAlm", 10) \cup Long("GalFAlm")
GLOFAir == Twice("GLOFEph", 2) \cup Long("GLOFEph")
GLOCAir == Twice("GLOCEph", 3) \cup Long("GLOCEph") \cup Damaged("GLOCEph")
D1Air == Twice("D1Eph", 6) \cup Long("D1Eph") \cup Elsewhere2("D1Eph")
D2Air == {p \in Twice("D2Eph", 3) : p.upload = 1}
BothAir == {p \in Twice("LNavEph", 6) \cup Twice("GalFAlm", 10) : p.upload = 1}

-----------------------------------------------------------------------------
(* Pages that go to no accumulator of PNBPages                             *)

Loose(dec, kind, slot, t) ==
  [Slot("none", slot, 0, t) EXCEPT !.dec = dec, !.kind = kind]

\* The transmitter changes toa, and back.
Orbit(dec, subject, toa) ==
  [Loose(dec, "orbit", 0, 10 + toa) EXCEPT !.subject = subject, !.toa = toa]
Reference(dec, toa) ==
  [Loose(dec, "reference", 0, 20 + toa)
     EXCEPT !.toa = toa, !.subjects = IF dec = "LNAV" THEN {} ELSE {2}]
HealthPage(dec, t) == [Loose(dec, "health", 0, t) EXCEPT !.subjects = {1, 3}]
OnB(p) == [p EXCEPT !.signal = "b"]

LNavAlmAir ==
  {Orbit("LNAV", 1, 1), Orbit("LNAV", 2, 1), Orbit("LNAV", 1, 2), OnB(Orbit("LNAV", 2, 2)),
   Reference("LNAV", 1), Reference("LNAV", 2), OnB(Reference("LNAV", 1)),
   [Orbit("LNAV", 2, 1) EXCEPT !.valid = FALSE]}

NMCTAir == Twice("LNavEph", 6) \cup Long("LNavEph") \cup {Loose("LNAV", "nmct", 0, 50)}

\* Of satellite 1 to 4: 1 and 3 in the health page, 2 in the reference page;
\* for 3 there is no almanac, and 4 is in an expanded page.
BDSAir(dec, early) ==
  {Orbit(dec, 1, 1), Orbit(dec, 2, 1),
   [Orbit(dec, 3, 0) EXCEPT !.default = TRUE],
   [Orbit(dec, 3, 1) EXCEPT !.kind = "expanded", !.time = 406],
   [Orbit(dec, 1, 2) EXCEPT !.setsAmEp = TRUE, !.amEpID = 3, !.time = 400],
   [Orbit(dec, 1, 1) EXCEPT !.setsAmEp = TRUE, !.amEpID = 2, !.time = early],
   Reference(dec, 1), Reference(dec, 2), HealthPage(dec, 30), OnB(Reference(dec, 2))}

BDSFewAir(dec) == {p \in BDSAir(dec, 350) : ~p.setsAmEp /\ p.kind # "expanded" /\ p.subject # 2}

String(n, t) == Loose("GLOF", "none", n, t)

GLOFAlmAir ==
  {String(6, 1), String(7, 3), String(8, 5), String(9, 7), String(5, 60), String(5, 90),
   [String(6, 1) EXCEPT !.sat = 2], [String(7, 3) EXCEPT !.sat = 2],
   [String(7, 3) EXCEPT !.bits = 85], [String(5, 60) EXCEPT !.bits = 100], String(6, 61)}

GLOFTimeAir ==
  {Slot("GLOFEph", 4, 7, 70), [Slot("GLOFEph", 4, 7, 70) EXCEPT !.sat = 2], String(5, 60),
   [String(5, 60) EXCEPT !.sat = 2], [String(14, 80) EXCEPT !.frame5 = TRUE],
   [String(14, 81) EXCEPT !.frame5 = TRUE, !.sat = 2],
   [String(15, 82) EXCEPT !.frame5 = TRUE], String(14, 50), String(15, 52)}

CNav2Air ==
  {Loose("CNAV2", "SF2", 0, 10), Loose("CNAV2", "SF2", 0, 28), Loose("CNAV2", "SF3", 1, 12),
   Loose("CNAV2", "SF3", 2, 30), Loose("CNAV2", "SF3", 4, 48), Loose("CNAV2", "complete", 1, 60),
   Loose("CNAV2", "complete", 4, 78), OnB(Loose("CNAV2", "SF2", 0, 10)),
   Loose("CNAV2", "short", 0, 90),
   [Loose("CNAV2", "complete", 2, 96) EXCEPT !.gnss = "unknown"],
   [Loose("CNAV2", "complete", 2, 114) EXCEPT !.gnss = "none"]}

MCPage == UNION {LNavAir, Damaged("LNavEph"), CNavAir, GalIAir, GalIAlmAir, GalFAir, GalFAlmAir, GLOFAir,
                 GLOCAir, D1Air, D2Air, BothAir, LNavAlmAir, NMCTAir,
                 BDSAir("D1", 399), BDSAir("D2", 350), GLOFAlmAir, GLOFTimeAir, CNav2Air}

\* All types but the NMCT of LNAV, which has an air of its own.
All(airs) == [air : airs, wanted : {Types \ {"System"}}, validity : {"Any"}]
Checked(airs) == [air : airs, wanted : {Types \ {"System"}}, validity : {"ValidOnly", "InvalidOnly"}]
Some(airs, types) == [air : airs, wanted : types, validity : {"Any"}]

MCSetups ==
  UNION {All({LNavAir, CNavAir, GalIAir, GalIAlmAir, GalFAir, GalFAlmAir, GLOFAir, GLOCAir,
              D1Air, D2Air, BothAir, LNavAlmAir, BDSAir("D1", 399), BDSAir("D2", 350),
              GLOFAlmAir, GLOFTimeAir, CNav2Air}),
         Some({NMCTAir}, {{"System"}}),
         Checked({Twice("LNavEph", 6) \cup Damaged("LNavEph"), GLOCAir,
                LNavAlmAir, BDSFewAir("D1")}),
         Some({LNavAir, GLOFAir}, {{"Health"}, {"ISC"}}),
         Some({LNavAlmAir, BDSFewAir("D2"), GLOFAlmAir}, {{"Health"}, {"Almanac"}, {"ISC"}}),
         Some({GalIAlmAir, GLOFTimeAir}, {{"TimeOffset"}}),
         Some({CNav2Air}, {{"ISC"}, {"Almanac"}})}

=============================================================================
