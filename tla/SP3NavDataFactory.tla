--------------------------- MODULE SP3NavDataFactory ---------------------------
(***************************************************************************)
(* Loading files into an SP3NavDataFactory: process() makes messages of    *)
(* the records of SP3Stream, where the position and velocity of a          *)
(* satellite are two, and stores them; clocks are from SP3 or from RINEX   *)
(* clock files, one at a time.                                             *)
(***************************************************************************)
EXTENDS SP3Stream, FiniteSets

CONSTANT
  Setups     \* sequences of files to load, with the "options" of the factory

Options == {"rejectBadPos", "rejectBadClock", "rejectPredPos", "rejectPredClock",
            "Ephemeris", "Clock", "InvalidOnly", "useRinexClockData"}

Systems == {"Any", "GPS", "UTC"}

ASSUME SetupAssumption ==
  \A s \in Setups :
    /\ s.files \in Seq(Sources) /\ s.files # <<>> /\ s.options \subseteq Options
    /\ \A i \in 1..Len(s.files) :
         /\ s.files[i].format \in {"SP3", "RINEX", "none"}
         /\ s.files[i].system \in Systems

VARIABLES
  setup,            \* the files and options, which do not change
  loaded,           \* how many addDataSource() have been called
  result,           \* what the last one that is done returned
  storeTimeSystem,
  useSP3clock,
  last,             \* lastSat and lastTime
  eph, clk,         \* the messages being put together; NoMessage when null
  data              \* the messages stored

loader == <<setup, loaded, result, storeTimeSystem, useSP3clock, last, eph, clk, data>>
vars == <<stream, loader>>

NoMessage == [from |-> {}, sat |-> 0, time |-> 0]

Init ==
  /\ setup \in Setups
  /\ loaded = 0 /\ result = TRUE /\ storeTimeSystem = "Any"
  /\ useSP3clock = TRUE
  /\ last = <<0, 0>> /\ eph = NoMessage /\ clk = NoMessage /\ data = {}
  /\ file = setup.files[1] /\ pos = 0 /\ bits = {} /\ lastLine = 0
  /\ currentEpoch = 0 /\ status = 0 /\ rec = NoRec /\ pc = "idle" /\ got = {}

Has(option) == option \in setup.options

-----------------------------------------------------------------------------
(* Storing                                                                 *)

Stored(type, load, msg, format) ==
  [type : {type}, load : {load}, format : {format}, msg : {msg} \ {NoMessage}]

\* store(): OrbitDataSP3 are all valid.
Store(process, type, msg) ==
  IF process /\ ~Has("InvalidOnly") THEN Stored(type, loaded, msg, "SP3") ELSE {}

-----------------------------------------------------------------------------
(* addDataSource()                                                         *)

Mismatch(s) ==
  s.system # "Any" /\ storeTimeSystem # "Any" /\ s.system # storeTimeSystem

Done(rv) == result' = rv /\ pc' = "idle"

AddSP3(s) ==
  /\ s.format = "SP3"
  /\ storeTimeSystem' = IF storeTimeSystem = "Any" THEN s.system ELSE storeTimeSystem
  /\ IF Mismatch(s)
       THEN Done(FALSE) /\ UNCHANGED <<file, pos, bits, lastLine, currentEpoch, status, rec, got>>
       ELSE Opened(s) /\ UNCHANGED result
  /\ last' = <<0, 0>> /\ eph' = NoMessage /\ clk' = NoMessage
  /\ UNCHANGED <<useSP3clock, data>>

UseRinexMutant == data

\* useRinexClockData(): clocks from SP3 files are cleared.
UseRinex == IF useSP3clock THEN {m \in data : m.type # "Clock"} ELSE data

\* addRinexClock(), when the file is not SP3; its records are read in one step,
\* all of them or those before the first that cannot be read.
AddRinexClock(s) ==
  /\ s.format = "RINEX"
  /\ IF ~Has("Clock") \/ Mismatch(s)
       THEN Done(~Has("Clock")) /\ UNCHANGED <<storeTimeSystem, useSP3clock, data>>
       ELSE /\ storeTimeSystem' = IF s.system = "Any" THEN "GPS" ELSE s.system
            /\ useSP3clock' = FALSE
            /\ \E n \in 0..Len(s.lines) :
                 /\ data' = UseRinex \cup (IF Has("InvalidOnly") THEN {} ELSE
                      UNION {Stored("Clock", loaded + 1,
                                    [from |-> {i}, sat |-> s.lines[i].sat, time |-> i], "RINEX")
                               : i \in 1..n})
                 /\ Done(n = Len(s.lines))
  /\ UNCHANGED <<file, pos, bits, lastLine, currentEpoch, status, rec, got, last, eph, clk>>

AddNothing(s) ==
  /\ s.format = "none" /\ Done(FALSE)
  /\ UNCHANGED <<file, pos, bits, lastLine, currentEpoch, status, rec, got>>
  /\ UNCHANGED <<storeTimeSystem, useSP3clock, last, eph, clk, data>>

AddDataSource ==
  /\ pc = "idle" /\ loaded < Len(setup.files)
  /\ loaded' = loaded + 1
  /\ LET s == setup.files[loaded + 1] IN AddSP3(s) \/ AddRinexClock(s) \/ AddNothing(s)
  /\ UNCHANGED setup

-----------------------------------------------------------------------------
(* process(), after each record                                            *)

FinishMutant ==
  /\ pc = "test" /\ "eof" \in bits
  /\ data' = data \cup Store(Has("Ephemeris"), "Ephemeris", eph)
                  \cup Store(Has("Clock"), "Clock", clk)
  /\ eph' = NoMessage /\ clk' = NoMessage
  /\ Done(TRUE)
  /\ UNCHANGED <<file, pos, bits, lastLine, currentEpoch, status, rec, got,
                 setup, loaded, storeTimeSystem, useSP3clock, last>>

\* The end of the file: the last messages are stored, a clock whether or not
\* the clocks are from RINEX files.
Finish ==
  /\ pc = "test" /\ bits = {"eof", "fail"}
  /\ data' = data \cup Store(Has("Ephemeris"), "Ephemeris", eph)
                  \cup Store(Has("Clock"), "Clock", clk)
  /\ eph' = NoMessage /\ clk' = NoMessage
  /\ Done(TRUE)
  /\ UNCHANGED <<file, pos, bits, lastLine, currentEpoch, status, rec, got,
                 setup, loaded, storeTimeSystem, useSP3clock, last>>

\* Any other failure: what is not stored yet is dropped.
GiveUp ==
  /\ pc = "test" /\ bits = {"fail"}
  /\ eph' = NoMessage /\ clk' = NoMessage
  /\ Done(FALSE)
  /\ UNCHANGED <<file, pos, bits, lastLine, currentEpoch, status, rec, got,
                 setup, loaded, storeTimeSystem, useSP3clock, last, data>>

\* The whole record is left out; of coordinates never read anything may be.
BadPos(n) == (Has("rejectBadPos") /\ "x" \in Line(n).zero) \/ "yz" \in Line(n).zero
BadClock(n) == Has("rejectBadClock") /\ Line(n).badClk
Rejected(n) == BadPos(n) \/ BadClock(n)
Verdicts == IF rec.x = 0 THEN BOOLEAN ELSE {Rejected(rec.x)}

Predicted(what) == rec.flags # 0 /\ what \in Line(rec.flags).pred

\* With the option to reject predictions, it is they that are taken.
TakesOrbit == Has("Ephemeris") /\ (Has("rejectPredPos") => Predicted("orbit"))
TakesClock == Has("Clock") /\ (Has("rejectPredClock") => Predicted("clock"))

\* Only a P record says whose the message is.
Merged(msg) ==
  [from |-> msg.from \cup {rec.x}, time |-> rec.time,
   sat |-> IF rec.type = "P" THEN rec.sat ELSE msg.sat]

ChangedMutant == last[2] # rec.time

Changed == last # <<rec.sat, rec.time>>

\* When satellite or time change, the messages so far are stored.
StoreEarlier ==
  /\ data' = IF Changed
       THEN data \cup Store(Has("Ephemeris"), "Ephemeris", eph)
                 \cup Store(Has("Clock") /\ useSP3clock, "Clock", clk)
       ELSE data
  /\ last' = <<rec.sat, rec.time>>

Earlier(msg) == IF Changed THEN NoMessage ELSE msg

TakeRecord ==
  /\ pc = "test" /\ "fail" \notin bits
  /\ StoreEarlier
  /\ \E rejected \in Verdicts :
       IF rec.type = "epoch" \/ rejected
         THEN eph' = Earlier(eph) /\ clk' = Earlier(clk)
         ELSE /\ eph' = IF TakesOrbit THEN Merged(Earlier(eph)) ELSE Earlier(eph)
              /\ clk' = IF TakesClock THEN Merged(Earlier(clk)) ELSE Earlier(clk)
  /\ got' = got \cup ({rec.new} \ {0})
  /\ pc' = "get"
  /\ UNCHANGED <<file, pos, bits, lastLine, currentEpoch, status, rec,
                 setup, loaded, result, storeTimeSystem, useSP3clock>>

Read == ReadStep /\ UNCHANGED loader

\* Switching between the clocks of SP3 and of RINEX files clears the clocks.
UseRinexClockData(useRC) ==
  /\ pc = "idle" /\ Has("useRinexClockData") /\ loaded < Len(setup.files)
  /\ useRC = useSP3clock
  /\ useSP3clock' = ~useRC
  /\ data' = {m \in data : m.type # "Clock"}
  /\ UNCHANGED <<stream, setup, loaded, result, storeTimeSystem, last, eph, clk>>

Terminated == pc = "idle" /\ loaded = Len(setup.files) /\ UNCHANGED vars

Next ==
  \/ AddDataSource \/ (\E useRC \in BOOLEAN : UseRinexClockData(useRC))
  \/ Read \/ TakeRecord \/ Finish \/ GiveUp \/ Terminated

\* The calls of a load are made without waiting for anything.
Fairness == WF_vars(Read) /\ WF_vars(TakeRecord) /\ WF_vars(Finish) /\ WF_vars(GiveUp)

Spec == Init /\ [][Next]_vars /\ Fairness

-----------------------------------------------------------------------------
(* Properties                                                              *)

TypeOK ==
  /\ setup \in Setups /\ file \in Sources
  /\ pos \in 0..Len(file.lines) /\ lastLine \in {0, pos}
  /\ bits \subseteq {"eof", "fail"} /\ status \in 0..3
  /\ currentEpoch \in EpochLines \cup {0}
  /\ rec.new \in RecordLines \cup {0} /\ got \subseteq RecordLines
  /\ {rec.x, rec.flags, eph.time, clk.time} \subseteq RecordLines \cup {0}
  /\ pc \in {"idle", "get", "line", "next", "test"}
  /\ loaded \in 0..Len(setup.files) /\ storeTimeSystem \in Systems
  /\ eph.from \cup clk.from \subseteq RecordLines \cup {0}

FileOf(m) == setup.files[m.load]

\* Of the records in "lines", 0 is none.
Whole(L, lines, msg) ==
  /\ \A n, k \in lines : L[n].sat = L[k].sat
  /\ \A n \in lines :
       /\ msg.time < n
       /\ \A e \in msg.time + 1..n - 1 : L[e].kind # "epoch"
       /\ L[n].kind = "P" => msg.sat = L[n].sat

\* A message is of one satellite at one epoch: the records it was put together
\* from are all under its epoch line and of the same satellite, although the
\* end of one message is only seen when the next begins.  (process)
MessagesWhole ==
  \A m \in data : m.format = "SP3" => Whole(FileOf(m).lines, m.msg.from \ {0}, m.msg)

\* A load that succeeds has read every record, or all but the last if the file
\* does not end with the text EOF, and what no option rejects is in an ephemeris
\* in the store.  (Its clocks may since have been cleared: see ClocksApart.)
HasEOF(f) == \E n \in 1..Len(f.lines) : f.lines[n].kind = "EOF"

Kept(n) ==
  /\ KindOf(n) # "epoch" /\ ~Rejected(n)
  /\ Has("Ephemeris") /\ ~Has("rejectPredPos") /\ ~Has("InvalidOnly")

LoadSucceeded ==
  pc = "idle" /\ loaded > 0 /\ result /\ setup.files[loaded].format = "SP3"

LoadComplete ==
  LoadSucceeded => \A n \in RecordLines :
    IF n \in got
      THEN Kept(n) => \E m \in data :
             m.load = loaded /\ m.type = "Ephemeris" /\ n \in m.msg.from
      ELSE ~HasEOF(file) /\ \A k \in RecordLines : k <= n

\* The store has clocks of one kind of file, whatever is loaded and switched in
\* between, but for one clock of each SP3 file, the last, which is stored without
\* a look at useSP3clock.  (useRinexClockData, process)
ClocksApart ==
  LET clocks == {m \in data : m.type = "Clock"} IN
  \A m \in clocks : IF useSP3clock
    THEN m.format = "SP3"
    ELSE m.format = "RINEX" \/ \A k \in clocks : m.load = k.load => m = k

\* Files on which a load does not end: a record that makes a gnsstk::Exception
\* of a class other than FFStreamError, and an end of the file in the first or
\* second character of a line.
Hopeless(f) ==
  \/ \E n \in 1..Len(f.lines) :
       \/ f.lines[n].fault = "alien"
       \/ /\ f.lines[n].kind \in {"EP", "EV"}
          /\ ~(n > 1 /\ <<f.lines[n-1].kind, f.lines[n].kind>> \in {<<"P", "EP">>, <<"V", "EV">>})
  \/ ~f.whole /\ f.lines[Len(f.lines)].kind = "stub"

\* Every load of another file ends, however it is damaged or cut off.
LoadEnds == (pc = "get" /\ ~Hopeless(file)) ~> pc = "idle"

\* A comment of SP3Data.cpp says of files without the text EOF that the eof bit
\* is cleared "so the user will process this SP3Data": no record is left out.
EveryRecordRead ==
  LoadSucceeded => RecordLines \subseteq got

=============================================================================
