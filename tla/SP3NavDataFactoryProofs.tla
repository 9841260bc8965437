------------------------ MODULE SP3NavDataFactoryProofs ------------------------
(***************************************************************************)
(* Proofs about loading SP3 files, for every file, however damaged, and    *)
(* every sequence of loads: what is read, stored and reported, and why a   *)
(* load comes to its end.                                                  *)
(***************************************************************************)
EXTENDS SP3NavDataFactory, TLAPS

Recs == [type : {"none", "epoch", "P", "V"}, sat : Nat, time : EpochLines \cup {0},
         x : RecordLines \cup {0}, flags : RecordLines \cup {0},
         new : RecordLines \cup {0}]

\* The records before a line.
Below(n) == {m \in RecordLines : m < n}

\* What the stream is ahead by: while nothing has failed, lastLine is the line
\* read last, and the caller has got, or is about to get, all records before it.
StreamOK ==
  /\ rec \in Recs /\ got \subseteq RecordLines
  /\ file \in Sources /\ pos \in 0..Len(file.lines) /\ lastLine \in {0, pos}
  /\ bits \subseteq {"eof", "fail"} /\ status \in 0..3
  /\ currentEpoch \in EpochLines \cup {0}
  /\ pc \in {"idle", "get", "line", "next", "test"}

AheadByOne ==
  /\ pc # "idle" /\ "fail" \notin bits => lastLine = pos
  /\ rec.new # 0 => Below(rec.new) \subseteq got
  /\ pc \in {"line", "next"} /\ status = 0 => rec.new = 0
  /\ pc = "get" /\ "fail" \notin bits => Below(lastLine) \subseteq got
  /\ pc = "line" => Below(lastLine) \subseteq got \cup {rec.new}
  /\ pc = "next" => Below(lastLine + 1) \subseteq got \cup {rec.new}
  /\ pc = "test" /\ "fail" \notin bits => Below(lastLine) \subseteq got \cup {rec.new}

StreamInv == StreamOK /\ AheadByOne /\ RecordsInOrder

LEMMA LinesType ==
  ASSUME StreamOK
  PROVE  /\ Len(file.lines) \in Nat
         /\ RecordLines \subseteq Nat \ {0}
         /\ EpochLines \subseteq RecordLines
         /\ \A n \in 1..Len(file.lines) : Line(n) \in Lines
         /\ \A n \in 0..Len(file.lines) : KindOf(n) \in Kinds
<1>1. file.lines \in Seq(Lines)
  BY SourceAssumption DEF StreamOK
<1>2. Len(file.lines) \in Nat /\ \A n \in 1..Len(file.lines) : Line(n) \in Lines
  BY <1>1 DEF Line
<1>3. \A n \in 0..Len(file.lines) : KindOf(n) \in Kinds
  BY <1>2 DEF KindOf, Lines, Kinds
<1> QED
  BY <1>2, <1>3 DEF RecordLines, EpochLines

\* Nothing about the file changes while it is read.
LEMMA SameFile ==
  ASSUME UNCHANGED file
  PROVE  /\ RecordLines' = RecordLines /\ EpochLines' = EpochLines /\ Recs' = Recs
         /\ \A n : Below(n)' = Below(n)
BY DEF RecordLines, EpochLines, Recs, Below, KindOf, Line

\* A line that is no record makes no difference to the records before it, and
\* one that is adds itself.
LEMMA BelowNext ==
  ASSUME StreamOK, NEW n \in 0..Len(file.lines)
  PROVE  Below(n + 1) = IF n \in RecordLines THEN Below(n) \cup {n} ELSE Below(n)
BY LinesType DEF Below

LEMMA GetStep == ASSUME StreamInv, Get PROVE StreamInv'
<1> USE DEF StreamInv
<1>1. StreamOK'
  <2>1. rec \in Recs /\ currentEpoch \in EpochLines \cup {0} /\ 0 \in RecordLines \cup {0}
    BY DEF StreamOK
  <2>2. [rec EXCEPT !.time = currentEpoch, !.new = 0] \in Recs
    BY <2>1 DEF Recs
  <2> QED
    BY <2>2, SameFile DEF StreamOK, Get
<1>2. AheadByOne'
  BY SameFile DEF AheadByOne, StreamOK, Get, Recs
<1>3. RecordsInOrder'
  BY SameFile DEF RecordsInOrder, Get
<1> QED
  BY <1>1, <1>2, <1>3

LEMMA ProcessLineStep == ASSUME StreamInv, ProcessLine PROVE StreamInv'
<1> USE DEF StreamInv
<1>1. UNCHANGED <<file, got>> /\ pc = "line"
  BY DEF ProcessLine, SkipLine, TextEOF, EpochLine, DataLine, CorrelationLine, OtherLine,
         Fail, Return, Swallow
<1>2. RecordsInOrder'
  BY <1>1, SameFile DEF RecordsInOrder
<1>3. lastLine \in 0..Len(file.lines)
  BY LinesType DEF StreamOK
<1>4. CASE SkipLine
  <2>1. lastLine \notin RecordLines
    BY <1>4, LinesType DEF SkipLine, RecordLines
  <2>2. StreamOK'
    BY <1>4, SameFile DEF SkipLine, StreamOK
  <2>3. AheadByOne'
    BY <1>1, <1>3, <1>4, <2>1, BelowNext, SameFile DEF SkipLine, AheadByOne
  <2> QED
    BY <1>2, <2>2, <2>3
<1>5. CASE Return
  <2>1. StreamOK'
    BY <1>5, SameFile DEF Return, StreamOK
  <2>2. AheadByOne'
    BY <1>1, <1>5, SameFile DEF Return, AheadByOne
  <2> QED
    BY <1>2, <2>1, <2>2
<1>6. CASE Fail
  <2>1. StreamOK'
    BY <1>6, SameFile DEF Fail, StreamOK
  <2>2. AheadByOne'
    BY <1>1, <1>6, SameFile DEF Fail, AheadByOne
  <2> QED
    BY <1>2, <2>1, <2>2
<1>7. CASE Swallow /\ rec' \in Recs /\ rec'.new = rec.new
  <2>1. StreamOK'
    BY <1>7, SameFile DEF Swallow, StreamOK
  <2>2. AheadByOne'
    BY <1>1, <1>7, SameFile DEF Swallow, AheadByOne
  <2> QED
    BY <1>2, <2>1, <2>2
<1>8. CASE KindOf(lastLine) = "EOF" /\ EndsHere /\ GetLine /\ pc' = "test"
           /\ UNCHANGED <<file, currentEpoch, status, rec, got>>
  <2>1. lastLine \notin RecordLines
    BY <1>8, LinesType DEF RecordLines
  <2>2. StreamOK'
    BY <1>8, SameFile, LinesType DEF GetLine, EndsHere, StreamOK
  <2>3. AheadByOne'
    BY <1>1, <1>3, <1>8, <2>1, BelowNext, SameFile, LinesType
    DEF GetLine, EndsHere, AheadByOne, StreamOK, Below
  <2> QED
    BY <1>2, <2>2, <2>3
<1>9. CASE /\ status = 0 /\ status' \in 1..3 /\ pc' = "next" /\ UNCHANGED <<pos, bits, lastLine>>
           /\ lastLine \in RecordLines /\ rec' \in Recs /\ rec'.new = lastLine
           /\ currentEpoch' \in EpochLines \cup {0}
  <2>1. StreamOK'
    BY <1>1, <1>9, SameFile DEF StreamOK
  <2>2. AheadByOne'
    <3>1. Below(lastLine + 1) = Below(lastLine) \cup {lastLine}
      BY <1>3, <1>9, BelowNext
    <3>2. Below(lastLine) \subseteq got /\ rec'.new = lastLine
      BY <1>1, <1>9, LinesType DEF AheadByOne, Below
    <3> QED
      BY <1>1, <1>9, <3>1, <3>2, SameFile DEF AheadByOne
  <2> QED
    BY <1>2, <2>1, <2>2
<1>10. CASE /\ KindOf(lastLine) \in {"EP", "EV"} /\ status' = 3 /\ pc' = "next"
            /\ UNCHANGED <<file, pos, bits, lastLine, currentEpoch, rec, got>>
  <2>1. lastLine \notin RecordLines
    BY <1>10, LinesType DEF RecordLines
  <2>2. StreamOK'
    BY <1>10, SameFile DEF StreamOK
  <2>3. AheadByOne'
    <3>1. Below(lastLine + 1) = Below(lastLine)
      BY <1>3, <2>1, BelowNext
    <3> QED
      BY <1>1, <1>10, <3>1, SameFile DEF AheadByOne
  <2> QED
    BY <1>2, <2>2, <2>3
<1>11. CASE EpochLine /\ status = 0 /\ Line(lastLine).fault # "short"
  <2>1. lastLine \in EpochLines
    BY <1>3, <1>11, LinesType DEF EpochLine, EpochLines, RecordLines, KindOf
  <2>2. rec' = [rec EXCEPT !.type = "epoch", !.sat = 0, !.time = lastLine, !.new = lastLine]
    BY <1>11 DEF EpochLine
  <2>3. rec \in Recs /\ lastLine \in EpochLines \cup {0} /\ lastLine \in RecordLines \cup {0}
    BY <2>1, LinesType DEF StreamOK
  <2>4. rec' \in Recs /\ rec'.new = lastLine
    BY <2>2, <2>3 DEF Recs
  <2> QED
    BY <1>9, <1>11, <2>1, <2>4, LinesType DEF EpochLine
<1>12. CASE DataLine /\ status = 0 /\ Line(lastLine).fault = "none"
  <2>1. lastLine \in RecordLines /\ Line(lastLine).sat \in Nat
    BY <1>3, <1>12, LinesType DEF DataLine, RecordLines, KindOf, Lines
  <2> DEFINE flags == IF KindOf(lastLine) = "P" THEN lastLine ELSE rec.flags
             type == KindOf(lastLine)
             sat == Line(lastLine).sat
  <2>2. rec' = [rec EXCEPT !.type = type, !.sat = sat, !.x = lastLine, !.new = lastLine,
                           !.flags = flags]
    BY <1>12 DEF DataLine
  <2>3. /\ rec \in Recs /\ type \in {"none", "epoch", "P", "V"} /\ sat \in Nat
        /\ flags \in RecordLines \cup {0} /\ lastLine \in RecordLines \cup {0}
    BY <1>12, <2>1 DEF DataLine, StreamOK, Recs
  <2>4. rec' \in Recs /\ rec'.new = lastLine
    <3> HIDE DEF type, sat, flags
    <3> QED
      BY <2>2, <2>3 DEF Recs
  <2> QED
    BY <1>9, <1>12, <2>1, <2>4 DEF DataLine, StreamOK
<1>13. CASE DataLine /\ status = 0 /\ Line(lastLine).fault = "alien"
  BY <1>7, <1>13 DEF DataLine, Recs, StreamOK
<1>14. CASE OtherLine \/ TextEOF
  BY <1>5, <1>6, <1>8, <1>14 DEF OtherLine, TextEOF
<1>15. CASE CorrelationLine
  BY <1>6, <1>7, <1>10, <1>15 DEF CorrelationLine, StreamOK
<1> QED
  BY <1>4, <1>5, <1>6, <1>11, <1>12, <1>13, <1>14, <1>15
  DEF ProcessLine, EpochLine, DataLine

LEMMA NextLineStep == ASSUME StreamInv, NextLine PROVE StreamInv'
<1> USE DEF StreamInv
<1>1. UNCHANGED <<file, currentEpoch, status, rec, got>> /\ pc = "next"
  BY DEF NextLine
<1>2. pc' \in {"test", "line"} /\ (pc' = "line" => status = status)
  BY DEF NextLine
<1>3. Below(lastLine + 1) \subseteq got \cup {rec.new}
  BY <1>1 DEF AheadByOne
<1>4. Below(lastLine) \subseteq Below(lastLine + 1)
  BY LinesType DEF Below, StreamOK
<1>5. RecordsInOrder'
  BY <1>1, SameFile DEF RecordsInOrder
<1>6. \/ lastLine' = lastLine /\ pos' = pos /\ "fail" \in bits'
      \/ lastLine' = 0 /\ pos' = pos /\ "fail" \in bits'
      \/ pos' = pos + 1 /\ lastLine' = pos + 1 /\ lastLine = pos /\ pos < Len(file.lines)
  BY <1>1 DEF NextLine, GetLine, AheadByOne
<1>7. StreamOK'
  <2>1. bits' \subseteq {"eof", "fail"}
    BY DEF NextLine, GetLine, StreamOK
  <2>2. pos' \in 0..Len(file.lines) /\ lastLine' \in {0, pos'}
    BY <1>6, LinesType DEF StreamOK
  <2> QED
    BY <1>1, <1>2, <2>1, <2>2, SameFile DEF StreamOK
<1>8. Below(lastLine') \subseteq got \cup {rec.new}
  <2>1. Below(0) = {}
    BY LinesType DEF Below
  <2> QED
    BY <1>3, <1>4, <1>6, <2>1
<1>9. AheadByOne'
  <2>1. Below(lastLine)' = Below(lastLine')
    BY <1>1, SameFile DEF Below
  <2> QED
    BY <1>1, <1>2, <1>6, <1>8, <2>1, SameFile DEF AheadByOne
<1> QED
  BY <1>5, <1>7, <1>9

LEMMA TakeRecordStep == ASSUME StreamInv, TakeRecord PROVE StreamInv'
<1> USE DEF StreamInv
<1>1. /\ UNCHANGED <<file, pos, bits, lastLine, currentEpoch, status, rec>>
      /\ pc = "test" /\ pc' = "get" /\ got' = got \cup ({rec.new} \ {0}) /\ "fail" \notin bits
  BY DEF TakeRecord
<1>2. StreamOK'
  BY <1>1, SameFile DEF StreamOK, Recs
<1>3. AheadByOne'
  <2>1. Below(lastLine) \subseteq got'
    <3>1. Below(lastLine) \subseteq got \cup {rec.new} /\ 0 \notin Below(lastLine)
      BY <1>1, LinesType DEF AheadByOne, Below
    <3> QED
      BY <1>1, <3>1
  <2> QED
    BY <1>1, <2>1, SameFile DEF AheadByOne
<1>4. RecordsInOrder'
  BY <1>1, SameFile DEF RecordsInOrder, AheadByOne, Below
<1> QED
  BY <1>2, <1>3, <1>4

\* The other actions read nothing, and a file is opened at its first line.
LEMMA IdleStep ==
  ASSUME StreamInv, UNCHANGED <<file, pos, bits, lastLine, currentEpoch, status, rec, got>>,
         pc' \in {"idle", pc}
  PROVE  StreamInv'
BY SameFile DEF StreamInv, StreamOK, AheadByOne, RecordsInOrder

LEMMA OpenedStep ==
  ASSUME NEW s \in Sources, Opened(s)
  PROVE  StreamInv'
<1>1. Len(file'.lines) \in Nat \ {0}
  BY SourceAssumption DEF Opened
<1>2. 0 \in RecordLines' \cup {0} /\ 0 \in EpochLines' \cup {0}
  OBVIOUS
<1>3. NoRec \in Recs'
  BY DEF NoRec, Recs
<1>4. Below(1)' = {}
  BY DEF Below, RecordLines
<1>5. /\ file' = s /\ pos' = 1 /\ lastLine' = 1 /\ bits' \subseteq {"eof"} /\ currentEpoch' = 0
      /\ status' = 0 /\ rec' = NoRec /\ pc' = "get" /\ got' = {}
  BY DEF Opened
<1>6. NoRec.new = 0
  BY DEF NoRec
<1>7. StreamOK'
  BY <1>1, <1>3, <1>5 DEF StreamOK
<1>8. AheadByOne'
  BY <1>4, <1>5, <1>6 DEF AheadByOne
<1>9. RecordsInOrder'
  BY <1>5 DEF RecordsInOrder
<1> QED
  BY <1>7, <1>8, <1>9 DEF StreamInv

LEMMA AddDataSourceStep ==
  ASSUME StreamInv, setup \in Setups, loaded \in Nat, AddDataSource
  PROVE  StreamInv'
<1> DEFINE s == setup.files[loaded + 1]
<1>1. s \in Sources
  BY SetupAssumption DEF AddDataSource
<1>2. CASE Opened(s)
  BY <1>1, <1>2, OpenedStep
<1>3. CASE UNCHANGED <<file, pos, bits, lastLine, currentEpoch, status, rec, got>> /\ pc' = "idle"
  BY <1>3, IdleStep
<1> QED
  BY <1>2, <1>3 DEF AddDataSource, AddSP3, AddRinexClock, AddNothing, Done

SetupOK == setup \in Setups /\ loaded \in 0..Len(setup.files)

LEMMA SetupInit == Init => SetupOK
BY SetupAssumption DEF Init, SetupOK

LEMMA SetupStep == SetupOK /\ [Next]_vars => SetupOK'
<1> SUFFICES ASSUME SetupOK, [Next]_vars PROVE SetupOK'
  OBVIOUS
<1>1. AddDataSource => UNCHANGED setup /\ loaded < Len(setup.files) /\ loaded' = loaded + 1
  BY DEF AddDataSource
<1>2. ~AddDataSource => UNCHANGED <<setup, loaded>>
  BY DEF Next, UseRinexClockData, Read, TakeRecord, Finish, GiveUp, Terminated, vars, loader
<1>3. Len(setup.files) \in Nat
  BY SetupAssumption DEF SetupOK
<1> QED
  BY <1>1, <1>2, <1>3 DEF SetupOK

LEMMA StreamInit == Init => StreamInv
<1> SUFFICES ASSUME Init PROVE StreamInv
  OBVIOUS
<1>1. file \in Sources
  BY SetupAssumption DEF Init
<1>2. Len(file.lines) \in Nat
  BY <1>1, SourceAssumption
<1>3. rec \in Recs /\ rec.new = 0
  BY DEF Init, NoRec, Recs
<1> QED
  BY <1>1, <1>2, <1>3 DEF Init, StreamInv, StreamOK, AheadByOne, RecordsInOrder

LEMMA StreamStep == StreamInv /\ SetupOK /\ [Next]_vars => StreamInv'
<1> SUFFICES ASSUME StreamInv, SetupOK, [Next]_vars PROVE StreamInv'
  OBVIOUS
<1>1. CASE AddDataSource
  BY <1>1, AddDataSourceStep, SetupAssumption DEF SetupOK
<1>2. CASE Read
  BY <1>2, GetStep, ProcessLineStep, NextLineStep DEF Read, ReadStep
<1>3. CASE TakeRecord
  BY <1>3, TakeRecordStep
<1>4. CASE Finish \/ GiveUp
  BY <1>4, IdleStep DEF Finish, GiveUp, Done
<1>5. CASE \E useRC \in BOOLEAN : UseRinexClockData(useRC)
  BY <1>5, IdleStep DEF UseRinexClockData, stream
<1>6. CASE UNCHANGED vars
  BY <1>6, IdleStep DEF vars, stream
<1> QED
  BY <1>1, <1>2, <1>3, <1>4, <1>5, <1>6 DEF Next, Terminated

\* However the file is damaged or cut off, a caller never gets a record without
\* all those before it.
THEOREM InOrder == Spec => []RecordsInOrder
<1>1. Init => StreamInv /\ SetupOK
  BY StreamInit, SetupInit
<1>2. StreamInv /\ SetupOK /\ [Next]_vars => (StreamInv /\ SetupOK)'
  BY StreamStep, SetupStep
<1>3. StreamInv => RecordsInOrder
  BY DEF StreamInv
<1> QED
  BY <1>1, <1>2, <1>3, PTL DEF Spec

-----------------------------------------------------------------------------
(* The messages that are put together                                      *)

MessageOK(msg) ==
  msg.from \subseteq RecordLines \cup {0} /\ msg.time \in EpochLines \cup {0}

LoaderOK ==
  /\ SetupOK /\ storeTimeSystem \in Systems /\ useSP3clock \in BOOLEAN
  /\ MessageOK(eph) /\ MessageOK(clk)

LEMMA NothingIsOK == MessageOK(NoMessage)
BY DEF MessageOK, NoMessage

LEMMA MergedOK ==
  ASSUME StreamOK, NEW msg, MessageOK(msg)
  PROVE  MessageOK(Merged(Earlier(msg)))
BY NothingIsOK DEF MessageOK, Merged, Earlier, StreamOK, Recs

LEMMA TakeRecordKeeps ==
  ASSUME StreamOK, MessageOK(eph), MessageOK(clk), TakeRecord
  PROVE  MessageOK(eph)' /\ MessageOK(clk)'
<1>1. UNCHANGED file
  BY DEF TakeRecord
<1>2. /\ eph' = Earlier(eph) \/ eph' = Merged(Earlier(eph))
      /\ clk' = Earlier(clk) \/ clk' = Merged(Earlier(clk))
  BY DEF TakeRecord
<1>3. /\ MessageOK(Earlier(eph)) /\ MessageOK(Merged(Earlier(eph)))
      /\ MessageOK(Earlier(clk)) /\ MessageOK(Merged(Earlier(clk)))
  BY NothingIsOK, MergedOK DEF Earlier
<1> QED
  BY <1>1, <1>2, <1>3, SameFile DEF MessageOK

LEMMA LoaderInit == Init => LoaderOK
BY SetupInit, NothingIsOK DEF Init, LoaderOK, Systems

LEMMA LoaderStep == StreamInv /\ LoaderOK /\ [Next]_vars => LoaderOK'
<1> SUFFICES ASSUME StreamInv, LoaderOK, [Next]_vars PROVE LoaderOK'
  OBVIOUS
<1>1. SetupOK'
  BY SetupStep DEF LoaderOK
<1>2. storeTimeSystem' \in Systems /\ useSP3clock' \in BOOLEAN
  <2>1. CASE AddDataSource
    <3> DEFINE s == setup.files[loaded + 1]
    <3>1. s.system \in Systems
      BY <2>1, SetupAssumption DEF AddDataSource, LoaderOK, SetupOK
    <3> QED
      BY <2>1, <3>1 DEF AddDataSource, AddSP3, AddRinexClock, AddNothing, LoaderOK, Systems
  <2>2. CASE ~AddDataSource
    BY <2>2 DEF LoaderOK, Next, Read, TakeRecord, Finish, GiveUp, UseRinexClockData, Terminated,
                vars, loader
  <2> QED
    BY <2>1, <2>2
<1>3. MessageOK(eph)' /\ MessageOK(clk)'
  <2>1. CASE eph' = NoMessage /\ clk' = NoMessage
    BY <2>1 DEF MessageOK, NoMessage
  <2>2. CASE UNCHANGED <<file, eph, clk>>
    BY <2>2, SameFile DEF LoaderOK, MessageOK
  <2>3. CASE TakeRecord
    BY <2>3, TakeRecordKeeps DEF LoaderOK, StreamInv
  <2>4. Read => UNCHANGED <<file, eph, clk>>
    BY DEF Read, ReadStep, Get, ProcessLine, NextLine, SkipLine, TextEOF, EpochLine, DataLine,
           CorrelationLine, OtherLine, Fail, Return, Swallow, loader
  <2>5. AddDataSource => UNCHANGED <<file, eph, clk>> \/ (eph' = NoMessage /\ clk' = NoMessage)
    BY DEF AddDataSource, AddSP3, AddRinexClock, AddNothing
  <2> QED
    BY <2>1, <2>2, <2>3, <2>4, <2>5
    DEF Next, Finish, GiveUp, UseRinexClockData, Terminated, vars, stream, loader
<1> QED
  BY <1>1, <1>2, <1>3 DEF LoaderOK

\* The types of all variables.
THEOREM TypeCorrect == Spec => []TypeOK
<1>1. Init => StreamInv /\ LoaderOK
  BY StreamInit, LoaderInit
<1>2. StreamInv /\ LoaderOK /\ [Next]_vars => (StreamInv /\ LoaderOK)'
  BY StreamStep, LoaderStep DEF LoaderOK
<1>3. StreamInv /\ LoaderOK => TypeOK
  BY LinesType DEF StreamInv, StreamOK, LoaderOK, SetupOK, MessageOK, Recs, TypeOK
<1> QED
  BY <1>1, <1>2, <1>3, PTL DEF Spec

-----------------------------------------------------------------------------
(* The clocks                                                              *)

Clocks == {m \in data : m.type = "Clock"}

\* A load with SP3 clocks switched off stores a clock once, at its end.
ClockInv ==
  /\ \A m \in data : m.load \in 0..loaded
  /\ ClocksApart
  /\ pc # "idle" /\ ~useSP3clock => \A m \in Clocks : m.load # loaded

LEMMA StoredIs ==
  ASSUME NEW type, NEW load, NEW msg, NEW format
  PROVE  /\ \A m \in Stored(type, load, msg, format) :
                m.type = type /\ m.load = load /\ m.format = format /\ m.msg = msg
         /\ \A m, k \in Stored(type, load, msg, format) : m = k
BY DEF Stored

LEMMA StoreIs ==
  ASSUME NEW process, NEW type, NEW msg
  PROVE  /\ \A m \in Store(process, type, msg) :
                m.type = type /\ m.load = loaded /\ m.format = "SP3" /\ m.msg = msg
         /\ \A m, k \in Store(process, type, msg) : m = k
BY StoredIs DEF Store

LEMMA ClockStep == LoaderOK /\ ClockInv /\ [Next]_vars => ClockInv'
<1> SUFFICES ASSUME LoaderOK, ClockInv, [Next]_vars PROVE ClockInv'
  OBVIOUS
<1>1. loaded \in Nat /\ useSP3clock \in BOOLEAN
  BY SetupAssumption DEF LoaderOK, SetupOK
<1>2. \A m \in Clocks : IF useSP3clock THEN m.format = "SP3"
         ELSE m.format = "RINEX" \/ \A k \in Clocks : m.load = k.load => m = k
  BY DEF ClockInv, ClocksApart, Clocks
<1> USE DEF ClockInv, ClocksApart, Clocks
<1>3. CASE AddDataSource
  <2>1. loaded' = loaded + 1 /\ pc = "idle"
    BY <1>3 DEF AddDataSource
  <2>2. CASE UNCHANGED <<data, useSP3clock>>
    BY <1>1, <1>2, <2>1, <2>2
  <2>3. CASE ~UNCHANGED <<data, useSP3clock>>
    <3>1. PICK s : AddRinexClock(s) /\ ~(~Has("Clock") \/ Mismatch(s))
      BY <1>3, <2>3 DEF AddDataSource, AddSP3, AddRinexClock, AddNothing
    <3>2. PICK n \in 0..Len(s.lines) :
             data' = UseRinex \cup (IF Has("InvalidOnly") THEN {} ELSE
                       UNION {Stored("Clock", loaded + 1,
                                [from |-> {i}, sat |-> s.lines[i].sat, time |-> i], "RINEX")
                                : i \in 1..n})
      BY <3>1 DEF AddRinexClock
    <3>3. useSP3clock' = FALSE /\ pc' = "idle"
      BY <3>1 DEF AddRinexClock, Done
    <3>4. \A m \in data' : m \in UseRinex
             \/ (m.type = "Clock" /\ m.load = loaded + 1 /\ m.format = "RINEX")
      <4> DEFINE R(i) == Stored("Clock", loaded + 1,
                     [from |-> {i}, sat |-> s.lines[i].sat, time |-> i], "RINEX")
      <4>1. \A m \in data' : m \in UseRinex \/ \E i \in 1..n : m \in R(i)
        <5> HIDE DEF R
        <5>1. data' = UseRinex \cup (IF Has("InvalidOnly") THEN {} ELSE UNION {R(i) : i \in 1..n})
          BY <3>2 DEF R
        <5> QED
          BY <5>1
      <4>2. \A i : \A m \in R(i) : m.type = "Clock" /\ m.load = loaded + 1 /\ m.format = "RINEX"
        BY StoredIs
      <4> QED
        BY <4>1, <4>2
    <3>5. UseRinex \subseteq data /\ (useSP3clock => \A m \in UseRinex : m.type # "Clock")
      BY DEF UseRinex
    <3>6. \A m \in data' : m.load \in 0..loaded'
      BY <1>1, <2>1, <3>4, <3>5
    <3>7. ASSUME NEW m \in data', m.type = "Clock", m.format # "RINEX",
                 NEW k \in data', k.type = "Clock", m.load = k.load
          PROVE  m = k
      BY <1>1, <1>2, <2>1, <3>4, <3>5, <3>7
    <3> QED
      BY <3>3, <3>6, <3>7
  <2> QED
    BY <2>2, <2>3
<1>4. ASSUME pc # "idle", UNCHANGED <<loaded, useSP3clock>>,
             NEW new, \A m \in new : m.type = "Ephemeris" /\ m.load = loaded, data' = data \cup new
      PROVE  ClockInv'
  BY <1>1, <1>2, <1>4
<1>5. CASE TakeRecord
  <2> DEFINE E == Store(Has("Ephemeris"), "Ephemeris", eph)
             C == Store(Has("Clock") /\ useSP3clock, "Clock", clk)
  <2>1. data' = data \/ data' = data \cup E \cup C
    BY <1>5 DEF TakeRecord, StoreEarlier
  <2>2. UNCHANGED <<loaded, useSP3clock>> /\ pc = "test"
    BY <1>5 DEF TakeRecord
  <2>3. ~useSP3clock => C = {}
    BY DEF Store
  <2>4. /\ \A m \in E : m.type = "Ephemeris" /\ m.load = loaded
        /\ \A m \in C : m.type = "Clock" /\ m.load = loaded /\ m.format = "SP3"
    BY StoreIs
  <2> HIDE DEF E, C
  <2> QED
    BY <1>1, <1>2, <2>1, <2>2, <2>3, <2>4
<1>6. CASE Finish
  <2> DEFINE E == Store(Has("Ephemeris"), "Ephemeris", eph)
             C == Store(Has("Clock"), "Clock", clk)
  <2>1. data' = data \cup E \cup C /\ UNCHANGED <<loaded, useSP3clock>> /\ pc = "test" /\ pc' = "idle"
    BY <1>6 DEF Finish, Done
  <2>2. /\ \A m \in E : m.type = "Ephemeris" /\ m.load = loaded
        /\ \A m \in C : m.type = "Clock" /\ m.load = loaded /\ m.format = "SP3"
        /\ \A m, k \in C : m = k
    BY StoreIs
  <2> HIDE DEF E, C
  <2> QED
    BY <1>1, <1>2, <2>1, <2>2
<1>7. CASE \E useRC \in BOOLEAN : UseRinexClockData(useRC)
  BY <1>7 DEF UseRinexClockData
<1>8. CASE Read \/ GiveUp \/ UNCHANGED vars
  <2>1. UNCHANGED <<loaded, useSP3clock, data>> /\ (pc = "idle" => pc' = "idle")
    BY <1>8 DEF Read, ReadStep, Get, ProcessLine, NextLine, GiveUp, vars, loader, stream
  <2> QED
    BY <1>2, <2>1
<1> QED
  BY <1>3, <1>5, <1>6, <1>7, <1>8 DEF Next, Terminated

\* The clocks of SP3 files and of RINEX files do not mix in the store, but for
\* one that each SP3 file leaves there.
THEOREM ClocksStayApart == Spec => []ClocksApart
<1>1. Init => StreamInv /\ LoaderOK /\ ClockInv
  BY StreamInit, LoaderInit DEF Init, ClockInv, ClocksApart, Clocks
<1>2. StreamInv /\ LoaderOK /\ ClockInv /\ [Next]_vars => (StreamInv /\ LoaderOK /\ ClockInv)'
  BY StreamStep, LoaderStep, ClockStep DEF LoaderOK
<1>3. ClockInv => ClocksApart
  BY DEF ClockInv
<1> QED
  BY <1>1, <1>2, <1>3, PTL DEF Spec

-----------------------------------------------------------------------------
(* Messages of one satellite and epoch                                     *)

UnderEpoch(t, n) == t < n /\ \A e \in EpochLines : ~(t < e /\ e < n)

FileKnown == pc # "idle" => loaded \in 1..Len(setup.files) /\ file = setup.files[loaded]

\* currentEpoch is the last epoch line so far.
EpochOK ==
  pc # "idle" =>
    /\ rec.time = currentEpoch /\ currentEpoch <= pos
    /\ pc = "line" => \A e \in EpochLines : e < lastLine => e <= currentEpoch
    /\ pc = "next" => \A e \in EpochLines : e <= lastLine => e <= currentEpoch
    /\ pc \in {"get", "test"} /\ "fail" \notin bits =>
         \A e \in EpochLines : e < lastLine => e <= currentEpoch

\* What is in the SP3Data goes together.
RecWhole ==
  /\ rec.type = "none" => rec.x = 0
  /\ rec.type \in {"P", "V"} =>
       /\ rec.x \in RecordLines /\ UnderEpoch(rec.time, rec.x)
       /\ Line(rec.x).sat = rec.sat /\ KindOf(rec.x) = rec.type

\* The stream does not get past a record of an unknown satellite system: the
\* SP3Data is then part old and part new.
Stuck ==
  /\ pc \in {"get", "line", "test"} /\ "fail" \notin bits
  /\ rec.new = 0 /\ status = 0
  /\ KindOf(lastLine) \in {"P", "V"} /\ Line(lastLine).fault = "alien"

\* A message being put together is of the satellite and epoch in last.
GoodMessage(msg) ==
  \A n \in msg.from \ {0} :
    /\ msg.time = last[2] /\ UnderEpoch(last[2], n)
    /\ Line(n).sat = last[1] /\ (KindOf(n) = "P" => msg.sat = last[1])

GoodMessages == GoodMessage(eph) /\ GoodMessage(clk)

\* A message of what the SP3Data is when the stream is stuck is never stored.
WholeInv ==
  pc # "idle" =>
    \/ RecWhole /\ GoodMessages
    \/ Stuck /\ (GoodMessages \/ last = <<rec.sat, rec.time>>)

-----------------------------------------------------------------------------
(* Complete loads                                                          *)

InStore(n) == \E m \in data : m.load = loaded /\ m.type = "Ephemeris" /\ n \in m.msg.from

RecIsNew ==
  rec.new # 0 => /\ rec.type = KindOf(rec.new)
                 /\ rec.type # "epoch" => rec.x = rec.new

KeptTaken == pc # "idle" => \A n \in got : Kept(n) => InStore(n) \/ n \in eph.from

NoEOFTo(n) == \A k \in 1..Len(file.lines) : k <= n => KindOf(k) # "EOF"

\* After the text EOF only a blank line can be read.
PastEOF ==
  pos = Len(file.lines) /\ lastLine = pos /\ KindOf(lastLine) = "blank" /\ rec.new = 0

\* All records have been got, but for the one that this call has read.
AllRead ==
  RecordLines \subseteq got \cup {rec.new} /\ (rec.new # 0 => ~HasEOF(file))

EndInv ==
  pc # "idle" =>
    /\ "eof" \in bits => pos = Len(file.lines)
    /\ pc = "next" /\ status = 0 => lastLine \notin RecordLines
    /\ pc = "line" /\ status = 0 /\ "fail" \in bits => lastLine \notin RecordLines
    /\ pc = "next" /\ "fail" \notin bits => NoEOFTo(lastLine) \/ PastEOF
    /\ pc \in {"get", "line", "test"} /\ "fail" \notin bits => NoEOFTo(lastLine - 1) \/ PastEOF
    /\ pc \in {"line", "next"} /\ "fail" \in bits => bits = {"eof", "fail"}
    /\ pc # "get" /\ bits = {"eof", "fail"} => AllRead

-----------------------------------------------------------------------------
(* What a step of the reading does                                         *)

AtAlien(n) == KindOf(n) \in {"P", "V"} /\ Line(n).fault = "alien"

Skips ==
  /\ pc = "line" /\ pc' = "next" /\ lastLine \notin RecordLines /\ KindOf(lastLine) # "EOF"
  /\ UNCHANGED <<pos, bits, lastLine, currentEpoch, rec>>
  /\ status' = status \/ status' = 3

Returns ==
  /\ pc = "line" /\ pc' = "test" /\ ~(status = 0 /\ AtAlien(lastLine))
  /\ bits' \in {bits, {"fail"}}
  /\ UNCHANGED <<pos, lastLine, currentEpoch, status, rec>>

StopsAtAlien ==
  /\ pc = "line" /\ pc' = "test" /\ status = 0 /\ AtAlien(lastLine)
  /\ UNCHANGED <<pos, bits, lastLine, currentEpoch, status>>
  /\ rec'.sat = rec.sat /\ rec'.time = rec.time /\ rec'.new = rec.new

StopsAtEOF ==
  /\ pc = "line" /\ pc' = "test" /\ status = 0 /\ KindOf(lastLine) = "EOF" /\ bits = {}
  /\ \/ /\ pos = Len(file.lines) /\ pos' = pos /\ lastLine' = 0 /\ bits' = {"eof", "fail"}
     \/ /\ pos + 1 = Len(file.lines) /\ KindOf(pos + 1) = "blank" /\ bits' = {"eof"}
        /\ pos' = pos + 1 /\ lastLine' = pos + 1
  /\ UNCHANGED <<currentEpoch, status, rec>>

TakesEpoch ==
  /\ pc = "line" /\ pc' = "next" /\ status = 0 /\ status' = 1
  /\ lastLine \in EpochLines /\ currentEpoch' = lastLine
  /\ rec'.type = "epoch" /\ rec'.time = lastLine /\ rec'.new = lastLine
  /\ UNCHANGED <<pos, bits, lastLine>>

TakesData ==
  /\ pc = "line" /\ pc' = "next" /\ status = 0 /\ status' = 2
  /\ lastLine \in RecordLines /\ KindOf(lastLine) \in {"P", "V"} /\ ~AtAlien(lastLine)
  /\ rec'.type = KindOf(lastLine) /\ rec'.sat = Line(lastLine).sat
  /\ rec'.x = lastLine /\ rec'.new = lastLine /\ rec'.time = rec.time
  /\ UNCHANGED <<pos, bits, lastLine, currentEpoch>>

NextAtEnd ==
  /\ pc = "next" /\ pc' \in {"line", "test"}
  /\ \/ bits # {} /\ bits' = bits \cup {"fail"} /\ UNCHANGED lastLine
     \/ /\ bits = {} /\ pos = Len(file.lines) /\ bits' = {"eof", "fail"} /\ lastLine' = 0
        /\ pc' = "test"
  /\ UNCHANGED <<pos, currentEpoch, status, rec>>

NextIsThere ==
  /\ pc = "next" /\ bits = {} /\ pos < Len(file.lines)
  /\ pos' = pos + 1 /\ lastLine' = pos + 1
  /\ \/ /\ pc' \in {"line", "test"} /\ bits' \subseteq {"eof"}
        /\ "eof" \in bits' => pos' = Len(file.lines)
     \/ pc' = "test" /\ bits' = {"fail"}
  /\ UNCHANGED <<currentEpoch, status, rec>>

LEMMA ReadCases ==
  ASSUME StreamInv, Read
  PROVE  /\ UNCHANGED <<file, got, loader>>
         /\ \/ Get \/ Skips \/ Returns \/ StopsAtAlien \/ StopsAtEOF \/ TakesEpoch
            \/ TakesData \/ NextAtEnd \/ NextIsThere
<1> USE DEF StreamInv
<1>1. UNCHANGED <<file, got, loader>>
  BY DEF Read, ReadStep, Get, ProcessLine, NextLine, SkipLine, TextEOF, EpochLine, DataLine,
         CorrelationLine, OtherLine, Fail, Return, Swallow
<1> SUFFICES \/ Get \/ Skips \/ Returns \/ StopsAtAlien \/ StopsAtEOF \/ TakesEpoch
             \/ TakesData \/ NextAtEnd \/ NextIsThere
  BY <1>1
<1>2. ASSUME KindOf(lastLine) \notin {"P", "V", "epoch"}
      PROVE  lastLine \notin RecordLines
  BY <1>2 DEF RecordLines
<1>3. CASE pc = "line" /\ SkipLine
  BY <1>2, <1>3 DEF SkipLine, Skips
<1>4. CASE pc = "line" /\ (OtherLine \/ CorrelationLine)
  BY <1>2, <1>4 DEF OtherLine, CorrelationLine, Fail, Swallow, Returns, Skips, AtAlien
<1>5. CASE pc = "line" /\ TextEOF
  <2>1. CASE Fail \/ Return
    BY <1>5, <2>1 DEF TextEOF, Fail, Return, Returns, AtAlien
  <2>2. CASE EndsHere /\ GetLine /\ pc' = "test" /\ status = 0 /\ UNCHANGED <<currentEpoch, status, rec>>
    BY <1>5, <2>2, LinesType DEF TextEOF, EndsHere, GetLine, StopsAtEOF, StreamOK
  <2> QED
    BY <1>5, <2>1, <2>2 DEF TextEOF
<1>6. CASE pc = "line" /\ EpochLine
  <2>1. CASE Fail \/ Return
    BY <1>6, <2>1 DEF EpochLine, Fail, Return, Returns, AtAlien
  <2>2. CASE ~(Fail \/ Return)
    <3>1. rec' = [rec EXCEPT !.type = "epoch", !.sat = 0, !.time = lastLine, !.new = lastLine]
      BY <1>6, <2>2 DEF EpochLine
    <3>2. rec'.type = "epoch" /\ rec'.time = lastLine /\ rec'.new = lastLine
      BY <3>1 DEF StreamOK, Recs
    <3>3. lastLine \in EpochLines
      BY <1>6, LinesType DEF EpochLine, EpochLines, RecordLines, KindOf, StreamOK
    <3> QED
      BY <1>6, <2>2, <3>2, <3>3 DEF EpochLine, TakesEpoch
  <2> QED
    BY <2>1, <2>2
<1>7. CASE pc = "line" /\ DataLine
  <2>1. CASE (Fail \/ Return) /\ ~(status = 0 /\ Line(lastLine).fault = "alien")
    BY <1>7, <2>1 DEF Fail, Return, Returns, AtAlien
  <2>2. CASE status = 0 /\ Line(lastLine).fault = "alien"
    <3>1. rec' = [rec EXCEPT !.type = KindOf(lastLine)] /\ Swallow
      BY <1>7, <2>2 DEF DataLine
    <3>2. rec'.sat = rec.sat /\ rec'.time = rec.time /\ rec'.new = rec.new
      BY <3>1 DEF StreamOK, Recs
    <3> QED
      BY <1>7, <2>2, <3>1, <3>2 DEF DataLine, Swallow, StopsAtAlien, AtAlien
  <2>3. CASE status = 0 /\ Line(lastLine).fault = "none"
    <3> DEFINE flags == IF KindOf(lastLine) = "P" THEN lastLine ELSE rec.flags
               type == KindOf(lastLine)
               sat == Line(lastLine).sat
    <3>1. rec' = [rec EXCEPT !.type = type, !.sat = sat, !.x = lastLine, !.new = lastLine,
                             !.flags = flags]
      BY <1>7, <2>3 DEF DataLine
    <3>2. /\ rec'.type = type /\ rec'.sat = sat /\ rec'.x = lastLine /\ rec'.new = lastLine
          /\ rec'.time = rec.time
      <4> HIDE DEF flags, type, sat
      <4> QED
        BY <3>1 DEF StreamOK, Recs
    <3>3. lastLine \in RecordLines
      BY <1>7, LinesType DEF DataLine, RecordLines, KindOf, StreamOK
    <3> QED
      BY <1>7, <2>3, <3>2, <3>3 DEF DataLine, TakesData, AtAlien
  <2> QED
    BY <1>7, <2>1, <2>2, <2>3, "short" # "alien" DEF DataLine, StreamOK
<1>8. CASE NextLine
  <2>1. CASE bits = {} /\ pos < Len(file.lines)
    <3>1. lastLine' = pos + 1 /\ pos' = pos + 1 /\ pc' \in {"line", "test"}
      BY <1>8, <2>1, LinesType DEF NextLine, GetLine, StreamOK
    <3>2. \/ bits' \subseteq {"eof"} /\ ("eof" \in bits' => pos' = Len(file.lines))
          \/ pc' = "test" /\ bits' = {"fail"}
      BY <1>8, <2>1, LinesType DEF NextLine, GetLine, StreamOK
    <3> QED
      BY <1>8, <2>1, <3>1, <3>2 DEF NextLine, NextIsThere
  <2>2. CASE ~(bits = {} /\ pos < Len(file.lines))
    BY <1>8, <2>2, LinesType DEF NextLine, GetLine, NextAtEnd, StreamOK, AtEnd, KindOf
  <2> QED
    BY <2>1, <2>2
<1> QED
  BY <1>1, <1>3, <1>4, <1>5, <1>6, <1>7, <1>8 DEF Read, ReadStep, ProcessLine

-----------------------------------------------------------------------------
(* Each invariant is kept by the reading                                   *)

LEMMA LinesAhead ==
  ASSUME StreamInv, pc # "idle"
  PROVE  /\ pos \in 0..Len(file.lines) /\ lastLine \in {0, pos}
         /\ "fail" \notin bits => lastLine = pos
         /\ currentEpoch \in Nat /\ currentEpoch \in EpochLines \cup {0}
         /\ EpochLines \subseteq RecordLines /\ RecordLines \subseteq Nat \ {0}
         /\ Len(file.lines) \in Nat
         /\ \A e \in EpochLines : KindOf(e) = "epoch"
BY LinesType DEF StreamInv, StreamOK, AheadByOne, EpochLines

LEMMA EpochReads == ASSUME StreamInv, EpochOK, Read, pc # "idle" PROVE EpochOK'
<1> USE LinesAhead
<1>1. UNCHANGED file /\ EpochLines' = EpochLines
  BY ReadCases, SameFile
<1>2. CASE Get
  <2>1. rec'.time = currentEpoch
    BY <1>2 DEF Get, StreamInv, StreamOK, Recs
  <2> QED
    BY <1>1, <1>2, <2>1 DEF Get, EpochOK
<1>3. CASE Skips \/ Returns \/ StopsAtAlien
  BY <1>1, <1>3 DEF Skips, Returns, StopsAtAlien, EpochOK
<1>4. CASE StopsAtEOF
  BY <1>1, <1>4 DEF StopsAtEOF, EpochOK
<1>5. CASE TakesEpoch \/ TakesData
  BY <1>1, <1>5 DEF TakesEpoch, TakesData, EpochOK
<1>6. CASE NextAtEnd \/ NextIsThere
  BY <1>1, <1>6 DEF NextAtEnd, NextIsThere, EpochOK
<1> QED
  BY <1>2, <1>3, <1>4, <1>5, <1>6, ReadCases

LEMMA RecIsNewReads == ASSUME StreamInv, RecIsNew, Read PROVE RecIsNew'
<1>1. UNCHANGED file /\ \A n : KindOf(n)' = KindOf(n)
  BY ReadCases DEF KindOf, Line
<1>2. CASE Get
  <2>1. rec'.new = 0
    BY <1>2 DEF Get, StreamInv, StreamOK, Recs
  <2> QED
    BY <2>1 DEF RecIsNew
<1>3. CASE StopsAtAlien
  <2>1. rec'.new = 0
    BY <1>3 DEF StopsAtAlien, StreamInv, AheadByOne
  <2> QED
    BY <2>1 DEF RecIsNew
<1>4. CASE TakesEpoch
  BY <1>1, <1>4, LinesAhead DEF TakesEpoch, RecIsNew
<1>5. CASE TakesData
  BY <1>1, <1>5 DEF TakesData, RecIsNew
<1>6. CASE UNCHANGED rec
  BY <1>1, <1>6 DEF RecIsNew
<1> QED
  BY <1>2, <1>3, <1>4, <1>5, <1>6, ReadCases
  DEF Skips, Returns, StopsAtEOF, NextAtEnd, NextIsThere

LEMMA WholeReads ==
  ASSUME StreamInv, EpochOK, EndInv, WholeInv, Read, pc # "idle"
  PROVE  WholeInv'
<1>1. UNCHANGED <<file, got, loader>>
  BY ReadCases
<1>2. /\ RecordLines' = RecordLines /\ \A n : KindOf(n)' = KindOf(n) /\ Line(n)' = Line(n)
      /\ \A t, n : UnderEpoch(t, n)' = UnderEpoch(t, n)
  BY <1>1, SameFile DEF KindOf, Line, UnderEpoch
<1>3. GoodMessages' = GoodMessages
  BY <1>1, <1>2 DEF GoodMessages, GoodMessage, loader, UnderEpoch, KindOf, Line, EpochLines,
     RecordLines
<1>4. rec.time = currentEpoch
  BY DEF EpochOK
<1>5. CASE Get
  <2>1. /\ rec'.time = rec.time /\ rec'.sat = rec.sat /\ rec'.new = 0 /\ rec'.type = rec.type
        /\ rec'.x = rec.x /\ UNCHANGED lastLine /\ bits' = {} /\ status' = 0 /\ pc' = "line"
        /\ pc = "get"
    BY <1>4, <1>5 DEF Get, StreamInv, StreamOK, Recs
  <2>2. RecWhole => RecWhole'
    BY <1>2, <2>1 DEF RecWhole
  <2>3. Stuck => Stuck'
    BY <1>2, <2>1 DEF Stuck
  <2> QED
    BY <1>1, <1>3, <2>1, <2>2, <2>3 DEF WholeInv, loader
<1>6. CASE StopsAtAlien
  <2>1. GoodMessages \/ last = <<rec.sat, rec.time>>
    BY DEF WholeInv
  <2>2. "fail" \notin bits
    BY <1>6, LinesAhead DEF StopsAtAlien, AtAlien, EndInv, RecordLines, StreamInv, StreamOK, KindOf
  <2>3. rec.new = 0
    BY <1>6 DEF StopsAtAlien, StreamInv, AheadByOne
  <2>4. Stuck'
    BY <1>2, <1>6, <2>2, <2>3 DEF StopsAtAlien, AtAlien, Stuck
  <2> QED
    BY <1>1, <1>3, <1>6, <2>1, <2>4 DEF StopsAtAlien, WholeInv, loader
<1>7. CASE ~Get /\ ~StopsAtAlien
  <2>1. pc = "get" => FALSE
    BY <1>7, ReadCases DEF Skips, Returns, StopsAtEOF, TakesEpoch, TakesData, NextAtEnd, NextIsThere
  <2>2. ~Stuck
    <3> SUFFICES ASSUME Stuck PROVE FALSE
      OBVIOUS
    <3>1. AtAlien(lastLine) /\ status = 0 /\ pc \in {"get", "line", "test"}
      BY DEF Stuck, AtAlien
    <3>2. lastLine \in RecordLines /\ lastLine \notin EpochLines /\ KindOf(lastLine) # "EOF"
      BY <3>1 DEF AtAlien, RecordLines, EpochLines, StreamInv, StreamOK, KindOf
    <3> QED
      BY <1>7, <2>1, <3>1, <3>2, ReadCases
      DEF Skips, Returns, StopsAtEOF, TakesEpoch, TakesData, NextAtEnd, NextIsThere
  <2>3. RecWhole /\ GoodMessages
    BY <2>2 DEF WholeInv
  <2>4. CASE TakesEpoch
    BY <1>3, <2>3, <2>4 DEF TakesEpoch, RecWhole, WholeInv
  <2>5. CASE TakesData
    <3>1. lastLine = pos /\ currentEpoch < lastLine
      BY <2>5, LinesAhead DEF TakesData, EpochOK
    <3>2. UnderEpoch(rec.time, lastLine)
      BY <1>4, <2>5, <3>1, LinesAhead DEF TakesData, EpochOK, UnderEpoch
    <3> QED
      BY <1>2, <1>3, <2>3, <2>5, <3>2 DEF TakesData, RecWhole, WholeInv
  <2>6. CASE UNCHANGED rec
    BY <1>2, <1>3, <2>3, <2>6 DEF RecWhole, WholeInv
  <2> QED
    BY <1>7, <2>4, <2>5, <2>6, ReadCases DEF Skips, Returns, StopsAtEOF, NextAtEnd, NextIsThere
<1> QED
  BY <1>5, <1>6, <1>7

LEMMA EndReads == ASSUME StreamInv, EndInv, Read, pc # "idle" PROVE EndInv'
<1> USE LinesAhead
<1>1. UNCHANGED <<file, got>>
  BY ReadCases
<1>2. /\ RecordLines' = RecordLines /\ \A n : KindOf(n)' = KindOf(n)
      /\ \A n : NoEOFTo(n)' = NoEOFTo(n) /\ HasEOF(file)' = HasEOF(file)
  BY <1>1, SameFile DEF KindOf, Line, NoEOFTo, HasEOF
<1>3. rec' = rec \/ rec'.new = rec.new => AllRead' = AllRead
  BY <1>1, <1>2 DEF AllRead
<1>4. CASE Get
  <2>1. rec'.new = 0 /\ bits' = {} /\ pc = "get" /\ pc' = "line" /\ UNCHANGED <<pos, lastLine>>
        /\ "fail" \notin bits
    BY <1>4 DEF Get, StreamInv, StreamOK, Recs
  <2>2. PastEOF => PastEOF'
    BY <1>1, <1>2, <2>1 DEF PastEOF
  <2> QED
    BY <1>1, <1>2, <2>1, <2>2 DEF EndInv
<1>5. CASE Skips
  <2>1. NoEOFTo(lastLine - 1) => NoEOFTo(lastLine)
    BY <1>5 DEF Skips, NoEOFTo
  <2>2. PastEOF => PastEOF'
    BY <1>1, <1>2, <1>5 DEF PastEOF, Skips
  <2> QED
    BY <1>1, <1>2, <1>3, <1>5, <2>1, <2>2 DEF Skips, EndInv
<1>6. CASE Returns
  <2>1. PastEOF => PastEOF'
    BY <1>1, <1>2, <1>6 DEF PastEOF, Returns
  <2> QED
    BY <1>1, <1>2, <1>3, <1>6, <2>1 DEF Returns, EndInv
<1>7. CASE StopsAtAlien
  <2>1. PastEOF => PastEOF'
    BY <1>1, <1>2, <1>7 DEF PastEOF, StopsAtAlien
  <2> QED
    BY <1>1, <1>2, <1>3, <1>7, <2>1 DEF StopsAtAlien, EndInv
<1>8. CASE StopsAtEOF
  <2>1. rec.new = 0 /\ lastLine = pos /\ rec' = rec
    BY <1>8 DEF StopsAtEOF, StreamInv, AheadByOne
  <2>2. CASE pos' = pos
    <3>1. Below(lastLine) \subseteq got \cup {rec.new} /\ lastLine \notin RecordLines
      BY <1>8 DEF StopsAtEOF, StreamInv, AheadByOne, RecordLines
    <3>2. AllRead'
      BY <1>1, <1>2, <1>8, <2>1, <2>2, <3>1 DEF StopsAtEOF, AllRead, Below, RecordLines
    <3> QED
      BY <1>1, <1>8, <2>2, <3>2 DEF StopsAtEOF, EndInv
  <2>3. CASE pos' = pos + 1
    <3>1. PastEOF' /\ bits' = {"eof"} /\ pc' = "test" /\ pos' = Len(file'.lines)
      BY <1>1, <1>2, <1>8, <2>1, <2>3 DEF StopsAtEOF, PastEOF
    <3> QED
      BY <3>1 DEF EndInv
  <2> QED
    BY <1>8, <2>2, <2>3 DEF StopsAtEOF
<1>9. CASE TakesEpoch \/ TakesData
  <2>1. lastLine \in RecordLines
    BY <1>9 DEF TakesEpoch, TakesData
  <2>2. KindOf(lastLine) \notin {"EOF", "blank"}
    BY <2>1 DEF RecordLines
  <2>3. pc = "line" /\ status = 0 /\ pc' = "next" /\ status' # 0 /\ UNCHANGED <<pos, bits, lastLine>>
    BY <1>9 DEF TakesEpoch, TakesData
  <2>4. "fail" \notin bits
    BY <2>1, <2>3 DEF EndInv
  <2>5. NoEOFTo(lastLine - 1) /\ (NoEOFTo(lastLine - 1) => NoEOFTo(lastLine))
    BY <2>2, <2>3, <2>4 DEF EndInv, PastEOF, NoEOFTo
  <2> QED
    BY <1>1, <1>2, <2>3, <2>4, <2>5 DEF EndInv
<1>10. CASE NextAtEnd
  <2>1. UNCHANGED <<pos, rec, status>> /\ bits' = {"eof", "fail"} /\ pos = Len(file.lines)
        /\ pc = "next" /\ pc' \in {"line", "test"}
    BY <1>10 DEF NextAtEnd, EndInv, StreamInv, StreamOK
  <2>2. AllRead
    <3>1. CASE "fail" \in bits
      BY <2>1, <3>1 DEF EndInv
    <3>2. CASE "fail" \notin bits
      <4>1. Below(lastLine + 1) \subseteq got \cup {rec.new} /\ lastLine = pos
        BY <2>1, <3>2 DEF StreamInv, AheadByOne
      <4>2. RecordLines \subseteq got \cup {rec.new}
        BY <2>1, <4>1 DEF Below, RecordLines
      <4>3. NoEOFTo(lastLine) => ~HasEOF(file)
        BY <2>1, <4>1 DEF NoEOFTo, HasEOF, KindOf, Line
      <4> QED
        BY <2>1, <3>2, <4>2, <4>3 DEF EndInv, AllRead, PastEOF
    <3> QED
      BY <3>1, <3>2
  <2>3. pc' = "line" => lastLine' = lastLine
    BY <1>10 DEF NextAtEnd
  <2> QED
    BY <1>1, <1>2, <1>3, <2>1, <2>2, <2>3 DEF EndInv
<1>11. CASE NextIsThere
  <2>1. /\ pc = "next" /\ bits = {} /\ pos < Len(file.lines) /\ lastLine = pos
        /\ pos' = pos + 1 /\ lastLine' = pos + 1 /\ pc' \in {"line", "test"}
        /\ "eof" \in bits' => pos' = Len(file.lines)
        /\ bits' \subseteq {"eof"} \/ (pc' = "test" /\ bits' = {"fail"})
    BY <1>11 DEF NextIsThere
  <2>2. NoEOFTo(lastLine' - 1)
    BY <2>1 DEF EndInv, PastEOF
  <2>3. (NoEOFTo(lastLine - 1))'
    BY <1>1, <2>2 DEF NoEOFTo, KindOf, Line
  <2>4. "fail" \in bits' => pc' = "test" /\ bits' = {"fail"}
    BY <2>1
  <2> QED
    BY <1>1, <2>1, <2>3, <2>4 DEF EndInv
<1> QED
  BY <1>4, <1>5, <1>6, <1>7, <1>8, <1>9, <1>10, <1>11, ReadCases

-----------------------------------------------------------------------------
(* The other steps                                                         *)

LoadInv ==
  /\ StreamInv /\ LoaderOK /\ FileKnown /\ EpochOK /\ RecIsNew
  /\ EndInv /\ WholeInv /\ KeptTaken

LEMMA IdleLoads ==
  ASSUME LoadInv, pc' = "idle", UNCHANGED <<file, rec>>
  PROVE  (FileKnown /\ EpochOK /\ RecIsNew /\ EndInv /\ WholeInv /\ KeptTaken)'
<1>1. RecIsNew'
  BY DEF LoadInv, RecIsNew, KindOf, Line
<1> QED
  BY <1>1 DEF FileKnown, EpochOK, EndInv, WholeInv, KeptTaken

LEMMA OpenedLoads ==
  ASSUME NEW s \in Sources, Opened(s), pc = "idle",
         setup' = setup, loaded' \in 1..Len(setup.files), s = setup.files[loaded'],
         eph' = NoMessage, clk' = NoMessage
  PROVE  (FileKnown /\ EpochOK /\ RecIsNew /\ EndInv /\ WholeInv /\ KeptTaken)'
<1>1. /\ file' = s /\ pos' = 1 /\ lastLine' = 1 /\ bits' \subseteq {"eof"} /\ currentEpoch' = 0
      /\ rec' = NoRec /\ pc' = "get" /\ got' = {} /\ ("eof" \in bits' => Len(s.lines) = 1)
  BY DEF Opened
<1>2. NoRec.new = 0 /\ NoRec.time = 0 /\ NoRec.type = "none" /\ NoRec.x = 0 /\ NoMessage.from = {}
  BY DEF NoRec, NoMessage
<1>3. \A n \in RecordLines' : n \in Nat \ {0}
  BY <1>1, SourceAssumption DEF RecordLines
<1>4. EpochOK'
  BY <1>1, <1>2, <1>3 DEF EpochOK, EpochLines
<1>5. NoEOFTo(lastLine - 1)'
  BY <1>1 DEF NoEOFTo
<1>6. EndInv'
  BY <1>1, <1>5 DEF EndInv
<1>7. WholeInv'
  BY <1>1, <1>2 DEF WholeInv, RecWhole, GoodMessages, GoodMessage
<1> QED
  BY <1>1, <1>2, <1>4, <1>6, <1>7 DEF FileKnown, RecIsNew, KeptTaken

LEMMA AddDataSourceLoads ==
  ASSUME LoadInv, AddDataSource
  PROVE  (FileKnown /\ EpochOK /\ RecIsNew /\ EndInv /\ WholeInv /\ KeptTaken)'
<1> DEFINE s == setup.files[loaded + 1]
<1>1. /\ s \in Sources /\ setup' = setup /\ loaded' = loaded + 1 /\ pc = "idle"
      /\ loaded' \in 1..Len(setup.files)
  BY SetupAssumption DEF AddDataSource, LoadInv, LoaderOK, SetupOK
<1>2. CASE Opened(s)
  <2>1. eph' = NoMessage /\ clk' = NoMessage
    BY <1>1, <1>2 DEF Opened, AddDataSource, AddSP3, AddRinexClock, AddNothing, Done
  <2> QED
    BY <1>1, <1>2, <2>1, OpenedLoads
<1>3. CASE UNCHANGED <<file, pos, bits, lastLine, currentEpoch, status, rec, got>> /\ pc' = "idle"
  BY <1>3, IdleLoads
<1> QED
  BY <1>2, <1>3 DEF AddDataSource, AddSP3, AddRinexClock, AddNothing, Done

LEMMA ReadLoads ==
  ASSUME LoadInv, Read
  PROVE  (FileKnown /\ EpochOK /\ RecIsNew /\ EndInv /\ WholeInv /\ KeptTaken)'
<1> USE DEF LoadInv
<1>1. pc # "idle" /\ UNCHANGED <<file, got, loader>>
  BY ReadCases DEF Read, ReadStep, Get, ProcessLine, NextLine
<1>2. FileKnown'
  BY <1>1 DEF FileKnown, loader
<1>3. KeptTaken'
  BY <1>1 DEF KeptTaken, Kept, InStore, KindOf, Line, Rejected, BadPos, BadClock, Has, loader
<1> QED
  BY <1>1, <1>2, <1>3, EpochReads, RecIsNewReads, EndReads, WholeReads

-----------------------------------------------------------------------------
(* A record is taken                                                       *)

LEMMA TakeRecordIs ==
  ASSUME TakeRecord
  PROVE  /\ UNCHANGED <<file, pos, bits, lastLine, currentEpoch, status, rec, setup, loaded>>
         /\ pc = "test" /\ pc' = "get" /\ "fail" \notin bits
         /\ got' = got \cup ({rec.new} \ {0}) /\ last' = <<rec.sat, rec.time>>
         /\ data \subseteq data'
         /\ Changed => Store(Has("Ephemeris"), "Ephemeris", eph) \subseteq data'
BY DEF TakeRecord, StoreEarlier

\* What is merged with a message of the same satellite and epoch.
LEMMA MergedGood ==
  ASSUME LoadInv, TakeRecord, RecWhole, rec.type # "epoch",
         NEW msg, GoodMessage(msg), NEW n \in Merged(Earlier(msg)).from \ {0}
  PROVE  /\ Merged(Earlier(msg)).time = rec.time /\ UnderEpoch(rec.time, n)
         /\ Line(n).sat = rec.sat /\ (KindOf(n) = "P" => Merged(Earlier(msg)).sat = rec.sat)
<1>1. rec.type \in {"none", "P", "V"}
  BY DEF LoadInv, StreamInv, StreamOK, Recs
<1>2. Merged(Earlier(msg)).time = rec.time /\ n \in Earlier(msg).from \cup {rec.x}
  BY DEF Merged
<1>3. CASE n \in Earlier(msg).from
  <2>1. ~Changed /\ n \in msg.from
    BY <1>3 DEF Earlier, NoMessage
  <2>2. last[1] = rec.sat /\ last[2] = rec.time
    BY <2>1 DEF Changed
  <2>3. UnderEpoch(rec.time, n) /\ Line(n).sat = rec.sat /\ (KindOf(n) = "P" => msg.sat = rec.sat)
    BY <2>1, <2>2 DEF GoodMessage
  <2> QED
    BY <1>2, <2>1, <2>3 DEF Merged, Earlier
<1>4. CASE n = rec.x
  BY <1>1, <1>2, <1>4 DEF RecWhole, Merged
<1> QED
  BY <1>2, <1>3, <1>4

LEMMA TakeRecordGood ==
  ASSUME LoadInv, TakeRecord, RecWhole, NEW msg, GoodMessage(msg), NEW msg2,
         msg2 = Earlier(msg) \/ (rec.type # "epoch" /\ msg2 = Merged(Earlier(msg))),
         NEW n \in msg2.from \ {0}
  PROVE  /\ msg2.time = rec.time /\ UnderEpoch(rec.time, n)
         /\ Line(n).sat = rec.sat /\ (KindOf(n) = "P" => msg2.sat = rec.sat)
<1>1. CASE msg2 = Earlier(msg)
  <2>1. ~Changed /\ msg2 = msg
    BY <1>1 DEF Earlier, NoMessage
  <2>2. last[1] = rec.sat /\ last[2] = rec.time
    BY <2>1 DEF Changed
  <2> QED
    BY <2>1, <2>2 DEF GoodMessage
<1>2. CASE rec.type # "epoch" /\ msg2 = Merged(Earlier(msg))
  BY <1>2, MergedGood
<1> QED
  BY <1>1, <1>2

LEMMA TakeRecordWhole == ASSUME LoadInv, TakeRecord PROVE WholeInv'
<1>1. /\ UNCHANGED <<file, pos, bits, lastLine, status, rec>> /\ pc = "test" /\ pc' = "get"
      /\ last' = <<rec.sat, rec.time>>
  BY TakeRecordIs
<1>2. /\ RecordLines' = RecordLines /\ \A n : KindOf(n)' = KindOf(n) /\ Line(n)' = Line(n)
      /\ \A t, n : UnderEpoch(t, n)' = UnderEpoch(t, n)
  BY <1>1, SameFile DEF KindOf, Line, UnderEpoch
<1>3. CASE Stuck
  BY <1>1, <1>2, <1>3 DEF Stuck, WholeInv
<1>4. CASE RecWhole /\ GoodMessages
  <2>1. RecWhole'
    BY <1>1, <1>2, <1>4 DEF RecWhole
  <2>2. /\ eph' = Earlier(eph) \/ (rec.type # "epoch" /\ eph' = Merged(Earlier(eph)))
        /\ clk' = Earlier(clk) \/ (rec.type # "epoch" /\ clk' = Merged(Earlier(clk)))
    BY DEF TakeRecord
  <2>3. last'[1] = rec.sat /\ last'[2] = rec.time
    BY <1>1
  <2>4. GoodMessage(eph)'
    BY <1>2, <1>4, <2>2, <2>3, TakeRecordGood DEF GoodMessages, GoodMessage
  <2>5. GoodMessage(clk)'
    BY <1>2, <1>4, <2>2, <2>3, TakeRecordGood DEF GoodMessages, GoodMessage
  <2> QED
    BY <2>1, <2>4, <2>5 DEF WholeInv, GoodMessages
<1> QED
  BY <1>1, <1>3, <1>4 DEF LoadInv, WholeInv

\* What is being put together is stored when the satellite or the epoch changes.
LEMMA InStoreAfter ==
  ASSUME NEW n \in eph.from, Has("Ephemeris"), ~Has("InvalidOnly"), UNCHANGED loaded,
         Store(Has("Ephemeris"), "Ephemeris", eph) \subseteq data'
  PROVE  InStore(n)'
<1> DEFINE m == [type |-> "Ephemeris", load |-> loaded, format |-> "SP3", msg |-> eph]
<1>1. eph # NoMessage
  BY DEF NoMessage
<1>2. m \in Store(Has("Ephemeris"), "Ephemeris", eph)
  BY <1>1 DEF Store, Stored
<1> QED
  BY <1>2 DEF InStore

LEMMA TakeRecordKept == ASSUME LoadInv, TakeRecord PROVE KeptTaken'
<1> USE TakeRecordIs
<1>1. \A n : Kept(n)' = Kept(n)
  BY DEF Kept, KindOf, Line, Rejected, BadPos, BadClock, Has
<1> SUFFICES ASSUME NEW n \in got', Kept(n) PROVE InStore(n)' \/ n \in eph'.from
  BY <1>1 DEF KeptTaken
<1>2. Has("Ephemeris") /\ ~Has("InvalidOnly") /\ ~Has("rejectPredPos") /\ ~Rejected(n)
      /\ KindOf(n) # "epoch"
  BY DEF Kept
<1>3. eph' = Earlier(eph) \/ eph' = Merged(Earlier(eph))
  BY DEF TakeRecord
<1>4. CASE n \in got
  <2>1. InStore(n) \/ n \in eph.from
    BY <1>4 DEF LoadInv, KeptTaken
  <2>2. InStore(n) => InStore(n)'
    BY DEF InStore
  <2>3. n \in eph.from /\ Changed => InStore(n)'
    BY <1>2, InStoreAfter
  <2>4. n \in eph.from /\ ~Changed => n \in eph'.from
    BY <1>3 DEF Earlier, Merged
  <2> QED
    BY <2>1, <2>2, <2>3, <2>4
<1>5. CASE n = rec.new /\ n # 0
  <2>1. rec.type # "epoch" /\ rec.x = n
    BY <1>2, <1>5 DEF LoadInv, RecIsNew
  <2>2. \A rejected \in Verdicts : ~rejected
    <3>1. Rejected(n) = FALSE
      BY <1>2 DEF Rejected
    <3>2. Verdicts = {Rejected(n)}
      BY <1>5, <2>1 DEF Verdicts
    <3> QED
      BY <3>1, <3>2
  <2>3. eph' = Merged(Earlier(eph))
    <3>1. TakesOrbit
      BY <1>2 DEF TakesOrbit
    <3>2. ~(rec.type = "epoch" \/ FALSE)
      BY <2>1
    <3>3. PICK rejected \in Verdicts :
            IF rec.type = "epoch" \/ rejected
              THEN eph' = Earlier(eph) /\ clk' = Earlier(clk)
              ELSE /\ eph' = IF TakesOrbit THEN Merged(Earlier(eph)) ELSE Earlier(eph)
                   /\ clk' = IF TakesClock THEN Merged(Earlier(clk)) ELSE Earlier(clk)
      BY Zenon DEF TakeRecord
    <3>4. ~rejected
      BY <2>2
    <3> QED
      BY <3>1, <3>2, <3>3, <3>4, Zenon
  <2> QED
    BY <2>1, <2>3 DEF Merged
<1> QED
  BY <1>4, <1>5

LEMMA TakeRecordLoads ==
  ASSUME LoadInv, TakeRecord
  PROVE  (FileKnown /\ EpochOK /\ RecIsNew /\ EndInv /\ WholeInv /\ KeptTaken)'
<1> USE TakeRecordIs
<1>1. FileKnown'
  BY DEF LoadInv, FileKnown
<1>2. /\ RecordLines' = RecordLines /\ EpochLines' = EpochLines /\ \A n : KindOf(n)' = KindOf(n)
      /\ \A n : NoEOFTo(n)' = NoEOFTo(n)
  BY SameFile DEF KindOf, Line, NoEOFTo
<1>3. EpochOK'
  BY <1>2 DEF LoadInv, EpochOK
<1>4. RecIsNew'
  BY <1>2 DEF LoadInv, RecIsNew
<1>5. PastEOF' = PastEOF
  BY <1>2 DEF PastEOF
<1>6. EndInv'
  BY <1>2, <1>5 DEF LoadInv, EndInv
<1> QED
  BY <1>1, <1>3, <1>4, <1>6, TakeRecordWhole, TakeRecordKept

LEMMA LoadInit == Init => LoadInv
<1> SUFFICES ASSUME Init PROVE LoadInv
  OBVIOUS
<1>1. pc = "idle" /\ rec.new = 0
  BY DEF Init, NoRec
<1> QED
  BY <1>1, StreamInit, LoaderInit
  DEF LoadInv, FileKnown, EpochOK, RecIsNew, EndInv, WholeInv, KeptTaken

LEMMA LoadStep == LoadInv /\ [Next]_vars => LoadInv'
<1> SUFFICES ASSUME LoadInv, [Next]_vars
             PROVE  (FileKnown /\ EpochOK /\ RecIsNew /\ EndInv /\ WholeInv /\ KeptTaken)'
  BY StreamStep, LoaderStep DEF LoadInv, LoaderOK
<1>1. CASE AddDataSource
  BY <1>1, AddDataSourceLoads
<1>2. CASE Read
  BY <1>2, ReadLoads
<1>3. CASE TakeRecord
  BY <1>3, TakeRecordLoads
<1>4. CASE Finish \/ GiveUp \/ \E useRC \in BOOLEAN : UseRinexClockData(useRC)
  BY <1>4, IdleLoads DEF Finish, GiveUp, Done, UseRinexClockData, stream
<1>5. CASE UNCHANGED vars
  BY <1>5 DEF vars, stream, loader, LoadInv, FileKnown, EpochOK, RecIsNew, EndInv, WholeInv,
     KeptTaken, EpochLines, RecordLines, KindOf, Line, NoEOFTo, PastEOF, AllRead, HasEOF, RecWhole,
     Stuck, GoodMessages, GoodMessage, UnderEpoch, Kept, InStore, Rejected, BadPos, BadClock, Has
<1> QED
  BY <1>1, <1>2, <1>3, <1>4, <1>5 DEF Next, Terminated

-----------------------------------------------------------------------------
(* The two theorems                                                        *)

\* A good message of the file that is read is whole.
LEMMA GoodIsWhole ==
  ASSUME LoadInv, pc # "idle", NEW msg, GoodMessage(msg), MessageOK(msg),
         NEW m, m.load = loaded
  PROVE  Whole(FileOf(m).lines, msg.from \ {0}, msg)
<1>1. FileOf(m).lines = file.lines /\ \A n : file.lines[n] = Line(n)
  BY DEF LoadInv, FileKnown, FileOf, Line
<1>2. \A n \in msg.from \ {0} : n \in RecordLines /\ msg.time \in Nat
  BY LinesType DEF MessageOK, LoadInv, StreamInv
<1>3. \A n, k \in msg.from \ {0} : Line(n).sat = Line(k).sat
  BY DEF GoodMessage
<1>4. ASSUME NEW n \in msg.from \ {0}
      PROVE  /\ msg.time < n
             /\ \A e \in msg.time + 1..n - 1 : Line(e).kind # "epoch"
             /\ Line(n).kind = "P" => msg.sat = Line(n).sat
  <2>1. msg.time = last[2] /\ UnderEpoch(msg.time, n) /\ Line(n).sat = last[1]
        /\ (KindOf(n) = "P" => msg.sat = last[1])
    BY DEF GoodMessage
  <2>2. n \in RecordLines /\ n \in 1..Len(file.lines) /\ Len(file.lines) \in Nat /\ msg.time \in Nat
    BY <1>2, LinesType DEF RecordLines, LoadInv, StreamInv
  <2>3. ASSUME NEW e \in msg.time + 1..n - 1, Line(e).kind = "epoch" PROVE FALSE
    <3>1. e \in EpochLines
      BY <2>2, <2>3 DEF EpochLines, RecordLines, KindOf
    <3> QED
      BY <2>1, <2>2, <3>1 DEF UnderEpoch
  <2> QED
    BY <2>1, <2>2, <2>3 DEF KindOf, UnderEpoch
<1> QED
  BY <1>1, <1>3, <1>4 DEF Whole

LEMMA WholeStep == LoadInv /\ MessagesWhole /\ [Next]_vars => MessagesWhole'
<1> SUFFICES ASSUME LoadInv, MessagesWhole, [Next]_vars PROVE MessagesWhole'
  OBVIOUS
<1> SUFFICES ASSUME NEW m \in data', m \notin data, m.format = "SP3"
             PROVE  Whole(FileOf(m).lines, m.msg.from \ {0}, m.msg)
  <2>1. UNCHANGED setup
    BY DEF Next, AddDataSource, UseRinexClockData, Read, TakeRecord, Finish, GiveUp, Terminated,
           vars, loader
  <2>2. \A m : FileOf(m)' = FileOf(m)
    BY <2>1 DEF FileOf
  <2> QED
    BY <2>2 DEF MessagesWhole
<1>1. ASSUME pc # "idle", GoodMessages,
             NEW p, m \in Store(p, "Ephemeris", eph) \/ m \in Store(p, "Clock", clk)
      PROVE  Whole(FileOf(m).lines, m.msg.from \ {0}, m.msg)
  <2>1. m.load = loaded /\ m.msg \in {eph, clk}
    BY <1>1, StoreIs
  <2> QED
    BY <1>1, <2>1, GoodIsWhole DEF GoodMessages, LoadInv, LoaderOK
<1>2. CASE TakeRecord
  <2>1. Changed /\ pc = "test"
    BY <1>2 DEF TakeRecord, StoreEarlier
  <2>2. GoodMessages
    BY <2>1 DEF LoadInv, WholeInv, Changed
  <2>3. \E p : m \in Store(p, "Ephemeris", eph) \/ m \in Store(p, "Clock", clk)
    BY <1>2, <2>1 DEF TakeRecord, StoreEarlier
  <2> QED
    BY <1>1, <2>1, <2>2, <2>3
<1>3. CASE Finish
  <2>1. pc = "test" /\ "fail" \in bits
    BY <1>3 DEF Finish
  <2>2. GoodMessages
    BY <2>1 DEF LoadInv, WholeInv, Stuck
  <2>3. \E p : m \in Store(p, "Ephemeris", eph) \/ m \in Store(p, "Clock", clk)
    BY <1>3 DEF Finish
  <2> QED
    BY <1>1, <2>1, <2>2, <2>3
<1>4. CASE AddDataSource
  <2>1. PICK s : AddRinexClock(s) /\ ~(~Has("Clock") \/ Mismatch(s))
    BY <1>4 DEF AddDataSource, AddSP3, AddRinexClock, AddNothing
  <2> DEFINE R(i) == Stored("Clock", loaded + 1,
                 [from |-> {i}, sat |-> s.lines[i].sat, time |-> i], "RINEX")
  <2>2. PICK n \in 0..Len(s.lines) :
           data' = UseRinex \cup (IF Has("InvalidOnly") THEN {} ELSE UNION {R(i) : i \in 1..n})
    BY <2>1 DEF AddRinexClock
  <2>3. \A i : \A k \in R(i) : k.format = "RINEX"
    BY StoredIs
  <2>4. UseRinex \subseteq data
    BY DEF UseRinex
  <2> HIDE DEF R
  <2> QED
    BY <2>2, <2>3, <2>4
<1>5. CASE Read \/ GiveUp \/ (\E useRC \in BOOLEAN : UseRinexClockData(useRC)) \/ UNCHANGED vars
  BY <1>5 DEF Read, GiveUp, UseRinexClockData, vars, loader
<1> QED
  BY <1>2, <1>3, <1>4, <1>5 DEF Next, Terminated

\* No message mixes the records of two satellites or of two epochs, whatever
\* is between the lines of the file and however its reading ends.
THEOREM MessagesStayWhole == Spec => []MessagesWhole
<1>1. Init => LoadInv /\ MessagesWhole
  BY LoadInit DEF Init, MessagesWhole
<1>2. LoadInv /\ MessagesWhole /\ [Next]_vars => (LoadInv /\ MessagesWhole)'
  BY LoadStep, WholeStep
<1> QED
  BY <1>1, <1>2, PTL DEF Spec

LEMMA CompleteStep == LoadInv /\ LoadComplete /\ [Next]_vars => LoadComplete'
<1> SUFFICES ASSUME LoadInv, LoadComplete, [Next]_vars, LoadSucceeded' PROVE LoadComplete'
  BY DEF LoadComplete
<1>1. CASE Finish
  <2>1. /\ pc = "test" /\ bits = {"eof", "fail"} /\ UNCHANGED <<file, rec, got, setup, loaded>>
        /\ Store(Has("Ephemeris"), "Ephemeris", eph) \subseteq data' /\ data \subseteq data'
    BY <1>1 DEF Finish
  <2>2. RecordLines' = RecordLines /\ \A n : Kept(n)' = Kept(n)
    BY <2>1, SameFile DEF Kept, KindOf, Line, Rejected, BadPos, BadClock, Has
  <2>3. AllRead
    BY <2>1 DEF LoadInv, EndInv
  <2>4. ASSUME NEW n \in got, Kept(n) PROVE InStore(n)'
    <3>1. InStore(n) => InStore(n)'
      BY <2>1 DEF InStore
    <3>2. n \in eph.from => InStore(n)'
      BY <2>1, <2>4, InStoreAfter DEF Kept
    <3> QED
      BY <2>1, <2>4, <3>1, <3>2 DEF LoadInv, KeptTaken
  <2>5. ASSUME NEW n \in RecordLines, n \notin got
        PROVE  ~HasEOF(file) /\ \A k \in RecordLines : k <= n
    <3>1. n = rec.new /\ rec.new # 0 /\ ~HasEOF(file)
      BY <2>3, <2>5, LinesType DEF AllRead, LoadInv, StreamInv
    <3>2. \A k \in RecordLines : k \in got \/ k = n
      BY <2>3, <3>1 DEF AllRead
    <3> QED
      BY <2>5, <3>1, <3>2, LinesType DEF LoadInv, StreamInv, RecordsInOrder
  <2> QED
    BY <2>1, <2>2, <2>4, <2>5 DEF LoadComplete, InStore, HasEOF
<1>2. ASSUME pc = "idle", UNCHANGED <<file, got, setup, loaded, result>>,
             \A m \in data : m.type = "Ephemeris" => m \in data'
      PROVE  LoadComplete'
  <2>1. RecordLines' = RecordLines /\ \A n : Kept(n)' = Kept(n)
    BY <1>2, SameFile DEF Kept, KindOf, Line, Rejected, BadPos, BadClock, Has
  <2>2. LoadSucceeded
    BY <1>2 DEF LoadSucceeded
  <2>3. \A n : HasEOF(file') = HasEOF(file)
    BY <1>2
  <2> QED
    BY <1>2, <2>1, <2>2, <2>3 DEF LoadComplete
<1>3. CASE AddDataSource
  <2> DEFINE s == setup.files[loaded + 1]
  <2>1. setup' = setup /\ loaded' = loaded + 1 /\ s.format = "SP3" /\ result' /\ pc' = "idle"
    BY <1>3 DEF AddDataSource, LoadSucceeded
  <2> QED
    BY <1>3, <2>1 DEF AddDataSource, AddSP3, AddRinexClock, AddNothing, Opened, Done
<1>4. CASE \E useRC \in BOOLEAN : UseRinexClockData(useRC)
  BY <1>2, <1>4 DEF UseRinexClockData, stream
<1>5. CASE Read \/ TakeRecord \/ GiveUp
  <2>1. pc' = "idle" /\ result'
    BY DEF LoadSucceeded
  <2>2. CASE Read
    BY <2>1, <2>2 DEF Read, ReadStep, Get, ProcessLine, NextLine, SkipLine, TextEOF, EpochLine,
       DataLine, CorrelationLine, OtherLine, Fail, Return, Swallow
  <2> QED
    BY <1>5, <2>1, <2>2 DEF TakeRecord, GiveUp, Done
<1>6. CASE UNCHANGED vars
  <2>1. pc = "idle"
    BY <1>6 DEF LoadSucceeded, vars, stream
  <2> QED
    BY <1>2, <1>6, <2>1 DEF vars, stream, loader
<1> QED
  BY <1>1, <1>3, <1>4, <1>5, <1>6 DEF Next, Terminated

\* A load that reports success has put every record of the file that the
\* options let through into the store, or all but the last if the file does not
\* end with the text EOF.
THEOREM LoadsComplete == Spec => []LoadComplete
<1>1. Init => LoadInv /\ LoadComplete
  BY LoadInit DEF Init, LoadComplete, LoadSucceeded
<1>2. LoadInv /\ LoadComplete /\ [Next]_vars => (LoadInv /\ LoadComplete)'
  BY LoadStep, CompleteStep
<1> QED
  BY <1>1, <1>2, PTL DEF Spec

-----------------------------------------------------------------------------
(* Loads come to an end: what is left of a file that is not Hopeless       *)
(* decreases with every step of its load, and a load that is not over has  *)
(* a step to do.  Under the fairness of Spec that is LoadEnds.             *)

\* The record that a correlation record belongs to is right before it.
Correlated(n) ==
  /\ n > 1
  /\ \/ KindOf(n) = "EP" /\ KindOf(n - 1) = "P"
     \/ KindOf(n) = "EV" /\ KindOf(n - 1) = "V"

\* Once the stream has failed a call only looks at the last line again when it
\* has taken that, and a call that has taken none begins with a line that no
\* call has looked at.
HopefulInv ==
  pc # "idle" /\ ~Hopeless(file) =>
    /\ pc \in {"get", "next"} => "fail" \notin bits
    /\ bits = {"eof"} => ~file.whole
    /\ pc = "line" /\ "fail" \in bits =>
         KindOf(lastLine) \in {"epoch", "P", "V"} /\ status > 0
    /\ pc = "next" /\ bits # {} =>
         \/ KindOf(lastLine) \in {"epoch", "P", "V"} /\ status > 0
         \/ KindOf(lastLine) = "blank" \/ status = 3
    /\ pc = "next" /\ KindOf(lastLine) \in {"P", "V"} =>
         status = 2 /\ rec.type = KindOf(lastLine)
    /\ pc = "line" /\ Correlated(lastLine) =>
         status = 2 /\ rec.type = KindOf(lastLine - 1)
    /\ pc \in {"get", "test"} /\ "fail" \notin bits => ~Correlated(lastLine)

\* The lines left count more than anything done between two of them, and the
\* first failure as much: with it the last line is looked at once more.
Turn ==
  CASE pc = "next" -> 1
    [] pc = "line" /\ status = 0 -> 2
    [] pc = "get" -> 3
    [] pc = "test" -> 4
    [] pc = "line" /\ status # 0 -> 5
    [] pc = "idle" -> 0

LinesLeft ==
  IF pc = "idle" THEN 0
  ELSE 5 * (Len(file.lines) - pos) + (IF "fail" \in bits THEN 0 ELSE 5) + Turn

LEMMA NotHopeless ==
  ASSUME StreamInv, ~Hopeless(file), lastLine # 0
  PROVE  /\ Line(lastLine).fault # "alien"
         /\ KindOf(lastLine) \in {"EP", "EV"} => Correlated(lastLine)
         /\ ~file.whole /\ lastLine = Len(file.lines) => KindOf(lastLine) # "stub"
<1>1. Len(file.lines) \in Nat /\ lastLine \in 1..Len(file.lines)
  BY LinesType DEF StreamInv, StreamOK
<1>2. \A n \in 1..Len(file.lines) : KindOf(n) = file.lines[n].kind /\ Line(n) = file.lines[n]
  BY DEF KindOf, Line
<1>3. Line(lastLine).fault # "alien"
  BY <1>1, <1>2 DEF Hopeless
<1>4. ASSUME KindOf(lastLine) \in {"EP", "EV"} PROVE Correlated(lastLine)
  <2>1. /\ lastLine > 1
        /\ <<file.lines[lastLine - 1].kind, file.lines[lastLine].kind>>
             \in {<<"P", "EP">>, <<"V", "EV">>}
    BY <1>1, <1>2, <1>4 DEF Hopeless
  <2>2. lastLine - 1 \in 1..Len(file.lines)
    BY <1>1, <2>1
  <2> QED BY <1>1, <1>2, <2>1, <2>2 DEF Correlated
<1>5. ~file.whole /\ lastLine = Len(file.lines) => KindOf(lastLine) # "stub"
  BY <1>1, <1>2 DEF Hopeless
<1> QED BY <1>3, <1>4, <1>5

-----------------------------------------------------------------------------
(* What a line of such a file does                                         *)

SkipsEmpty ==
  /\ pc = "line" /\ pc' = "next" /\ KindOf(lastLine) \in {"blank", "stub"}
  /\ UNCHANGED <<pos, bits, lastLine, status, rec>>

Correlates ==
  /\ pc = "line" /\ pc' = "next" /\ KindOf(lastLine) \in {"EP", "EV"} /\ status' = 3
  /\ UNCHANGED <<pos, bits, lastLine, rec>>

EndsCall ==
  /\ pc = "line" /\ pc' = "test"
  /\ \/ bits' = {"fail"}
     \/ bits' = bits /\ status > 0 /\ ~Correlated(lastLine)
  /\ UNCHANGED <<pos, lastLine, status>>

LEMMA HopefulLine ==
  ASSUME StreamInv, HopefulInv, ~Hopeless(file), ProcessLine
  PROVE  \/ SkipsEmpty \/ Correlates \/ EndsCall \/ TakesEpoch \/ TakesData
         \/ StopsAtEOF /\ (pos' = pos \/ ~file.whole)
<1>1. pc = "line" /\ status \in 0..3
  BY DEF ProcessLine, StreamInv, StreamOK
<1>2. CASE SkipLine
  BY <1>1, <1>2 DEF SkipLine, SkipsEmpty
<1>3. CASE OtherLine
  BY <1>1, <1>3 DEF OtherLine, Fail, EndsCall
<1>4. CASE TextEOF
  <2>1. ~Correlated(lastLine)
    BY <1>4 DEF TextEOF, Correlated
  <2>2. CASE Fail \/ (status > 1 /\ Return)
    BY <1>1, <2>1, <2>2 DEF Fail, Return, EndsCall
  <2>3. CASE EndsHere /\ GetLine /\ pc' = "test" /\ status = 0 /\ UNCHANGED <<currentEpoch, status, rec>>
    BY <1>1, <1>4, <2>3, LinesType
    DEF TextEOF, EndsHere, GetLine, StopsAtEOF, StreamInv, StreamOK
  <2> QED BY <1>4, <2>2, <2>3 DEF TextEOF
<1>5. CASE EpochLine
  <2>1. ~Correlated(lastLine)
    BY <1>5 DEF EpochLine, Correlated
  <2>2. CASE Fail \/ (status > 1 /\ Return)
    BY <1>1, <2>1, <2>2 DEF Fail, Return, EndsCall
  <2>3. CASE ~(Fail \/ (status > 1 /\ Return))
    <3>1. rec' = [rec EXCEPT !.type = "epoch", !.sat = 0, !.time = lastLine, !.new = lastLine]
      BY <1>5, <2>3 DEF EpochLine
    <3>2. rec'.type = "epoch" /\ rec'.time = lastLine /\ rec'.new = lastLine
      BY <3>1 DEF StreamInv, StreamOK, Recs
    <3>3. lastLine \in EpochLines
      BY <1>5, LinesType DEF EpochLine, EpochLines, RecordLines, KindOf, StreamInv, StreamOK
    <3> QED
      BY <1>1, <1>5, <2>3, <3>2, <3>3 DEF EpochLine, TakesEpoch
  <2> QED BY <2>2, <2>3
<1>6. CASE DataLine
  <2>1. ~Correlated(lastLine)
    BY <1>6 DEF DataLine, Correlated
  <2>2. lastLine \in RecordLines /\ Line(lastLine).fault # "alien"
    BY <1>6, LinesType, NotHopeless
    DEF DataLine, RecordLines, KindOf, StreamInv, StreamOK
  <2>3. CASE Fail \/ (status > 0 /\ Return)
    BY <1>1, <2>1, <2>3 DEF Fail, Return, EndsCall
  <2>4. CASE ~(Fail \/ (status > 0 /\ Return))
    <3> DEFINE flags == IF KindOf(lastLine) = "P" THEN lastLine ELSE rec.flags
               type == KindOf(lastLine)
               sat == Line(lastLine).sat
    <3>1. rec' = [rec EXCEPT !.type = type, !.sat = sat, !.x = lastLine, !.new = lastLine,
                             !.flags = flags]
      BY <1>6, <2>2, <2>4 DEF DataLine
    <3>2. /\ rec'.type = type /\ rec'.sat = sat /\ rec'.x = lastLine /\ rec'.new = lastLine
          /\ rec'.time = rec.time
      <4> HIDE DEF flags, type, sat
      <4> QED
        BY <3>1 DEF StreamInv, StreamOK, Recs
    <3> QED
      BY <1>1, <1>6, <2>2, <2>4, <3>2 DEF DataLine, TakesData, AtAlien
  <2> QED BY <2>3, <2>4
<1>7. CASE CorrelationLine
  <2>1. Correlated(lastLine)
    BY <1>7, NotHopeless DEF CorrelationLine, KindOf
  <2>2. status = 2 /\ rec.type = KindOf(lastLine - 1)
    BY <1>1, <2>1 DEF HopefulInv
  <2>3. KindOf(lastLine) = (IF rec.type = "P" THEN "EP" ELSE "EV")
    BY <2>1, <2>2 DEF Correlated
  <2>4. CASE Fail
    BY <1>1, <2>4 DEF Fail, EndsCall
  <2>5. CASE ~Fail
    BY <1>1, <1>7, <2>2, <2>3, <2>5 DEF CorrelationLine, Correlates
  <2> QED BY <2>4, <2>5
<1> QED
  BY <1>2, <1>3, <1>4, <1>5, <1>6, <1>7 DEF ProcessLine

-----------------------------------------------------------------------------
(* The steps of a load                                                     *)

LEMMA TurnType ==
  ASSUME StreamInv
  PROVE  /\ Turn \in 0..5 /\ Len(file.lines) - pos \in Nat /\ LinesLeft \in Nat
         /\ LinesLeft = 0 <=> pc = "idle"
         /\ LinesLeft <= 5 * Len(file.lines) + 10
<1>1. Len(file.lines) \in Nat /\ pos \in 0..Len(file.lines) /\ status \in 0..3
      /\ pc \in {"idle", "get", "line", "next", "test"}
  BY LinesType DEF StreamInv, StreamOK
<1>2. Turn \in 0..5 /\ (pc # "idle" => Turn # 0)
  BY <1>1 DEF Turn
<1>3. PICK n \in Nat : n = Len(file.lines)
  BY <1>1
<1>4. PICK p \in 0..n : p = pos
  BY <1>1, <1>3
<1>5. PICK t \in 0..5 : t = Turn
  BY <1>2
<1>6. PICK b \in {0, 5} : b = IF "fail" \in bits THEN 0 ELSE 5
  OBVIOUS
<1>7. n - p \in Nat /\ 5 * (n - p) \in Nat /\ 5 * (n - p) <= 5 * n
  OBVIOUS
<1>8. 5 * (n - p) + b + t \in Nat /\ 5 * (n - p) + b + t <= 5 * n + 10
      /\ t # 0 => 5 * (n - p) + b + t # 0
  BY <1>7
<1>9. LinesLeft = IF pc = "idle" THEN 0 ELSE 5 * (n - p) + b + t
  BY <1>3, <1>4, <1>5, <1>6 DEF LinesLeft
<1>10. 0 <= 5 * n + 10
  OBVIOUS
<1> QED BY <1>2, <1>3, <1>4, <1>5, <1>7, <1>8, <1>9, <1>10

\* What makes less left of it, in terms of the variables.
LEMMA LessLeft ==
  ASSUME StreamInv, pc # "idle", pc' # "idle", file' = file, pos' \in {pos, pos + 1},
         pos' \in 0..Len(file.lines), Turn' \in 0..5,
         \/ pos' = pos + 1 /\ ("fail" \in bits => "fail" \in bits') /\ Turn' < Turn + 5
         \/ pos' = pos /\ "fail" \notin bits /\ "fail" \in bits' /\ Turn' < Turn + 5
         \/ pos' = pos /\ ("fail" \in bits => "fail" \in bits') /\ Turn' < Turn
  PROVE  LinesLeft' < LinesLeft
<1>1. Turn \in 0..5 /\ Len(file.lines) \in Nat /\ pos \in 0..Len(file.lines)
  BY TurnType, LinesType DEF StreamInv, StreamOK
<1> DEFINE left(b) == IF "fail" \in b THEN 0 ELSE 5
<1>2. LinesLeft = 5 * (Len(file.lines) - pos) + left(bits) + Turn
  BY DEF LinesLeft
<1>3. LinesLeft' = 5 * (Len(file.lines) - pos') + left(bits') + Turn'
  BY DEF LinesLeft
<1>4. left(bits) \in {0, 5} /\ left(bits') \in {0, 5}
  OBVIOUS
<1>5. \/ pos' = pos + 1 /\ left(bits') <= left(bits) /\ Turn' < Turn + 5
      \/ pos' = pos /\ left(bits') = left(bits) - 5 /\ Turn' < Turn + 5
      \/ pos' = pos /\ left(bits') <= left(bits) /\ Turn' < Turn
  OBVIOUS
<1> HIDE DEF left
<1>6. PICK n \in Nat : n = Len(file.lines)
  BY <1>1
<1>7. PICK p \in 0..n, q \in 0..n, t \in 0..5, u \in 0..5 :
        p = pos /\ q = pos' /\ t = Turn /\ u = Turn'
  BY <1>1, <1>6
<1>8. PICK b \in {0, 5}, c \in {0, 5} : b = left(bits) /\ c = left(bits')
  BY <1>4
<1>9. \/ q = p + 1 /\ c <= b /\ u < t + 5
      \/ q = p /\ c = b - 5 /\ u < t + 5
      \/ q = p /\ c <= b /\ u < t
  BY <1>5, <1>7, <1>8
<1>10. 5 * (n - q) + c + u < 5 * (n - p) + b + t
  BY <1>9
<1> QED BY <1>2, <1>3, <1>6, <1>7, <1>8, <1>10

LEMMA HopefulReads ==
  ASSUME StreamInv, EndInv, HopefulInv, ~Hopeless(file), Read
  PROVE  HopefulInv' /\ LinesLeft' < LinesLeft
<1>1. UNCHANGED file /\ pc # "idle"
  BY ReadCases DEF Read, ReadStep, Get, ProcessLine, NextLine
<1>2. /\ Len(file.lines) \in Nat /\ pos \in 0..Len(file.lines) /\ lastLine \in {0, pos}
      /\ status \in 0..3 /\ bits \subseteq {"eof", "fail"}
      /\ "fail" \notin bits => lastLine = pos
      /\ "eof" \in bits => pos = Len(file.lines)
      /\ KindOf(0) = "blank"
  BY <1>1, LinesType DEF StreamInv, StreamOK, AheadByOne, EndInv, KindOf
<1>3. /\ \A n : KindOf(n)' = KindOf(n) /\ Correlated(n)' = Correlated(n)
      /\ ~Hopeless(file)'
  BY <1>1 DEF KindOf, Line, Correlated, Hopeless
<1> USE DEF HopefulInv
<1>4. CASE Get
  <2>1. /\ pc = "get" /\ pc' = "line" /\ bits' = {} /\ status' = 0
        /\ UNCHANGED <<pos, lastLine>> /\ "fail" \notin bits
    BY <1>4 DEF Get
  <2>2. HopefulInv'
    BY <1>1, <1>3, <2>1
  <2>3. Turn = 3 /\ Turn' = 2
    BY <2>1 DEF Turn
  <2> QED BY <1>1, <1>2, <2>1, <2>2, <2>3, LessLeft
<1>5. CASE SkipsEmpty
  <2>1. /\ pc = "line" /\ pc' = "next" /\ KindOf(lastLine) \in {"blank", "stub"}
        /\ UNCHANGED <<pos, bits, lastLine, status, rec>>
    BY <1>5 DEF SkipsEmpty
  <2>2. "fail" \notin bits
    BY <1>1, <2>1
  <2>3. bits # {} => bits = {"eof"} /\ lastLine = Len(file.lines) /\ ~file.whole
    BY <1>1, <1>2, <2>2
  <2>4. bits # {} => KindOf(lastLine) = "blank"
    BY <1>2, <2>1, <2>3, NotHopeless
  <2>5. HopefulInv'
    BY <1>1, <1>3, <2>1, <2>2, <2>4
  <2>6. Turn \in {2, 5} /\ Turn' = 1
    BY <2>1 DEF Turn
  <2> QED BY <1>1, <1>2, <2>1, <2>5, <2>6, LessLeft
<1>6. CASE Correlates
  <2>1. /\ pc = "line" /\ pc' = "next" /\ KindOf(lastLine) \in {"EP", "EV"} /\ status' = 3
        /\ UNCHANGED <<pos, bits, lastLine, rec>>
    BY <1>6 DEF Correlates
  <2>2. "fail" \notin bits
    BY <1>1, <2>1
  <2>3. HopefulInv'
    BY <1>1, <1>3, <2>1, <2>2
  <2>4. Turn \in {2, 5} /\ Turn' = 1
    BY <2>1 DEF Turn
  <2> QED BY <1>1, <1>2, <2>1, <2>3, <2>4, LessLeft
<1>7. CASE TakesEpoch \/ TakesData
  <2>1. /\ pc = "line" /\ pc' = "next" /\ status = 0 /\ status' \in {1, 2}
        /\ UNCHANGED <<pos, bits, lastLine>>
        /\ KindOf(lastLine) \in {"epoch", "P", "V"}
        /\ KindOf(lastLine) \in {"P", "V"} => status' = 2 /\ rec'.type = KindOf(lastLine)
    BY <1>7 DEF TakesEpoch, TakesData, EpochLines, RecordLines
  <2>2. "fail" \notin bits
    BY <1>1, <2>1
  <2>3. HopefulInv'
    BY <1>1, <1>3, <2>1, <2>2
  <2>4. Turn = 2 /\ Turn' = 1
    BY <2>1 DEF Turn
  <2> QED BY <1>1, <1>2, <2>1, <2>3, <2>4, LessLeft
<1>8. CASE EndsCall
  <2>1. /\ pc = "line" /\ pc' = "test" /\ UNCHANGED <<pos, lastLine, status>>
        /\ bits' = {"fail"} \/ (bits' = bits /\ status > 0 /\ ~Correlated(lastLine))
    BY <1>8 DEF EndsCall
  <2>2. HopefulInv'
    BY <1>1, <1>3, <2>1
  <2>3. Turn' = 4 /\ Turn = (IF status = 0 THEN 2 ELSE 5)
    BY <2>1 DEF Turn
  <2>4. status = 0 => "fail" \notin bits
    BY <1>1, <2>1
  <2> QED BY <1>1, <1>2, <2>1, <2>2, <2>3, <2>4, LessLeft
<1>9. CASE StopsAtEOF /\ (pos' = pos \/ ~file.whole)
  <2>1. /\ pc = "line" /\ pc' = "test" /\ status = 0 /\ bits = {}
        /\ \/ pos' = pos /\ lastLine' = 0 /\ bits' = {"eof", "fail"}
           \/ /\ pos + 1 = Len(file.lines) /\ KindOf(pos + 1) = "blank" /\ bits' = {"eof"}
              /\ pos' = pos + 1 /\ lastLine' = pos + 1 /\ ~file.whole
    BY <1>2, <1>9 DEF StopsAtEOF
  <2>2. KindOf(lastLine') = "blank"
    BY <1>2, <2>1
  <2>3. HopefulInv'
    BY <1>1, <1>3, <2>1, <2>2 DEF Correlated
  <2>4. Turn = 2 /\ Turn' = 4
    BY <2>1 DEF Turn
  <2> QED BY <1>1, <1>2, <2>1, <2>3, <2>4, LessLeft
<1>10. CASE NextLine
  <2>1. pc = "next" /\ "fail" \notin bits /\ lastLine = pos /\ UNCHANGED <<status, rec>>
        /\ pc' \in {"line", "test"}
    BY <1>1, <1>2, <1>10 DEF NextLine
  <2>2. Turn = 1 /\ Turn' \in {2, 4, 5}
    BY <1>2, <2>1 DEF Turn
  <2>3. CASE bits = {} /\ pos < Len(file.lines)
    <3>1. pos' = pos + 1 /\ lastLine' = pos + 1
      BY <1>10, <1>2, <2>3 DEF NextLine, GetLine
    <3>2. \/ bits' = {} \/ (bits' = {"eof"} /\ ~file.whole)
          \/ bits' = {"fail"} /\ pc' = "test"
      BY <1>10, <1>2, <2>3 DEF NextLine, GetLine
    <3>3. pc' = "test" /\ "fail" \notin bits' => status = 3 \/ KindOf(lastLine') = "blank"
      BY <1>10, <1>2, <2>3, <1>3, <3>1 DEF NextLine, GetLine, AtEnd
    <3>4. Correlated(lastLine') => status = 2 /\ rec.type = KindOf(lastLine' - 1)
      <4>1. lastLine' - 1 = lastLine
        BY <1>2, <2>1, <3>1
      <4>2. Correlated(lastLine') => KindOf(lastLine) \in {"P", "V"}
        BY <4>1 DEF Correlated
      <4> QED BY <1>1, <2>1, <4>1, <4>2
    <3>5. Correlated(lastLine') => KindOf(lastLine') # "blank"
      BY DEF Correlated
    <3>6. HopefulInv'
      BY <1>1, <1>3, <2>1, <3>2, <3>3, <3>4, <3>5
    <3>7. pos' \in {pos, pos + 1} /\ pos' \in 0..Len(file.lines) /\ Turn' \in 0..5
          /\ pos' = pos + 1 /\ "fail" \notin bits /\ Turn' < Turn + 5
      BY <1>2, <2>1, <2>2, <2>3, <3>1
    <3> QED BY <1>1, <2>1, <3>6, <3>7, LessLeft
  <2>4. CASE ~(bits = {} /\ pos < Len(file.lines))
    <3>1. /\ pos' = pos /\ bits' = {"eof", "fail"}
          /\ (lastLine' = lastLine /\ bits = {"eof"}) \/ (lastLine' = 0 /\ pc' = "test")
      BY <1>10, <1>2, <2>1, <2>4, <1>3 DEF NextLine, GetLine, AtEnd
    <3>2. pc' = "line" => lastLine' = lastLine /\ status # 3 /\ KindOf(lastLine) # "blank"
      BY <1>10, <1>2, <1>3, <2>1, <2>4, <3>1 DEF NextLine, AtEnd
    <3>3. pc' = "line" => KindOf(lastLine') \in {"epoch", "P", "V"} /\ status > 0
      BY <1>1, <2>1, <3>1, <3>2
    <3>4. HopefulInv'
      BY <1>1, <1>3, <2>1, <3>1, <3>3 DEF Correlated
    <3> QED BY <1>1, <1>2, <2>1, <2>2, <3>1, <3>4, LessLeft
  <2> QED BY <2>3, <2>4
<1> QED
  BY <1>4, <1>5, <1>6, <1>7, <1>8, <1>9, <1>10, HopefulLine DEF Read, ReadStep

LEMMA HopefulInit == Init => HopefulInv
BY DEF Init, HopefulInv

LEMMA HopefulStep == LoadInv /\ HopefulInv /\ [Next]_vars => HopefulInv'
<1> SUFFICES ASSUME LoadInv, HopefulInv, [Next]_vars PROVE HopefulInv'
  OBVIOUS
<1>1. CASE AddDataSource
  <2>1. CASE pc' = "idle"
    BY <2>1 DEF HopefulInv
  <2>2. CASE Opened(setup.files[loaded + 1])
    <3>1. /\ pc' = "get" /\ lastLine' = 1
          /\ bits' = {} \/ (bits' = {"eof"} /\ ~file'.whole)
      BY <2>2 DEF Opened
    <3>2. Correlated(lastLine)' = FALSE
      BY <3>1 DEF Correlated
    <3> QED BY <3>1, <3>2 DEF HopefulInv
  <2> QED
    BY <1>1, <2>1, <2>2 DEF AddDataSource, AddSP3, AddRinexClock, AddNothing, Done
<1>2. CASE Read
  <2>1. UNCHANGED file /\ (~Hopeless(file))' = ~Hopeless(file)
    BY <1>2, ReadCases DEF LoadInv, Hopeless
  <2> QED BY <1>2, <2>1, HopefulReads DEF LoadInv, HopefulInv
<1>3. CASE TakeRecord
  BY <1>3, TakeRecordIs DEF HopefulInv, Hopeless, Correlated, KindOf, Line
<1>4. CASE Finish \/ GiveUp
  BY <1>4 DEF Finish, GiveUp, Done, HopefulInv
<1>5. CASE \E useRC \in BOOLEAN : UseRinexClockData(useRC)
  BY <1>5 DEF UseRinexClockData, stream, HopefulInv
<1>6. CASE UNCHANGED vars
  BY <1>6 DEF vars, stream, HopefulInv, Hopeless, Correlated, KindOf, Line
<1> QED
  BY <1>1, <1>2, <1>3, <1>4, <1>5, <1>6 DEF Next, Terminated

\* The calls of a load.
LoadCall == Read \/ TakeRecord \/ Finish \/ GiveUp

\* A load that is not over has a call to make: the conditions of Get, of the
\* alternatives that ProcessLine has for a kind of line, of NextLine, and of
\* what process() does after a record.
CanGoOn ==
  \/ pc = "get" /\ "fail" \notin bits
  \/ /\ pc = "line"
     /\ \/ KindOf(lastLine) \in {"blank", "stub", "epoch", "EP", "EV", "other", "binary"}
        \/ KindOf(lastLine) = "EOF" /\ (status > 0 \/ ~EndsHere \/ pos \in 0..Len(file.lines))
        \/ /\ KindOf(lastLine) \in {"P", "V"}
           /\ status > 0 \/ Line(lastLine).fault \in {"none", "short", "alien"}
  \/ pc = "next" /\ (bits = {} \/ KindOf(lastLine) # "binary")
  \/ pc = "test" /\ ("fail" \notin bits \/ bits \in {{"fail"}, {"eof", "fail"}})

GoingOn ==
  /\ pc = "get" => "fail" \notin bits
  /\ pc = "next" => KindOf(lastLine) # "binary"

LEMMA GoingOnStep == StreamInv /\ GoingOn /\ [Next]_vars => GoingOn'
<1> SUFFICES ASSUME StreamInv, GoingOn, [Next]_vars PROVE GoingOn'
  OBVIOUS
<1> USE DEF GoingOn
<1>1. CASE AddDataSource
  BY <1>1 DEF AddDataSource, AddSP3, AddRinexClock, AddNothing, Done, Opened
<1>2. CASE Read
  <2>1. \A n : KindOf(n)' = KindOf(n)
    BY <1>2, ReadCases DEF KindOf, Line
  <2>2. CASE Get \/ NextLine
    BY <2>2 DEF Get, NextLine
  <2>3. CASE ProcessLine
    BY <2>1, <2>3 DEF ProcessLine, SkipLine, TextEOF, EpochLine, DataLine, CorrelationLine,
       OtherLine, Fail, Return, Swallow
  <2> QED BY <1>2, <2>2, <2>3 DEF Read, ReadStep
<1>3. CASE TakeRecord
  BY <1>3, TakeRecordIs
<1>4. CASE Finish \/ GiveUp
  BY <1>4 DEF Finish, GiveUp, Done
<1>5. CASE \E useRC \in BOOLEAN : UseRinexClockData(useRC)
  BY <1>5 DEF UseRinexClockData, stream, KindOf, Line
<1>6. CASE UNCHANGED vars
  BY <1>6 DEF vars, stream, KindOf, Line
<1> QED
  BY <1>1, <1>2, <1>3, <1>4, <1>5, <1>6 DEF Next, Terminated

LEMMA LoadInvariance == Spec => []LoadInv
<1>1. LoadInv /\ [Next]_vars => LoadInv'
  BY LoadStep
<1> QED BY LoadInit, <1>1, PTL DEF Spec

\* The loop of process() and that of reallyGetRecord() come to their ends on
\* every file that is not Hopeless, however it is damaged or cut off: a load of
\* n lines makes at most 5n + 10 calls and line by line steps.
THEOREM LoadsDescend ==
  Spec => /\ [](/\ LinesLeft \in Nat
                /\ LinesLeft = 0 <=> pc = "idle"
                /\ LinesLeft <= 5 * Len(file.lines) + 10)
          /\ [][LoadCall /\ ~Hopeless(file) => LinesLeft' < LinesLeft]_vars
<1>1. Spec => []HopefulInv
  <2>1. LoadInv /\ HopefulInv /\ [Next]_vars => HopefulInv'
    BY HopefulStep
  <2> QED BY HopefulInit, <2>1, LoadInvariance, PTL DEF Spec
<1>2. LoadInv => /\ LinesLeft \in Nat
                 /\ LinesLeft = 0 <=> pc = "idle"
                 /\ LinesLeft <= 5 * Len(file.lines) + 10
  BY TurnType DEF LoadInv
<1>3. LoadInv /\ HopefulInv /\ [Next]_vars
        => [LoadCall /\ ~Hopeless(file) => LinesLeft' < LinesLeft]_vars
  <2> SUFFICES ASSUME LoadInv, HopefulInv, LoadCall, ~Hopeless(file)
               PROVE  LinesLeft' < LinesLeft
    OBVIOUS
  <2>1. CASE Read
    BY <2>1, HopefulReads DEF LoadInv
  <2>2. CASE TakeRecord
    <3>1. Turn = 4 /\ Turn' = 3 /\ pc # "idle" /\ pc' # "idle"
      BY <2>2, TakeRecordIs DEF Turn
    <3>2. pos' = pos /\ bits' = bits /\ file' = file /\ pos \in 0..Len(file.lines)
      BY <2>2, TakeRecordIs DEF LoadInv, StreamInv, StreamOK
    <3> QED BY <3>1, <3>2, LessLeft DEF LoadInv
  <2>3. CASE Finish \/ GiveUp
    <3>1. LinesLeft' = 0 /\ pc # "idle"
      BY <2>3 DEF Finish, GiveUp, Done, LinesLeft
    <3> QED BY <1>2, <3>1
  <2> QED BY <2>1, <2>2, <2>3 DEF LoadCall
<1> QED BY <1>1, <1>2, <1>3, LoadInvariance, PTL DEF Spec

\* Nor does a load of any file stop half way, with a call to make that is not
\* provided for.
THEOREM LoadsAdvance == Spec => [](pc # "idle" => CanGoOn)
<1>1. Init => GoingOn
  BY DEF Init, GoingOn
<1>2. LoadInv /\ GoingOn /\ [Next]_vars => GoingOn'
  BY GoingOnStep DEF LoadInv
<1>3. LoadInv /\ GoingOn => (pc # "idle" => CanGoOn)
  <2> SUFFICES ASSUME LoadInv, GoingOn, pc # "idle" PROVE CanGoOn
    OBVIOUS
  <2>1. /\ pc \in {"get", "line", "next", "test"} /\ bits \subseteq {"eof", "fail"}
        /\ pos \in 0..Len(file.lines) /\ lastLine \in 0..Len(file.lines)
        /\ KindOf(lastLine) \in Kinds
        /\ \A n \in 1..Len(file.lines) : Line(n) \in Lines
    BY LinesType DEF LoadInv, StreamInv, StreamOK
  <2>2. CASE pc = "line"
    <3>1. KindOf(lastLine) \in {"P", "V"} => Line(lastLine).fault \in {"none", "short", "alien"}
      BY <2>1 DEF KindOf, Lines
    <3> QED BY <2>1, <2>2, <3>1 DEF CanGoOn, Kinds
  <2>3. CASE pc \in {"get", "next"}
    BY <2>3 DEF CanGoOn, GoingOn
  <2>4. CASE pc = "test"
    <3>1. "fail" \in bits => bits \in {{"fail"}, {"eof", "fail"}}
      BY <2>1
    <3> QED BY <2>4, <3>1 DEF CanGoOn
  <2> QED BY <2>1, <2>2, <2>3, <2>4
<1> QED BY <1>1, <1>2, <1>3, LoadInvariance, PTL DEF Spec

=============================================================================
