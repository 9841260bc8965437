------------------------------- MODULE SP3Stream -------------------------------
(***************************************************************************)
(* Reading the records of an SP3 file: SP3Data::reallyGetRecord() under    *)
(* FFTextStream::formattedGetLine() and FFStream::tryFFStreamGet(), with   *)
(* stream exceptions off, as the factories use them.  A data record is one *)
(* line, or two, so the stream is always one line ahead (lastLine), and    *)
(* what tells the caller of an error or of the end is the state of the     *)
(* std::fstream underneath.                                                *)
(*                                                                         *)
(* A file is a sequence of lines, from the last of its header on; it is    *)
(* "whole" when its last line is terminated.  A blank line has nothing in  *)
(* it but perhaps a CR, a stub has one or two characters.  A line is       *)
(* "short" when it is, or its numbers or date are no good, and "alien"     *)
(* when its satellite is of no known system.                               *)
(***************************************************************************)
EXTENDS Integers, Sequences

CONSTANT
  Sources    \* the files

Kinds == {"epoch", "P", "V", "EP", "EV", "EOF", "blank", "stub", "other", "binary"}

Lines == [kind : Kinds, fault : {"none", "short", "alien"}, sat : Nat \ {0},
          zero : SUBSET {"x", "yz"}, badClk : BOOLEAN, pred : SUBSET {"orbit", "clock"}]

ASSUME SourceAssumption ==
  \A s \in Sources :
    /\ s.lines \in Seq(Lines) /\ s.lines # <<>>
    /\ s.whole \in BOOLEAN

VARIABLES
  file,           \* the file that is read
  pos,            \* how many of its lines have been read
  bits,           \* rdstate(): "eof", "fail"
  lastLine,       \* number of the line in SP3Stream::lastLine; 0 when that is empty
  currentEpoch,   \* number of the last epoch line processed, 0 before the first
  status,         \* what this call has read: 1 epoch, 2 P or V, 3 EP or EV too
  rec,            \* the SP3Data
  pc,             \* "get", in the loop "line" and "next", "test" after a call
  got             \* history: lines whose records the caller has got, once or more

stream == <<file, pos, bits, lastLine, currentEpoch, status, rec, pc, got>>

Line(n) == file.lines[n]
KindOf(n) == IF n = 0 THEN "blank" ELSE Line(n).kind

\* "x" is the line with the coordinates and the clock, "flags" the P record
\* with the flags, "time" the epoch line, "new" what this call has read: none 0.
NoRec == [type |-> "none", sat |-> 0, time |-> 0, x |-> 0, flags |-> 0, new |-> 0]

OpenedMutant(s) ==
  /\ file' = s /\ pos' = 1 /\ lastLine' = 1
  /\ bits' = IF Len(s.lines) = 1 /\ ~s.whole THEN {"eof"} ELSE {}
  /\ UNCHANGED currentEpoch
  /\ status' = 0 /\ rec' = NoRec /\ pc' = "get" /\ got' = {}

\* SP3Header::reallyGetRecord() leaves the line after the header in lastLine.
Opened(s) ==
  /\ file' = s /\ pos' = 1 /\ lastLine' = 1
  /\ bits' = IF Len(s.lines) = 1 /\ ~s.whole THEN {"eof"} ELSE {}
  /\ currentEpoch' = 0 /\ status' = 0 /\ rec' = NoRec /\ pc' = "get" /\ got' = {}

-----------------------------------------------------------------------------
(* The stream                                                              *)

\* std::getline(): on a stream that is not good it leaves the string alone.
\* A last line that is not terminated sets eof and not fail.
GetLine ==
  \/ /\ bits # {}
     /\ bits' = bits \cup {"fail"}
     /\ UNCHANGED <<pos, lastLine>>
  \/ /\ bits = {} /\ pos = Len(file.lines)
     /\ bits' = {"eof", "fail"} /\ lastLine' = 0
     /\ UNCHANGED pos
  \/ /\ bits = {} /\ pos < Len(file.lines)
     /\ pos' = pos + 1 /\ lastLine' = pos + 1
     /\ bits' = IF pos + 1 = Len(file.lines) /\ ~file.whole THEN {"eof"} ELSE {}

\* formattedGetLine() has thrown since the file is at its end: it does if the
\* line is empty.
AtEnd(n, state) == KindOf(n) = "blank" /\ "eof" \in state

\* tryFFStreamGet() begins: it clears the state, be that good or not.
Get ==
  /\ pc = "get" /\ "fail" \notin bits
  /\ bits' = {} /\ status' = 0 /\ pc' = "line"
  /\ rec' = [rec EXCEPT !.time = currentEpoch, !.new = 0]
  /\ UNCHANGED <<file, pos, lastLine, currentEpoch, got>>

ReturnMutant ==
  /\ pc' = "test" /\ lastLine' = 0
  /\ UNCHANGED <<file, pos, bits, currentEpoch, status, rec, got>>

\* reallyGetRecord() returns, having read something or met the end.
Return ==
  /\ pc' = "test"
  /\ UNCHANGED <<file, pos, bits, lastLine, currentEpoch, status, rec, got>>

\* It throws an FFStreamError or a std::exception.  That the stream is set back
\* to where the call began has no effect, as nothing is read any more.
Fail ==
  /\ bits' = {"fail"} /\ pc' = "test"
  /\ UNCHANGED <<file, pos, lastLine, currentEpoch, status, rec, got>>

\* It throws a gnsstk::Exception of another class, which tryFFStreamGet()
\* throws again and FFTextStream's drops, so that fail is not set.
Swallow ==
  /\ pc' = "test"
  /\ UNCHANGED <<file, pos, bits, lastLine, currentEpoch, status, got>>

-----------------------------------------------------------------------------
(* reallyGetRecord(), by what lastLine is                                  *)

SkipLine ==
  /\ KindOf(lastLine) \in {"blank", "stub"}
  /\ pc' = "next"
  /\ UNCHANGED <<file, pos, bits, lastLine, currentEpoch, status, rec, got>>

EndsHere ==
  /\ bits = {}
  /\ \/ pos = Len(file.lines)
     \/ pos + 1 = Len(file.lines) /\ ~file.whole /\ KindOf(pos + 1) = "blank"

\* Nothing may come after the text EOF, and no epoch right before it.
TextEOF ==
  /\ KindOf(lastLine) = "EOF"
  /\ \/ status = 1 /\ Fail
     \/ status > 1 /\ Return
     \/ status = 0 /\ ~EndsHere /\ Fail
     \/ /\ status = 0 /\ EndsHere
        /\ GetLine /\ pc' = "test"
        /\ UNCHANGED <<file, currentEpoch, status, rec, got>>

EpochLine ==
  /\ KindOf(lastLine) = "epoch"
  /\ \/ status > 1 /\ Return
     \/ status = 1 /\ Fail
     \/ status = 0 /\ Line(lastLine).fault = "short" /\ Fail
     \/ /\ status = 0 /\ Line(lastLine).fault # "short"
        /\ status' = 1 /\ currentEpoch' = lastLine /\ pc' = "next"
        /\ rec' = [rec EXCEPT !.type = "epoch", !.sat = 0, !.time = lastLine, !.new = lastLine]
        /\ UNCHANGED <<file, pos, bits, lastLine, got>>

\* A record is complete when the next one begins.
DataLine ==
  /\ KindOf(lastLine) \in {"P", "V"}
  /\ \/ status > 0 /\ Return
     \/ status = 0 /\ Line(lastLine).fault = "short" /\ Fail
     \/ /\ status = 0 /\ Line(lastLine).fault = "alien"
        /\ rec' = [rec EXCEPT !.type = KindOf(lastLine)]
        /\ Swallow
     \/ /\ status = 0 /\ Line(lastLine).fault = "none"
        /\ status' = 2 /\ pc' = "next"
        /\ rec' = [rec EXCEPT !.type = KindOf(lastLine), !.sat = Line(lastLine).sat,
                              !.x = lastLine, !.new = lastLine,
                              !.flags = IF KindOf(lastLine) = "P" THEN lastLine ELSE @]
        /\ UNCHANGED <<file, pos, bits, lastLine, currentEpoch, got>>

CorrelationLine ==
  LET matches == status = 2 /\ KindOf(lastLine) = (IF rec.type = "P" THEN "EP" ELSE "EV") IN
  /\ KindOf(lastLine) \in {"EP", "EV"}
  /\ \/ ~matches /\ Swallow /\ UNCHANGED rec
     \/ matches /\ Line(lastLine).fault = "short" /\ Fail
     \/ /\ matches /\ Line(lastLine).fault # "short"
        /\ status' = 3 /\ pc' = "next"
        /\ UNCHANGED <<file, pos, bits, lastLine, currentEpoch, rec, got>>

OtherLine == KindOf(lastLine) \in {"other", "binary"} /\ Fail

ProcessLine ==
  /\ pc = "line"
  /\ SkipLine \/ TextEOF \/ EpochLine \/ DataLine \/ CorrelationLine \/ OtherLine

NextLineMutant ==
  /\ pc = "next"
  /\ GetLine
  /\ pc' = IF status = 3 THEN "test" ELSE "line"
  /\ UNCHANGED <<file, currentEpoch, status, rec, got>>

\* The next line.  At the end of the file, expected or not, the record is
\* returned as it is: there is nothing in lastLine then, and the part of the
\* code that would go on with what is there is never reached.
NextLine ==
  /\ pc = "next"
  /\ \/ /\ GetLine /\ KindOf(lastLine') # "binary"
        /\ pc' = IF AtEnd(lastLine', bits') \/ status = 3 THEN "test" ELSE "line"
     \/ /\ bits = {} /\ pos < Len(file.lines) /\ KindOf(pos + 1) = "binary"
        /\ bits' = {"fail"} /\ pos' = pos + 1 /\ lastLine' = pos + 1 /\ pc' = "test"
  /\ UNCHANGED <<file, currentEpoch, status, rec, got>>

-----------------------------------------------------------------------------

ReadStep == Get \/ ProcessLine \/ NextLine

-----------------------------------------------------------------------------
(* What a caller should get of a file                                      *)

RecordLines == {n \in 1..Len(file.lines) : KindOf(n) \in {"epoch", "P", "V"}}

EpochLines == {n \in RecordLines : KindOf(n) = "epoch"}

\* The records come in the order of the file, none left out, whatever blank
\* lines, correlation records and damaged lines are between them.
RecordsInOrder ==
  \A n \in got, m \in RecordLines : m < n => m \in got

=============================================================================
