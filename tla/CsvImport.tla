----------------------------- MODULE CsvImport -----------------------------
(***************************************************************************)
(* loadUpdateFactoriesFromCSV (UpdateFactory.cpp) with the CSVReader it    *)
(* reads from: the header, then a row at a time, until the file ends or an *)
(* exception leaves the function.                                          *)
(*                                                                         *)
(* What a line says is told by its first byte: "header" is a header with   *)
(* the three columns, "row" a row with a destination that is taken,        *)
(* "badport" one whose port is not a number, "hugeport" one whose port is  *)
(* out of the range of int.  Any other line has too few columns.           *)
(***************************************************************************)
EXTENDS LineReader, FiniteSets

CONSTANT MaxFileLine    \* the model gives up after this many lines

VARIABLES
  caller,               \* where loadUpdateFactoriesFromCSV is
  outcome,              \* what it returns or throws
  update_list,          \* the rows it has made UpdateFactory objects of
  error_list            \* its errors: what, and the line number they name

importVars == <<caller, outcome, update_list, error_list>>
csvVars == <<readerVars, importVars>>

ImportInit ==
  /\ ReaderInit
  /\ caller = "open"
  /\ outcome = "none"
  /\ update_list = <<>>
  /\ error_list = <<>>

Kind(text) == IF text = <<>> THEN "empty" ELSE text[1]

LineUsed == /\ pc = "idle"
            /\ line # NoLine
            /\ line' = NoLine
            /\ UNCHANGED <<file, pos, bufferVars, file_line, pc, thread, requestVars>>

\* The function ends; leaving it destroys the reader.
Leave(o) == caller' = "closing" /\ outcome' = o

Error(what) == error_list' = Append(error_list, [what |-> what, line |-> file_line])

-----------------------------------------------------------------------------
\* io::CSVReader<3> in(csv_file): outside of the try blocks.
OpenFile ==
  /\ caller = "open"
  /\ \/ /\ Construct
        /\ caller' = "header"
        /\ UNCHANGED <<outcome, update_list, error_list>>
     \/ /\ caller' = "returned"                     \* can_not_open_file
        /\ outcome' = "can_not_open_file"
        /\ UNCHANGED <<readerVars, update_list, error_list>>

\* in.read_header; every error ends the import.
ReadHeader ==
  /\ caller = "header"
  /\ LineUsed
  /\ \/ /\ line.kind = "line" /\ Kind(line.text) = "header"
        /\ caller' = "rows"
        /\ UNCHANGED <<outcome, error_list>>
     \/ /\ line.kind # "line" \/ Kind(line.text) # "header"
        /\ Leave("UPDATE_CSV")
        /\ Error("header")
  /\ UNCHANGED update_list

\* in.read_row returns false.
LastRow ==
  /\ line.kind = "eof"
  /\ Leave("UPDATE_OK")
  /\ UNCHANGED <<update_list, error_list>>

\* in.read_row throws an io::error: the loop goes on.
RowError ==
  /\ \/ line.kind = "long" /\ Error("long")
     \/ /\ line.kind = "line" /\ Kind(line.text) \notin {"row", "badport", "hugeport"}
        /\ Error("columns")
  /\ UNCHANGED <<caller, outcome, update_list>>

\* Mutant: the object goes into the list before its destination is set.
RowInvalidKept ==
  /\ line.kind = "line" /\ Kind(line.text) = "badport"
  /\ Error("port")
  /\ update_list' = Append(update_list, line.text)
  /\ UNCHANGED <<caller, outcome>>

\* std::invalid_argument
RowInvalid ==
  /\ line.kind = "line" /\ Kind(line.text) = "badport"
  /\ Error("port")
  /\ UNCHANGED <<caller, outcome, update_list>>

\* std::out_of_range is caught by nobody here.
RowOutOfRange ==
  /\ line.kind = "line" /\ Kind(line.text) = "hugeport"
  /\ Leave("out_of_range")
  /\ UNCHANGED <<update_list, error_list>>

RowTaken ==
  /\ line.kind = "line" /\ Kind(line.text) = "row"
  /\ update_list' = Append(update_list, line.text)
  /\ UNCHANGED <<caller, outcome, error_list>>

ReadRow ==
  /\ caller = "rows"
  /\ LineUsed
  /\ LastRow \/ RowError \/ RowInvalid \/ RowOutOfRange \/ RowTaken

\* The reader is called; file_line is bounded.
CallReader ==
  /\ caller \in {"header", "rows"}
  /\ file_line < MaxFileLine \/ pc # "idle"
  /\ next_line
  /\ UNCHANGED importVars

\* The reader is destroyed.
CloseReader ==
  /\ caller = "closing"
  /\ Destroy \/ Join
  /\ caller' = IF pc' = "gone" THEN "returned" ELSE "closing"
  /\ UNCHANGED <<outcome, update_list, error_list>>

Caller == OpenFile \/ ReadHeader \/ ReadRow \/ CallReader \/ CloseReader

\* The import has ended, or the model gives up.
Stopped ==
  /\ caller = "returned" \/ file_line = MaxFileLine
  /\ UNCHANGED csvVars

CsvNext ==
  \/ Caller
  \/ ReadingThread /\ UNCHANGED importVars
  \/ Stopped

\* Both threads run.
CsvSpec ==
  /\ ImportInit
  /\ [][CsvNext]_csvVars
  /\ WF_csvVars(Caller)
  /\ WF_csvVars(ReadingThread /\ UNCHANGED importVars)

-----------------------------------------------------------------------------
CsvTypeOK ==
  /\ ReaderTypeOK
  /\ caller \in {"open", "header", "rows", "closing", "returned"}
  /\ outcome \in {"none", "UPDATE_OK", "UPDATE_CSV", "can_not_open_file", "out_of_range"}
  /\ update_list \in Seq(Seq(Cell))
  /\ error_list \in Seq([what : {"header", "long", "columns", "port"}, line : Nat])

\* The lines of the file, by their first and last position.
FirstByte == IF IsPrefix(ByteOrderMark, file) THEN 4 ELSE 1
LineStarts == {n \in FirstByte..Len(file) : n = FirstByte \/ file[n - 1] = "LF"}
LineAt(n) == CHOOSE e \in n..(Len(file) + 1) : Source!IsEnd(n, e)
TextAt(n) == WithoutCR(SubSeq(file, n, LineAt(n) - 1))
HasLongLine == \E n \in LineStarts : LineAt(n) - n >= block_len

\* The lines with a destination that is taken, and those behind the header without.
Taken == {n \in LineStarts : Kind(TextAt(n)) = "row"}
Refused == {n \in LineStarts \ {FirstByte} : Kind(TextAt(n)) # "row"}

CountBelow(S, n) == Cardinality({m \in S : m < n})

\* Every line after the header is taken or reported, in order, and an error
\* names the line it is about (UpdateFactory.cpp:403-430).
ImportIsExact ==
  outcome = "UPDATE_OK" =>
    /\ Len(update_list) = Cardinality(Taken)
    /\ \A n \in Taken : update_list[CountBelow(Taken, n) + 1] = TextAt(n)
    /\ Len(error_list) = Cardinality(Refused)
    /\ \A n \in Refused :
         error_list[CountBelow(Refused, n) + 1].line = CountBelow(LineStarts, n) + 1

\* The import ends, and the reading thread with it, if no line is too long.
ImportEnds == ~HasLongLine ~> caller = "returned"
=============================================================================
