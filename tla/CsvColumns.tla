----------------------------- MODULE CsvColumns -----------------------------
(***************************************************************************)
(* CSVReader's read_header and read_row (Csv.hpp) for the three columns of *)
(* loadUpdateFactoriesFromCSV: a line is cut into columns in place, by     *)
(* NULs, and what is kept of a column is where it begins.                  *)
(*                                                                         *)
(* A line is a sequence of symbols: ",", " " for a blank or a tab, "NUL",  *)
(* a name of a column, or any other string.                                *)
(***************************************************************************)
EXTENDS Integers, FiniteSets, SequencesExt

CONSTANT CsvTexts       \* files: sequences of lines, the header first

ASSUME ColumnAssumption == CsvTexts \subseteq Seq(Seq(STRING)) \ {<<>>}

VARIABLES
  csvLines,             \* the file
  fileLine,             \* the number of the line that is read
  mem,                  \* its memory
  rest,                 \* where the rest of it begins, or nullptr
  col_order,            \* which column comes where
  row,                  \* where each of the three columns begins
  place,                \* how many columns of a row have been read
  parsing,              \* where the reader is
  rowsRead              \* what read_row has given, or that it has thrown

columnVars == <<csvLines, fileLine, mem, rest, col_order, row, place, parsing, rowsRead>>

column_names == <<"hostname", "port", "password">>
Column == DOMAIN column_names
Name(i) == <<column_names[i]>>
Extra == -1
nullptr == 0

\* The first place from i on that has one of the symbols.
Find(m, i, symbols) == CHOOSE j \in i..Len(m) : /\ m[j] \in symbols
                                               /\ \A k \in i..(j - 1) : m[k] \notin symbols

CStringAt(m, i) == SubSeq(m, i, Find(m, i, {"NUL"}) - 1)

\* A line is read: its memory ends with a NUL.
Memory(n) == Append(csvLines[n], "NUL")

ColumnInit ==
  /\ csvLines \in CsvTexts
  /\ fileLine = 1
  /\ mem = Memory(1)
  /\ rest = 1
  /\ col_order = <<>>
  /\ row = [i \in Column |-> nullptr]
  /\ place = 0
  /\ parsing = "header"
  /\ rowsRead = <<>>

-----------------------------------------------------------------------------
\* chop_next_column and find_next_column_end: from rest to col_end.
ColumnEnd(m, i) == Find(m, i, {",", "NUL"})
ColEnd == ColumnEnd(mem, rest)
Ended(m, i) == [m EXCEPT ![i] = "NUL"]
Chopped == Ended(mem, ColEnd)

\* Mutant: the rest of the line begins with the comma.
ColumnAtComma == rest' = IF mem[ColEnd] = "NUL" THEN nullptr ELSE ColEnd

RestBehind(m, i) == IF m[i] = "NUL" THEN nullptr ELSE i + 1
NextColumn == rest' = RestBehind(mem, ColEnd)

\* trim_chars<' ', '\t'>::trim: where a column from b to e begins and ends, and
\* the memory after it has got its new end.
FirstBlack(m, b, e) == CHOOSE i \in b..e : /\ i = e \/ m[i] # " "
                                          /\ \A k \in b..(i - 1) : m[k] = " "
AfterLast(m, b, e) == CHOOSE i \in b..e : /\ i = b \/ m[i - 1] # " "
                                         /\ \A k \in i..(e - 1) : m[k] = " "
TrimBegin == FirstBlack(mem, rest, ColEnd)
TrimEnd == AfterLast(mem, TrimBegin, ColEnd)
Trimmed == Ended(Chopped, TrimEnd)

\* parse_header_line: a column is one of the three, or an extra one.
HeaderColumn ==
  /\ parsing = "header" /\ rest # nullptr
  /\ mem' = Trimmed
  /\ NextColumn
  /\ LET name == CStringAt(Trimmed, TrimBegin)
         same == {i \in Column : Name(i) = name}
     IN \/ /\ same = {}
           /\ col_order' = Append(col_order, Extra)
           /\ UNCHANGED parsing
        \/ \E i \in same \ ToSet(col_order) :
             /\ col_order' = Append(col_order, i)
             /\ UNCHANGED parsing
        \/ /\ same \cap ToSet(col_order) # {}
           /\ parsing' = "duplicated_column"
           /\ UNCHANGED col_order
  /\ UNCHANGED <<csvLines, fileLine, row, place, rowsRead>>

HeaderEnd ==
  /\ parsing = "header" /\ rest = nullptr
  /\ parsing' = IF Column \subseteq ToSet(col_order) THEN "rows" ELSE "missing_column"
  /\ UNCHANGED <<csvLines, fileLine, mem, rest, col_order, row, place, rowsRead>>

\* read_row: the next line, ...
NextRow ==
  /\ parsing = "rows" /\ fileLine < Len(csvLines)
  /\ fileLine' = fileLine + 1
  /\ mem' = Memory(fileLine')
  /\ rest' = 1
  /\ place' = 0
  /\ parsing' = "row"
  /\ UNCHANGED <<csvLines, col_order, row, rowsRead>>

\* ... its columns (parse_line), of which the extra ones are not trimmed, ...
RowColumn ==
  /\ parsing = "row" /\ rest # nullptr /\ place < Len(col_order)
  /\ NextColumn
  /\ place' = place + 1
  /\ LET i == col_order[place + 1]
     IN \/ i = Extra /\ mem' = Chopped /\ UNCHANGED row
        \/ i # Extra /\ mem' = Trimmed /\ row' = [row EXCEPT ![i] = TrimBegin]
  /\ UNCHANGED <<csvLines, fileLine, col_order, parsing, rowsRead>>

\* ... and, if there are as many as in the header, their values.
RowEnd ==
  /\ parsing = "row"
  /\ parsing' = "rows"
  /\ \/ /\ rest = nullptr /\ place = Len(col_order)
        /\ rowsRead' = Append(rowsRead, [i \in Column |-> CStringAt(mem, row[i])])
     \/ /\ \/ rest = nullptr /\ place < Len(col_order)      \* too_few_columns
           \/ rest # nullptr /\ place = Len(col_order)      \* too_many_columns
        /\ rowsRead' = Append(rowsRead, <<>>)
  /\ UNCHANGED <<csvLines, fileLine, mem, rest, col_order, row, place>>

ColumnNext == HeaderColumn \/ HeaderEnd \/ NextRow \/ RowColumn \/ RowEnd
ColumnSpec == ColumnInit /\ [][ColumnNext]_columnVars

\* The header is refused, or every row has been read.
ColumnsRead == \/ parsing \in {"duplicated_column", "missing_column"}
               \/ parsing = "rows" /\ fileLine = Len(csvLines)

-----------------------------------------------------------------------------
(* What a line says, as a whole: its columns, without the blanks around    *)
(* them, up to the first NUL.                                              *)

WithoutBlanks(s) ==
  LET black == {i \in DOMAIN s : s[i] # " "}
  IN SubSeq(s, CHOOSE i \in black \cup {Len(s) + 1} : \A j \in black : i <= j,
               CHOOSE i \in black \cup {0} : \A j \in black : i >= j)

EndOf(s) == CHOOSE i \in 1..(Len(s) + 1) : /\ i = Len(s) + 1 \/ s[i] = "NUL"
                                           /\ \A k \in 1..(i - 1) : s[k] # "NUL"
ColumnCuts(s) == {0, EndOf(s)} \cup {i \in 1..(EndOf(s) - 1) : s[i] = ","}
ColumnCut(s, i) == CHOOSE c \in ColumnCuts(s) : Cardinality({d \in ColumnCuts(s) : d < c}) = i

Columns(s) ==
  [i \in 1..(Cardinality(ColumnCuts(s)) - 1) |->
     WithoutBlanks(SubSeq(s, ColumnCut(s, i - 1) + 1, ColumnCut(s, i) - 1))]

HeaderNames == Columns(csvLines[1])
Places(i) == {p \in DOMAIN HeaderNames : HeaderNames[p] = Name(i)}

RowIsExact(n) ==
  LET columns == Columns(csvLines[n + 1])
  IN IF Len(columns) = Len(HeaderNames)
       THEN /\ rowsRead[n] # <<>>
            /\ \A i \in Column : \A p \in Places(i) : rowsRead[n][i] = columns[p]
       ELSE rowsRead[n] = <<>>

\* A header is taken if it has each of the three columns once; a row is taken if
\* it has as many columns as the header, and its values are those in the places
\* that the header says, although they are kept as places in a memory that is
\* written while it is read, and that the next line replaces (Csv.hpp:850-935
\* and 1240-1269).
ColumnsAreExact ==
  LET once == \A i \in Column : Cardinality(Places(i)) = 1
  IN /\ parsing \in {"rows", "row"} => once
     /\ parsing \in {"duplicated_column", "missing_column"} => ~once
     /\ \A n \in DOMAIN rowsRead : RowIsExact(n)
=============================================================================
