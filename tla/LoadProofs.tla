----------------------------- MODULE LoadProofs -----------------------------
(***************************************************************************)
(* The proofs about what fills update_list: HostList, for                  *)
(* loadUpdateFactoriesFromStr, and LineReader, CsvImport and CsvColumns,   *)
(* for loadUpdateFactoriesFromCSV.                                         *)
(***************************************************************************)
EXTENDS HostList, CsvColumns, CsvImport, SequenceLemmas, SequenceTheorems, FiniteSetTheorems, TLAPS

-----------------------------------------------------------------------------
(* The inductive invariants.                                               *)

\* HostList.  start is behind a comma or at the beginning, and each entry before
\* it has its object.
Before(c) == Cardinality({d \in Cuts : d < c})
Destination == [host : Seq(STRING), port : IntRange]
Numerals == ToSet(Numeral)

HostInv ==
  /\ hostPorts \in Seq(STRING)
  /\ destinations \in Seq(Destination)
  /\ start \in Nat
  /\ start - 1 \in Cuts
  /\ end = FindFirst(hostPorts, ",", start)
  /\ Len(destinations) = Before(start - 1)
  /\ \A i \in DOMAIN destinations : Entries[i] # <<>> /\ Names(destinations[i], Entries[i])
  /\ loading = "returned" => start >= end
  /\ loading = "out_of_range" => /\ Len(destinations) < Len(Entries)
                                 /\ NamesNoInt(Entries[Len(destinations) + 1])

\* CsvColumns.  How many columns of a line end at a cut or before it; ...
ColumnsBefore(s, c) == Cardinality({d \in ColumnCuts(s) : d < c})
Symbol == STRING \cup {"NUL"}

\* ... what is not read yet is as it was; ...
Unread(s, m, r) == \A k \in r..Len(m) : m[k] = Append(s, "NUL")[k]

\* ... p columns of s have been read, and the rest begins at r, ...
Scanned(s, m, r, p) ==
  /\ m \in Seq(Symbol) /\ Len(m) = Len(s) + 1
  /\ r = nullptr => p = Len(Columns(s))
  /\ r # nullptr =>
       /\ r \in Nat /\ r - 1 \in ColumnCuts(s) /\ r - 1 < EndOf(s)
       /\ p = ColumnsBefore(s, r - 1)
       /\ Unread(s, m, r)

\* ... and a value that begins at b has its NUL before the rest.
EndsBefore(m, r, b) ==
  /\ b \in 1..Len(m)
  /\ \E j \in b..Len(m) : m[j] = "NUL" /\ (r # nullptr => j < r)

RowLine == csvLines[fileLine]

\* ... which the values of the columns that have been read do, ...
RowInv ==
  /\ Scanned(RowLine, mem, rest, place)
  /\ place <= Len(col_order)
  /\ \A q \in 1..place :
       col_order[q] # Extra => /\ EndsBefore(mem, rest, row[col_order[q]])
                               /\ CStringAt(mem, row[col_order[q]]) = Columns(RowLine)[q]

\* ... which the header has said where to put, each of the three once.
OrderInv ==
  /\ col_order \in Seq(Column \cup {Extra})
  /\ \A q \in DOMAIN col_order : \A i \in Column : col_order[q] = i <=> HeaderNames[q] = Name(i)
  /\ \A p, q \in DOMAIN col_order : col_order[p] = col_order[q] /\ p # q => col_order[p] = Extra

ColumnTypeOK ==
  /\ csvLines \in Seq(Seq(STRING)) \ {<<>>}
  /\ fileLine \in 1..Len(csvLines)
  /\ row \in [Column -> Nat]
  /\ place \in Nat
  /\ parsing \in {"header", "rows", "row", "duplicated_column", "missing_column"}
  /\ rowsRead \in Seq([Column -> Seq(Symbol)] \cup {<<>>})

ColumnInv ==
  /\ ColumnTypeOK
  /\ OrderInv
  /\ parsing = "header" => /\ fileLine = 1 /\ rowsRead = <<>>
                           /\ Scanned(RowLine, mem, rest, Len(col_order))
  /\ parsing = "duplicated_column" => /\ rowsRead = <<>>
                                      /\ \E i \in Column : \E p, q \in Places(i) : p # q
  /\ parsing = "missing_column" => /\ rowsRead = <<>>
                                   /\ \E i \in Column : Places(i) = {}
  /\ parsing \in {"rows", "row"} => /\ Len(col_order) = Len(HeaderNames)
                                    /\ Column \subseteq ToSet(col_order)
  /\ parsing = "rows" => Len(rowsRead) = fileLine - 1
  /\ parsing = "row" => Len(rowsRead) = fileLine - 2 /\ RowInv
  /\ \A n \in DOMAIN rowsRead : RowIsExact(n)

\* LineReader.  Before the constructor, and while a line is looked for.
CallInv ==
  /\ pc = "init" => /\ pos = 0 /\ base = 0 /\ data_begin = 0 /\ data_end = 0
                    /\ thread = "none" /\ line = NoLine
  /\ pc \in {"finish", "copy", "scan"} => line = NoLine

\* What the threads tell each other.  A block is there or has been asked for.
AskedInv ==
  /\ desired_byte_count # -1 => read_byte_count = -1
  /\ pc = "copy" => read_byte_count # -1
  /\ pc \in {"finish", "copy"} => thread # "none"
  /\ thread = "none" => desired_byte_count = -1 /\ read_byte_count = -1
  /\ termination_requested => pc \in {"join", "gone"}

\* The last line had no LF.
Consumed == pc = "idle" /\ data_begin = data_end /\ base + data_end = Len(file) + 1

\* Where the data is: behind it the file is at its end, or both blocks are full
\* (one, while the other is waited for).
PlaceInv ==
  LET ahead == IF pc = "copy" \/ read_byte_count = -1 THEN 0 ELSE read_byte_count
      full  == IF pc = "finish" THEN block_len ELSE 2 * block_len
  IN pc \in {"idle", "finish", "copy", "scan"} =>
       \/ Consumed
       \/ /\ base + data_end = pos - ahead
          /\ data_end = full \/ base + data_end = Len(file)
          /\ data_end <= full
          /\ data_begin <= data_end
          /\ thread = "none" => base + data_end = Len(file)
          /\ IF pc = "idle" THEN data_begin < 2 * block_len
                            ELSE data_begin < block_len /\ data_begin < data_end
          /\ pc = "copy" => \/ data_end = block_len + read_byte_count
                            \/ read_byte_count = 0 /\ data_end <= block_len

\* The data is that of the file, ...
DataInv ==
  pc \in {"idle", "finish", "copy", "scan"} =>
    \A i \in data_begin..(data_end - 1) :
      pc # "copy" \/ i < block_len => buffer[i] = file[base + i + 1]

\* ... and so is the third block.
ThirdBlockInv ==
  read_byte_count # -1 =>
    /\ read_byte_count <= pos
    /\ read_byte_count = block_len \/ pos = Len(file)
    /\ \A j \in 0..(read_byte_count - 1) :
         buffer[2 * block_len + j] = file[pos - read_byte_count + j + 1]

ReaderInv ==
  /\ ReaderTypeOK
  /\ base \in Nat
  /\ CallInv
  /\ AskedInv
  /\ PlaceInv
  /\ DataInv
  /\ ThirdBlockInv

\* CsvImport.  Where the next line is, and whether the reader is looking for it.
NextByte == IF pc = "init" THEN FirstByte ELSE base + data_begin + 1
Looking == pc \in {"finish", "copy", "scan"}

\* The next line is too long, and stays so: the import ends with an error only.
Stuck == /\ NextByte \in LineStarts
         /\ LineAt(NextByte) - NextByte >= block_len
         /\ line.kind \in {"none", "long"}
         /\ outcome # "UPDATE_OK"

\* What has been done about the lines before d.
ExactBelow(d) ==
  /\ Len(update_list) = CountBelow(Taken, d)
  /\ \A n \in Taken : n < d => update_list[CountBelow(Taken, n) + 1] = TextAt(n)
  /\ Len(error_list) = CountBelow(Refused, d)
  /\ \A n \in Refused :
       n < d => error_list[CountBelow(Refused, n) + 1].line = CountBelow(LineStarts, n) + 1

\* d is the line that the caller has got, or the one that it gets next.
IsCurrent(d) ==
  IF line.kind = "line"
    THEN /\ d \in LineStarts /\ d < NextByte
         /\ \A m \in LineStarts : ~(d < m /\ m < NextByte)
         /\ line.text = TextAt(d)
    ELSE d = NextByte

\* ..., and everything before d has been done.
Handled(d) ==
  /\ IsCurrent(d)
  /\ IF caller \in {"open", "header"}
       THEN d = FirstByte /\ update_list = <<>> /\ error_list = <<>>
       ELSE FirstByte < d /\ ExactBelow(d)

HandledInv ==
  /\ line.kind # "long"
  /\ line.kind = "eof" \/ outcome = "UPDATE_OK" => NextByte > Len(file)
  /\ outcome = "UPDATE_OK" => line.kind = "none"
  /\ file_line = CountBelow(LineStarts, NextByte) + (IF Looking THEN 1 ELSE 0)
  /\ \E d \in LineStarts \cup {NextByte} : Handled(d)

ImportInv ==
  /\ NextByte \in LineStarts \/ NextByte > Len(file)
  /\ Looking => line.kind = "none" /\ NextByte \in LineStarts
  /\ caller = "open" => pc = "init" /\ outcome = "none"
  /\ caller \in {"header", "rows"} => outcome = "none"
  /\ Stuck \/ outcome \notin {"none", "UPDATE_OK"} \/ HandledInv

-----------------------------------------------------------------------------
(* What the operators of HostList return.                                  *)

\* The first place of c from a place on is the least one.
LEMMA FindFirstFacts ==
  ASSUME NEW S, NEW s \in Seq(S), NEW c, NEW from \in Nat, from >= 1, from <= Len(s) + 1
  PROVE  /\ FindFirst(s, c, from) \in from..(Len(s) + 1)
         /\ FindFirst(s, c, from) = Len(s) + 1 \/ s[FindFirst(s, c, from)] = c
         /\ \A k \in from..(FindFirst(s, c, from) - 1) : s[k] # c
<1>1. Len(s) \in Nat
  BY LenProperties
<1>2. CASE \A i \in from..Len(s) : s[i] # c
  <2>1. FindFirst(s, c, from) = Len(s) + 1
    BY <1>2 DEF FindFirst
  <2> QED
    BY <1>1, <1>2, <2>1
<1>3. CASE ~\A i \in from..Len(s) : s[i] # c
  <2> DEFINE T == {i \in from..Len(s) : s[i] = c}
  <2>1. T \subseteq Nat /\ T # {}
    BY <1>1, <1>3
  <2>2. Min(T) \in T /\ \A y \in T : Min(T) <= y
    BY <2>1, MinIsLeast
  <2> DEFINE m == Min(T)
  <2>3. m \in from..Len(s) /\ s[m] = c /\ \A y \in T : m <= y
    BY <2>2
  <2> HIDE DEF m
  <2>4. ASSUME NEW k \in from..(m - 1) PROVE s[k] # c
    <3>1. k \in from..Len(s) /\ ~(m <= k)
      BY <1>1, <2>3
    <3> QED
      BY <2>3, <3>1
  <2> HIDE DEF T
  <2>5. \E i \in from..Len(s) : s[i] = c /\ \A k \in from..(i - 1) : s[k] # c
    BY <2>3, <2>4
  <2>6. FindFirst(s, c, from) = CHOOSE i \in from..Len(s) : s[i] = c /\ \A k \in from..(i - 1) : s[k] # c
    BY <1>3 DEF FindFirst
  <2> DEFINE f == FindFirst(s, c, from)
  <2> HIDE DEF f
  <2>7. f \in from..Len(s) /\ s[f] = c /\ \A k \in from..(f - 1) : s[k] # c
    BY <2>5, <2>6 DEF f
  <2>8. f \in from..(Len(s) + 1)
    BY <1>1, <2>7
  <2> QED
    BY <2>7, <2>8 DEF f
<1> QED
  BY <1>2, <1>3

\* Behind the end there is none.
LEMMA FindNothing ==
  ASSUME NEW S, NEW s \in Seq(S), NEW c
  PROVE  FindFirst(s, c, Len(s) + 2) = Len(s) + 1
<1>1. Len(s) \in Nat
  BY LenProperties
<1>2. \A i \in (Len(s) + 2)..Len(s) : s[i] # c
  BY <1>1
<1> QED
  BY <1>2 DEF FindFirst

\* The first place from a place on that has none of C.
LEMMA PastFacts ==
  ASSUME NEW S, NEW s \in Seq(S), NEW C, NEW from \in 1..(Len(s) + 1)
  PROVE  /\ Past(s, C, from) \in from..(Len(s) + 1)
         /\ Past(s, C, from) = Len(s) + 1 \/ s[Past(s, C, from)] \notin C
         /\ \A k \in from..(Past(s, C, from) - 1) : s[k] \in C
<1>1. Len(s) \in Nat
  BY LenProperties
<1> DEFINE T == {i \in from..(Len(s) + 1) : i = Len(s) + 1 \/ s[i] \notin C}
           P(i) == /\ i = Len(s) + 1 \/ s[i] \notin C
                   /\ \A k \in from..(i - 1) : s[k] \in C
<1>2. T \subseteq Nat /\ Len(s) + 1 \in T
  BY <1>1
<1>3. Min(T) \in T /\ \A y \in T : Min(T) <= y
  BY <1>2, MinIsLeast
<1>4. \E i \in from..(Len(s) + 1) : P(i)
  <2> DEFINE m == Min(T)
  <2>1. m \in from..(Len(s) + 1) /\ (m = Len(s) + 1 \/ s[m] \notin C) /\ \A y \in T : m <= y
    BY <1>3
  <2> HIDE DEF m
  <2>2. ASSUME NEW k \in from..(m - 1) PROVE s[k] \in C
    <3>1. k \in from..(Len(s) + 1) /\ ~(m <= k)
      BY <1>1, <2>1
    <3> QED
      BY <2>1, <3>1
  <2> QED
    BY <2>1, <2>2
<1> QED
  BY <1>4 DEF Past

\* White space, a sign and a digit are told apart.
LEMMA Symbols ==
  /\ " " \notin Sign /\ " " \notin Numerals
  /\ \A c \in Sign : c \notin Numerals
<1>1. Numerals = {"0", "1", "2", "3", "4", "5", "6", "7", "8", "9"}
  <2>1. DOMAIN Numeral = 1..10
    BY DEF Numeral
  <2>2. 1..10 = {1, 2, 3, 4, 5, 6, 7, 8, 9, 10}
    OBVIOUS
  <2>3. ToSet(Numeral) = {Numeral[i] : i \in {1, 2, 3, 4, 5, 6, 7, 8, 9, 10}}
    BY <2>1, <2>2 DEF ToSet
  <2> QED
    BY <2>3 DEF Numeral, Numerals
<1> QED
  BY <1>1 DEF Sign

\* The sign of a number, if it has one.
Signs == {<<>>, <<"+">>, <<"-">>}

LEMMA SignFacts ==
  /\ \A g \in Signs : Len(g) \in {0, 1} /\ (Len(g) = 1 => g[1] \in Sign)
  /\ \A c \in Sign : <<c>> \in Signs /\ Len(<<c>>) = 1 /\ <<c>>[1] = c /\ (<<c>> = <<"-">> <=> c = "-")
  /\ <<>> \in Signs /\ Len(<<>>) = 0 /\ <<>> # <<"-">>
  BY DEF Signs, Sign

\* There is one way to read a number: blanks of B, a sign of G or none, which
\* begins at a, and digits of D, which begin at b.
LEMMA OneWay ==
  ASSUME NEW n \in Nat, NEW text, NEW B, NEW G, NEW D,
         \A x \in B : x \notin G /\ x \notin D, \A x \in G : x \notin D,
         NEW a \in 1..(n + 1), NEW b \in {a, a + 1},
         \A k \in 1..(a - 1) : text[k] \in B, a = n + 1 \/ text[a] \notin B,
         b = a + 1 <=> a <= n /\ text[a] \in G,
         NEW i \in 0..n, NEW l \in {0, 1}, NEW k \in 0..n, i + l < k,
         \A m \in 1..i : text[m] \in B, l = 1 => text[i + 1] \in G, text[i + l + 1] \in D
  PROVE  b = i + l + 1 /\ b <= n /\ text[b] \in D
<1>1. i + 1 \in 1..n /\ i + l + 1 \in 1..n
  OBVIOUS
<1>2. text[i + 1] \notin B
  BY <1>1
<1>3. a = i + 1
  BY <1>1, <1>2
<1>4. CASE l = 1
  BY <1>1, <1>3, <1>4
<1>5. CASE l = 0
  BY <1>1, <1>3, <1>5
<1> QED
  BY <1>4, <1>5

\* std::stoi reads the number that a text states, if it states one.
LEMMA StoiReads ==
  ASSUME NEW text \in Seq(STRING)
  PROVE  /\ HasNumber(text) => stoi(text) \in Stated(text)
         /\ ~HasNumber(text) => Stated(text) = {}
<1> DEFINE n == Len(text)
           B == {" "}
           a == SignAt(text)
           b == DigitsAt(text)
           e == Past(text, Numerals, b)
<1>1. n \in Nat /\ 1 \in 1..(n + 1)
  BY LenProperties
<1>2. /\ \A x \in B : x \notin Sign /\ x \notin Numerals
      /\ \A x \in Sign : x \notin Numerals
  BY Symbols
<1> HIDE DEF B
<1>3. /\ a \in 1..(n + 1)
      /\ a = n + 1 \/ text[a] \notin B
      /\ \A k \in 1..(a - 1) : text[k] \in B
  BY <1>1, PastFacts DEF SignAt, B
<1>4. HasSign(text) <=> a <= n /\ text[a] \in Sign
  BY DEF HasSign
<1>5. b = IF HasSign(text) THEN a + 1 ELSE a
  BY DEF DigitsAt
<1> HIDE DEF a, b, n
<1>6. b \in {a, a + 1} /\ (b = a + 1 <=> HasSign(text)) /\ b \in 1..(n + 1)
  BY <1>1, <1>3, <1>4, <1>5
<1>7. /\ e \in b..(n + 1)
      /\ e = n + 1 \/ text[e] \notin Numerals
      /\ \A k \in b..(e - 1) : text[k] \in Numerals
  BY <1>6, PastFacts DEF n
<1>8. Digits(text) = SubSeq(text, b, e - 1)
  BY DEF Digits, e, b, Numerals
<1> HIDE DEF e
<1>9. HasNumber(text) <=> b < e
  <2>1. b \in Int /\ e \in Int /\ a \in Int
    BY <1>1, <1>3, <1>6, <1>7
  <2>2. CASE b < e
    <3> DEFINE c == b - 1
               m == e - b
    <3>1. c \in Nat /\ m \in Nat /\ c + m <= n /\ c + 1 = b /\ c + m = e - 1 /\ m # 0
      BY <1>1, <1>6, <1>7, <2>1, <2>2
    <3> HIDE DEF c, m
    <3>2. Len(SubSeq(text, c + 1, c + m)) = m
      BY <3>1, PartFacts DEF n
    <3> QED
      BY <1>8, <2>2, <3>1, <3>2, EmptySeq DEF HasNumber
  <2>3. CASE ~(b < e)
    <3>1. e - 1 \in Int /\ e - 1 < b
      BY <2>1, <2>3
    <3>2. SubSeq(text, b, e - 1) = <<>>
      BY <2>1, <3>1, SubSeqEmpty
    <3> QED
      BY <1>8, <2>3, <3>2 DEF HasNumber
  <2> QED
    BY <2>2, <2>3
<1> DEFINE Ways == {w \in (0..n) \X Signs \X (0..n) : IsStated(text, w[1], w[2], w[3])}
           Read(w) == Number(w[2] = <<"-">>, SubSeq(text, w[1] + Len(w[2]) + 1, w[3]))
<1>10. Stated(text) = {Read(w) : w \in Ways}
  BY DEF Stated, Signs, n
<1>11. \A i, g, k : IsStated(text, i, g, k) <=>
         /\ i + Len(g) < k
         /\ \A m \in 1..i : text[m] \in B
         /\ \A m \in 1..Len(g) : text[i + m] = g[m]
         /\ \A m \in (i + Len(g) + 1)..k : text[m] \in Numerals
         /\ k < n => text[k + 1] \notin Numerals
  BY DEF IsStated, B, Numerals, n
<1> HIDE DEF Ways, Read
<1>12. ASSUME b < e PROVE stoi(text) \in Stated(text)
  <2> DEFINE g == IF HasSign(text) THEN <<text[a]>> ELSE <<>>
             minus == HasSign(text) /\ text[a] = "-"
             w == <<a - 1, g, e - 1>>
  <2>1. /\ g \in Signs /\ Len(g) = IF HasSign(text) THEN 1 ELSE 0
        /\ HasSign(text) => g[1] = text[a]
        /\ g = <<"-">> <=> minus
    BY <1>4, SignFacts
  <2>2. stoi(text) = Number(minus, Digits(text))
    BY DEF stoi, a
  <2>3. (g = <<"-">>) = minus
    BY <2>1
  <2> HIDE DEF g, minus
  <2>4. /\ a - 1 \in 0..n /\ e - 1 \in 0..n /\ a - 1 + Len(g) + 1 = b
        /\ (a - 1) + Len(g) < e - 1
        /\ \A m \in 1..Len(g) : (a - 1) + m = a /\ m = 1 /\ HasSign(text)
        /\ e - 1 < n => e - 1 + 1 = e /\ e # n + 1
        /\ e - 1 + 1 = e
    BY <1>1, <1>3, <1>5, <1>6, <1>7, <1>12, <2>1
  <2> DEFINE i == a - 1
             k == e - 1
  <2>5. IsStated(text, i, g, k)
    <3>1. \A m \in 1..i : text[m] \in B
      BY <1>3
    <3>2. \A m \in 1..Len(g) : text[i + m] = g[m]
      BY <2>1, <2>4
    <3>3. i + Len(g) + 1 = b
      BY <2>4
    <3>4. \A m \in (i + Len(g) + 1)..k : text[m] \in Numerals
      BY <1>7, <3>3
    <3>5. k < n => text[k + 1] \notin Numerals
      BY <1>7, <2>4
    <3>6. i + Len(g) < k
      BY <2>4
    <3> HIDE DEF i, k
    <3> QED
      BY <1>11, <3>1, <3>2, <3>4, <3>5, <3>6
  <2>6. w \in Ways
    BY <2>1, <2>4, <2>5 DEF Ways
  <2>7. Read(w) = Number(g = <<"-">>, SubSeq(text, b, e - 1))
    BY <2>4 DEF Read
  <2>8. Read(w) = stoi(text)
    BY <1>8, <2>2, <2>3, <2>7
  <2> QED
    BY <1>10, <2>6, <2>8
<1>13. ASSUME NEW w \in Ways PROVE b < e
  <2> DEFINE i == w[1]
             g == w[2]
             k == w[3]
             l == Len(g)
  <2>1. i \in 0..n /\ g \in Signs /\ k \in 0..n /\ IsStated(text, i, g, k)
    BY <1>13 DEF Ways
  <2> HIDE DEF i, g, k
  <2>2. /\ i + l < k
        /\ \A m \in 1..i : text[m] \in B
        /\ \A m \in 1..l : text[i + m] = g[m]
        /\ \A m \in (i + l + 1)..k : text[m] \in Numerals
    BY <1>11, <2>1
  <2>3. l \in {0, 1} /\ (l = 1 => g[1] \in Sign)
    BY <2>1, SignFacts
  <2> HIDE DEF l
  <2>4. (l = 1 => text[i + 1] \in Sign) /\ text[i + l + 1] \in Numerals
    <3>1. i + l + 1 \in (i + l + 1)..k /\ (l = 1 => 1 \in 1..l)
      BY <1>1, <2>1, <2>2, <2>3
    <3> QED
      BY <2>2, <2>3, <3>1
  <2>5. b <= n /\ text[b] \in Numerals
    BY <1>1, <1>2, <1>3, <1>4, <1>6, <2>1, <2>2, <2>3, <2>4, OneWay
  <2> QED
    BY <1>1, <1>6, <1>7, <2>5
<1> QED
  BY <1>9, <1>10, <1>12, <1>13

\* The beginning of a text is a prefix of it.
LEMMA BeginningIsPrefix ==
  ASSUME NEW S, NEW s \in Seq(S), NEW k \in 0..Len(s)
  PROVE  IsPrefix(SubSeq(s, 1, k), s)
<1> DEFINE t == SubSeq(s, 1, k)
<1>1. Len(s) \in Nat /\ k \in Nat /\ k <= Len(s) /\ \A i \in 1..Len(s) : s[i] \in S
  BY LenProperties, ElementOfSeq
<1>2. t \in Seq(S) /\ Len(t) = k /\ \A i \in 1..k : t[i] = s[i]
  <2>1. \A i \in 1..k : s[i] \in S
    BY <1>1
  <2>2. /\ t \in Seq(S) /\ Len(t) = IF 1 <= k THEN k - 1 + 1 ELSE 0
        /\ \A i \in 1..(k - 1 + 1) : t[i] = s[1 + i - 1]
    BY <1>1, <2>1, SubSeqProperties
  <2> HIDE DEF t
  <2>3. (IF 1 <= k THEN k - 1 + 1 ELSE 0) = k /\ k - 1 + 1 = k /\ \A i \in 1..k : 1 + i - 1 = i
    BY <1>1
  <2> QED
    BY <2>2, <2>3
<1> HIDE DEF t
<1>3. IsPrefix(t, s)
  <2>1. Len(t) <= Len(s) /\ \A i \in 1..Len(t) : t[i] = s[i]
    BY <1>1, <1>2
  <2> QED
    BY <1>2, <2>1, PrefixElements
<1> QED
  BY <1>3 DEF t

\* parseHostPort takes an entry for what it is.
LEMMA ParsedHostPort ==
  ASSUME NEW s \in Seq(STRING)
  PROVE  /\ ~IsOutOfRange(s) => /\ parseHostPort(s) \in Destination
                                /\ Names(parseHostPort(s), s)
         /\ IsOutOfRange(s) => NamesNoInt(s)
<1> DEFINE p == FindFirst(s, ":", 1)
           host == SubSeq(s, 1, p - 1)
           tail == SubSeq(s, p + 1, Len(s))
<1>1. Len(s) \in Nat /\ 1 \in Nat /\ 1 >= 1 /\ 1 <= Len(s) + 1 /\ \A i \in 1..Len(s) : s[i] \in STRING
  BY LenProperties, ElementOfSeq
<1>2. /\ p \in 1..(Len(s) + 1)
      /\ p = Len(s) + 1 \/ s[p] = ":"
      /\ \A k \in 1..(p - 1) : s[k] # ":"
  BY <1>1, FindFirstFacts
<1> HIDE DEF p
<1>3. p \in Nat /\ p - 1 \in 0..Len(s) /\ p - 1 \in Nat
  BY <1>1, <1>2
<1>4. /\ host \in Seq(STRING) /\ Len(host) = p - 1 /\ \A i \in 1..(p - 1) : host[i] = s[i]
  <2>1. \A i \in 1..(p - 1) : s[i] \in STRING
    BY <1>1, <1>3
  <2>2. /\ host \in Seq(STRING) /\ Len(host) = IF 1 <= p - 1 THEN (p - 1) - 1 + 1 ELSE 0
        /\ \A i \in 1..((p - 1) - 1 + 1) : host[i] = s[1 + i - 1]
    BY <1>3, <2>1, SubSeqProperties
  <2> HIDE DEF host
  <2>3. /\ (IF 1 <= p - 1 THEN (p - 1) - 1 + 1 ELSE 0) = p - 1 /\ (p - 1) - 1 + 1 = p - 1
        /\ \A i \in 1..(p - 1) : 1 + i - 1 = i
    BY <1>3
  <2> QED
    BY <2>2, <2>3
<1>5. ":" \notin ToSet(host)
  <2>1. ToSet(host) = {host[i] : i \in DOMAIN host} /\ DOMAIN host = 1..(p - 1)
    BY <1>4, LenProperties DEF ToSet
  <2> HIDE DEF host
  <2> QED
    BY <1>2, <1>4, <2>1
<1>6. DefaultPort \in IntRange
  BY HostAssumption DEF DefaultPort, IntRange
<1>7. /\ HasPort(s) <=> p <= Len(s)
      /\ PortText(s) = tail
  BY DEF HasPort, PortText, p
<1>8. parseHostPort(s) = [host |-> host, port |-> IF StatesPort(s) THEN stoi(tail) ELSE DefaultPort]
  BY <1>7 DEF parseHostPort, p
<1>9. StatesPort(s) <=> HasPort(s) /\ HasNumber(tail)
  BY <1>7 DEF StatesPort
<1>10. IsOutOfRange(s) <=> StatesPort(s) /\ stoi(tail) \notin IntRange
  BY <1>7 DEF IsOutOfRange
<1>11. CASE ~HasPort(s)
  <2>1. p - 1 = Len(s)
    BY <1>1, <1>2, <1>7, <1>11
  <2>2. host = s
    BY <2>1, SubSeqFull
  <2>3. parseHostPort(s) = [host |-> host, port |-> DefaultPort]
    BY <1>8, <1>9, <1>11
  <2> HIDE DEF host
  <2> QED
    BY <1>4, <1>5, <1>6, <1>9, <1>10, <1>11, <2>2, <2>3 DEF Names, Destination
<1>12. CASE HasPort(s)
  <2>1. p \in 1..Len(s) /\ s[p] = ":" /\ p \in 0..Len(s) /\ 1 \in 1..Len(s)
    BY <1>1, <1>2, <1>7, <1>12
  <2>2. host \o <<":">> = SubSeq(s, 1, p)
    <3>1. SubSeq(s, 1, p - 1) \o <<s[p]>> = SubSeq(s, 1, p)
      BY <2>1, SubSeqRecursiveSecond
    <3> QED
      BY <2>1, <3>1
  <2>3. IsPrefix(host \o <<":">>, s)
    BY <2>1, <2>2, BeginningIsPrefix
  <2>4. Behind(host, s) = tail
    <3>1. Len(host) + 2 = p + 1
      BY <1>3, <1>4
    <3> QED
      BY <3>1 DEF Behind
  <2>5. tail \in Seq(STRING)
    <3>1. p + 1 \in Int /\ Len(s) \in Int /\ \A i \in (p + 1)..Len(s) : s[i] \in STRING
      BY <1>1, <2>1
    <3> QED
      BY <3>1, SubSeqProperties
  <2>6. /\ HasNumber(tail) => stoi(tail) \in Stated(tail)
        /\ ~HasNumber(tail) => Stated(tail) = {}
    BY <2>5, StoiReads
  <2>7. host \in Prefixes(s)
    BY <1>3 DEF Prefixes
  <2> DEFINE o == parseHostPort(s)
             port == IF HasNumber(tail) THEN stoi(tail) ELSE DefaultPort
  <2>8. o = [host |-> host, port |-> port]
    BY <1>8, <1>9, <1>12
  <2> HIDE DEF o, port, host, tail
  <2>9. o.host = host /\ o.port = port
    BY <2>8
  <2>10. ASSUME ~IsOutOfRange(s) PROVE o \in Destination /\ Names(o, s)
    <3>1. port \in IntRange
      BY <1>6, <1>9, <1>10, <1>12, <2>10 DEF port
    <3>2. o \in Destination
      BY <1>4, <2>8, <3>1 DEF Destination
    <3>3. port \in Stated(tail) \/ (Stated(tail) = {} /\ port = DefaultPort)
      BY <2>6 DEF port
    <3> QED
      BY <1>5, <2>3, <2>4, <2>9, <3>1, <3>2, <3>3, Zenon DEF Names
  <2>11. ASSUME IsOutOfRange(s) PROVE NamesNoInt(s)
    <3>1. stoi(tail) \in Stated(tail) /\ stoi(tail) \notin IntRange
      BY <1>9, <1>10, <2>6, <2>11
    <3> QED
      BY <1>5, <2>3, <2>4, <2>7, <3>1, Zenon DEF NamesNoInt
  <2> QED
    BY <2>10, <2>11 DEF o
<1> QED
  BY <1>11, <1>12

-----------------------------------------------------------------------------
(* The cuts, and how many are before each.                                 *)

LEMMA CutsFacts ==
  ASSUME hostPorts \in Seq(STRING)
  PROVE  /\ Len(hostPorts) \in Nat /\ Cuts \subseteq 0..(Len(hostPorts) + 1)
         /\ 0 \in Cuts /\ Len(hostPorts) + 1 \in Cuts
         /\ \A c \in Cuts : c # 0 /\ c # Len(hostPorts) + 1 => hostPorts[c] = ","
         /\ \A c \in 1..Len(hostPorts) : hostPorts[c] = "," => c \in Cuts
<1>1. Len(hostPorts) \in Nat /\ DOMAIN hostPorts = 1..Len(hostPorts)
  BY LenProperties
<1>2. 0 \notin DOMAIN hostPorts /\ Len(hostPorts) + 1 \notin DOMAIN hostPorts
  BY <1>1
<1>3. \A c \in 0..(Len(hostPorts) + 1) : c # 0 /\ c # Len(hostPorts) + 1 => c \in DOMAIN hostPorts
  BY <1>1
<1>4. \A c \in 1..Len(hostPorts) : c \in 0..(Len(hostPorts) + 1)
  BY <1>1
<1>5. 0 \in 0..(Len(hostPorts) + 1) /\ Len(hostPorts) + 1 \in 0..(Len(hostPorts) + 1)
  BY <1>1
<1> QED
  BY <1>1, <1>2, <1>3, <1>4, <1>5 DEF Cuts

\* A set of numbers, and how many of them are below a number.
LEMMA Ranks ==
  ASSUME NEW l \in Nat, NEW S \in SUBSET (0..l)
  PROVE  /\ IsFiniteSet(S) /\ \A c \in S : Cardinality({d \in S : d < c}) \in Nat
         /\ \A c, e \in S : c < e => Cardinality({d \in S : d < c}) < Cardinality({d \in S : d < e})
         /\ \A c, e \in S : c < e /\ (\A d \in S : ~(c < d /\ d < e)) =>
              Cardinality({d \in S : d < e}) = Cardinality({d \in S : d < c}) + 1
         /\ \A c \in S : (\A d \in S : d <= c) => Cardinality(S) = Cardinality({d \in S : d < c}) + 1
         /\ \A c \in S : (\A d \in S : c <= d) => Cardinality({d \in S : d < c}) = 0
<1> DEFINE B(c) == {d \in S : d < c}
<1>1. IsFiniteSet(S)
  <2>1. IsFiniteSet(0..l)
    <3>1. 0 \in Int /\ l \in Int
      OBVIOUS
    <3> QED
      BY <3>1, FS_Interval
  <2> HIDE DEF B
  <2> QED
    BY <2>1, FS_Subset
<1>2. S \subseteq Int
  OBVIOUS
<1>3. \A c : B(c) \in SUBSET S /\ IsFiniteSet(B(c)) /\ Cardinality(B(c)) \in Nat
  BY <1>1, FS_Subset, FS_CardinalityType
<1>4. \A c : /\ IsFiniteSet(B(c) \cup {c})
             /\ Cardinality(B(c) \cup {c}) = IF c \in B(c) THEN Cardinality(B(c)) ELSE Cardinality(B(c)) + 1
  BY <1>3, FS_AddElement
<1>5. \A c \in S : c \notin B(c)
  BY <1>2
<1>6. \A c \in S : Cardinality(B(c) \cup {c}) = Cardinality(B(c)) + 1
  BY <1>4, <1>5
<1>7. ASSUME NEW c \in S, NEW e \in S, c < e PROVE Cardinality(B(c)) < Cardinality(B(e))
  <2>1. B(c) \cup {c} \in SUBSET B(e)
    <3>1. \A d \in S : d < c => d < e
      BY <1>2, <1>7
    <3> QED
      BY <1>7, <3>1
  <2>2. Cardinality(B(c) \cup {c}) <= Cardinality(B(e))
    BY <1>3, <2>1, FS_Subset
  <2> HIDE DEF B
  <2> QED
    BY <1>3, <1>6, <2>2
<1>8. ASSUME NEW c \in S, NEW e \in S, c < e, \A d \in S : ~(c < d /\ d < e)
      PROVE  Cardinality(B(e)) = Cardinality(B(c)) + 1
  <2>1. B(e) = B(c) \cup {c}
    <3>1. \A d \in S : d < e <=> d < c \/ d = c
      BY <1>2, <1>8
    <3> QED
      BY <3>1
  <2> QED
    BY <1>6, <2>1
<1>9. ASSUME NEW c \in S, \A d \in S : d <= c PROVE Cardinality(S) = Cardinality(B(c)) + 1
  <2>1. S = B(c) \cup {c}
    <3>1. \A d \in S : d < c \/ d = c
      BY <1>2, <1>9
    <3> QED
      BY <3>1
  <2> QED
    BY <1>6, <2>1
<1>10. ASSUME NEW c \in S, \A d \in S : c <= d PROVE Cardinality(B(c)) = 0
  <2>1. B(c) = {}
    <3>1. \A d \in S : ~(d < c)
      BY <1>2, <1>10
    <3> QED
      BY <3>1
  <2> QED
    BY <2>1, FS_EmptySet
<1> QED
  BY <1>1, <1>3, <1>7, <1>8, <1>9, <1>10

LEMMA BeforeFacts ==
  ASSUME hostPorts \in Seq(STRING)
  PROVE  /\ \A c \in Cuts : Before(c) \in Nat /\ Cut(Before(c)) = c
         /\ \A c, e \in Cuts : c < e => Before(c) < Before(e)
         /\ \A c, e \in Cuts : c < e /\ (\A d \in Cuts : ~(c < d /\ d < e)) => Before(e) = Before(c) + 1
         /\ Cardinality(Cuts) - 1 = Before(Len(hostPorts) + 1)
         /\ Before(0) = 0
<1> DEFINE l == Len(hostPorts) + 1
<1>1. l \in Nat /\ Cuts \in SUBSET (0..l) /\ 0 \in Cuts /\ l \in Cuts
  <2>1. Len(hostPorts) \in Nat /\ Cuts \subseteq 0..l /\ 0 \in Cuts /\ l \in Cuts
    BY CutsFacts
  <2> HIDE DEF Cuts
  <2> QED
    BY <2>1
<1> HIDE DEF l
<1>2. /\ \A c \in Cuts : Before(c) \in Nat
      /\ \A c, e \in Cuts : c < e => Before(c) < Before(e)
      /\ \A c, e \in Cuts : c < e /\ (\A d \in Cuts : ~(c < d /\ d < e)) => Before(e) = Before(c) + 1
      /\ \A c \in Cuts : (\A d \in Cuts : d <= c) => Cardinality(Cuts) = Before(c) + 1
      /\ \A c \in Cuts : (\A d \in Cuts : c <= d) => Before(c) = 0
  <2> HIDE DEF Cuts
  <2> QED
    BY <1>1, Ranks DEF Before
<1>3. ASSUME NEW c \in Cuts PROVE Cut(Before(c)) = c
  <2> DEFINE x == Cut(Before(c))
  <2>1. \E e \in Cuts : Before(e) = Before(c)
    OBVIOUS
  <2>2. x = CHOOSE e \in Cuts : Before(e) = Before(c)
    BY DEF Cut, Before
  <2> HIDE DEF x
  <2>3. x \in Cuts /\ Before(x) = Before(c)
    BY <2>1, <2>2
  <2>4. x \in Int /\ c \in Int
    BY <1>1, <2>3
  <2>5. ~(x < c) /\ ~(c < x)
    BY <1>2, <2>3
  <2> QED
    BY <2>4, <2>5 DEF x
<1>4. Cardinality(Cuts) = Before(l) + 1 /\ Before(l) \in Nat
  BY <1>1, <1>2
<1>5. Cardinality(Cuts) - 1 = Before(l)
  BY <1>4
<1>6. Before(0) = 0
  BY <1>1, <1>2
<1> QED
  BY <1>2, <1>3, <1>5, <1>6 DEF l

\* What find_first_of finds behind a cut is the next one.
Following(c) == FindFirst(hostPorts, ",", c + 1)

LEMMA NextCut ==
  ASSUME hostPorts \in Seq(STRING), NEW c \in Cuts, c # Len(hostPorts) + 1,
         NEW e, e = Following(c)
  PROVE  /\ c \in Nat /\ e \in Cuts /\ e \in Nat /\ c < e /\ e <= Len(hostPorts) + 1
         /\ Before(e) = Before(c) + 1 /\ Before(c) \in Nat
         /\ Before(c) + 1 \in 1..(Cardinality(Cuts) - 1)
         /\ Entries[Before(c) + 1] = SubSeq(hostPorts, c + 1, e - 1)
<1>1. /\ Len(hostPorts) \in Nat /\ c \in 0..(Len(hostPorts) + 1) /\ Len(hostPorts) + 1 \in Cuts
      /\ Cuts \subseteq 0..(Len(hostPorts) + 1)
  BY CutsFacts
<1>2. c \in Nat /\ c + 1 \in Nat /\ c + 1 >= 1 /\ c + 1 <= Len(hostPorts) + 1
  BY <1>1
<1>3. /\ e \in (c + 1)..(Len(hostPorts) + 1)
      /\ e = Len(hostPorts) + 1 \/ hostPorts[e] = ","
      /\ \A k \in (c + 1)..(e - 1) : hostPorts[k] # ","
  BY <1>2, FindFirstFacts DEF Following
<1>4. e \in Nat /\ c < e /\ e <= Len(hostPorts) + 1
  <2>1. e \in (c + 1)..(Len(hostPorts) + 1)
    BY <1>3
  <2> QED
    BY <1>1, <1>2, <2>1
<1>5. e \in Cuts
  <2>1. CASE e = Len(hostPorts) + 1
    BY <1>1, <2>1
  <2>2. CASE e # Len(hostPorts) + 1
    <3>1. e \in 1..Len(hostPorts)
      BY <1>1, <1>2, <1>4, <2>2
    <3>2. hostPorts[e] = ","
      BY <1>3, <2>2
    <3> QED
      BY <3>1, <3>2, CutsFacts
  <2> QED
    BY <2>1, <2>2
<1>6. ASSUME NEW d \in Cuts, c < d, d < e PROVE FALSE
  <2>1. d \in (c + 1)..(e - 1) /\ d # 0 /\ d # Len(hostPorts) + 1
    BY <1>1, <1>2, <1>4, <1>6
  <2>2. hostPorts[d] = ","
    BY <2>1, CutsFacts
  <2> QED
    BY <1>3, <2>1, <2>2
<1>7. /\ Before(e) = Before(c) + 1 /\ Before(c) \in Nat /\ Before(e) \in Nat
      /\ Cut(Before(c)) = c /\ Cut(Before(e)) = e
      /\ Cardinality(Cuts) - 1 = Before(Len(hostPorts) + 1) /\ Before(Len(hostPorts) + 1) \in Nat
  BY <1>1, <1>4, <1>5, <1>6, BeforeFacts
<1>8. Before(e) <= Before(Len(hostPorts) + 1)
  <2>1. e = Len(hostPorts) + 1 \/ e < Len(hostPorts) + 1
    BY <1>1, <1>4
  <2>2. e < Len(hostPorts) + 1 => Before(e) < Before(Len(hostPorts) + 1)
    BY <1>1, <1>5, BeforeFacts
  <2> QED
    BY <1>7, <2>1, <2>2
<1> DEFINE n == Before(c)
           K == Cardinality(Cuts) - 1
<1>9. n \in Nat /\ n + 1 \in 1..K /\ (n + 1) - 1 = n /\ Cut(n) = c /\ Cut(n + 1) = e
  BY <1>7, <1>8
<1>10. Entries = [i \in 1..K |-> SubSeq(hostPorts, Cut(i - 1) + 1, Cut(i) - 1)]
  BY DEF Entries
<1> HIDE DEF n, K
<1>11. Entries[n + 1] = SubSeq(hostPorts, c + 1, e - 1)
  BY <1>9, <1>10
<1> QED
  BY <1>2, <1>4, <1>5, <1>7, <1>9, <1>11 DEF n, K

-----------------------------------------------------------------------------
(* The loop.                                                               *)

LEMMA HostInvInit == HostInit => HostInv
<1> SUFFICES ASSUME HostInit PROVE HostInv
  OBVIOUS
<1>0. hostPorts \in HostLists /\ start = 1 /\ destinations = <<>> /\ loading = "loop"
  BY DEF HostInit
<1>1. hostPorts \in Seq(STRING) /\ start - 1 = 0
  BY <1>0, HostAssumption
<1>2. /\ <<>> \in Seq(Destination)
      /\ Len(destinations) = 0 /\ DOMAIN destinations = {}
  BY <1>0, EmptySeq
<1>3. 0 \in Cuts /\ Before(0) = 0
  BY <1>1, CutsFacts, BeforeFacts
<1> QED
  <2>1. end = FindFirst(hostPorts, ",", start) /\ loading # "returned"
    BY DEF HostInit
  <2>5. loading # "out_of_range"
    BY <1>0
  <2>2. start \in Nat
    BY <1>0
  <2>3. start - 1 \in Cuts /\ Len(destinations) = Before(start - 1)
    BY <1>1, <1>2, <1>3, Zenon
  <2>4. destinations \in Seq(Destination)
    BY <1>0, <1>2, Zenon
  <2> QED
    BY <1>0, <1>1, <1>2, <2>1, <2>2, <2>3, <2>4, <2>5, Zenon DEF HostInv

LEMMA HostInvStep ==
  ASSUME HostInv, [HostNext]_hostVars
  PROVE  HostInv'
<1> DEFINE n == Len(destinations)
<1>0. /\ end = FindFirst(hostPorts, ",", start)
      /\ loading = "returned" => start >= end
      /\ loading = "out_of_range" => n < Len(Entries) /\ NamesNoInt(Entries[n + 1])
  BY DEF HostInv
<1>1. /\ hostPorts \in Seq(STRING) /\ destinations \in Seq(Destination)
      /\ start \in Nat /\ start - 1 \in Cuts /\ n = Before(start - 1)
      /\ \A i \in DOMAIN destinations : Entries[i] # <<>> /\ Names(destinations[i], Entries[i])
  BY DEF HostInv
<1>2. ASSUME start < end
      PROVE  /\ end \in Cuts /\ end \in Nat /\ Before(end) = n + 1 /\ n \in Nat
             /\ Entries[n + 1] = Entry /\ n < Len(Entries)
             /\ Entry \in Seq(STRING) /\ Entry # <<>>
  <2> DEFINE c == start - 1
  <2>1. Len(hostPorts) \in Nat /\ c \in 0..(Len(hostPorts) + 1) /\ c + 1 = start /\ c \in Cuts
    <3>1. Len(hostPorts) \in Nat /\ Cuts \subseteq 0..(Len(hostPorts) + 1)
      BY <1>1, CutsFacts
    <3> QED
      BY <1>1, <3>1
  <2>2. c # Len(hostPorts) + 1
    <3>1. ASSUME c = Len(hostPorts) + 1 PROVE FALSE
      <4>1. start = Len(hostPorts) + 2
        BY <2>1, <3>1
      <4>2. end = Len(hostPorts) + 1
        BY <1>0, <1>1, <4>1, FindNothing
      <4>3. start < end
        BY <1>2
      <4> QED
        BY <2>1, <4>1, <4>2, <4>3
    <3> QED
      BY <3>1
  <2>3. /\ c \in Nat /\ end \in Cuts /\ end \in Nat /\ end <= Len(hostPorts) + 1
        /\ Before(end) = n + 1 /\ n \in Nat
        /\ Entries[n + 1] = Entry /\ n < Len(Entries)
    <3>1. end = Following(c) /\ c \in Cuts /\ Before(c) = n
      BY <1>0, <1>1, <2>1 DEF Following
    <3> HIDE DEF c, n
    <3>2. /\ c \in Nat /\ end \in Cuts /\ end \in Nat /\ end <= Len(hostPorts) + 1
          /\ Before(end) = Before(c) + 1 /\ Before(c) \in Nat
          /\ Before(c) + 1 \in 1..(Cardinality(Cuts) - 1)
          /\ Entries[Before(c) + 1] = SubSeq(hostPorts, c + 1, end - 1)
      BY <1>1, <2>2, <3>1, NextCut
    <3>3. Cardinality(Cuts) - 1 \in Nat
      BY <1>1, BeforeFacts, CutsFacts
    <3>4. Len(Entries) = Cardinality(Cuts) - 1
      BY <3>3 DEF Entries
    <3>5. Before(c) < Len(Entries)
      BY <3>2, <3>3, <3>4
    <3> QED
      BY <2>1, <3>1, <3>2, <3>5 DEF Entry
  <2>4. Entry \in Seq(STRING) /\ Entry # <<>>
    <3> DEFINE m == end - start
    <3>0. end \in Nat /\ start < end /\ end <= Len(hostPorts) + 1 /\ start \in Nat
      BY <1>1, <1>2, <2>3
    <3>1. m \in Nat /\ c + m <= Len(hostPorts) /\ c + m = end - 1 /\ m # 0
      BY <2>1, <3>0
    <3> HIDE DEF m, c
    <3>2. SubSeq(hostPorts, c + 1, c + m) \in Seq(STRING) /\ Len(SubSeq(hostPorts, c + 1, c + m)) = m
      <4>1. hostPorts \in Seq(STRING) /\ c \in Nat /\ m \in Nat /\ c + m <= Len(hostPorts)
        BY <1>1, <2>3, <3>1
      <4> QED
        BY <4>1, PartFacts
    <3>3. Entry \in Seq(STRING) /\ Len(Entry) = m
      BY <2>1, <3>1, <3>2 DEF Entry
    <3> QED
      BY <3>1, <3>3, EmptySeq
  <2> QED
    BY <2>3, <2>4
<1>3. CASE LoadEntry /\ ~IsOutOfRange(Entry) /\ loading = "loop"
  <2>0. /\ end' = FindFirst(hostPorts, ",", end + 1)
        /\ UNCHANGED <<hostPorts, loading>>
    BY <1>3 DEF LoadEntry, NextEntry
  <2>1. /\ destinations' = Append(destinations, parseHostPort(Entry))
        /\ start < end /\ start' = end + 1
    BY <1>3 DEF LoadEntry, NextEntry
  <2>2. /\ end \in Cuts /\ end \in Nat /\ Before(end) = n + 1 /\ n \in Nat
        /\ Entries[n + 1] = Entry /\ Entry \in Seq(STRING) /\ Entry # <<>>
    BY <1>2, <2>1
  <2>6. parseHostPort(Entry) \in Destination /\ Names(parseHostPort(Entry), Entry)
    BY <1>3, <2>2, ParsedHostPort
  <2>7. /\ destinations' \in Seq(Destination) /\ Len(destinations') = n + 1
        /\ \A i \in 1..n : destinations'[i] = destinations[i]
        /\ destinations'[n + 1] = parseHostPort(Entry)
    BY <1>1, <2>1, <2>6, AppendProperties
  <2>8. DOMAIN destinations' = 1..(n + 1) /\ DOMAIN destinations = 1..n
    BY <1>1, <2>2, <2>7, LenProperties
  <2> HIDE DEF n
  <2>9. ASSUME NEW i \in DOMAIN destinations'
        PROVE  Entries[i] # <<>> /\ Names(destinations'[i], Entries[i])
    <3>1. i \in 1..n \/ i = n + 1
      BY <2>2, <2>8
    <3>2. CASE i \in 1..n
      BY <1>1, <2>7, <2>8, <3>2
    <3>3. CASE i = n + 1
      BY <2>2, <2>6, <2>7, <3>3
    <3> QED
      BY <3>1, <3>2, <3>3
  <2>10. Entries' = Entries /\ Cuts' = Cuts
    <3>1. hostPorts' = hostPorts
      BY <2>0
    <3>2. Cuts' = Cuts
      BY <3>1 DEF Cuts
    <3>3. \A i : Cut(i)' = Cut(i)
      BY <3>2 DEF Cut
    <3> QED
      BY <3>1, <3>2, <3>3 DEF Entries
  <2>11. start' - 1 = end
    <3>1. end \in Nat /\ start' = end + 1
      BY <2>1, <2>2
    <3> QED
      BY <3>1
  <2>12. Before(start - 1)' = Before(end)
    BY <2>10, <2>11 DEF Before
  <2> QED
    <3>1. (hostPorts \in Seq(STRING))' /\ (start \in Nat)'
      <4>1. end \in Nat /\ start' = end + 1
        BY <2>1, <2>2
      <4>2. start' \in Nat
        BY <4>1
      <4>3. hostPorts' = hostPorts
        BY <2>0
      <4> QED
        BY <1>1, <4>2, <4>3, Zenon
    <3>2. (start - 1 \in Cuts)'
      BY <2>2, <2>10, <2>11, Zenon
    <3>3. (end = FindFirst(hostPorts, ",", start))'
      BY <2>0, <2>1, Zenon
    <3>4. (Len(destinations) = Before(start - 1))'
      BY <2>2, <2>7, <2>12, Zenon
    <3>5. (\A i \in DOMAIN destinations : Entries[i] # <<>> /\ Names(destinations[i], Entries[i]))'
      BY <2>9, <2>10, Zenon
    <3>6. (loading # "returned" /\ loading # "out_of_range")'
      BY <1>3, <2>0
    <3> QED
      BY <2>7, <3>1, <3>2, <3>3, <3>4, <3>5, <3>6, Zenon DEF HostInv
<1>4. ASSUME UNCHANGED <<hostPorts, start, end, destinations>>,
             loading' = "returned" => start >= end,
             loading' = "out_of_range" => n < Len(Entries) /\ NamesNoInt(Entries[n + 1])
      PROVE  HostInv'
  <2>1. Cuts' = Cuts
    BY <1>4 DEF Cuts
  <2>2. Entries' = Entries
    <3>1. \A i : Cut(i)' = Cut(i)
      BY <2>1 DEF Cut
    <3> QED
      BY <1>4, <2>1, <3>1 DEF Entries
  <2>3. Before(start - 1)' = Before(start - 1)
    BY <1>4, <2>1 DEF Before
  <2> QED
    BY <1>0, <1>1, <1>4, <2>1, <2>2, <2>3 DEF HostInv
<1>5. CASE LoadEntry /\ IsOutOfRange(Entry)
  <2>1. UNCHANGED <<hostPorts, start, end, destinations>> /\ loading' = "out_of_range" /\ start < end
    BY <1>5 DEF LoadEntry
  <2>2. n < Len(Entries) /\ NamesNoInt(Entries[n + 1])
    BY <1>2, <1>5, <2>1, ParsedHostPort
  <2> HIDE DEF n
  <2> QED
    BY <1>4, <2>1, <2>2
<1>6. CASE LoadEnd
  BY <1>4, <1>6 DEF LoadEnd
<1>7. CASE UNCHANGED hostVars
  BY <1>0, <1>4, <1>7 DEF hostVars
<1> QED
  BY <1>3, <1>5, <1>6, <1>7 DEF HostNext, LoadEntry

\* However long the list, whatever stands in it and whatever the range of int:
\* each entry before the first empty one, or before the first whose port is no
\* int, gets the object that it names, in order, and nothing else does
\* (UpdateFactory.cpp:435-472).
THEOREM HostsExact == HostSpec => []HostsAreExact
<1>1. HostSpec => []HostInv
  BY HostInvInit, HostInvStep, PTL DEF HostSpec
<1>2. HostInv => HostsAreExact
  <2> DEFINE n == Len(destinations)
             K == Cardinality(Cuts) - 1
             c == start - 1
             empty == {i \in DOMAIN Entries : Entries[i] = <<>>}
  <2> SUFFICES ASSUME HostInv
               PROVE  /\ loading = "returned" => n + 1 \in empty \cup {Len(Entries) + 1}
                      /\ n <= Len(Entries)
                      /\ \A i \in empty : n < i
    BY DEF HostsAreExact, HostInv
  <2>0. end = FindFirst(hostPorts, ",", start) /\ (loading = "returned" => start >= end)
    BY DEF HostInv
  <2>1. /\ hostPorts \in Seq(STRING) /\ c \in Cuts
        /\ n = Before(c) /\ start \in Nat
        /\ \A i \in DOMAIN destinations : Entries[i] # <<>> /\ Names(destinations[i], Entries[i])
        /\ destinations \in Seq(Destination)
    BY DEF HostInv
  <2>11. c + 1 = start
    BY <2>1
  <2>2. DOMAIN destinations = 1..n /\ n \in Nat
    BY <2>1, LenProperties
  <2>3. K = Before(Len(hostPorts) + 1) /\ K \in Nat
    BY <2>1, BeforeFacts, CutsFacts
  <2>4. DOMAIN Entries = 1..K /\ Len(Entries) = K
    <3>1. Entries = [i \in 1..K |-> SubSeq(hostPorts, Cut(i - 1) + 1, Cut(i) - 1)]
      BY DEF Entries
    <3> HIDE DEF K
    <3> QED
      BY <2>3, <3>1
  <2> HIDE DEF K, n, c
  <2>5. CASE c = Len(hostPorts) + 1
    <3>1. n = K
      BY <2>1, <2>3, <2>5
    <3>2. ASSUME NEW i \in empty PROVE FALSE
      BY <2>1, <2>2, <2>4, <3>1
    <3> QED
      BY <2>1, <2>3, <2>4, <3>1, <3>2
  <2>6. CASE c # Len(hostPorts) + 1
    <3>1. end = Following(c)
      BY <2>0, <2>11 DEF Following
    <3>2. /\ c \in Nat /\ end \in Nat /\ c < end
          /\ n + 1 \in 1..K /\ Entries[n + 1] = SubSeq(hostPorts, c + 1, end - 1)
      BY <2>1, <2>6, <3>1, NextCut DEF K
    <3>3. ASSUME loading = "returned" PROVE Entries[n + 1] = <<>>
      <4>1. start >= end
        BY <2>0, <3>3
      <4>2. c + 1 \in Int /\ end - 1 \in Int /\ end - 1 < c + 1
        BY <2>11, <3>2, <4>1
      <4> QED
        BY <3>2, <4>2, SubSeqEmpty
    <3>5. ASSUME NEW i \in empty PROVE n < i
      <4>1. i \in 1..K /\ i \notin 1..n
        BY <2>1, <2>2, <2>4
      <4> QED
        BY <2>2, <2>3, <4>1
    <3>6. loading = "returned" => n + 1 \in empty
      BY <2>4, <3>2, <3>3
    <3>7. n <= K
      BY <2>2, <2>3, <3>2
    <3> QED
      BY <2>1, <2>4, <3>5, <3>6, <3>7
  <2> QED
    BY <2>5, <2>6
<1> QED
  BY <1>1, <1>2, PTL

-----------------------------------------------------------------------------
(* What the operators of LineReader return.                                *)

LEMMA ReaderTypes ==
  ASSUME ReaderTypeOK
  PROVE  /\ block_len \in Nat /\ block_len > 1
         /\ file \in Seq(Byte) /\ Len(file) \in Nat /\ pos \in Nat /\ pos <= Len(file)
         /\ \A i \in 1..Len(file) : file[i] \in Byte /\ file[i] \in Cell
         /\ buffer \in [Address -> Cell] /\ \A i \in Address : buffer[i] \in Cell
         /\ data_begin \in Nat /\ data_end \in Nat
         /\ desired_byte_count \in {-1, block_len}
         /\ read_byte_count \in Int /\ (read_byte_count # -1 => read_byte_count \in Nat)
         /\ read_byte_count <= block_len
<1>1. block_len \in Nat /\ block_len > 1
  BY LineReaderAssumption
<1>2. file \in Seq(Byte) /\ Len(file) \in Nat /\ \A i \in 1..Len(file) : file[i] \in Byte
  BY LenProperties, ElementOfSeq DEF ReaderTypeOK
<1>3. Byte \subseteq Cell
  BY DEF Cell
<1>4. buffer \in [Address -> Cell]
  BY DEF ReaderTypeOK
<1>5. read_byte_count \in -1..block_len /\ pos \in 0..Len(file)
      /\ data_begin \in 0..(2 * block_len + 1) /\ data_end \in 0..(2 * block_len + 1)
  BY DEF ReaderTypeOK
<1> QED
  BY <1>1, <1>2, <1>3, <1>4, <1>5 DEF ReaderTypeOK

LEMMA ReadCountFacts ==
  ASSUME ReaderTypeOK, NEW n \in Nat
  PROVE  /\ ReadCount(n) \in Nat /\ ReadCount(n) <= n /\ pos + ReadCount(n) <= Len(file)
         /\ ReadCount(n) = n \/ pos + ReadCount(n) = Len(file)
<1>1. Len(file) \in Nat /\ pos \in Nat /\ pos <= Len(file)
  BY ReaderTypes
<1> QED
  BY <1>1 DEF ReadCount

\* The system's read puts what comes next where it is told, and nothing else.
LEMMA ReadIntoFacts ==
  ASSUME ReaderTypeOK, NEW at \in Nat, NEW n \in Nat, at + n <= 3 * block_len
  PROVE  /\ ReadInto(at, n) \in [Address -> Cell]
         /\ \A i \in Address : i < at => ReadInto(at, n)[i] = buffer[i]
         /\ \A j \in 0..(ReadCount(n) - 1) :
              at + j \in Address /\ ReadInto(at, n)[at + j] = file[pos + j + 1]
<1>1. /\ Len(file) \in Nat /\ pos \in Nat /\ pos <= Len(file) /\ block_len \in Nat
      /\ \A i \in 1..Len(file) : file[i] \in Cell
      /\ \A i \in Address : buffer[i] \in Cell
  BY ReaderTypes
<1>2. ReadCount(n) \in Nat /\ ReadCount(n) <= n /\ pos + ReadCount(n) <= Len(file)
  BY ReadCountFacts
<1> DEFINE c == ReadCount(n)
           cell(i) == IF i \in at..(at + c - 1) THEN file[pos + 1 + i - at] ELSE buffer[i]
<1>3. ReadInto(at, n) = [i \in Address |-> cell(i)]
  BY DEF ReadInto
<1> HIDE DEF c
<1>4. c \in Nat /\ c <= n /\ pos + c <= Len(file)
  BY <1>2 DEF c
<1>5. ASSUME NEW i \in Address PROVE cell(i) \in Cell
  <2>1. i \in Nat
    BY <1>1 DEF Address
  <2>2. CASE i \in at..(at + c - 1)
    <3>1. pos + 1 + i - at \in 1..Len(file)
      BY <1>1, <1>4, <2>1, <2>2
    <3> QED
      BY <1>1, <2>2, <3>1
  <2>3. CASE i \notin at..(at + c - 1)
    BY <1>1, <2>3
  <2> QED
    BY <2>2, <2>3
<1>6. ASSUME NEW i \in Address, i < at PROVE ReadInto(at, n)[i] = buffer[i]
  <2>1. i \notin at..(at + c - 1)
    BY <1>1, <1>4, <1>6 DEF Address
  <2> QED
    BY <1>3, <2>1
<1>7. ASSUME NEW j \in 0..(c - 1)
      PROVE  at + j \in Address /\ ReadInto(at, n)[at + j] = file[pos + j + 1]
  <2>1. at + j \in Address /\ at + j \in at..(at + c - 1) /\ pos + 1 + (at + j) - at = pos + j + 1
    BY <1>1, <1>4 DEF Address
  <2> QED
    BY <1>3, <2>1
<1> HIDE DEF cell
<1>8. ReadInto(at, n) \in [Address -> Cell]
  BY <1>3, <1>5
<1> QED
  BY <1>6, <1>7, <1>8 DEF c

LEMMA MemcpyFacts ==
  ASSUME ReaderTypeOK, NEW to \in Nat, NEW from \in Nat,
         to + block_len <= 3 * block_len, from + block_len <= 3 * block_len
  PROVE  /\ Memcpy(to, from) \in [Address -> Cell]
         /\ \A i \in Address : i < to \/ i >= to + block_len => Memcpy(to, from)[i] = buffer[i]
         /\ \A j \in 0..(block_len - 1) :
              /\ to + j \in Address /\ from + j \in Address
              /\ Memcpy(to, from)[to + j] = buffer[from + j]
<1>1. block_len \in Nat /\ \A i \in Address : buffer[i] \in Cell
  BY ReaderTypes
<1> DEFINE cell(i) == IF i \in to..(to + block_len - 1) THEN buffer[i - to + from] ELSE buffer[i]
<1>2. Memcpy(to, from) = [i \in Address |-> cell(i)]
  BY DEF Memcpy
<1>3. ASSUME NEW i \in Address PROVE cell(i) \in Cell
  <2>1. i \in Nat
    BY <1>1 DEF Address
  <2>2. CASE i \in to..(to + block_len - 1)
    <3>1. i - to + from \in Address
      BY <1>1, <2>1, <2>2 DEF Address
    <3> QED
      BY <1>1, <2>2, <3>1
  <2>3. CASE i \notin to..(to + block_len - 1)
    BY <1>1, <2>3
  <2> QED
    BY <2>2, <2>3
<1>4. ASSUME NEW i \in Address, i < to \/ i >= to + block_len
      PROVE  Memcpy(to, from)[i] = buffer[i]
  <2>1. i \notin to..(to + block_len - 1)
    BY <1>1, <1>4 DEF Address
  <2> QED
    BY <1>2, <2>1
<1>5. ASSUME NEW j \in 0..(block_len - 1)
      PROVE  /\ to + j \in Address /\ from + j \in Address
             /\ Memcpy(to, from)[to + j] = buffer[from + j]
  <2>1. /\ to + j \in Address /\ from + j \in Address
        /\ to + j \in to..(to + block_len - 1) /\ (to + j) - to + from = from + j
    BY <1>1 DEF Address
  <2> QED
    BY <1>2, <2>1
<1> HIDE DEF cell
<1>6. Memcpy(to, from) \in [Address -> Cell]
  BY <1>2, <1>3
<1> QED
  BY <1>4, <1>5, <1>6

\* The search for a LF ends at the first one, or behind the data.
LEMMA LineEndFacts ==
  ASSUME data_begin \in Nat, data_end \in Nat, data_begin <= data_end
  PROVE  /\ line_end \in data_begin..data_end
         /\ line_end = data_end \/ buffer[line_end] = "LF"
         /\ \A i \in data_begin..(line_end - 1) : buffer[i] # "LF"
<1> DEFINE T == {e \in data_begin..data_end : e = data_end \/ buffer[e] = "LF"}
<1>1. T \subseteq Nat /\ data_end \in T
  OBVIOUS
<1>2. Min(T) \in T /\ \A y \in T : Min(T) <= y
  BY <1>1, MinIsLeast
<1> DEFINE e == Min(T)
<1>3. e \in data_begin..data_end /\ (e = data_end \/ buffer[e] = "LF") /\ \A y \in T : e <= y
  BY <1>2
<1> HIDE DEF e
<1>4. ASSUME NEW i \in data_begin..(e - 1) PROVE buffer[i] # "LF"
  <2>1. i \in data_begin..data_end /\ ~(e <= i)
    BY <1>3
  <2> QED
    BY <1>3, <2>1
<1> HIDE DEF T
<1> QED
  BY <1>3, <1>4 DEF line_end

LEMMA WithoutCRType ==
  ASSUME NEW S, NEW s \in Seq(S)
  PROVE  WithoutCR(s) \in Seq(S)
<1>1. CASE s # <<>>
  <2>1. Len(s) \in Nat /\ Len(s) # 0 /\ \A i \in 1..Len(s) : s[i] \in S
    BY <1>1, EmptySeq, LenProperties, ElementOfSeq
  <2>2. \A i \in 1..(Len(s) - 1) : s[i] \in S
    BY <2>1
  <2>3. SubSeq(s, 1, Len(s) - 1) \in Seq(S)
    BY <2>1, <2>2, SubSeqProperties
  <2> QED
    BY <2>3 DEF WithoutCR, Front
<1>2. CASE s = <<>>
  BY <1>2 DEF WithoutCR
<1> QED
  BY <1>1, <1>2

-----------------------------------------------------------------------------
(* The steps of the two threads.                                           *)

LEMMA LineTypes ==
  /\ {NoLine, EndOfFile, TooLong} \subseteq [kind : {"none", "eof", "long", "line"}, text : Seq(Cell)]
  /\ \A s \in Seq(Cell) : Line(s) \in [kind : {"none", "eof", "long", "line"}, text : Seq(Cell)]
<1>1. <<>> \in Seq(Cell)
  BY EmptySeq
<1> QED
  BY <1>1 DEF NoLine, EndOfFile, TooLong, Line

LEMMA ReaderInvInit == ReaderInit => ReaderInv
<1> SUFFICES ASSUME ReaderInit PROVE ReaderInv
  OBVIOUS
<1>1. /\ block_len \in Nat /\ block_len > 1 /\ file \in Seq(Byte) /\ Len(file) \in Nat
      /\ <<>> \in Seq(Cell) /\ "uninitialized" \in Cell
  BY LineReaderAssumption, LenProperties, EmptySeq DEF ReaderInit, Cell
<1>2. ReaderTypeOK
  <2>1. /\ pos \in 0..Len(file) /\ file_line \in Nat /\ read_byte_count \in -1..block_len
        /\ data_begin \in 0..(2 * block_len + 1) /\ data_end \in 0..(2 * block_len + 1)
    BY <1>1 DEF ReaderInit
  <2>2. buffer \in [Address -> Cell]
    BY <1>1 DEF ReaderInit
  <2>3. line \in [kind : {"none", "eof", "long", "line"}, text : Seq(Cell)]
    BY LineTypes DEF ReaderInit
  <2> QED
    BY <1>1, <2>1, <2>2, <2>3 DEF ReaderInit, ReaderTypeOK
<1>3. CallInv /\ AskedInv
  BY DEF ReaderInit, CallInv, AskedInv
<1>4. PlaceInv
  BY DEF ReaderInit, PlaceInv
<1>5. DataInv
  BY DEF ReaderInit, DataInv
<1>6. ThirdBlockInv
  BY DEF ReaderInit, ThirdBlockInv
<1> QED
  BY <1>2, <1>3, <1>4, <1>5, <1>6 DEF ReaderInv, ReaderInit

LEMMA ConstructStep ==
  ASSUME ReaderInv, Construct
  PROVE  ReaderInv'
<1> DEFINE c == ReadCount(2 * block_len)
<1>1. /\ pc = "init" /\ pos = 0 /\ base = 0 /\ thread = "none" /\ line = NoLine
      /\ desired_byte_count = -1 /\ read_byte_count = -1 /\ termination_requested = FALSE
      /\ ReaderTypeOK
  BY DEF Construct, ReaderInv, CallInv, AskedInv, ReaderTypeOK
<1>2. /\ buffer' = ReadInto(0, 2 * block_len) /\ data_end' = c /\ pos' = c /\ pc' = "idle"
      /\ data_begin' = (IF data_end' >= 3 /\ \A i \in 1..3 : buffer'[i - 1] = ByteOrderMark[i] THEN 3 ELSE 0)
      /\ UNCHANGED <<file, file_line, line, base>>
  BY DEF Construct
<1>3. /\ block_len \in Nat /\ block_len > 1 /\ Len(file) \in Nat /\ 2 * block_len \in Nat
      /\ 0 + 2 * block_len <= 3 * block_len /\ 0 \in Nat
  BY <1>1, ReaderTypes
<1>4. /\ c \in Nat /\ c <= 2 * block_len /\ c <= Len(file)
      /\ c = 2 * block_len \/ c = Len(file)
  BY <1>1, <1>3, ReadCountFacts
<1>5. /\ buffer' \in [Address -> Cell]
      /\ \A j \in 0..(c - 1) : 0 + j \in Address /\ buffer'[0 + j] = file[pos + j + 1]
  BY <1>1, <1>2, <1>3, ReadIntoFacts
<1> HIDE DEF c
<1>6. data_begin' \in {0, 3} /\ data_begin' <= c /\ data_begin' < 2 * block_len
  BY <1>2, <1>3, <1>4
<1>7. IF c = 2 * block_len
        THEN desired_byte_count' = block_len /\ thread' = "waiting"
        ELSE desired_byte_count' = -1 /\ thread' = "none"
  BY <1>1, <1>2 DEF Construct, start_read, requestVars
<1>8. read_byte_count' = -1 /\ termination_requested' = FALSE
  BY <1>1, <1>2 DEF Construct, start_read, requestVars
<1>9. ReaderTypeOK'
  <2>1. pos' \in 0..Len(file) /\ data_end' \in 0..(2 * block_len + 1) /\ read_byte_count' \in -1..block_len
    BY <1>2, <1>3, <1>4, <1>8
  <2>2. data_begin' \in 0..(2 * block_len + 1)
    BY <1>3, <1>6
  <2> QED
    BY <1>1, <1>2, <1>5, <1>7, <1>8, <2>1, <2>2 DEF ReaderTypeOK
<1>10. CallInv' /\ base' \in Nat
  BY <1>1, <1>2 DEF CallInv
<1>11. AskedInv'
  BY <1>2, <1>7, <1>8 DEF AskedInv
<1>12. PlaceInv'
  <2>1. base' + data_end' = pos' - 0 /\ (data_end' = 2 * block_len \/ base' + data_end' = Len(file))
    BY <1>1, <1>2, <1>4
  <2>2. thread' = "none" => base' + data_end' = Len(file)
    BY <1>1, <1>2, <1>4, <1>7
  <2> QED
    BY <1>2, <1>4, <1>6, <1>8, <2>1, <2>2 DEF PlaceInv
<1>13. DataInv'
  <2>1. ASSUME NEW i \in data_begin'..(data_end' - 1) PROVE buffer'[i] = file'[base' + i + 1]
    <3>1. i \in 0..(c - 1) /\ 0 + i = i
      BY <1>2, <1>4, <1>6
    <3> QED
      BY <1>1, <1>2, <1>5, <3>1
  <2> QED
    BY <2>1 DEF DataInv
<1>14. ThirdBlockInv'
  BY <1>8 DEF ThirdBlockInv
<1> QED
  BY <1>9, <1>10, <1>11, <1>12, <1>13, <1>14 DEF ReaderInv

LEMMA ThreadReadStep ==
  ASSUME ReaderInv, ThreadRead
  PROVE  ReaderInv'
<1> DEFINE c == ReadCount(block_len)
<1>1. /\ ReaderTypeOK /\ AskedInv /\ PlaceInv /\ DataInv /\ CallInv /\ base \in Nat
  BY DEF ReaderInv
<1>2. /\ desired_byte_count = block_len /\ read_byte_count = -1 /\ thread = "waiting" /\ pc # "copy"
      /\ block_len \in Nat /\ block_len > 1 /\ Len(file) \in Nat /\ pos \in Nat
      /\ data_begin \in Nat /\ data_end \in Nat
  BY <1>1, ReaderTypes DEF ThreadRead, AskedInv
<1>3. /\ buffer' = ReadInto(2 * block_len, block_len)
      /\ read_byte_count' = c /\ pos' = pos + c /\ desired_byte_count' = -1
      /\ thread' \in {"ended", "waiting"}
      /\ UNCHANGED <<file, data_begin, data_end, base, file_line, line, pc, termination_requested>>
  BY <1>2 DEF ThreadRead
<1>4. /\ c \in Nat /\ c <= block_len /\ pos + c <= Len(file)
      /\ c = block_len \/ pos + c = Len(file)
  BY <1>1, <1>2, ReadCountFacts
<1>5. 2 * block_len \in Nat /\ 2 * block_len + block_len <= 3 * block_len
  BY <1>2
<1>6. /\ buffer' \in [Address -> Cell]
      /\ \A i \in Address : i < 2 * block_len => buffer'[i] = buffer[i]
      /\ \A j \in 0..(c - 1) : buffer'[2 * block_len + j] = file[pos + j + 1]
  BY <1>1, <1>2, <1>3, <1>5, ReadIntoFacts
<1> HIDE DEF c
<1>7. ReaderTypeOK'
  <2>1. pos' \in 0..Len(file) /\ read_byte_count' \in -1..block_len
    BY <1>2, <1>3, <1>4
  <2> QED
    BY <1>1, <1>3, <1>6, <2>1 DEF ReaderTypeOK
<1>8. CallInv'
  BY <1>1, <1>2, <1>3 DEF CallInv
<1>9. AskedInv'
  BY <1>1, <1>2, <1>3 DEF AskedInv
<1>10. PlaceInv'
  <2>1. CASE Consumed
    BY <1>3, <2>1 DEF PlaceInv, Consumed
  <2>2. CASE pc \in {"idle", "finish", "scan"} /\ ~Consumed
    <3>1. base + data_end = pos - 0
      BY <1>1, <1>2, <2>2 DEF PlaceInv
    <3>2. base + data_end = pos' - read_byte_count' /\ read_byte_count' # -1
      BY <1>1, <1>2, <1>3, <1>4, <3>1
    <3> QED
      BY <1>1, <1>2, <1>3, <2>2, <3>2 DEF PlaceInv, Consumed
  <2> QED
    BY <1>2, <1>3, <2>1, <2>2 DEF PlaceInv
<1>11. DataInv'
  <2>1. ASSUME pc \in {"idle", "finish", "scan"}, NEW i \in data_begin..(data_end - 1)
        PROVE  buffer'[i] = buffer[i]
    <3>1. data_end <= 2 * block_len
      <4>1. ~Consumed
        BY <1>2, <2>1 DEF Consumed
      <4> QED
        BY <1>1, <1>2, <2>1, <4>1 DEF PlaceInv
    <3>2. i \in Address /\ i < 2 * block_len
      BY <1>2, <2>1, <3>1 DEF Address
    <3> QED
      BY <1>6, <3>2
  <2> QED
    BY <1>1, <1>2, <1>3, <2>1 DEF DataInv
<1>12. ThirdBlockInv'
  <2>1. read_byte_count' <= pos' /\ (read_byte_count' = block_len \/ pos' = Len(file'))
    BY <1>2, <1>3, <1>4
  <2>2. ASSUME NEW j \in 0..(read_byte_count' - 1)
        PROVE  buffer'[2 * block_len + j] = file'[pos' - read_byte_count' + j + 1]
    <3>1. j \in 0..(c - 1) /\ pos' - read_byte_count' + j + 1 = pos + j + 1
      BY <1>2, <1>3, <1>4
    <3>2. buffer'[2 * block_len + j] = file[pos + j + 1]
      BY <1>6, <3>1
    <3> QED
      BY <1>3, <3>1, <3>2
  <2> QED
    BY <2>1, <2>2 DEF ThirdBlockInv
<1> QED
  BY <1>1, <1>3, <1>7, <1>8, <1>9, <1>10, <1>11, <1>12 DEF ReaderInv

\* The steps that end the threads, and the caller's use of a line.
LEMMA EndSteps ==
  ASSUME ReaderInv, ThreadEnd \/ Destroy \/ Join \/ LineUsed
  PROVE  ReaderInv'
<1> USE DEF bufferVars, requestVars
<1>1. NoLine \in [kind : {"none", "eof", "long", "line"}, text : Seq(Cell)]
  BY LineTypes
<1>2. /\ UNCHANGED <<file, pos, buffer, data_begin, data_end, base, file_line,
                     desired_byte_count, read_byte_count>>
      /\ \/ UNCHANGED <<line, pc>>
         \/ pc' \in {"join", "gone"} /\ UNCHANGED line
         \/ pc = "idle" /\ pc' = "idle" /\ line' = NoLine
      /\ \/ UNCHANGED thread
         \/ thread = "waiting" /\ thread' = "ended"
      /\ termination_requested' \in {termination_requested, TRUE}
      /\ termination_requested' # termination_requested => pc' = "join"
      /\ pc' \in {pc, "join", "gone"}
  BY DEF ThreadEnd, Destroy, Join, LineUsed
<1>3. ReaderTypeOK'
  <2>1. line' \in [kind : {"none", "eof", "long", "line"}, text : Seq(Cell)]
    BY <1>1, <1>2, Zenon DEF ReaderInv, ReaderTypeOK
  <2>2. /\ pc' \in {"init", "idle", "finish", "copy", "scan", "join", "gone"}
        /\ thread' \in {"none", "waiting", "ended"} /\ termination_requested' \in BOOLEAN
    BY <1>2 DEF ReaderInv, ReaderTypeOK
  <2> QED
    BY <1>2, <2>1, <2>2 DEF ReaderInv, ReaderTypeOK
<1>4. CallInv'
  BY <1>2 DEF ReaderInv, CallInv
<1>5. AskedInv'
  BY <1>2 DEF ReaderInv, AskedInv, ReaderTypeOK
<1>6. PlaceInv'
  BY <1>2 DEF ReaderInv, PlaceInv, Consumed
<1>7. DataInv'
  BY <1>2 DEF ReaderInv, DataInv
<1>8. ThirdBlockInv'
  BY <1>2 DEF ReaderInv, ThirdBlockInv
<1> QED
  BY <1>2, <1>3, <1>4, <1>5, <1>6, <1>7, <1>8 DEF ReaderInv

\* next_line, up to where it needs data.
LEMMA NextLineStep ==
  ASSUME ReaderInv, NextLine
  PROVE  ReaderInv'
<1> USE DEF bufferVars, requestVars
<1>1. /\ ReaderTypeOK /\ CallInv /\ AskedInv /\ PlaceInv /\ DataInv /\ ThirdBlockInv /\ base \in Nat
      /\ pc = "idle" /\ line = NoLine
      /\ UNCHANGED <<file, pos, thread, desired_byte_count, read_byte_count, termination_requested>>
  BY DEF ReaderInv, NextLine
<1>2. /\ block_len \in Nat /\ block_len > 1 /\ Len(file) \in Nat
      /\ data_begin \in Nat /\ data_end \in Nat
      /\ data_end \in 0..(2 * block_len + 1) /\ file_line \in Nat
      /\ read_byte_count \in Int /\ read_byte_count <= block_len
      /\ read_byte_count # -1 => read_byte_count \in Nat
      /\ line \in [kind : {"none", "eof", "long", "line"}, text : Seq(Cell)]
  BY <1>1, ReaderTypes DEF ReaderTypeOK
<1>3. CASE data_begin = data_end /\ line' = EndOfFile /\ UNCHANGED <<file_line, bufferVars, pc>>
  <2>1. ReaderTypeOK'
    BY <1>1, <1>3, LineTypes DEF ReaderTypeOK
  <2>2. CallInv' /\ AskedInv'
    BY <1>1, <1>3 DEF CallInv, AskedInv
  <2>3. PlaceInv'
    BY <1>1, <1>3 DEF PlaceInv, Consumed
  <2>4. DataInv' /\ ThirdBlockInv'
    BY <1>1, <1>3 DEF DataInv, ThirdBlockInv
  <2> QED
    BY <1>1, <1>3, <2>1, <2>2, <2>3, <2>4 DEF ReaderInv
<1>4. CASE data_begin # data_end
  <2>1. file_line' = file_line + 1 /\ UNCHANGED line
    BY <1>4 DEF NextLine
  <2>2. /\ base + data_end = pos - (IF read_byte_count = -1 THEN 0 ELSE read_byte_count)
        /\ data_end = 2 * block_len \/ base + data_end = Len(file)
        /\ data_end <= 2 * block_len /\ data_begin < data_end
        /\ thread = "none" => base + data_end = Len(file)
        /\ data_begin < 2 * block_len
    BY <1>1, <1>2, <1>4 DEF PlaceInv, Consumed
  <2>3. CASE data_begin < block_len /\ pc' = "scan" /\ UNCHANGED bufferVars
    <3>1. ReaderTypeOK'
      BY <1>1, <1>2, <2>1, <2>3 DEF ReaderTypeOK
    <3>2. CallInv' /\ AskedInv'
      BY <1>1, <2>1, <2>3 DEF CallInv, AskedInv
    <3>3. PlaceInv'
      BY <1>1, <2>1, <2>2, <2>3 DEF PlaceInv, Consumed
    <3>4. DataInv' /\ ThirdBlockInv'
      BY <1>1, <2>1, <2>3 DEF DataInv, ThirdBlockInv
    <3> QED
      BY <1>1, <2>3, <3>1, <3>2, <3>3, <3>4 DEF ReaderInv
  <2>4. CASE data_begin >= block_len /\ Shift /\ pc' = IF is_valid THEN "finish" ELSE "scan"
    <3>1. /\ buffer' = Memcpy(0, block_len) /\ data_begin' = data_begin - block_len
          /\ data_end' = data_end - block_len /\ base' = base + block_len
          /\ thread # "none" => pc' = "finish"
          /\ thread = "none" => pc' = "scan"
          /\ pc' \in {"finish", "scan"}
      BY <2>4 DEF Shift, is_valid
    <3>2. /\ 0 \in Nat /\ 0 + block_len <= 3 * block_len
          /\ block_len + block_len <= 3 * block_len
      BY <1>2
    <3>3. /\ buffer' \in [Address -> Cell]
          /\ \A i \in Address : i >= 0 + block_len => buffer'[i] = buffer[i]
          /\ \A j \in 0..(block_len - 1) : buffer'[0 + j] = buffer[block_len + j]
      <4>1. /\ Memcpy(0, block_len) \in [Address -> Cell]
            /\ \A i \in Address : i < 0 \/ i >= 0 + block_len => Memcpy(0, block_len)[i] = buffer[i]
            /\ \A j \in 0..(block_len - 1) :
                 /\ 0 + j \in Address /\ block_len + j \in Address
                 /\ Memcpy(0, block_len)[0 + j] = buffer[block_len + j]
        BY <1>1, <1>2, <3>2, MemcpyFacts
      <4> QED
        BY <3>1, <4>1
    <3>4. ReaderTypeOK'
      <4>1. /\ data_begin' \in 0..(2 * block_len + 1) /\ data_end' \in 0..(2 * block_len + 1)
            /\ file_line' \in Nat
        BY <1>1, <1>2, <2>1, <2>2, <2>4, <3>1
      <4> QED
        BY <1>1, <2>1, <3>1, <3>3, <4>1 DEF ReaderTypeOK
    <3>5. CallInv'
      BY <1>1, <2>1, <3>1 DEF CallInv
    <3>6. AskedInv'
      BY <1>1, <3>1 DEF AskedInv
    <3>7. PlaceInv'
      <4>1. /\ base' + data_end' = base + data_end
            /\ data_end' <= block_len /\ data_begin' < data_end' /\ data_begin' < block_len
            /\ data_end = 2 * block_len => data_end' = block_len
        BY <1>1, <1>2, <2>2, <2>4, <3>1
      <4> QED
        BY <1>1, <1>2, <2>2, <3>1, <4>1 DEF PlaceInv
    <3>8. DataInv'
      <4>1. ASSUME NEW i \in data_begin'..(data_end' - 1)
            PROVE  buffer'[i] = file'[base' + i + 1]
        <5>1. /\ i \in 0..(block_len - 1) /\ 0 + i = i
              /\ block_len + i \in data_begin..(data_end - 1)
              /\ base + (block_len + i) + 1 = base' + i + 1
          BY <1>1, <1>2, <2>2, <2>4, <3>1
        <5>2. buffer[block_len + i] = file[base + (block_len + i) + 1]
          BY <1>1, <5>1 DEF DataInv
        <5> QED
          BY <1>1, <3>3, <5>1, <5>2
      <4> QED
        BY <4>1 DEF DataInv
    <3>9. ThirdBlockInv'
      <4>1. ASSUME read_byte_count # -1, NEW j \in 0..(read_byte_count - 1)
            PROVE  buffer'[2 * block_len + j] = buffer[2 * block_len + j]
        <5>1. 2 * block_len + j \in Address /\ 2 * block_len + j >= 0 + block_len
          BY <1>2, <4>1 DEF Address
        <5> QED
          BY <3>3, <5>1
      <4> QED
        BY <1>1, <4>1 DEF ThirdBlockInv
    <3>10. base' \in Nat
      BY <1>1, <1>2, <3>1
    <3> QED
      BY <3>4, <3>5, <3>6, <3>7, <3>8, <3>9, <3>10 DEF ReaderInv
  <2> QED
    BY <1>4, <2>3, <2>4 DEF NextLine
<1> QED
  BY <1>3, <1>4 DEF NextLine

\* The block that the thread has read is there.
LEMMA FinishReadStep ==
  ASSUME ReaderInv, FinishRead
  PROVE  ReaderInv'
<1>1. /\ ReaderTypeOK /\ CallInv /\ AskedInv /\ PlaceInv /\ DataInv /\ ThirdBlockInv /\ base \in Nat
      /\ pc = "finish" /\ pc' = "copy" /\ read_byte_count # -1
      /\ data_end' = data_end + read_byte_count
      /\ UNCHANGED <<file, pos, buffer, data_begin, base, file_line, line, thread,
                     desired_byte_count, read_byte_count, termination_requested>>
  BY DEF ReaderInv, FinishRead, requestVars
<1>2. /\ block_len \in Nat /\ block_len > 1 /\ Len(file) \in Nat /\ pos \in Nat /\ pos <= Len(file)
      /\ data_begin \in Nat /\ data_end \in Nat /\ read_byte_count \in Nat
      /\ read_byte_count <= block_len
  BY <1>1, ReaderTypes
<1>3. /\ base + data_end = pos - read_byte_count
      /\ data_end = block_len \/ base + data_end = Len(file)
      /\ data_end <= block_len /\ data_begin < block_len /\ data_begin < data_end
      /\ thread # "none"
  BY <1>1 DEF PlaceInv, Consumed, AskedInv
<1>4. read_byte_count = block_len \/ pos = Len(file)
  BY <1>1 DEF ThirdBlockInv
<1>5. /\ base + data_end' = pos /\ data_end' <= 2 * block_len /\ data_begin < data_end'
      /\ data_end' = 2 * block_len \/ base + data_end' = Len(file)
      /\ data_end = block_len \/ (read_byte_count = 0 /\ data_end' = data_end)
  <2>1. base + data_end' = pos /\ data_end' <= 2 * block_len /\ data_begin < data_end'
    BY <1>1, <1>2, <1>3
  <2>2. CASE data_end = block_len
    <3>1. read_byte_count = block_len => data_end' = 2 * block_len
      BY <1>1, <1>2, <2>2
    <3> QED
      BY <1>4, <2>1, <2>2, <3>1
  <2>3. CASE base + data_end = Len(file)
    <3>1. read_byte_count = 0 /\ data_end' = data_end
      BY <1>1, <1>2, <1>3, <2>3
    <3> QED
      BY <2>1, <2>3, <3>1
  <2> QED
    BY <1>3, <2>2, <2>3
<1>6. ReaderTypeOK'
  <2>1. data_end' \in 0..(2 * block_len + 1)
    BY <1>1, <1>2, <1>5
  <2> QED
    BY <1>1, <2>1 DEF ReaderTypeOK
<1>7. CallInv' /\ AskedInv'
  BY <1>1 DEF CallInv, AskedInv
<1>8. PlaceInv'
  <2>1. data_end' = block_len + read_byte_count \/ (read_byte_count = 0 /\ data_end' <= block_len)
    BY <1>1, <1>2, <1>3, <1>5
  <2>2. base' + data_end' = pos' - 0
    BY <1>1, <1>2, <1>5
  <2> QED
    BY <1>1, <1>2, <1>3, <1>5, <2>1, <2>2 DEF PlaceInv
<1>9. DataInv'
  <2>1. ASSUME NEW i \in data_begin..(data_end' - 1), i < block_len
        PROVE  buffer[i] = file[base + i + 1]
    <3>1. i \in data_begin..(data_end - 1)
      BY <1>1, <1>2, <1>3, <1>5, <2>1
    <3> QED
      BY <1>1, <3>1 DEF DataInv
  <2> QED
    BY <1>1, <2>1 DEF DataInv
<1>10. ThirdBlockInv'
  BY <1>1 DEF ThirdBlockInv
<1> QED
  BY <1>1, <1>6, <1>7, <1>8, <1>9, <1>10 DEF ReaderInv

\* It is copied behind the block that is left.
LEMMA CopyBlockStep ==
  ASSUME ReaderInv, CopyBlock
  PROVE  ReaderInv'
<1>1. /\ ReaderTypeOK /\ CallInv /\ AskedInv /\ PlaceInv /\ DataInv /\ ThirdBlockInv /\ base \in Nat
      /\ pc = "copy" /\ pc' = "scan" /\ buffer' = Memcpy(block_len, 2 * block_len)
      /\ desired_byte_count' = block_len /\ read_byte_count' = -1
      /\ UNCHANGED <<file, pos, data_begin, data_end, base, file_line, line, thread,
                     termination_requested>>
  BY DEF ReaderInv, CopyBlock, start_read
<1>2. /\ block_len \in Nat /\ block_len > 1 /\ Len(file) \in Nat /\ pos \in Nat
      /\ data_begin \in Nat /\ data_end \in Nat
      /\ read_byte_count # -1 => read_byte_count \in Nat
      /\ read_byte_count <= block_len
  BY <1>1, ReaderTypes
<1>3. read_byte_count # -1 /\ read_byte_count \in Nat /\ thread # "none"
  BY <1>1, <1>2 DEF AskedInv
<1>4. /\ base + data_end = pos - 0
      /\ data_end = 2 * block_len \/ base + data_end = Len(file)
      /\ data_end <= 2 * block_len /\ data_begin < block_len /\ data_begin < data_end
      /\ data_end = block_len + read_byte_count \/ (read_byte_count = 0 /\ data_end <= block_len)
  <2>1. ~Consumed
    BY <1>1 DEF Consumed
  <2>2. pc # "idle" /\ pc # "finish"
    BY <1>1
  <2> QED
    BY <1>1, <2>1, <2>2 DEF PlaceInv
<1>5. /\ block_len + block_len <= 3 * block_len /\ 2 * block_len + block_len <= 3 * block_len
      /\ 2 * block_len \in Nat
  BY <1>2
<1>6. /\ buffer' \in [Address -> Cell]
      /\ \A i \in Address : i < block_len => buffer'[i] = buffer[i]
      /\ \A j \in 0..(block_len - 1) : buffer'[block_len + j] = buffer[2 * block_len + j]
  <2>1. /\ Memcpy(block_len, 2 * block_len) \in [Address -> Cell]
        /\ \A i \in Address :
             i < block_len \/ i >= block_len + block_len => Memcpy(block_len, 2 * block_len)[i] = buffer[i]
        /\ \A j \in 0..(block_len - 1) :
             /\ block_len + j \in Address /\ 2 * block_len + j \in Address
             /\ Memcpy(block_len, 2 * block_len)[block_len + j] = buffer[2 * block_len + j]
    BY <1>1, <1>2, <1>5, MemcpyFacts
  <2> QED
    BY <1>1, <2>1
<1>7. ReaderTypeOK'
  <2>1. read_byte_count' \in -1..block_len
    BY <1>1, <1>2
  <2> QED
    BY <1>1, <1>6, <2>1 DEF ReaderTypeOK
<1>8. CallInv'
  BY <1>1 DEF CallInv
<1>9. AskedInv'
  BY <1>1, <1>3 DEF AskedInv
<1>10. PlaceInv'
  <2>1. pc' # "idle" /\ pc' # "finish" /\ pc' # "copy" /\ base' + data_end' = pos' - 0
    BY <1>1, <1>4
  <2>2. data_begin' <= data_end'
    BY <1>1, <1>2, <1>4
  <2> QED
    BY <1>1, <1>3, <1>4, <2>1, <2>2 DEF PlaceInv
<1>11. DataInv'
  <2>1. ASSUME NEW i \in data_begin..(data_end - 1) PROVE buffer'[i] = file[base + i + 1]
    <3>1. CASE i < block_len
      <4>1. i \in Address
        BY <1>2, <3>1 DEF Address
      <4> QED
        BY <1>1, <1>6, <3>1, <4>1 DEF DataInv
    <3>2. CASE i >= block_len
      <4> DEFINE j == i - block_len
      <4>1. /\ j \in 0..(read_byte_count - 1) /\ j \in 0..(block_len - 1) /\ block_len + j = i
            /\ pos - read_byte_count + j + 1 = base + i + 1
        BY <1>1, <1>2, <1>3, <1>4, <3>2
      <4> HIDE DEF j
      <4>2. buffer'[i] = buffer[2 * block_len + j]
        BY <1>6, <4>1
      <4>3. buffer[2 * block_len + j] = file[pos - read_byte_count + j + 1]
        BY <1>1, <1>3, <4>1 DEF ThirdBlockInv
      <4> QED
        BY <4>1, <4>2, <4>3
    <3> QED
      BY <1>2, <3>1, <3>2
  <2> QED
    BY <1>1, <2>1 DEF DataInv
<1>12. ThirdBlockInv'
  BY <1>1 DEF ThirdBlockInv
<1> QED
  BY <1>1, <1>7, <1>8, <1>9, <1>10, <1>11, <1>12 DEF ReaderInv

\* The line is text that the buffer holds.
LEMMA TextType ==
  ASSUME ReaderInv, pc = "scan"
  PROVE  /\ line_end \in data_begin..data_end /\ line_end \in Nat
         /\ line_end = data_end \/ buffer[line_end] = "LF"
         /\ \A i \in data_begin..(line_end - 1) : buffer[i] # "LF"
         /\ Text \in Seq(Cell)
<1>1. /\ block_len \in Nat /\ data_begin \in Nat /\ data_end \in Nat
      /\ \A i \in Address : buffer[i] \in Cell
  BY ReaderTypes DEF ReaderInv
<1>2. data_begin <= data_end /\ data_end <= 2 * block_len
  <2>1. ~Consumed /\ pc # "finish"
    BY DEF Consumed
  <2> QED
    BY <2>1 DEF ReaderInv, PlaceInv
<1>3. /\ line_end \in data_begin..data_end
      /\ line_end = data_end \/ buffer[line_end] = "LF"
      /\ \A i \in data_begin..(line_end - 1) : buffer[i] # "LF"
  BY <1>1, <1>2, LineEndFacts
<1> DEFINE e == line_end
           n == e - data_begin
           s == [i \in 1..n |-> buffer[data_begin + i - 1]]
<1> HIDE DEF e
<1>4. e \in Nat /\ data_begin <= e /\ e <= data_end /\ n \in Nat
  BY <1>1, <1>3 DEF e
<1>5. ASSUME NEW i \in 1..n PROVE buffer[data_begin + i - 1] \in Cell
  <2>1. data_begin + i - 1 \in Address
    BY <1>1, <1>2, <1>4 DEF Address
  <2> QED
    BY <1>1, <2>1
<1>6. s \in Seq(Cell)
  <2> HIDE DEF n
  <2>1. s \in [1..n -> Cell]
    BY <1>5
  <2> QED
    BY <1>4, <2>1, SeqDef
<1>7. Text = WithoutCR(s)
  BY DEF Text, e
<1>8. Text \in Seq(Cell)
  BY <1>6, <1>7, WithoutCRType
<1> QED
  BY <1>3, <1>4, <1>8 DEF e

LEMMA ScanLineStep ==
  ASSUME ReaderInv, ScanLine
  PROVE  ReaderInv'
<1>1. /\ ReaderTypeOK /\ CallInv /\ AskedInv /\ PlaceInv /\ DataInv /\ ThirdBlockInv /\ base \in Nat
      /\ pc = "scan" /\ pc' = "idle"
      /\ UNCHANGED <<file, pos, base, file_line, thread,
                     desired_byte_count, read_byte_count, termination_requested>>
  BY DEF ReaderInv, ScanLine, requestVars
<1>2. /\ block_len \in Nat /\ block_len > 1 /\ Len(file) \in Nat
      /\ data_begin \in Nat /\ data_end \in Nat
  BY <1>1, ReaderTypes
<1>3. /\ base + data_end = pos - (IF read_byte_count = -1 THEN 0 ELSE read_byte_count)
      /\ data_end = 2 * block_len \/ base + data_end = Len(file)
      /\ data_end <= 2 * block_len /\ data_begin <= data_end
      /\ data_begin < block_len /\ data_begin < data_end
      /\ thread = "none" => base + data_end = Len(file)
  <2>1. ~Consumed /\ pc # "finish" /\ pc # "copy" /\ pc # "idle"
    BY <1>1 DEF Consumed
  <2> QED
    BY <1>1, <2>1 DEF PlaceInv
<1>4. CallInv' /\ AskedInv'
  BY <1>1 DEF CallInv, AskedInv
<1>5. CASE IsTooLong /\ line' = TooLong /\ UNCHANGED <<buffer, data_begin, data_end>>
  <2>1. ReaderTypeOK'
    BY <1>1, <1>5, LineTypes DEF ReaderTypeOK
  <2>2. PlaceInv'
    <3>1. data_begin' < 2 * block_len
      BY <1>2, <1>3, <1>5
    <3> QED
      BY <1>1, <1>3, <1>5, <3>1 DEF PlaceInv
  <2>3. DataInv' /\ ThirdBlockInv'
    BY <1>1, <1>5 DEF DataInv, ThirdBlockInv
  <2> QED
    BY <1>1, <1>4, <2>1, <2>2, <2>3 DEF ReaderInv
<1>6. CASE ~IsTooLong /\ Terminate
  <2> DEFINE e == line_end
  <2>1. e \in Nat /\ data_begin <= e /\ e <= data_end /\ Text \in Seq(Cell)
    BY <1>1, <1>2, TextType
  <2>2. e - data_begin + 1 <= block_len
    BY <1>2, <1>6, <2>1 DEF IsTooLong
  <2>3. /\ line' = Line(Text) /\ buffer' = [buffer EXCEPT ![e] = "NUL"] /\ data_begin' = e + 1
        /\ data_end' = IF e = data_end THEN data_end + 1 ELSE data_end
    BY <1>6 DEF Terminate
  <2> HIDE DEF e
  <2>4. e < 2 * block_len /\ e \in Address
    BY <1>2, <1>3, <2>1, <2>2 DEF Address
  <2>5. /\ buffer' \in [Address -> Cell]
        /\ \A i \in Address : i # e => buffer'[i] = buffer[i]
    <3>1. "NUL" \in Cell /\ buffer \in [Address -> Cell]
      BY <1>1 DEF Cell, ReaderTypeOK
    <3> QED
      BY <2>3, <2>4, <3>1
  <2>6. ReaderTypeOK'
    <3>1. line' \in [kind : {"none", "eof", "long", "line"}, text : Seq(Cell)]
      BY <2>1, <2>3, LineTypes
    <3>2. data_begin' \in 0..(2 * block_len + 1) /\ data_end' \in 0..(2 * block_len + 1)
      BY <1>2, <1>3, <2>1, <2>3, <2>4
    <3> QED
      BY <1>1, <2>5, <3>1, <3>2 DEF ReaderTypeOK
  <2>7. PlaceInv'
    <3>1. CASE e = data_end
      <4>1. /\ base + data_end = Len(file) /\ data_end' = data_end + 1 /\ data_begin' = data_end + 1
        BY <1>2, <1>3, <2>3, <2>4, <3>1
      <4>2. base' + data_end' = Len(file') + 1
        BY <1>1, <1>2, <4>1
      <4>3. Consumed'
        BY <1>1, <4>1, <4>2 DEF Consumed
      <4> QED
        BY <4>3 DEF PlaceInv
    <3>2. CASE e # data_end
      <4>1. /\ data_end' = data_end /\ data_begin' <= data_end' /\ data_begin' < 2 * block_len
        <5>1. data_begin' < 2 * block_len
          BY <1>2, <1>3, <2>1, <2>2, <2>3
        <5> QED
          BY <1>2, <2>1, <2>3, <3>2, <5>1
      <4> QED
        BY <1>1, <1>3, <4>1 DEF PlaceInv
    <3> QED
      BY <3>1, <3>2
  <2>8. DataInv'
    <3>1. ASSUME NEW i \in data_begin'..(data_end' - 1)
          PROVE  buffer'[i] = file'[base' + i + 1]
      <4>1. i # e /\ i \in data_begin..(data_end - 1) /\ i \in Address
        BY <1>2, <1>3, <2>1, <2>3 DEF Address
      <4>2. buffer[i] = file[base + i + 1]
        BY <1>1, <4>1 DEF DataInv
      <4> QED
        BY <1>1, <2>5, <4>1, <4>2
    <3> QED
      BY <3>1 DEF DataInv
  <2>9. ThirdBlockInv'
    <3>1. ASSUME read_byte_count # -1, NEW j \in 0..(read_byte_count - 1)
          PROVE  buffer'[2 * block_len + j] = buffer[2 * block_len + j]
      <4>1. /\ read_byte_count \in Int /\ read_byte_count <= block_len
        BY <1>1, ReaderTypes
      <4>2. 2 * block_len + j \in Address /\ 2 * block_len + j # e
        BY <1>2, <2>1, <2>4, <4>1 DEF Address
      <4> QED
        BY <2>5, <4>2
    <3> QED
      BY <1>1, <3>1 DEF ThirdBlockInv
  <2> QED
    BY <1>1, <1>4, <2>6, <2>7, <2>8, <2>9 DEF ReaderInv
<1> QED
  BY <1>5, <1>6 DEF ScanLine

-----------------------------------------------------------------------------
(* Every step of the import is a step of the reader, or none.              *)

ReaderStep ==
  \/ Construct
  \/ next_line
  \/ ReadingThread
  \/ Destroy \/ Join \/ LineUsed
  \/ UNCHANGED readerVars

LEMMA ReaderInvStep ==
  ASSUME ReaderInv, ReaderStep
  PROVE  ReaderInv'
<1>1. CASE UNCHANGED readerVars
  <2>1. ReaderTypeOK' /\ CallInv' /\ AskedInv'
    BY <1>1 DEF ReaderInv, readerVars, bufferVars, requestVars, ReaderTypeOK, CallInv, AskedInv
  <2>2. PlaceInv'
    BY <1>1 DEF ReaderInv, readerVars, bufferVars, requestVars, PlaceInv, Consumed
  <2>3. DataInv' /\ ThirdBlockInv'
    BY <1>1 DEF ReaderInv, readerVars, bufferVars, requestVars, DataInv, ThirdBlockInv
  <2> QED
    BY <1>1, <2>1, <2>2, <2>3 DEF ReaderInv, readerVars, bufferVars
<1> QED
  BY <1>1, ConstructStep, ThreadReadStep, EndSteps, NextLineStep, FinishReadStep, CopyBlockStep,
     ScanLineStep DEF ReaderStep, next_line, ReadingThread

CsvInv == ReaderInv /\ CsvTypeOK

LEMMA CsvInvInit == ImportInit => CsvInv
<1>1. /\ <<>> \in Seq(Seq(Cell))
      /\ <<>> \in Seq([what : {"header", "long", "columns", "port"}, line : Nat])
  BY EmptySeq
<1> QED
  BY <1>1, ReaderInvInit DEF ImportInit, CsvInv, CsvTypeOK, ReaderInv

LEMMA CsvReaderStep ==
  ASSUME [CsvNext]_csvVars
  PROVE  ReaderStep
<1>1. CASE OpenFile
  BY <1>1 DEF OpenFile, ReaderStep
<1>2. CASE ReadHeader \/ ReadRow
  BY <1>2 DEF ReadHeader, ReadRow, ReaderStep
<1>3. CASE CallReader
  BY <1>3 DEF CallReader, ReaderStep
<1>4. CASE CloseReader
  BY <1>4 DEF CloseReader, ReaderStep
<1>5. CASE ReadingThread
  BY <1>5 DEF ReaderStep
<1>6. CASE UNCHANGED csvVars
  BY <1>6 DEF csvVars, ReaderStep
<1> QED
  BY <1>1, <1>2, <1>3, <1>4, <1>5, <1>6 DEF CsvNext, Caller, Stopped

LEMMA CsvInvStep ==
  ASSUME CsvInv, [CsvNext]_csvVars
  PROVE  CsvInv'
<1>1. ReaderInv /\ CsvTypeOK /\ ReaderInv'
  BY CsvReaderStep, ReaderInvStep DEF CsvInv
<1> DEFINE Errors == [what : {"header", "long", "columns", "port"}, line : Nat]
<1>2. /\ caller \in {"open", "header", "rows", "closing", "returned"}
      /\ outcome \in {"none", "UPDATE_OK", "UPDATE_CSV", "can_not_open_file", "out_of_range"}
      /\ update_list \in Seq(Seq(Cell)) /\ error_list \in Seq(Errors)
      /\ line \in [kind : {"none", "eof", "long", "line"}, text : Seq(Cell)]
      /\ file_line \in Nat
  BY <1>1 DEF CsvTypeOK, ReaderTypeOK
<1>3. /\ Append(update_list, line.text) \in Seq(Seq(Cell))
      /\ \A what \in {"header", "long", "columns", "port"} :
           Append(error_list, [what |-> what, line |-> file_line]) \in Seq(Errors)
  <2>1. line.text \in Seq(Cell)
    BY <1>2
  <2>2. \A what \in {"header", "long", "columns", "port"} : [what |-> what, line |-> file_line] \in Errors
    BY <1>2
  <2> HIDE DEF Errors
  <2> QED
    BY <1>2, <2>1, <2>2, AppendProperties
<1> DEFINE Imported ==
             /\ caller' \in {"open", "header", "rows", "closing", "returned"}
             /\ outcome' \in {"none", "UPDATE_OK", "UPDATE_CSV", "can_not_open_file", "out_of_range"}
             /\ update_list' \in Seq(Seq(Cell)) /\ error_list' \in Seq(Errors)
<1>4. Imported
  <2> HIDE DEF Errors
  <2>1. CASE OpenFile
    BY <1>2, <2>1 DEF OpenFile
  <2>2. CASE ReadHeader
    BY <1>2, <1>3, <2>2 DEF ReadHeader, Leave, Error
  <2>3. CASE ReadRow
    <3>1. CASE LastRow \/ RowOutOfRange
      BY <1>2, <2>3, <3>1 DEF LastRow, RowOutOfRange, Leave
    <3>2. CASE RowError \/ RowInvalid
      BY <1>2, <1>3, <2>3, <3>2 DEF RowError, RowInvalid, Error
    <3>3. CASE RowTaken
      BY <1>2, <1>3, <2>3, <3>3 DEF RowTaken
    <3> QED
      BY <2>3, <3>1, <3>2, <3>3 DEF ReadRow
  <2>4. CASE CloseReader
    BY <1>2, <2>4 DEF CloseReader
  <2>5. CASE UNCHANGED importVars
    BY <1>2, <2>5 DEF importVars
  <2> QED
    BY <2>1, <2>2, <2>3, <2>4, <2>5 DEF CsvNext, Caller, CallReader, Stopped, csvVars
<1> QED
  BY <1>1, <1>4 DEF CsvInv, CsvTypeOK, ReaderInv

LEMMA CsvInvariance == CsvSpec => []CsvInv
BY CsvInvInit, CsvInvStep, PTL DEF CsvSpec

-----------------------------------------------------------------------------
(* The theorems.                                                           *)

\* The reader's fields and the import's lists stay what they are declared to be:
\* every line number and length is one, and the line that next_line returns
\* holds bytes of the buffer only (Csv.hpp:438-512, UpdateFactory.cpp:403-430).
THEOREM TypeCorrect == CsvSpec => []CsvTypeOK
<1>1. CsvInv => CsvTypeOK
  BY DEF CsvInv
<1> QED
  BY <1>1, CsvInvariance, PTL

\* The assertions at the start of next_line hold whenever it is called, for
\* every file, every block length and every timing of the reading thread: a
\* line that ended without a LF leaves data_begin = data_end behind, not a
\* data_begin beyond it (Csv.hpp:453-454).
THEOREM Assertions == CsvSpec => []AssertsHold
<1>1. CsvInv => AssertsHold
  <2> SUFFICES ASSUME CsvInv, pc = "idle", data_begin # data_end
               PROVE  data_begin < data_end /\ data_end <= 2 * block_len
    BY DEF AssertsHold
  <2>1. data_begin \in Nat /\ data_end \in Nat
    BY ReaderTypes DEF CsvInv, ReaderInv
  <2>2. data_begin <= data_end /\ data_end <= 2 * block_len
    BY DEF CsvInv, ReaderInv, PlaceInv, Consumed
  <2> QED
    BY <2>1, <2>2
<1> QED
  BY <1>1, CsvInvariance, PTL

\* The caller's thread and the reading thread never use the same block at once:
\* the NUL behind a line falls into the first two blocks, and while the third is
\* copied no read is under way (Csv.hpp:456-487).
THEOREM NoRaceOnTheBuffer == CsvSpec => []BlocksAreDisjoint
<1>1. CsvInv => BlocksAreDisjoint
  <2>1. ASSUME CsvInv, pc = "scan", ~IsTooLong PROVE line_end < 2 * block_len
    <3>1. block_len \in Nat /\ block_len > 1 /\ data_begin \in Nat
      BY <2>1, ReaderTypes DEF CsvInv, ReaderInv
    <3>2. line_end \in Nat
      BY <2>1, TextType DEF CsvInv
    <3>3. data_begin < block_len
      BY <2>1 DEF CsvInv, ReaderInv, PlaceInv, Consumed
    <3>4. ~(line_end - data_begin + 1 > block_len)
      BY <2>1 DEF IsTooLong
    <3> QED
      BY <3>1, <3>2, <3>3, <3>4
  <2>2. ASSUME CsvInv, pc = "copy" PROVE desired_byte_count = -1
    BY <2>2 DEF CsvInv, ReaderInv, AskedInv
  <2> QED
    BY <2>1, <2>2 DEF BlocksAreDisjoint
<1> QED
  BY <1>1, CsvInvariance, PTL

-----------------------------------------------------------------------------
(* The reader implements LineSource.                                       *)

\* The constructor skips a byte order mark.
LEMMA ConstructReads ==
  ASSUME ReaderInv, Construct
  PROVE  UNCHANGED Source!vars
<1> DEFINE c == ReadCount(2 * block_len)
<1>1. /\ pc = "init" /\ pc' = "idle" /\ pos = 0 /\ base = 0 /\ base' = 0
      /\ UNCHANGED <<file, line>> /\ ReaderTypeOK
      /\ buffer' = ReadInto(0, 2 * block_len) /\ data_end' = c
      /\ data_begin' = (IF data_end' >= 3 /\ \A i \in 1..3 : buffer'[i - 1] = ByteOrderMark[i] THEN 3 ELSE 0)
  BY DEF ReaderInv, CallInv, Construct
<1>2. /\ block_len \in Nat /\ block_len > 1 /\ Len(file) \in Nat /\ file \in Seq(Byte)
      /\ 2 * block_len \in Nat /\ 0 + 2 * block_len <= 3 * block_len /\ 0 \in Nat
  BY <1>1, ReaderTypes
<1>3. /\ c \in Nat /\ c <= 2 * block_len /\ c <= Len(file)
      /\ c = 2 * block_len \/ c = Len(file)
  BY <1>1, <1>2, ReadCountFacts
<1>4. \A j \in 0..(c - 1) : buffer'[0 + j] = file[pos + j + 1]
  BY <1>1, <1>2, ReadIntoFacts
<1> HIDE DEF c
<1> DEFINE S == Byte \cup {"EF", "BB", "BF"}
<1>5. ByteOrderMark \in Seq(S) /\ Len(ByteOrderMark) = 3
  BY DEF ByteOrderMark
<1>6. file \in Seq(S)
  <2>1. \A i \in 1..Len(file) : file[i] \in S
    BY <1>2, ElementOfSeq
  <2> HIDE DEF S
  <2>2. file \in [1..Len(file) -> S]
    BY <1>2, <2>1, LenProperties
  <2> QED
    BY <1>2, <2>2, SeqDef
<1> HIDE DEF S
<1>7. IsPrefix(ByteOrderMark, file) <=> 3 <= Len(file) /\ \A i \in 1..3 : ByteOrderMark[i] = file[i]
  <2>1. IsPrefix(ByteOrderMark, file) <=>
          Len(ByteOrderMark) <= Len(file) /\ \A i \in 1..Len(ByteOrderMark) : ByteOrderMark[i] = file[i]
    BY <1>5, <1>6, PrefixElements, ZenonT(60)
  <2> QED
    BY <1>5, <2>1
<1>8. c >= 3 <=> 3 <= Len(file)
  BY <1>2, <1>3
<1>9. ASSUME c >= 3, NEW i \in 1..3 PROVE buffer'[i - 1] = file[i]
  <2>1. i - 1 \in 0..(c - 1) /\ 0 + (i - 1) = i - 1 /\ pos + (i - 1) + 1 = i
    BY <1>1, <1>3, <1>9
  <2> QED
    BY <1>4, <2>1
<1>10. data_begin' = IF IsPrefix(ByteOrderMark, file) THEN 3 ELSE 0
  BY <1>1, <1>7, <1>8, <1>9
<1>11. base' + data_begin' + 1 = IF IsPrefix(ByteOrderMark, file) THEN 4 ELSE 1
  BY <1>1, <1>10
<1> QED
  BY <1>1, <1>11 DEF Source!vars

\* The search ends where the line does.
LEMMA ScanRefines ==
  ASSUME ReaderInv, ScanLine
  PROVE  Source!NextLine
<1>1. /\ ReaderTypeOK /\ CallInv /\ PlaceInv /\ DataInv /\ base \in Nat
      /\ pc = "scan" /\ pc' = "idle" /\ line = NoLine
      /\ UNCHANGED <<file, base>>
  BY DEF ReaderInv, CallInv, ScanLine
<1>2. /\ block_len \in Nat /\ block_len > 1 /\ Len(file) \in Nat /\ pos \in Nat /\ pos <= Len(file)
      /\ data_begin \in Nat /\ data_end \in Nat
      /\ read_byte_count \in Int /\ (read_byte_count # -1 => read_byte_count \in Nat)
      /\ \A i \in 1..Len(file) : file[i] \in Cell
  BY <1>1, ReaderTypes
<1> DEFINE ahead == IF read_byte_count = -1 THEN 0 ELSE read_byte_count
<1>3. /\ base + data_end = pos - ahead
      /\ data_end = 2 * block_len \/ base + data_end = Len(file)
      /\ data_begin < block_len /\ data_begin < data_end
  <2>1. ~Consumed /\ pc # "finish" /\ pc # "copy" /\ pc # "idle"
    BY <1>1 DEF Consumed
  <2> QED
    BY <1>1, <2>1 DEF PlaceInv
<1>4. ahead \in Nat
  BY <1>2
<1> HIDE DEF ahead
<1>5. base + data_end <= Len(file)
  BY <1>1, <1>2, <1>3, <1>4
<1> DEFINE n == base + data_begin + 1
           e == line_end
           f == base + e + 1
<1>6. /\ e \in Nat /\ data_begin <= e /\ e <= data_end
      /\ e = data_end \/ buffer[e] = "LF"
      /\ \A i \in data_begin..(e - 1) : buffer[i] # "LF"
  BY <1>1, <1>2, TextType
<1>7. IsTooLong <=> e - data_begin + 1 > block_len
  BY DEF IsTooLong
<1>8. Text = WithoutCR([i \in 1..(e - data_begin) |-> buffer[data_begin + i - 1]])
  BY DEF Text
<1>9. \/ IsTooLong /\ line' = TooLong /\ data_begin' = data_begin
      \/ ~IsTooLong /\ line' = Line(Text) /\ data_begin' = e + 1
  BY DEF ScanLine, Terminate
<1> HIDE DEF e
<1>10. n \in Nat /\ n >= 1 /\ n <= Len(file) /\ f \in n..(Len(file) + 1)
  BY <1>1, <1>2, <1>3, <1>5, <1>6
<1>11. \A i \in data_begin..(data_end - 1) : buffer[i] = file[base + i + 1]
  BY <1>1 DEF DataInv
<1>12. ASSUME NEW k \in n..(f - 1) PROVE file[k] # "LF"
  <2> DEFINE i == k - base - 1
  <2>1. i \in data_begin..(e - 1) /\ i \in data_begin..(data_end - 1) /\ base + i + 1 = k
    BY <1>1, <1>2, <1>3, <1>6, <1>10
  <2> QED
    BY <1>6, <1>11, <2>1
<1>13. CASE IsTooLong
  <2> DEFINE T == {k \in f..(Len(file) + 1) : k = Len(file) + 1 \/ file[k] = "LF"}
             E == Min(T)
  <2>1. T \subseteq Nat /\ Len(file) + 1 \in T
    BY <1>2, <1>10
  <2>2. E \in T /\ \A y \in T : E <= y
    BY <2>1, MinIsLeast
  <2>3. /\ E \in f..(Len(file) + 1) /\ (E = Len(file) + 1 \/ file[E] = "LF")
        /\ \A y \in T : E <= y
    BY <2>2
  <2> HIDE DEF E
  <2>4. ASSUME NEW k \in n..(E - 1) PROVE file[k] # "LF"
    <3>1. CASE k < f
      BY <1>10, <1>12, <2>3, <3>1
    <3>2. CASE k >= f
      <4>1. k \in f..(Len(file) + 1) /\ ~(E <= k)
        BY <1>2, <1>10, <2>3, <3>2
      <4>2. k \notin T
        BY <2>3, <4>1
      <4> QED
        BY <4>1, <4>2
    <3> QED
      BY <1>10, <3>1, <3>2
  <2> HIDE DEF T
  <2>5. E \in n..(Len(file) + 1) /\ E - n >= block_len
    BY <1>1, <1>2, <1>3, <1>6, <1>7, <1>10, <1>13, <2>3
  <2>6. Source!IsEnd(n, E)
    BY <2>3, <2>4 DEF Source!IsEnd
  <2>7. line' = Source!TooLong /\ data_begin' = data_begin /\ base' = base
    BY <1>1, <1>9, <1>13 DEF TooLong, Source!TooLong
  <2>8. line = Source!NoLine /\ UNCHANGED file
    BY <1>1 DEF NoLine, Source!NoLine
  <2> QED
    BY <1>1, <1>10, <2>5, <2>6, <2>7, <2>8 DEF Source!NextLine
<1>14. CASE ~IsTooLong
  <2>1. f - n < block_len /\ data_begin' = e + 1
    BY <1>1, <1>2, <1>6, <1>7, <1>9, <1>14
  <2>2. f = Len(file) + 1 \/ file[f] = "LF"
    <3>1. CASE e = data_end
      BY <1>1, <1>2, <1>3, <1>6, <1>7, <1>14, <3>1
    <3>2. CASE e # data_end
      <4>1. e \in data_begin..(data_end - 1) /\ buffer[e] = "LF"
        BY <1>2, <1>6, <3>2
      <4> QED
        BY <1>11, <4>1
    <3> QED
      BY <3>1, <3>2
  <2>3. Source!IsEnd(n, f)
    BY <1>12, <2>2 DEF Source!IsEnd
  <2> DEFINE l == e - data_begin
             s == [i \in 1..l |-> buffer[data_begin + i - 1]]
             t == SubSeq(file, n, f - 1)
  <2>4. l \in Nat /\ (f - 1) - n + 1 = l /\ (IF n <= f - 1 THEN (f - 1) - n + 1 ELSE 0) = l
        /\ n \in Int /\ f - 1 \in Int
    BY <1>1, <1>2, <1>6, <1>10
  <2>5. \A i \in n..(f - 1) : file[i] \in Cell
    BY <1>2, <1>10
  <2>6. /\ t \in Seq(Cell) /\ Len(t) = IF n <= f - 1 THEN (f - 1) - n + 1 ELSE 0
        /\ \A i \in 1..((f - 1) - n + 1) : t[i] = file[n + i - 1]
    BY <2>4, <2>5, SubSeqProperties
  <2> HIDE DEF t
  <2>7. /\ t \in Seq(Cell) /\ Len(t) = l
        /\ \A i \in 1..l : t[i] = file[n + i - 1]
    BY <2>4, <2>6
  <2>8. ASSUME NEW i \in 1..l PROVE buffer[data_begin + i - 1] = t[i]
    <3>1. /\ data_begin + i - 1 \in data_begin..(data_end - 1)
          /\ base + (data_begin + i - 1) + 1 = n + i - 1
      BY <1>1, <1>2, <1>6, <2>4
    <3> QED
      BY <1>11, <2>7, <3>1
  <2>9. s = t
    <3>1. t = [i \in 1..l |-> t[i]]
      BY <2>7, LenProperties
    <3> HIDE DEF l
    <3> QED
      BY <2>8, <3>1
  <2>10. line' = Source!Line(Source!WithoutCR(t))
    <3>1. line' = Line(WithoutCR(s))
      BY <1>8, <1>9, <1>14
    <3>2. Line(WithoutCR(t)) = Source!Line(Source!WithoutCR(t))
      BY DEF Line, WithoutCR, Source!Line, Source!WithoutCR, Last, Front, Source!Last, Source!Front
    <3> QED
      BY <2>9, <3>1, <3>2
  <2>11. line = Source!NoLine /\ UNCHANGED file
    BY <1>1 DEF NoLine, Source!NoLine
  <2>12. base' + data_begin' + 1 = f + 1
    BY <1>1, <1>2, <1>6, <2>1
  <2> QED
    BY <1>1, <1>10, <2>1, <2>3, <2>10, <2>11, <2>12 DEF Source!NextLine, t
<1> QED
  BY <1>13, <1>14

LEMMA LineSourceInit == ImportInit => Source!Init
<1> SUFFICES ASSUME ImportInit PROVE Source!Init
  OBVIOUS
<1>1. pc = "init" /\ line = NoLine
  BY DEF ImportInit, ReaderInit
<1>2. IsPrefix(ByteOrderMark, file) <=> Source!IsPrefix(Source!ByteOrderMark, file)
  BY DEF IsPrefix, Source!IsPrefix, ByteOrderMark, Source!ByteOrderMark
<1> QED
  BY <1>1, <1>2 DEF Source!Init, NoLine, Source!NoLine

\* next_line finds that there is nothing left, or starts to look for the line.
LEMMA NextLineReads ==
  ASSUME ReaderInv, NextLine
  PROVE  /\ NextByte' = NextByte
         /\ \/ line' = EndOfFile /\ file_line' = file_line /\ pc' = "idle" /\ NextByte > Len(file)
            \/ line' = line /\ file_line' = file_line + 1 /\ Looking' /\ NextByte <= Len(file)
<1>1. /\ PlaceInv /\ pc = "idle" /\ pc # "init"
      /\ file' = file /\ line = NoLine /\ ReaderTypeOK
  BY DEF ReaderInv, NextLine
<1>2. /\ base \in Nat /\ block_len \in Nat /\ block_len > 1 /\ Len(file) \in Nat
      /\ data_begin \in Nat /\ data_end \in Nat
      /\ pos \in Nat /\ pos <= Len(file)
      /\ read_byte_count \in Int /\ (read_byte_count # -1 => read_byte_count \in Nat)
  BY <1>1, ReaderTypes DEF ReaderInv
<1> DEFINE ahead == IF read_byte_count = -1 THEN 0 ELSE read_byte_count
<1>3. \/ data_begin = data_end /\ base + data_end = Len(file) + 1
      \/ /\ base + data_end = pos - ahead
         /\ data_end = 2 * block_len \/ base + data_end = Len(file)
         /\ data_begin <= data_end /\ data_begin < 2 * block_len
  BY <1>1 DEF PlaceInv, Consumed
<1>4. ahead \in Nat
  BY <1>2
<1>5. NextByte = base + data_begin + 1
  BY <1>1 DEF NextByte
<1> HIDE DEF ahead
<1>6. CASE data_begin = data_end /\ line' = EndOfFile /\ UNCHANGED <<file_line, bufferVars, pc>>
  <2>1. base + data_begin + 1 > Len(file)
    BY <1>2, <1>3, <1>4, <1>6
  <2>2. NextByte' = NextByte
    BY <1>1, <1>5, <1>6 DEF NextByte, bufferVars
  <2> QED
    BY <1>1, <1>5, <1>6, <2>1, <2>2
<1>7. CASE data_begin # data_end /\ file_line' = file_line + 1 /\ UNCHANGED line
  <2>1. base + data_begin + 1 <= Len(file)
    BY <1>2, <1>3, <1>4, <1>7
  <2>2. CASE pc' = "scan" /\ UNCHANGED bufferVars
    <3>1. NextByte' = NextByte
      BY <1>1, <1>5, <2>2 DEF NextByte, bufferVars
    <3> QED
      BY <1>5, <1>7, <2>1, <2>2, <3>1 DEF Looking
  <2>3. CASE Shift /\ pc' \in {"finish", "scan"}
    <3>1. base' + data_begin' + 1 = base + data_begin + 1
      BY <1>2, <2>3 DEF Shift
    <3>2. NextByte' = NextByte
      BY <1>1, <1>5, <2>3, <3>1 DEF NextByte
    <3> QED
      BY <1>5, <1>7, <2>1, <2>3, <3>2 DEF Looking
  <2> QED
    BY <1>7, <2>2, <2>3 DEF NextLine
<1> QED
  BY <1>6, <1>7 DEF NextLine

LEMMA LineSourceStep ==
  ASSUME ReaderInv, ReaderStep
  PROVE  [Source!Next]_Source!vars
<1>1. CASE Construct
  BY <1>1, ConstructReads
<1>2. CASE NextLine
  <2>1. line = NoLine /\ file' = file /\ NextByte' = NextByte
    BY <1>2, NextLineReads DEF NextLine
  <2>2. CASE line' = EndOfFile /\ NextByte > Len(file)
    <3>1. Source!End
      BY <2>1, <2>2 DEF Source!End, Source!NoLine, NoLine, Source!EndOfFile, EndOfFile, NextByte, FirstByte
    <3> QED
      BY <3>1 DEF Source!Next
  <2>3. CASE line' = line
    BY <2>1, <2>3 DEF Source!vars, NextByte, FirstByte
  <2> QED
    BY <1>2, <2>2, <2>3, NextLineReads
<1>3. CASE FinishRead \/ CopyBlock
  BY <1>3 DEF FinishRead, CopyBlock, Source!vars
<1>4. CASE ScanLine
  BY <1>4, ScanRefines DEF Source!Next
<1>5. CASE ReadingThread
  BY <1>5 DEF ReadingThread, ThreadRead, ThreadEnd, bufferVars, Source!vars
<1>6. CASE Destroy \/ Join
  <2>1. pc # "init" /\ pc' # "init" /\ UNCHANGED <<file, line, base, data_begin>>
    BY <1>6 DEF Destroy, Join, bufferVars
  <2> QED
    BY <2>1 DEF Source!vars
<1>7. CASE LineUsed
  <2>1. pc # "init" /\ line # NoLine /\ line' = NoLine /\ UNCHANGED <<file, pc, base, data_begin>>
    BY <1>7 DEF LineUsed, bufferVars
  <2>2. Source!Used
    BY <2>1 DEF Source!Used, Source!NoLine, NoLine
  <2> QED
    BY <2>2 DEF Source!Next
<1>8. CASE UNCHANGED readerVars
  BY <1>8 DEF readerVars, bufferVars, Source!vars
<1> QED
  BY <1>1, <1>2, <1>3, <1>4, <1>5, <1>6, <1>7, <1>8 DEF ReaderStep, next_line

\* next_line hands out the lines of the file, each once and in order, whole and
\* without their line breaks, although it cuts them out of a buffer that is
\* shifted and refilled by another thread; a line as long as a block or longer is
\* refused, and null comes only behind the last line (Csv.hpp:438-512).
THEOREM Refinement == CsvSpec => ReadsLines
<1>1. CsvInv /\ [CsvNext]_csvVars => [Source!Next]_Source!vars
  BY CsvReaderStep, LineSourceStep DEF CsvInv
<1> QED
  BY <1>1, LineSourceInit, CsvInvariance, PTL DEF CsvSpec, ReadsLines, Source!Spec

-----------------------------------------------------------------------------
(* How many of a set of numbers are below a number.                        *)

LEMMA CountFacts ==
  ASSUME NEW l \in Nat, NEW S, S \subseteq 1..l
  PROVE  /\ \A n \in Nat : CountBelow(S, n) \in Nat
         /\ \A d, k \in Nat : d <= k /\ (\A m \in S : ~(d <= m /\ m < k)) =>
              CountBelow(S, k) = CountBelow(S, d)
         /\ \A n, d \in Nat : n \in S /\ n < d => CountBelow(S, n) + 1 <= CountBelow(S, d)
         /\ \A k \in Nat : (\A m \in S : m < k) => CountBelow(S, k) = Cardinality(S)
<1> DEFINE B(c) == {m \in S : m < c}
<1>1. IsFiniteSet(S)
  <2>1. IsFiniteSet(1..l)
    <3>1. 1 \in Int /\ l \in Int
      OBVIOUS
    <3> QED
      BY <3>1, FS_Interval
  <2> HIDE DEF B
  <2> QED
    BY <2>1, FS_Subset
<1>2. S \subseteq Int
  OBVIOUS
<1>3. \A c : B(c) \in SUBSET S /\ IsFiniteSet(B(c)) /\ Cardinality(B(c)) \in Nat
  BY <1>1, FS_Subset, FS_CardinalityType
<1>4. \A c : /\ IsFiniteSet(B(c) \cup {c})
             /\ Cardinality(B(c) \cup {c}) = IF c \in B(c) THEN Cardinality(B(c)) ELSE Cardinality(B(c)) + 1
  BY <1>3, FS_AddElement
<1>5. \A c \in S : c \notin B(c)
  BY <1>2
<1>6. \A c \in S : Cardinality(B(c) \cup {c}) = Cardinality(B(c)) + 1
  BY <1>4, <1>5
<1>8. ASSUME NEW d \in Nat, NEW k \in Nat, d <= k, \A m \in S : ~(d <= m /\ m < k)
      PROVE  Cardinality(B(k)) = Cardinality(B(d))
  <2>1. \A m \in S : m < k <=> m < d
    BY <1>2, <1>8
  <2>2. B(k) = B(d)
    BY <2>1
  <2> QED
    BY <2>2
<1>9. ASSUME NEW n \in Nat, NEW d \in Nat, n \in S, n < d
      PROVE  Cardinality(B(n)) + 1 <= Cardinality(B(d))
  <2>1. B(n) \cup {n} \in SUBSET B(d)
    <3>1. \A m \in S : m < n => m < d
      BY <1>2, <1>9
    <3> QED
      BY <1>9, <3>1
  <2>2. Cardinality(B(n) \cup {n}) <= Cardinality(B(d))
    BY <1>3, <2>1, FS_Subset
  <2> HIDE DEF B
  <2> QED
    BY <1>3, <1>6, <1>9, <2>2
<1>10. ASSUME NEW k \in Nat, \A m \in S : m < k PROVE Cardinality(B(k)) = Cardinality(S)
  <2>1. B(k) = S
    BY <1>10
  <2> QED
    BY <2>1
<1>11. \A n : CountBelow(S, n) = Cardinality(B(n))
  BY DEF CountBelow
<1> HIDE DEF B
<1> QED
  BY <1>3, <1>8, <1>9, <1>10, <1>11

LEMMA CountNext ==
  ASSUME NEW l \in Nat, NEW S, S \subseteq 1..l, NEW d \in Nat, NEW k \in Nat,
         d < k, d \in S, \A m \in S : ~(d < m /\ m < k)
  PROVE  CountBelow(S, k) = CountBelow(S, d) + 1
<1> DEFINE B(c) == {m \in S : m < c}
<1>1. B(k) = B(d) \cup {d} /\ d \notin B(d)
  <2>1. \A m \in S : m < k <=> m < d \/ m = d
    OBVIOUS
  <2> QED
    BY <2>1
<1>2. IsFiniteSet(S)
  <2>1. 1 \in Int /\ l \in Int
    OBVIOUS
  <2> HIDE DEF B
  <2> QED
    BY <2>1, FS_Interval, FS_Subset
<1>3. B(d) \in SUBSET S
  OBVIOUS
<1> HIDE DEF B
<1>4. IsFiniteSet(B(d))
  BY <1>2, <1>3, FS_Subset
<1>5. Cardinality(B(k)) = Cardinality(B(d)) + 1
  BY <1>1, <1>4, FS_AddElement
<1> QED
  BY <1>5 DEF CountBelow, B

-----------------------------------------------------------------------------
(* The lines of the file.                                                  *)

LEMMA StartFacts ==
  ASSUME file \in Seq(Byte)
  PROVE  /\ Len(file) \in Nat /\ FirstByte \in Nat /\ FirstByte >= 1
         /\ LineStarts \subseteq FirstByte..Len(file) /\ LineStarts \subseteq 1..Len(file)
         /\ Taken \subseteq LineStarts /\ Refused \subseteq LineStarts
         /\ FirstByte \in LineStarts \/ FirstByte > Len(file)
         /\ FirstByte \notin Refused
<1>1. Len(file) \in Nat
  BY LenProperties
<1>2. FirstByte \in {1, 4}
  BY DEF FirstByte
<1>3. LineStarts \subseteq FirstByte..Len(file)
  BY DEF LineStarts
<1>4. FirstByte..Len(file) \subseteq 1..Len(file)
  BY <1>1, <1>2
<1>5. FirstByte \in FirstByte..Len(file) => FirstByte \in LineStarts
  BY DEF LineStarts
<1>6. FirstByte \in FirstByte..Len(file) \/ FirstByte > Len(file)
  BY <1>1, <1>2
<1>7. Taken \subseteq LineStarts /\ Refused \subseteq LineStarts /\ FirstByte \notin Refused
  BY DEF Taken, Refused
<1> QED
  BY <1>1, <1>2, <1>3, <1>4, <1>5, <1>6, <1>7

\* A line has one end, and the next line starts behind it.
LEMMA LineAtIs ==
  ASSUME file \in Seq(Byte), NEW n \in LineStarts, NEW e \in n..(Len(file) + 1),
         Source!IsEnd(n, e)
  PROVE  /\ LineAt(n) = e
         /\ TextAt(n) = WithoutCR(SubSeq(file, n, e - 1))
         /\ e + 1 \in LineStarts \/ e + 1 > Len(file)
         /\ \A m \in LineStarts : ~(n < m /\ m < e + 1)
<1> DEFINE IsLF(i) == file[i] = "LF"
<1>1. /\ Len(file) \in Nat /\ FirstByte \in Nat /\ FirstByte >= 1
      /\ LineStarts \subseteq FirstByte..Len(file)
  BY StartFacts
<1>2. \A k : Source!IsEnd(n, k) <=> (k = Len(file) + 1 \/ IsLF(k)) /\ \A i \in n..(k - 1) : ~IsLF(i)
  BY DEF Source!IsEnd
<1>3. LineStarts = {m \in FirstByte..Len(file) : m = FirstByte \/ IsLF(m - 1)}
  BY DEF LineStarts
<1> HIDE DEF IsLF
<1>4. n \in Nat /\ n >= FirstByte /\ n <= Len(file) /\ e \in Nat /\ n <= e /\ e <= Len(file) + 1
  <2>1. n \in FirstByte..Len(file)
    BY <1>1
  <2> QED
    BY <1>1, <2>1
<1>5. LineAt(n) = e
  <2>1. ASSUME NEW k \in n..(Len(file) + 1), Source!IsEnd(n, k) PROVE k = e
    <3>1. (k = Len(file) + 1 \/ IsLF(k)) /\ \A i \in n..(k - 1) : ~IsLF(i)
      BY <1>2, <2>1
    <3>2. (e = Len(file) + 1 \/ IsLF(e)) /\ \A i \in n..(e - 1) : ~IsLF(i)
      BY <1>2
    <3>3. k \in Nat /\ n <= k /\ k <= Len(file) + 1
      BY <1>1, <1>4
    <3>4. ~(k < e)
      <4>1. k < e => k \in n..(e - 1) /\ k # Len(file) + 1
        BY <1>1, <1>4, <3>3
      <4> QED
        BY <3>1, <3>2, <4>1
    <3>5. ~(e < k)
      <4>1. e < k => e \in n..(k - 1) /\ e # Len(file) + 1
        BY <1>1, <1>4, <3>3
      <4> QED
        BY <3>1, <3>2, <4>1
    <3> QED
      BY <1>4, <3>3, <3>4, <3>5
  <2>2. LineAt(n) = CHOOSE k \in n..(Len(file) + 1) : Source!IsEnd(n, k)
    BY DEF LineAt
  <2>3. LineAt(n) \in n..(Len(file) + 1) /\ Source!IsEnd(n, LineAt(n))
    BY <2>2
  <2> QED
    BY <2>1, <2>3
<1>6. TextAt(n) = WithoutCR(SubSeq(file, n, e - 1))
  BY <1>5 DEF TextAt
<1>7. e + 1 \in LineStarts \/ e + 1 > Len(file)
  <2>1. ASSUME ~(e + 1 > Len(file)) PROVE e + 1 \in FirstByte..Len(file) /\ (e + 1) - 1 = e /\ e # Len(file) + 1
    BY <1>1, <1>4, <2>1
  <2>2. e = Len(file) + 1 \/ IsLF(e)
    BY <1>2
  <2> QED
    BY <1>3, <2>1, <2>2
<1>8. ASSUME NEW m \in LineStarts, n < m, m < e + 1 PROVE FALSE
  <2>1. m \in FirstByte..Len(file)
    BY <1>1
  <2>2. m # FirstByte /\ m - 1 \in n..(e - 1)
    BY <1>1, <1>4, <1>8, <2>1
  <2> QED
    BY <1>2, <1>3, <2>2
<1> QED
  BY <1>5, <1>6, <1>7, <1>8

\* The file does not change, nor do its lines.
LEMMA FileKept ==
  ASSUME file' = file
  PROVE  /\ FirstByte' = FirstByte /\ LineStarts' = LineStarts
         /\ \A n : LineAt(n)' = LineAt(n) /\ TextAt(n)' = TextAt(n)
         /\ Taken' = Taken /\ Refused' = Refused
<1>1. FirstByte' = FirstByte
  BY DEF FirstByte
<1>2. LineStarts' = LineStarts
  BY <1>1 DEF LineStarts
<1>3. \A n : LineAt(n)' = LineAt(n)
  BY DEF LineAt, Source!IsEnd
<1>4. \A n : TextAt(n)' = TextAt(n)
  BY <1>3 DEF TextAt
<1>5. Taken' = Taken /\ Refused' = Refused
  BY <1>1, <1>2, <1>4 DEF Taken, Refused
<1> QED
  BY <1>1, <1>2, <1>3, <1>4, <1>5

\* What has been done stays done.
LEMMA ExactKept ==
  ASSUME file' = file, update_list' = update_list, error_list' = error_list, NEW d
  PROVE  ExactBelow(d)' <=> ExactBelow(d)
BY FileKept DEF ExactBelow

LEMMA CountNone ==
  ASSUME NEW S, NEW n, \A m \in S : ~(m < n)
  PROVE  CountBelow(S, n) = 0
<1>1. {m \in S : m < n} = {}
  OBVIOUS
<1> QED
  BY <1>1, FS_EmptySet DEF CountBelow

-----------------------------------------------------------------------------
(* What the steps of the reader do about the next line.                    *)

LEMMA NextByteType ==
  ASSUME ReaderInv
  PROVE  NextByte \in Nat
<1>1. file \in Seq(Byte) /\ base \in Nat /\ data_begin \in Nat
  BY ReaderTypes DEF ReaderInv
<1>2. FirstByte \in Nat /\ base + data_begin + 1 \in Nat
  BY <1>1, StartFacts
<1> QED
  BY <1>2 DEF NextByte

LEMMA ConstructKeeps ==
  ASSUME ReaderInv, Construct
  PROVE  NextByte' = NextByte
<1>1. UNCHANGED Source!vars
  BY ConstructReads
<1> QED
  BY <1>1 DEF Source!vars, NextByte, FirstByte

LEMMA ScanReads ==
  ASSUME ReaderInv, ScanLine
  PROVE  \E e \in NextByte..(Len(file) + 1) :
           /\ NextByte <= Len(file) /\ Source!IsEnd(NextByte, e)
           /\ \/ /\ e - NextByte < block_len /\ NextByte' = e + 1
                 /\ line' = Line(WithoutCR(SubSeq(file, NextByte, e - 1)))
              \/ e - NextByte >= block_len /\ line' = TooLong /\ NextByte' = NextByte
<1>1. Source!NextLine
  BY ScanRefines
<1>2. \A s : Source!Line(Source!WithoutCR(s)) = Line(WithoutCR(s))
  BY DEF Line, WithoutCR, Source!Line, Source!WithoutCR, Last, Front, Source!Last, Source!Front
<1>3. Source!TooLong = TooLong
  BY DEF TooLong, Source!TooLong
<1> QED
  BY <1>1, <1>2, <1>3 DEF Source!NextLine, NextByte, FirstByte

-----------------------------------------------------------------------------
(* The import, one lemma for each action.                                  *)

LEMMA ImportFacts ==
  ASSUME CsvInv
  PROVE  /\ ReaderInv /\ file \in Seq(Byte) /\ Len(file) \in Nat /\ file_line \in Nat
         /\ NextByte \in Nat /\ block_len \in Nat
         /\ update_list \in Seq(Seq(Cell)) /\ line.text \in Seq(Cell)
         /\ error_list \in Seq([what : {"header", "long", "columns", "port"}, line : Nat])
         /\ \A n \in LineStarts : n \in Nat /\ n >= FirstByte /\ n <= Len(file)
         /\ LineStarts \subseteq 1..Len(file)
<1>1. ReaderInv /\ ReaderTypeOK /\ file \in Seq(Byte) /\ Len(file) \in Nat /\ block_len \in Nat
  BY ReaderTypes DEF CsvInv, ReaderInv
<1>2. NextByte \in Nat
  BY <1>1, NextByteType
<1>3. /\ update_list \in Seq(Seq(Cell)) /\ file_line \in Nat
      /\ line \in [kind : {"none", "eof", "long", "line"}, text : Seq(Cell)]
      /\ error_list \in Seq([what : {"header", "long", "columns", "port"}, line : Nat])
  BY <1>1 DEF CsvInv, CsvTypeOK, ReaderTypeOK
<1>4. /\ FirstByte \in Nat /\ LineStarts \subseteq FirstByte..Len(file)
      /\ LineStarts \subseteq 1..Len(file)
  BY <1>1, StartFacts
<1>5. ASSUME NEW n \in LineStarts PROVE n \in Nat /\ n >= FirstByte /\ n <= Len(file)
  <2>1. n \in FirstByte..Len(file)
    BY <1>4
  <2> QED
    BY <1>1, <1>4, <2>1
<1>6. line.text \in Seq(Cell)
  BY <1>3
<1> QED
  BY <1>1, <1>2, <1>3, <1>4, <1>5, <1>6

LEMMA ImportInvInit ==
  ASSUME ImportInit
  PROVE  ImportInv
<1>1. /\ pc = "init" /\ line = NoLine /\ file_line = 0 /\ caller = "open" /\ outcome = "none"
      /\ update_list = <<>> /\ error_list = <<>> /\ file \in Seq(Byte)
  BY LineReaderAssumption DEF ImportInit, ReaderInit
<1>2. NextByte = FirstByte /\ ~Looking /\ line.kind = "none"
  BY <1>1 DEF NextByte, Looking, NoLine
<1>3. FirstByte \in LineStarts \/ FirstByte > Len(file)
  BY <1>1, StartFacts
<1>4. CountBelow(LineStarts, FirstByte) = 0
  <2>1. CsvInv
    BY CsvInvInit
  <2>2. \A m \in LineStarts : ~(m < FirstByte)
    <3>1. FirstByte \in Nat
      BY <1>1, StartFacts
    <3>2. \A m \in LineStarts : m \in Nat /\ m >= FirstByte
      BY <2>1, ImportFacts
    <3> QED
      BY <3>1, <3>2
  <2> QED
    BY <2>2, CountNone
<1>5. file_line = CountBelow(LineStarts, NextByte) + (IF Looking THEN 1 ELSE 0)
  <2>1. (IF Looking THEN 1 ELSE 0) = 0 /\ CountBelow(LineStarts, NextByte) = 0
    BY <1>2, <1>4
  <2>2. 0 = 0 + 0
    OBVIOUS
  <2> QED
    BY <1>1, <2>1, <2>2, Zenon
<1>6. Handled(NextByte)
  BY <1>1, <1>2 DEF Handled, IsCurrent
<1>7. HandledInv
  BY <1>1, <1>2, <1>5, <1>6 DEF HandledInv
<1> QED
  BY <1>1, <1>2, <1>3, <1>7 DEF ImportInv

\* A step that has nothing to do with the import's lists and lines.
Aside ==
  /\ file' = file /\ line' = line /\ update_list' = update_list /\ error_list' = error_list
  /\ outcome' = outcome /\ NextByte' = NextByte
  /\ \/ caller' = caller /\ (caller = "open" => pc' = pc)
     \/ caller = "open" /\ caller' = "header"
     \/ caller = "closing" /\ caller' = "returned"

LEMMA HandledKept ==
  ASSUME Aside, NEW d, Handled(d)
  PROVE  Handled(d)'
<1>1. FirstByte' = FirstByte /\ (IsCurrent(d)' <=> IsCurrent(d)) /\ (ExactBelow(d)' <=> ExactBelow(d))
  <2>1. /\ FirstByte' = FirstByte /\ LineStarts' = LineStarts /\ TextAt(d)' = TextAt(d)
        /\ ExactBelow(d)' <=> ExactBelow(d)
    BY FileKept, ExactKept DEF Aside
  <2> QED
    BY <2>1 DEF Aside, IsCurrent
<1>2. caller' \in {"open", "header"} <=> caller \in {"open", "header"}
  BY DEF Aside
<1> QED
  BY <1>1, <1>2 DEF Handled, Aside

LEMMA AsideStep ==
  ASSUME CsvInv, ImportInv, Aside,
         \/ file_line' = file_line /\ (Looking' <=> Looking)
         \/ /\ file_line' = file_line + 1 /\ ~Looking /\ Looking'
            /\ NextByte \in LineStarts /\ line.kind = "none"
  PROVE  ImportInv'
<1>1. FirstByte' = FirstByte /\ LineStarts' = LineStarts /\ (\A n : LineAt(n)' = LineAt(n)) /\ file' = file
  BY FileKept DEF Aside
<1>2. /\ NextByte' = NextByte /\ line' = line /\ outcome' = outcome
  BY DEF Aside
<1>3. (NextByte \in LineStarts \/ NextByte > Len(file))'
  BY <1>1, <1>2 DEF ImportInv
<1>4. (Looking => line.kind = "none" /\ NextByte \in LineStarts)'
  BY <1>1, <1>2 DEF ImportInv
<1>5. (caller = "open" => pc = "init" /\ outcome = "none")'
  BY <1>2 DEF ImportInv, Aside
<1>6. (caller \in {"header", "rows"} => outcome = "none")'
  BY <1>2 DEF ImportInv, Aside
<1>7. ASSUME Stuck PROVE Stuck'
  <2>1. NextByte' \in LineStarts' /\ line'.kind \in {"none", "long"} /\ outcome' # "UPDATE_OK"
    BY <1>1, <1>2, <1>7 DEF Stuck
  <2>2. PICK n : n = NextByte
    OBVIOUS
  <2>3. LineAt(n) - n >= block_len /\ LineAt(n)' = LineAt(n) /\ NextByte' = n
    BY <1>1, <1>2, <1>7, <2>2 DEF Stuck
  <2>4. LineAt(NextByte)' = LineAt(n)
    BY <2>3 DEF LineAt
  <2> QED
    BY <2>1, <2>3, <2>4, Zenon DEF Stuck
<1>8. ASSUME HandledInv PROVE HandledInv'
  <2>1. PICK d \in LineStarts \cup {NextByte} : Handled(d)
    BY <1>8 DEF HandledInv
  <2>2. Handled(d)' /\ d \in LineStarts' \cup {NextByte'}
    BY <1>1, <1>2, <2>1, HandledKept
  <2> DEFINE c == CountBelow(LineStarts, NextByte)
             c0 == IF Looking THEN 1 ELSE 0
             c1 == IF Looking' THEN 1 ELSE 0
  <2>3. file_line = c + c0
    BY <1>8 DEF HandledInv
  <2>4. file_line' = c + c1
    <3>1. CASE file_line' = file_line /\ (Looking' <=> Looking)
      BY <2>3, <3>1
    <3>2. CASE file_line' = file_line + 1 /\ ~Looking /\ Looking'
      <4>1. c0 = 0 /\ c1 = 1
        BY <3>2
      <4>2. c \in Nat
        <5>1. Len(file) \in Nat /\ NextByte \in Nat /\ LineStarts \subseteq 1..Len(file)
          BY ImportFacts
        <5> QED
          BY <5>1, CountFacts
      <4> QED
        BY <2>3, <3>2, <4>1, <4>2
    <3> QED
      BY <3>1, <3>2
  <2>5. (file_line = CountBelow(LineStarts, NextByte) + (IF Looking THEN 1 ELSE 0))'
    BY <1>1, <1>2, <2>4 DEF CountBelow
  <2> QED
    BY <1>1, <1>2, <1>8, <2>2, <2>5, Zenon DEF HandledInv
<1> QED
  BY <1>2, <1>3, <1>4, <1>5, <1>6, <1>7, <1>8, Zenon DEF ImportInv

LEMMA NextLineImport ==
  ASSUME CsvInv, ImportInv, NextLine, caller \in {"header", "rows"}, UNCHANGED importVars
  PROVE  ImportInv'
<1>1. /\ ReaderInv /\ pc = "idle" /\ line = NoLine /\ file' = file /\ Len(file) \in Nat
      /\ update_list' = update_list /\ error_list' = error_list /\ outcome' = outcome
      /\ caller' = caller /\ caller # "open"
  BY ImportFacts DEF NextLine, importVars
<1>2. /\ NextByte' = NextByte
      /\ \/ line' = EndOfFile /\ file_line' = file_line /\ pc' = "idle" /\ NextByte > Len(file)
         \/ line' = line /\ file_line' = file_line + 1 /\ Looking' /\ NextByte <= Len(file)
  BY <1>1, NextLineReads
<1>3. ~Looking /\ line.kind = "none" /\ NextByte \in Nat /\ Len(file) \in Nat
      /\ \A n \in LineStarts : n \in Nat /\ n <= Len(file)
  BY <1>1, ImportFacts DEF Looking, NoLine
<1>4. CASE line' = line /\ file_line' = file_line + 1 /\ Looking' /\ NextByte <= Len(file)
  <2>1. NextByte \in LineStarts
    <3>1. ~(NextByte > Len(file))
      BY <1>3, <1>4
    <3> QED
      BY <3>1 DEF ImportInv
  <2>2. Aside
    BY <1>1, <1>2, <1>4 DEF Aside
  <2> QED
    BY <1>3, <1>4, <2>1, <2>2, AsideStep
<1>5. CASE line' = EndOfFile /\ file_line' = file_line /\ pc' = "idle" /\ NextByte > Len(file)
  <2>1. FirstByte' = FirstByte /\ LineStarts' = LineStarts
    BY <1>1, FileKept
  <2>2. ~Looking' /\ line'.kind = "eof"
    BY <1>5 DEF Looking, EndOfFile
  <2>3. NextByte \notin LineStarts
    BY <1>3, <1>5
  <2>4. outcome = "none" /\ HandledInv
    BY <2>3 DEF ImportInv, Stuck
  <2>5. PICK d \in LineStarts \cup {NextByte} : Handled(d)
    BY <2>4 DEF HandledInv
  <2>6. d = NextByte
    BY <1>3, <2>5 DEF Handled, IsCurrent
  <2>7. Handled(d)'
    <3>1. ExactBelow(d)' <=> ExactBelow(d)
      BY <1>1, ExactKept
    <3>2. IsCurrent(d)'
      BY <1>2, <2>2, <2>6 DEF IsCurrent
    <3> QED
      BY <1>1, <2>1, <2>5, <3>1, <3>2 DEF Handled
  <2>8. (file_line = CountBelow(LineStarts, NextByte) + (IF Looking THEN 1 ELSE 0))'
    <3>1. (IF Looking' THEN 1 ELSE 0) = (IF Looking THEN 1 ELSE 0)
      BY <1>3, <2>2
    <3>2. CountBelow(LineStarts, NextByte)' = CountBelow(LineStarts, NextByte)
      BY <1>2, <2>1 DEF CountBelow
    <3>3. file_line = CountBelow(LineStarts, NextByte) + (IF Looking THEN 1 ELSE 0)
      BY <2>4 DEF HandledInv
    <3> QED
      BY <1>5, <3>1, <3>2, <3>3
  <2>9. NextByte' > Len(file')
    BY <1>1, <1>2, <1>5
  <2>10. HandledInv'
    BY <1>1, <1>2, <2>1, <2>2, <2>4, <2>5, <2>7, <2>8, <2>9 DEF HandledInv
  <2> QED
    BY <1>1, <2>2, <2>4, <2>9, <2>10 DEF ImportInv
<1> QED
  BY <1>2, <1>4, <1>5

LEMMA ScanImport ==
  ASSUME CsvInv, ImportInv, ScanLine, caller \in {"header", "rows"}, UNCHANGED importVars
  PROVE  ImportInv'
<1>1. /\ pc = "scan" /\ pc' = "idle" /\ file' = file /\ file_line' = file_line
      /\ update_list' = update_list /\ error_list' = error_list /\ outcome' = outcome
      /\ caller' = caller /\ caller # "open"
  BY DEF ScanLine, importVars
<1>2. Looking /\ ~Looking' /\ outcome = "none"
  BY <1>1 DEF Looking, ImportInv
<1>3. line.kind = "none" /\ NextByte \in LineStarts
  BY <1>2 DEF ImportInv
<1>4. /\ ReaderInv /\ file \in Seq(Byte) /\ Len(file) \in Nat /\ block_len \in Nat
      /\ \A n \in LineStarts : n \in Nat /\ n >= FirstByte /\ n <= Len(file)
      /\ LineStarts \subseteq 1..Len(file)
  BY ImportFacts
<1>5. FirstByte' = FirstByte /\ LineStarts' = LineStarts /\ \A m : LineAt(m)' = LineAt(m) /\ TextAt(m)' = TextAt(m)
  BY <1>1, FileKept
<1>6. PICK n \in LineStarts : n = NextByte
  BY <1>3
<1>7. PICK e \in n..(Len(file) + 1) :
           /\ Source!IsEnd(n, e)
           /\ \/ /\ e - n < block_len /\ NextByte' = e + 1
                 /\ line' = Line(WithoutCR(SubSeq(file, n, e - 1)))
              \/ e - n >= block_len /\ line' = TooLong /\ NextByte' = n
  BY <1>4, <1>6, ScanReads
<1>8. /\ LineAt(n) = e /\ TextAt(n) = WithoutCR(SubSeq(file, n, e - 1))
      /\ e + 1 \in LineStarts \/ e + 1 > Len(file)
      /\ \A m \in LineStarts : ~(n < m /\ m < e + 1)
  BY <1>4, <1>7, LineAtIs
<1>9. n \in Nat /\ e \in Nat /\ n <= e /\ e <= Len(file) + 1 /\ n <= Len(file) /\ FirstByte <= n
      /\ FirstByte \in Nat
  <2>1. FirstByte \in Nat
    BY <1>4, StartFacts
  <2> QED
    BY <1>4, <1>7, <2>1
<1>10. CASE e - n >= block_len /\ line' = TooLong /\ NextByte' = n
  <2>1. LineAt(n)' = e
    BY <1>5, <1>8
  <2>2. LineAt(NextByte)' = e
    BY <1>10, <2>1 DEF LineAt
  <2>3. line'.kind = "long"
    BY <1>10 DEF TooLong
  <2>4. Stuck'
    BY <1>1, <1>2, <1>5, <1>6, <1>10, <2>2, <2>3, Zenon DEF Stuck
  <2>5. NextByte' \in LineStarts'
    BY <1>5, <1>10
  <2> QED
    BY <1>1, <1>2, <2>4, <2>5 DEF ImportInv
<1>11. CASE e - n < block_len /\ NextByte' = e + 1 /\ line' = Line(WithoutCR(SubSeq(file, n, e - 1)))
  <2>1. ~(e - n >= block_len)
    BY <1>4, <1>9, <1>11
  <2>2. HandledInv
    <3>1. ~Stuck
      <4>1. LineAt(NextByte) - NextByte = e - n
        BY <1>6, <1>8
      <4> QED
        BY <2>1, <4>1 DEF Stuck
    <3> QED
      BY <1>2, <3>1 DEF ImportInv
  <2>3. PICK d \in LineStarts \cup {NextByte} : Handled(d)
    BY <2>2 DEF HandledInv
  <2>4. d = n
    BY <1>3, <1>6, <2>3 DEF Handled, IsCurrent
  <2>5. line'.kind = "line" /\ line'.text = TextAt(n)
    BY <1>8, <1>11 DEF Line
  <2>6. IsCurrent(n)'
    <3>1. n < e + 1
      BY <1>9
    <3> QED
      BY <1>5, <1>8, <1>11, <2>5, <3>1 DEF IsCurrent
  <2>7. Handled(n)'
    <3>1. ExactBelow(n)' <=> ExactBelow(n)
      BY <1>1, ExactKept
    <3> QED
      BY <1>1, <1>5, <2>3, <2>4, <2>6, <3>1 DEF Handled
  <2>8. (file_line = CountBelow(LineStarts, NextByte) + (IF Looking THEN 1 ELSE 0))'
    <3> DEFINE c == CountBelow(LineStarts, n)
               k == e + 1
    <3>1. k \in Nat /\ n < k /\ NextByte' = k /\ \A m \in LineStarts : ~(n < m /\ m < k)
      BY <1>8, <1>9, <1>11
    <3> HIDE DEF k
    <3>2. CountBelow(LineStarts, k) = c + 1
      BY <1>4, <1>9, <3>1, CountNext
    <3>3. c \in Nat
      BY <1>4, <1>9, CountFacts
    <3>4. file_line = c + 1
      <4>1. (IF Looking THEN 1 ELSE 0) = 1
        BY <1>2
      <4>2. file_line = CountBelow(LineStarts, NextByte) + (IF Looking THEN 1 ELSE 0)
        BY <2>2 DEF HandledInv
      <4> QED
        BY <1>6, <4>1, <4>2
    <3>5. CountBelow(LineStarts, NextByte)' = CountBelow(LineStarts, k)
      BY <1>5, <3>1 DEF CountBelow
    <3>6. (IF Looking' THEN 1 ELSE 0) = 0
      BY <1>2
    <3>7. c + 1 = (c + 1) + 0
      BY <3>3
    <3> QED
      BY <1>1, <3>2, <3>4, <3>5, <3>6, <3>7, Zenon
  <2>9. HandledInv'
    BY <1>1, <1>2, <1>5, <2>5, <2>7, <2>8 DEF HandledInv
  <2>10. (NextByte \in LineStarts \/ NextByte > Len(file))'
    BY <1>1, <1>5, <1>8, <1>11
  <2> QED
    BY <1>1, <1>2, <2>9, <2>10 DEF ImportInv
<1> QED
  BY <1>7, <1>10, <1>11

\* Steps of the reader that leave the next line where it is.
LEMMA OpenFileImport ==
  ASSUME CsvInv, ImportInv, OpenFile
  PROVE  ImportInv'
<1>1. ReaderInv /\ caller = "open" /\ pc = "init" /\ outcome = "none"
      /\ update_list' = update_list /\ error_list' = error_list
  BY ImportFacts DEF OpenFile, ImportInv
<1>2. CASE Construct /\ caller' = "header" /\ UNCHANGED <<outcome, update_list, error_list>>
  <2>1. NextByte' = NextByte
    BY <1>1, <1>2, ConstructKeeps
  <2>2. /\ file' = file /\ line' = line /\ file_line' = file_line /\ pc' = "idle"
    BY <1>2 DEF Construct
  <2>3. ~Looking /\ ~Looking'
    BY <1>1, <2>2 DEF Looking
  <2>4. Aside
    BY <1>1, <1>2, <2>1, <2>2 DEF Aside
  <2> QED
    BY <2>2, <2>3, <2>4, AsideStep
<1>3. CASE caller' = "returned" /\ outcome' = "can_not_open_file" /\ UNCHANGED readerVars
  <2>1. /\ file' = file /\ line' = line /\ pc' = pc /\ base' = base /\ data_begin' = data_begin
    BY <1>3 DEF readerVars, bufferVars
  <2>2. LineStarts' = LineStarts /\ FirstByte' = FirstByte
    BY <2>1, FileKept
  <2>3. NextByte' = NextByte /\ (Looking' <=> Looking)
    BY <2>1, <2>2 DEF NextByte, Looking
  <2> QED
    BY <1>3, <2>1, <2>2, <2>3 DEF ImportInv
<1> QED
  BY <1>2, <1>3 DEF OpenFile

LEMMA AsideSteps ==
  ASSUME CsvInv, ImportInv,
         \/ (FinishRead \/ CopyBlock) /\ caller \in {"header", "rows"} /\ UNCHANGED importVars
         \/ ReadingThread /\ UNCHANGED importVars
         \/ CloseReader
         \/ UNCHANGED csvVars
  PROVE  ImportInv'
<1>1. /\ file' = file /\ line' = line /\ file_line' = file_line /\ base' = base /\ data_begin' = data_begin
      /\ update_list' = update_list /\ error_list' = error_list /\ outcome' = outcome
      /\ \/ caller' = caller /\ (caller = "open" => pc' = pc)
         \/ caller = "closing" /\ caller' = "returned"
      /\ \/ pc' = pc
         \/ pc \in {"finish", "copy"} /\ pc' \in {"copy", "scan"}
         \/ pc \in {"idle", "join"} /\ pc' \in {"join", "gone"}
  <2>1. CASE (FinishRead \/ CopyBlock) /\ caller \in {"header", "rows"} /\ UNCHANGED importVars
    BY <2>1 DEF FinishRead, CopyBlock, importVars
  <2>2. CASE ReadingThread /\ UNCHANGED importVars
    BY <2>2 DEF ReadingThread, ThreadRead, ThreadEnd, bufferVars, importVars
  <2>3. CASE CloseReader
    <3>1. CASE Destroy
      BY <2>3, <3>1 DEF CloseReader, Destroy, bufferVars
    <3>2. CASE Join
      BY <2>3, <3>2 DEF CloseReader, Join, bufferVars
    <3> QED
      BY <2>3, <3>1, <3>2 DEF CloseReader
  <2>4. CASE UNCHANGED csvVars
    BY <2>4 DEF csvVars, importVars, readerVars, bufferVars
  <2> QED
    BY <2>1, <2>2, <2>3, <2>4
<1>2. NextByte' = NextByte
  <2>1. FirstByte' = FirstByte
    BY <1>1, FileKept
  <2>2. pc' = "init" <=> pc = "init"
    BY <1>1
  <2> QED
    BY <1>1, <2>1, <2>2 DEF NextByte
<1>3. Looking' <=> Looking
  BY <1>1 DEF Looking
<1>4. Aside
  BY <1>1, <1>2 DEF Aside
<1> QED
  BY <1>1, <1>3, <1>4, AsideStep

\* The caller has used what next_line returned.
LEMMA UsedFacts ==
  ASSUME CsvInv, ImportInv, LineUsed, caller \in {"header", "rows"}
  PROVE  /\ outcome = "none" /\ ~Looking /\ ~Looking' /\ NextByte' = NextByte
         /\ file' = file /\ file_line' = file_line /\ line'.kind = "none"
         /\ FirstByte' = FirstByte /\ LineStarts' = LineStarts
         /\ (NextByte \in LineStarts \/ NextByte > Len(file))'
         /\ CountBelow(LineStarts, NextByte)' = CountBelow(LineStarts, NextByte)
<1>1. pc = "idle" /\ pc' = "idle" /\ file' = file /\ file_line' = file_line /\ line' = NoLine
      /\ base' = base /\ data_begin' = data_begin
  BY DEF LineUsed, bufferVars
<1>2. FirstByte' = FirstByte /\ LineStarts' = LineStarts
  BY <1>1, FileKept
<1>3. NextByte' = NextByte /\ ~Looking /\ ~Looking'
  BY <1>1 DEF NextByte, Looking
<1>4. CountBelow(LineStarts, NextByte)' = CountBelow(LineStarts, NextByte)
  BY <1>2, <1>3 DEF CountBelow
<1>5. line'.kind = "none"
  BY <1>1 DEF NoLine
<1>6. outcome = "none" /\ (NextByte \in LineStarts \/ NextByte > Len(file))
  BY DEF ImportInv
<1>7. (NextByte \in LineStarts \/ NextByte > Len(file))'
  BY <1>1, <1>2, <1>3, <1>6
<1> QED
  BY <1>1, <1>2, <1>3, <1>4, <1>5, <1>6, <1>7

\* An error ends the import.
LEMMA LeaveImport ==
  ASSUME CsvInv, ImportInv, LineUsed, caller \in {"header", "rows"},
         caller' = "closing", outcome' \notin {"none", "UPDATE_OK"}
  PROVE  ImportInv'
BY UsedFacts DEF ImportInv

\* An over-long line, too: it is met again and again.
LEMMA LongImport ==
  ASSUME CsvInv, ImportInv, LineUsed, caller = "rows", line.kind = "long",
         UNCHANGED <<caller, outcome>>
  PROVE  ImportInv'
<1>1. /\ outcome = "none" /\ ~Looking' /\ NextByte' = NextByte
      /\ file' = file /\ line'.kind = "none" /\ LineStarts' = LineStarts
      /\ (NextByte \in LineStarts \/ NextByte > Len(file))'
  BY UsedFacts
<1>2. Stuck
  BY <1>1 DEF ImportInv, HandledInv
<1>3. PICK n : n = NextByte
  OBVIOUS
<1>4. LineAt(n)' = LineAt(n) /\ NextByte' = n
  BY <1>1, <1>3, FileKept
<1>5. LineAt(NextByte)' = LineAt(NextByte)
  BY <1>3, <1>4 DEF LineAt
<1>6. Stuck'
  BY <1>1, <1>2, <1>5, Zenon DEF Stuck
<1> QED
  BY <1>1, <1>6 DEF ImportInv

LEMMA LastRowImport ==
  ASSUME CsvInv, ImportInv, LineUsed, caller = "rows", LastRow
  PROVE  ImportInv'
<1>1. /\ outcome = "none" /\ ~Looking /\ ~Looking' /\ NextByte' = NextByte
      /\ file' = file /\ file_line' = file_line /\ line'.kind = "none"
      /\ FirstByte' = FirstByte /\ LineStarts' = LineStarts
      /\ (NextByte \in LineStarts \/ NextByte > Len(file))'
      /\ CountBelow(LineStarts, NextByte)' = CountBelow(LineStarts, NextByte)
  BY UsedFacts
<1>2. /\ line.kind = "eof" /\ caller' = "closing" /\ outcome' = "UPDATE_OK"
      /\ update_list' = update_list /\ error_list' = error_list
  BY DEF LastRow, Leave
<1>3. HandledInv /\ NextByte > Len(file)
  BY <1>1, <1>2 DEF ImportInv, HandledInv, Stuck
<1>4. PICK d \in LineStarts \cup {NextByte} : Handled(d)
  BY <1>3 DEF HandledInv
<1>5. d = NextByte /\ FirstByte < d /\ ExactBelow(d)
  BY <1>2, <1>4 DEF Handled, IsCurrent
<1>6. Handled(d)'
  <2>1. ExactBelow(d)'
    BY <1>1, <1>2, <1>5, ExactKept
  <2>2. IsCurrent(d)'
    BY <1>1, <1>5 DEF IsCurrent
  <2> QED
    BY <1>1, <1>2, <1>5, <2>1, <2>2 DEF Handled
<1>7. (file_line = CountBelow(LineStarts, NextByte) + (IF Looking THEN 1 ELSE 0))'
  <2>1. file_line = CountBelow(LineStarts, NextByte) + (IF Looking THEN 1 ELSE 0)
    BY <1>3 DEF HandledInv
  <2> QED
    BY <1>1, <2>1
<1>8. NextByte' > Len(file')
  BY <1>1, <1>3
<1>9. HandledInv'
  BY <1>1, <1>2, <1>4, <1>6, <1>7, <1>8 DEF HandledInv
<1> QED
  BY <1>1, <1>2, <1>9 DEF ImportInv

\* The line that the caller has got.
LEMMA LineGot ==
  ASSUME CsvInv, ImportInv, LineUsed, caller \in {"header", "rows"}, line.kind = "line"
  PROVE  \E d \in LineStarts :
           /\ d < NextByte /\ (\A m \in LineStarts : ~(d < m /\ m < NextByte))
           /\ line.text = TextAt(d)
           /\ file_line = CountBelow(LineStarts, NextByte) /\ file_line = CountBelow(LineStarts, d) + 1
           /\ FirstByte \in Nat /\ FirstByte < NextByte
           /\ IF caller = "header" THEN d = FirstByte /\ update_list = <<>> /\ error_list = <<>>
                                   ELSE FirstByte < d /\ ExactBelow(d)
<1>1. outcome = "none" /\ ~Looking
  BY UsedFacts
<1>2. HandledInv
  BY <1>1 DEF ImportInv, Stuck
<1>3. PICK d \in LineStarts \cup {NextByte} : Handled(d)
  BY <1>2 DEF HandledInv
<1>4. /\ d \in LineStarts /\ d < NextByte /\ \A m \in LineStarts : ~(d < m /\ m < NextByte)
      /\ line.text = TextAt(d)
  BY <1>3 DEF Handled, IsCurrent
<1>5. IF caller = "header" THEN d = FirstByte /\ update_list = <<>> /\ error_list = <<>>
                           ELSE FirstByte < d /\ ExactBelow(d)
  BY <1>3 DEF Handled
<1>6. NextByte \in Nat /\ Len(file) \in Nat /\ LineStarts \subseteq 1..Len(file) /\ d \in Nat /\ FirstByte <= d
      /\ FirstByte \in Nat
  <2>1. /\ file \in Seq(Byte) /\ NextByte \in Nat /\ Len(file) \in Nat /\ LineStarts \subseteq 1..Len(file)
        /\ \A n \in LineStarts : n \in Nat /\ n >= FirstByte
    BY ImportFacts
  <2>2. FirstByte \in Nat
    BY <2>1, StartFacts
  <2> QED
    BY <1>4, <2>1, <2>2
<1> DEFINE k == NextByte
<1>7. file_line = CountBelow(LineStarts, k) /\ file_line = CountBelow(LineStarts, d) + 1
  <2>1. file_line = CountBelow(LineStarts, k) + (IF Looking THEN 1 ELSE 0)
    BY <1>2 DEF HandledInv
  <2>2. (IF Looking THEN 1 ELSE 0) = 0
    BY <1>1
  <2>3. k \in Nat /\ d < k /\ \A m \in LineStarts : ~(d < m /\ m < k)
    BY <1>4, <1>6
  <2> HIDE DEF k
  <2>4. CountBelow(LineStarts, k) \in Nat
    BY <1>6, <2>3, CountFacts
  <2>5. CountBelow(LineStarts, k) = CountBelow(LineStarts, d) + 1
    BY <1>4, <1>6, <2>3, CountNext
  <2> QED
    BY <2>1, <2>2, <2>4, <2>5
<1>8. FirstByte < k
  BY <1>4, <1>6
<1> QED
  BY <1>4, <1>5, <1>6, <1>7, <1>8

\* It has been used: what remains is behind it.
LEMMA LineDone ==
  ASSUME CsvInv, ImportInv, LineUsed, caller \in {"header", "rows"}, line.kind = "line",
         caller' = "rows", outcome' = outcome,
         NEW k, k = NextByte, ExactBelow(k)'
  PROVE  ImportInv'
<1>1. /\ outcome = "none" /\ ~Looking /\ ~Looking' /\ NextByte' = NextByte
      /\ file' = file /\ file_line' = file_line /\ line'.kind = "none"
      /\ FirstByte' = FirstByte /\ LineStarts' = LineStarts
      /\ (NextByte \in LineStarts \/ NextByte > Len(file))'
      /\ CountBelow(LineStarts, NextByte)' = CountBelow(LineStarts, NextByte)
  BY UsedFacts
<1>2. FirstByte < NextByte /\ file_line = CountBelow(LineStarts, NextByte)
  BY LineGot
<1>3. Handled(k)'
  BY <1>1, <1>2 DEF Handled, IsCurrent
<1>4. (file_line = CountBelow(LineStarts, NextByte) + (IF Looking THEN 1 ELSE 0))'
  <2>1. file_line \in Nat
    BY ImportFacts
  <2>2. file_line + 0 = file_line /\ (IF Looking THEN 1 ELSE 0) = 0
    BY <1>1, <2>1
  <2>3. file_line = CountBelow(LineStarts, NextByte) + (IF Looking THEN 1 ELSE 0)
    BY <1>2, <2>2
  <2> QED
    BY <1>1, <2>3
<1>5. k \in LineStarts' \cup {NextByte'}
  BY <1>1
<1>6. HandledInv'
  BY <1>1, <1>3, <1>4, <1>5 DEF HandledInv
<1> QED
  BY <1>1, <1>6 DEF ImportInv

LEMMA ReadHeaderImport ==
  ASSUME CsvInv, ImportInv, ReadHeader
  PROVE  ImportInv'
<1>1. caller = "header" /\ LineUsed /\ update_list' = update_list
  BY DEF ReadHeader
<1>2. CASE /\ line.kind = "line" /\ Kind(line.text) = "header"
           /\ caller' = "rows" /\ UNCHANGED <<outcome, error_list>>
  <2>1. PICK d \in LineStarts :
             /\ d < NextByte /\ (\A m \in LineStarts : ~(d < m /\ m < NextByte))
             /\ line.text = TextAt(d)
             /\ d = FirstByte /\ update_list = <<>> /\ error_list = <<>>
    BY <1>1, <1>2, LineGot
  <2>2. PICK k : k = NextByte
    OBVIOUS
  <2>3. /\ file' = file /\ Taken' = Taken /\ Refused' = Refused
    BY <1>1, UsedFacts, FileKept
  <2>4. d \notin Taken /\ d \notin Refused
    <3>1. Kind(TextAt(d)) # "row"
      BY <1>2, <2>1
    <3> QED
      BY <2>1, <3>1 DEF Taken, Refused
  <2>5. /\ Taken \subseteq LineStarts /\ Refused \subseteq LineStarts
        /\ k \in Nat /\ \A m \in LineStarts : m \in Nat /\ m >= FirstByte
    BY <2>2, ImportFacts, StartFacts
  <2>6. \A m \in LineStarts : m < k => m = d
    BY <2>1, <2>2, <2>5
  <2>7. /\ \A m \in Taken : ~(m < k)
        /\ \A m \in Refused : ~(m < k)
    BY <2>4, <2>5, <2>6
  <2>8. CountBelow(Taken, k) = 0 /\ CountBelow(Refused, k) = 0
    BY <2>7, CountNone
  <2>9. Len(update_list') = 0 /\ Len(error_list') = 0
    <3>1. update_list' = <<>> /\ error_list' = <<>>
      BY <1>1, <1>2, <2>1
    <3> QED
      BY <3>1, EmptySeq
  <2>10. ExactBelow(k)'
    <3>1. CountBelow(Taken, k)' = CountBelow(Taken, k) /\ CountBelow(Refused, k)' = CountBelow(Refused, k)
      BY <2>3 DEF CountBelow
    <3> QED
      BY <2>3, <2>7, <2>8, <2>9, <3>1 DEF ExactBelow
  <2> QED
    BY <1>1, <1>2, <2>2, <2>10, LineDone
<1>3. CASE Leave("UPDATE_CSV")
  BY <1>1, <1>3, LeaveImport DEF Leave
<1> QED
  BY <1>2, <1>3 DEF ReadHeader

\* The lists after a line: the text is taken, or the error is.
LEMMA RowDone ==
  ASSUME CsvInv, ImportInv, caller = "rows", LineUsed, line.kind = "line",
         UNCHANGED <<caller, outcome>>,
         NEW what \in {"header", "long", "columns", "port"},
         IF Kind(line.text) = "row"
           THEN update_list' = Append(update_list, line.text) /\ UNCHANGED error_list
           ELSE Error(what) /\ UNCHANGED update_list
  PROVE  ImportInv'
<1> DEFINE Errors == [what : {"header", "long", "columns", "port"}, line : Nat]
           x == [what |-> what, line |-> file_line]
<1>1. PICK d \in LineStarts :
           /\ d < NextByte /\ (\A m \in LineStarts : ~(d < m /\ m < NextByte))
           /\ line.text = TextAt(d)
           /\ file_line = CountBelow(LineStarts, d) + 1
           /\ FirstByte < d /\ ExactBelow(d)
  BY LineGot
<1>2. PICK k : k = NextByte
  OBVIOUS
<1>3. /\ Len(file) \in Nat /\ k \in Nat /\ file_line \in Nat /\ file \in Seq(Byte)
      /\ update_list \in Seq(Seq(Cell)) /\ line.text \in Seq(Cell) /\ error_list \in Seq(Errors)
      /\ \A m \in LineStarts : m \in Nat
      /\ LineStarts \subseteq 1..Len(file)
  BY <1>2, ImportFacts
<1>4. /\ Taken \subseteq LineStarts /\ Refused \subseteq LineStarts
      /\ Taken \subseteq 1..Len(file) /\ Refused \subseteq 1..Len(file)
  BY <1>3, StartFacts
<1>5. x \in Errors /\ x.line = CountBelow(LineStarts, d) + 1
  BY <1>1, <1>3
<1> HIDE DEF Errors, x
<1>6. /\ d \in Nat /\ d < k /\ d <= k
      /\ \A m \in LineStarts : ~(d < m /\ m < k)
  BY <1>1, <1>2, <1>3
<1>7. /\ Len(update_list) = CountBelow(Taken, d)
      /\ \A n \in Taken : n < d => update_list[CountBelow(Taken, n) + 1] = TextAt(n)
      /\ Len(error_list) = CountBelow(Refused, d)
      /\ \A n \in Refused :
           n < d => error_list[CountBelow(Refused, n) + 1].line = CountBelow(LineStarts, n) + 1
  BY <1>1 DEF ExactBelow
<1>8. /\ d \in Taken <=> Kind(line.text) = "row"
      /\ d \in Refused <=> Kind(line.text) # "row"
  <2>1. d # FirstByte
    <3>1. FirstByte \in Nat
      BY <1>3, StartFacts
    <3> QED
      BY <1>1, <1>6, <3>1
  <2> QED
    BY <1>1, <2>1 DEF Taken, Refused
\* A set of lines without d, and a list that stays.
<1>9. ASSUME NEW S, S \subseteq LineStarts, d \notin S
      PROVE  CountBelow(S, k) = CountBelow(S, d) /\ \A n \in S : n < k => n < d
  <2>1. S \subseteq 1..Len(file)
    BY <1>3, <1>9
  <2>2. \A m \in S : ~(d <= m /\ m < k)
    <3>1. \A m \in S : m \in Nat /\ m # d /\ ~(d < m /\ m < k)
      BY <1>3, <1>6, <1>9
    <3> QED
      BY <1>6, <3>1
  <2>3. CountBelow(S, k) = CountBelow(S, d)
    BY <1>3, <1>6, <2>1, <2>2, CountFacts
  <2>4. \A n \in S : n < k => n < d
    <3>1. \A m \in S : m \in Nat
      BY <1>3, <1>9
    <3> QED
      BY <1>6, <2>2, <3>1
  <2> QED
    BY <2>3, <2>4
\* A set of lines with d.
<1>10. ASSUME NEW S, S \subseteq LineStarts, d \in S
       PROVE  /\ CountBelow(S, d) \in Nat /\ CountBelow(S, k) = CountBelow(S, d) + 1
              /\ \A n \in S : n < k /\ n # d => n < d /\ CountBelow(S, n) + 1 \in 1..CountBelow(S, d)
  <2>1. S \subseteq 1..Len(file) /\ \A m \in S : m \in Nat /\ ~(d < m /\ m < k)
    BY <1>3, <1>6, <1>10
  <2>2. CountBelow(S, k) = CountBelow(S, d) + 1
    BY <1>3, <1>6, <1>10, <2>1, CountNext
  <2>3. CountBelow(S, d) \in Nat
    BY <1>3, <1>6, <2>1, CountFacts
  <2>4. ASSUME NEW n \in S, n < k, n # d PROVE n < d /\ CountBelow(S, n) + 1 \in 1..CountBelow(S, d)
    <3>1. n \in Nat /\ n < d
      BY <1>6, <2>1, <2>4
    <3>2. CountBelow(S, n) \in Nat /\ CountBelow(S, n) + 1 <= CountBelow(S, d)
      BY <1>3, <1>6, <2>1, <3>1, CountFacts
    <3> QED
      BY <2>3, <3>1, <3>2
  <2> QED
    BY <2>2, <2>3, <2>4
<1> DEFINE Texts(l) == /\ Len(l) = CountBelow(Taken, k)
                       /\ \A n \in Taken : n < k => l[CountBelow(Taken, n) + 1] = TextAt(n)
           Lines(l) == /\ Len(l) = CountBelow(Refused, k)
                       /\ \A n \in Refused :
                            n < k => l[CountBelow(Refused, n) + 1].line = CountBelow(LineStarts, n) + 1
<1>11. ASSUME d \in Taken PROVE Texts(Append(update_list, line.text))
  <2> DEFINE l == Append(update_list, line.text)
             T == Seq(Cell)
  <2>1. update_list \in Seq(T) /\ line.text \in T
    BY <1>3, <1>5
  <2> HIDE DEF T
  <2>2. /\ Len(update_list) \in Nat /\ Len(l) = Len(update_list) + 1 /\ l[Len(update_list) + 1] = line.text
        /\ \A i \in 1..Len(update_list) : l[i] = update_list[i]
    BY <2>1, AppendProperties, LenProperties
  <2> HIDE DEF l
  <2>3. /\ CountBelow(Taken, k) = CountBelow(Taken, d) + 1
        /\ \A n \in Taken : n < k /\ n # d => n < d /\ CountBelow(Taken, n) + 1 \in 1..CountBelow(Taken, d)
    BY <1>4, <1>11, <1>10
  <2>4. \A n \in Taken : n < k /\ n # d =>
          n < d /\ l[CountBelow(Taken, n) + 1] = update_list[CountBelow(Taken, n) + 1]
    BY <1>7, <2>2, <2>3
  <2>5. Len(l) = CountBelow(Taken, k) /\ l[CountBelow(Taken, d) + 1] = line.text
    BY <1>7, <2>2, <2>3
  <2>6. Texts(l)
    BY <1>1, <1>7, <2>4, <2>5
  <2> QED
    BY <2>6 DEF l
<1>12. ASSUME d \in Refused PROVE Lines(Append(error_list, x))
  <2> DEFINE l == Append(error_list, x)
             T == Errors
  <2>1. error_list \in Seq(T) /\ x \in T
    BY <1>3, <1>5
  <2> HIDE DEF T
  <2>2. /\ Len(error_list) \in Nat /\ Len(l) = Len(error_list) + 1 /\ l[Len(error_list) + 1] = x
        /\ \A i \in 1..Len(error_list) : l[i] = error_list[i]
    BY <2>1, AppendProperties, LenProperties
  <2> HIDE DEF l
  <2>3. /\ CountBelow(Refused, k) = CountBelow(Refused, d) + 1
        /\ \A n \in Refused : n < k /\ n # d => n < d /\ CountBelow(Refused, n) + 1 \in 1..CountBelow(Refused, d)
    BY <1>4, <1>12, <1>10
  <2>4. \A n \in Refused : n < k /\ n # d =>
          n < d /\ l[CountBelow(Refused, n) + 1] = error_list[CountBelow(Refused, n) + 1]
    BY <1>7, <2>2, <2>3
  <2>5. Len(l) = CountBelow(Refused, k) /\ l[CountBelow(Refused, d) + 1] = x
    BY <1>7, <2>2, <2>3
  <2>6. Lines(l)
    BY <1>5, <1>7, <2>4, <2>5
  <2> QED
    BY <2>6 DEF l
<1>13. d \notin Taken => Texts(update_list)
  BY <1>4, <1>7, <1>9
<1>14. d \notin Refused => Lines(error_list)
  BY <1>4, <1>7, <1>9
<1> HIDE DEF Texts, Lines
<1>15. Texts(update_list') /\ Lines(error_list')
  <2>1. CASE Kind(line.text) = "row"
    BY <1>8, <1>11, <1>14, <2>1
  <2>2. CASE Kind(line.text) # "row"
    <3>1. error_list' = Append(error_list, x) /\ update_list' = update_list
      BY <2>2 DEF Error, x
    <3> QED
      BY <1>8, <1>12, <1>13, <2>2, <3>1
  <2> QED
    BY <2>1, <2>2
<1>16. ExactBelow(k)'
  <2>1. /\ Taken' = Taken /\ Refused' = Refused /\ LineStarts' = LineStarts
        /\ \A n : TextAt(n)' = TextAt(n)
    BY UsedFacts, FileKept
  <2>2. \A n : /\ CountBelow(Taken, n)' = CountBelow(Taken, n)
               /\ CountBelow(Refused, n)' = CountBelow(Refused, n)
               /\ CountBelow(LineStarts, n)' = CountBelow(LineStarts, n)
    BY <2>1 DEF CountBelow
  <2> QED
    BY <1>15, <2>1, <2>2 DEF ExactBelow, Texts, Lines
<1> QED
  BY <1>2, <1>16, LineDone

LEMMA ReadRowImport ==
  ASSUME CsvInv, ImportInv, ReadRow
  PROVE  ImportInv'
<1>1. caller = "rows" /\ LineUsed
  BY DEF ReadRow
<1>2. CASE LastRow
  BY <1>1, <1>2, LastRowImport
<1>3. CASE RowError
  <2>1. CASE line.kind = "long"
    BY <1>1, <1>3, <2>1, LongImport DEF RowError
  <2>2. CASE line.kind = "line" /\ Kind(line.text) \notin {"row", "badport", "hugeport"} /\ Error("columns")
    BY <1>1, <1>3, <2>2, RowDone DEF RowError
  <2> QED
    BY <1>3, <2>1, <2>2 DEF RowError
<1>4. CASE RowInvalid
  BY <1>1, <1>4, RowDone DEF RowInvalid
<1>5. CASE RowOutOfRange
  BY <1>1, <1>5, LeaveImport DEF RowOutOfRange, Leave
<1>6. CASE RowTaken
  BY <1>1, <1>6, RowDone DEF RowTaken
<1> QED
  BY <1>2, <1>3, <1>4, <1>5, <1>6 DEF ReadRow

LEMMA ImportInvStep ==
  ASSUME CsvInv, ImportInv, [CsvNext]_csvVars
  PROVE  ImportInv'
<1>1. CASE CallReader
  BY <1>1, NextLineImport, ScanImport, AsideSteps DEF CallReader, next_line
<1>2. CASE OpenFile \/ ReadHeader \/ ReadRow
  BY <1>2, OpenFileImport, ReadHeaderImport, ReadRowImport
<1>3. CASE CloseReader \/ (ReadingThread /\ UNCHANGED importVars) \/ UNCHANGED csvVars
  BY <1>3, AsideSteps
<1> QED
  BY <1>1, <1>2, <1>3 DEF CsvNext, Caller, Stopped

LEMMA ImportInvIsExact ==
  ASSUME CsvInv, ImportInv
  PROVE  ImportIsExact
<1> SUFFICES ASSUME outcome = "UPDATE_OK"
             PROVE  /\ Len(update_list) = Cardinality(Taken)
                    /\ \A n \in Taken : update_list[CountBelow(Taken, n) + 1] = TextAt(n)
                    /\ Len(error_list) = Cardinality(Refused)
                    /\ \A n \in Refused :
                         error_list[CountBelow(Refused, n) + 1].line = CountBelow(LineStarts, n) + 1
  BY DEF ImportIsExact
<1>1. HandledInv /\ caller \notin {"open", "header"}
  BY DEF ImportInv, Stuck
<1>2. PICK d \in LineStarts \cup {NextByte} : Handled(d)
  BY <1>1 DEF HandledInv
<1>3. d = NextByte /\ NextByte > Len(file) /\ ExactBelow(d)
  BY <1>1, <1>2 DEF HandledInv, Handled, IsCurrent
<1>4. /\ Len(file) \in Nat /\ NextByte \in Nat /\ file \in Seq(Byte)
      /\ \A m \in LineStarts : m \in Nat /\ m <= Len(file)
  BY ImportFacts
<1>5. /\ Taken \subseteq LineStarts /\ Refused \subseteq LineStarts /\ LineStarts \subseteq 1..Len(file)
  BY <1>4, StartFacts
<1>6. d \in Nat /\ \A m \in LineStarts : m < d
  BY <1>3, <1>4
<1>7. ASSUME NEW S, S \subseteq LineStarts PROVE CountBelow(S, d) = Cardinality(S)
  <2>1. S \subseteq 1..Len(file) /\ \A m \in S : m < d
    BY <1>5, <1>6, <1>7
  <2> QED
    BY <1>4, <1>6, <2>1, CountFacts
<1>8. CountBelow(Taken, d) = Cardinality(Taken) /\ CountBelow(Refused, d) = Cardinality(Refused)
  BY <1>5, <1>7
<1>9. /\ \A n \in Taken : n < d
      /\ \A n \in Refused : n < d
  BY <1>5, <1>6
<1> QED
  BY <1>3, <1>8, <1>9 DEF ExactBelow

\* When loadUpdateFactoriesFromCSV returns UPDATE_OK, every line of the file
\* behind the header has been turned into an object or into an error that names
\* it, once and in order (UpdateFactory.cpp:403-430), for every file and every
\* timing of the reading thread.
THEOREM ImportExact == CsvSpec => []ImportIsExact
<1>1. ImportInit => ImportInv
  BY ImportInvInit
<1>2. CsvInv /\ ImportInv /\ [CsvNext]_csvVars => ImportInv'
  BY ImportInvStep
<1>3. CsvInv /\ ImportInv => ImportIsExact
  BY ImportInvIsExact
<1> QED
  BY <1>1, <1>2, <1>3, CsvInvariance, PTL DEF CsvSpec

-----------------------------------------------------------------------------
(* What the operators of CsvColumns return.                                *)

\* A place that find_next_column_end finds, and that there is no other.
LEMMA FindFacts ==
  ASSUME NEW S, NEW m \in Seq(S), NEW i \in Nat, NEW symbols, i >= 1,
         \E j \in i..Len(m) : m[j] \in symbols
  PROVE  /\ Find(m, i, symbols) \in i..Len(m)
         /\ m[Find(m, i, symbols)] \in symbols
         /\ \A k \in i..(Find(m, i, symbols) - 1) : m[k] \notin symbols
<1> DEFINE T == {j \in i..Len(m) : m[j] \in symbols}
<1>1. Len(m) \in Nat
  BY LenProperties
<1>2. T \subseteq Nat /\ T # {}
  BY <1>1
<1>3. PICK t \in T : \A y \in T : t <= y
  <2> HIDE DEF T
  <2> QED
    BY <1>2, MinIsLeast
<1>4. t \in i..Len(m) /\ m[t] \in symbols
  OBVIOUS
<1>5. ASSUME NEW k \in i..(t - 1) PROVE m[k] \notin symbols
  <2>1. k \in i..Len(m) /\ ~(t <= k)
    BY <1>1, <1>4
  <2> QED
    BY <1>3, <2>1
<1>6. \E j \in i..Len(m) : m[j] \in symbols /\ \A k \in i..(j - 1) : m[k] \notin symbols
  BY <1>4, <1>5
<1>7. Find(m, i, symbols) = CHOOSE j \in i..Len(m) : m[j] \in symbols /\ \A k \in i..(j - 1) : m[k] \notin symbols
  BY DEF Find
<1> DEFINE f == Find(m, i, symbols)
<1> HIDE DEF f, T
<1>8. f \in i..Len(m) /\ m[f] \in symbols /\ \A k \in i..(f - 1) : m[k] \notin symbols
  BY <1>6, <1>7 DEF f
<1> QED
  BY <1>8 DEF f

LEMMA FindIs ==
  ASSUME NEW S, NEW m \in Seq(S), NEW i \in Nat, NEW symbols, i >= 1,
         NEW j \in i..Len(m), m[j] \in symbols, \A k \in i..(j - 1) : m[k] \notin symbols
  PROVE  Find(m, i, symbols) = j
<1> DEFINE f == Find(m, i, symbols)
<1>1. f \in i..Len(m) /\ m[f] \in symbols /\ \A k \in i..(f - 1) : m[k] \notin symbols
  BY FindFacts
<1>2. Len(m) \in Nat
  BY LenProperties
<1> HIDE DEF f
<1>3. f \notin i..(j - 1) /\ j \notin i..(f - 1)
  BY <1>1
<1>4. f \in Int /\ j \in Int /\ i <= f /\ i <= j
  BY <1>1, <1>2
<1>5. f = j
  BY <1>3, <1>4
<1> QED
  BY <1>5 DEF f

\* A string ends at its first NUL; what is behind that plays no part.
LEMMA CStringIs ==
  ASSUME NEW S, NEW m \in Seq(S), NEW i \in Nat, i >= 1,
         NEW j \in i..Len(m), m[j] = "NUL", \A k \in i..(j - 1) : m[k] # "NUL"
  PROVE  CStringAt(m, i) = SubSeq(m, i, j - 1)
<1>1. Find(m, i, {"NUL"}) = j
  <2> DEFINE sy == {"NUL"}
  <2>1. m[j] \in sy /\ \A k \in i..(j - 1) : m[k] \notin sy
    OBVIOUS
  <2> HIDE DEF sy
  <2>2. Find(m, i, sy) = j
    BY <2>1, FindIs
  <2> QED
    BY <2>2 DEF sy
<1> QED
  BY <1>1 DEF CStringAt

LEMMA SamePart ==
  ASSUME NEW S, NEW s \in Seq(S), NEW t \in Seq(S), NEW i \in Nat, NEW j \in Nat, 1 <= i, i <= j + 1,
         j <= Len(s), j <= Len(t), \A k \in i..j : s[k] = t[k]
  PROVE  SubSeq(s, i, j) = SubSeq(t, i, j)
<1> DEFINE a == i - 1
           n == j - a
<1>1. a \in Nat /\ n \in Nat /\ a + n <= Len(s) /\ a + n <= Len(t) /\ a + 1 = i /\ a + n = j
  OBVIOUS
<1>2. \A k \in 1..n : a + k \in i..j
  OBVIOUS
<1> HIDE DEF a, n
<1> DEFINE x == SubSeq(s, a + 1, a + n)
           y == SubSeq(t, a + 1, a + n)
<1>3. /\ x \in Seq(S) /\ Len(x) = n /\ \A k \in 1..n : x[k] = s[a + k]
      /\ y \in Seq(S) /\ Len(y) = n /\ \A k \in 1..n : y[k] = t[a + k]
  BY <1>1, PartFacts
<1>4. \A k \in 1..n : x[k] = y[k]
  BY <1>2, <1>3
<1> HIDE DEF x, y
<1>5. x = y
  BY <1>3, <1>4, SeqEqual
<1> QED
  BY <1>1, <1>5 DEF x, y

LEMMA CStringKept ==
  ASSUME NEW S, NEW m \in Seq(S), NEW t \in Seq(S), Len(t) = Len(m), NEW i \in Nat, i >= 1,
         NEW j \in i..Len(m), m[j] = "NUL", \A k \in i..j : t[k] = m[k]
  PROVE  CStringAt(t, i) = CStringAt(m, i)
<1> DEFINE sy == {"NUL"}
           f == Find(m, i, sy)
<1>0. Len(m) \in Nat /\ j \in Nat /\ i <= j /\ j <= Len(m)
  BY LenProperties
<1>1. \E k \in i..Len(m) : m[k] \in sy
  OBVIOUS
<1>2. m[j] \in sy /\ \A k : m[k] \in sy <=> m[k] = "NUL"
  OBVIOUS
<1> HIDE DEF sy
<1>3. f \in i..Len(m) /\ m[f] \in sy /\ \A k \in i..(f - 1) : m[k] \notin sy
  BY <1>1, FindFacts
<1> HIDE DEF f
<1>4. j \notin i..(f - 1)
  BY <1>2, <1>3
<1>5. f \in Nat /\ i <= f /\ f <= j
  BY <1>0, <1>3, <1>4
<1>6. f \in i..Len(t) /\ \A k \in i..f : t[k] = m[k]
  BY <1>0, <1>5
<1>7. t[f] = m[f] /\ \A k \in i..(f - 1) : t[k] = m[k]
  BY <1>5, <1>6
<1>8. t[f] \in sy /\ \A k \in i..(f - 1) : t[k] \notin sy
  BY <1>3, <1>7
<1>9. Find(t, i, sy) = f
  BY <1>6, <1>8, FindIs
<1>10. SubSeq(t, i, f - 1) = SubSeq(m, i, f - 1)
  <2> DEFINE l == f - 1
  <2>1. l \in Nat /\ i <= l + 1 /\ l <= Len(m) /\ l <= Len(t)
    BY <1>0, <1>5
  <2> HIDE DEF l
  <2>2. \A k \in i..l : t[k] = m[k]
    BY <1>7 DEF l
  <2>3. SubSeq(t, i, l) = SubSeq(m, i, l)
    BY <2>1, <2>2, SamePart
  <2> QED
    BY <2>3 DEF l
<1> QED
  BY <1>9, <1>10 DEF CStringAt, f, sy

LEMMA FirstBlackFacts ==
  ASSUME NEW m, NEW b \in Nat, NEW e \in Nat, b <= e
  PROVE  /\ FirstBlack(m, b, e) \in b..e
         /\ FirstBlack(m, b, e) = e \/ m[FirstBlack(m, b, e)] # " "
         /\ \A k \in b..(FirstBlack(m, b, e) - 1) : m[k] = " "
<1> DEFINE w == " "
           P(i) == (i = e \/ m[i] # w) /\ \A k \in b..(i - 1) : m[k] = w
           T == {i \in b..e : i = e \/ m[i] # w}
           f == FirstBlack(m, b, e)
<1> HIDE DEF w
<1>1. T \subseteq Nat /\ e \in T
  OBVIOUS
<1>2. PICK t \in T : \A y \in T : t <= y
  <2> HIDE DEF T
  <2> QED
    BY <1>1, MinIsLeast
<1>3. t \in b..e /\ (t = e \/ m[t] # w)
  OBVIOUS
<1>4. ASSUME NEW k \in b..(t - 1) PROVE m[k] = w
  <2>1. k \in b..e /\ ~(t <= k) /\ k # e
    BY <1>3
  <2> QED
    BY <1>2, <2>1
<1>5. \E i \in b..e : P(i)
  BY <1>3, <1>4
<1>6. f = CHOOSE i \in b..e : P(i)
  BY DEF FirstBlack, w
<1> HIDE DEF f
<1>7. f \in b..e /\ P(f)
  BY <1>5, <1>6
<1> QED
  BY <1>7 DEF f, w

LEMMA AfterLastFacts ==
  ASSUME NEW m, NEW b \in Nat, NEW e \in Nat, b <= e
  PROVE  /\ AfterLast(m, b, e) \in b..e
         /\ AfterLast(m, b, e) = b \/ m[AfterLast(m, b, e) - 1] # " "
         /\ \A k \in AfterLast(m, b, e)..(e - 1) : m[k] = " "
<1> DEFINE w == " "
           P(i) == (i = b \/ m[i - 1] # w) /\ \A k \in i..(e - 1) : m[k] = w
           T == {i \in b..e : \A k \in i..(e - 1) : m[k] = w}
           f == AfterLast(m, b, e)
<1> HIDE DEF w
<1>1. T \subseteq Nat /\ e \in T
  OBVIOUS
<1>2. PICK t \in T : \A y \in T : t <= y
  <2> HIDE DEF T
  <2> QED
    BY <1>1, MinIsLeast
<1>3. t \in b..e /\ \A k \in t..(e - 1) : m[k] = w
  OBVIOUS
<1>4. ASSUME t # b, m[t - 1] = w PROVE FALSE
  <2> DEFINE u == t - 1
  <2>1. u \in b..e /\ ~(t <= u)
    BY <1>3, <1>4
  <2>2. \A k \in u..(e - 1) : k = u \/ k \in t..(e - 1)
    BY <1>3
  <2>3. m[u] = w
    BY <1>4
  <2> HIDE DEF u
  <2>4. \A k \in u..(e - 1) : m[k] = w
    BY <1>3, <2>2, <2>3
  <2> QED
    BY <1>2, <2>1, <2>4
<1>5. \E i \in b..e : P(i)
  BY <1>3, <1>4
<1>6. f = CHOOSE i \in b..e : P(i)
  BY DEF AfterLast, w
<1> HIDE DEF f
<1>7. f \in b..e /\ P(f)
  BY <1>5, <1>6
<1> QED
  BY <1>7 DEF f, w

\* What trim keeps of a column is the column without the blanks around it.
LEMMA TrimIs ==
  ASSUME NEW S, NEW m \in Seq(S), NEW b \in Nat, NEW e \in Nat, 1 <= b, b <= e, e <= Len(m),
         NEW t, t = FirstBlack(m, b, e), NEW u, u = AfterLast(m, t, e)
  PROVE  /\ t \in b..e /\ u \in t..e /\ t \in Nat /\ u \in Nat
         /\ SubSeq(m, t, u - 1) = WithoutBlanks(SubSeq(m, b, e - 1))
<1> DEFINE w == " "
<1>1. t \in b..e /\ (t = e \/ m[t] # w) /\ \A k \in b..(t - 1) : m[k] = w
  BY FirstBlackFacts DEF w
<1>2. t \in Nat /\ b <= t /\ t <= e
  <2>1. t \in b..e
    BY <1>1
  <2> QED
    BY <2>1
<1>3. u \in t..e /\ (u = t \/ m[u - 1] # w) /\ \A k \in u..(e - 1) : m[k] = w
  BY <1>2, AfterLastFacts DEF w
<1> HIDE DEF w
<1>4. u \in Nat /\ t <= u /\ u <= e
  <2>1. u \in t..e
    BY <1>3
  <2> QED
    BY <1>2, <2>1
<1> DEFINE a == b - 1
           n == e - b
           x == SubSeq(m, a + 1, a + n)
           black == {i \in DOMAIN x : x[i] # w}
           P(i) == \A j \in black : i <= j
           Q(i) == \A j \in black : i >= j
<1>5. a \in Nat /\ n \in Nat /\ a + n <= Len(m) /\ a + 1 = b /\ a + n = e - 1 /\ Len(m) \in Nat
  BY LenProperties
<1> HIDE DEF a, n
<1>6. x \in Seq(S) /\ Len(x) = n /\ \A i \in 1..n : x[i] = m[a + i]
  <2>1. m \in Seq(S) /\ a \in Nat /\ n \in Nat /\ a + n <= Len(m)
    BY <1>5
  <2> QED
    BY <2>1, PartFacts
<1>7. DOMAIN x = 1..n
  BY <1>6, LenProperties
<1>8. WithoutBlanks(x) = SubSeq(x, CHOOSE i \in black \cup {n + 1} : P(i), CHOOSE i \in black \cup {0} : Q(i))
  BY <1>6 DEF WithoutBlanks, w
<1> HIDE DEF x
<1>9. \A i : i \in black <=> i \in 1..n /\ m[a + i] # w
  BY <1>6, <1>7
<1> HIDE DEF black
<1>10. CASE t = e
  <2>1. ASSUME NEW i \in 1..n PROVE m[a + i] = w
    <3>1. a + i \in b..(t - 1)
      BY <1>5, <1>10
    <3> QED
      BY <1>1, <3>1
  <2>2. black = {}
    BY <1>9, <2>1
  <2>3. (CHOOSE i \in black \cup {n + 1} : P(i)) = n + 1 /\ (CHOOSE i \in black \cup {0} : Q(i)) = 0
    BY <2>2
  <2>4. SubSeq(x, n + 1, 0) = <<>>
    BY <1>5, SubSeqEmpty
  <2>5. u = e
    BY <1>3, <1>10, <1>4
  <2>6. SubSeq(m, t, u - 1) = <<>>
    <3>1. t \in Int /\ u - 1 \in Int /\ u - 1 < t
      BY <1>2, <1>4, <1>10, <2>5
    <3> QED
      BY <3>1, SubSeqEmpty
  <2>7. WithoutBlanks(x) = <<>>
    BY <1>8, <2>3, <2>4
  <2> QED
    BY <1>1, <1>2, <1>3, <1>4, <1>5, <2>6, <2>7 DEF x
<1>11. CASE t # e
  <2> DEFINE f == t - a
             l == u - 1 - a
             p == CHOOSE i \in black \cup {n + 1} : P(i)
             q == CHOOSE i \in black \cup {0} : Q(i)
  <2>1. m[t] # w /\ t < e
    BY <1>1, <1>2, <1>11
  <2>2. u # t
    <3>1. ASSUME u = t PROVE FALSE
      <4>1. t \in u..(e - 1)
        BY <1>2, <2>1, <3>1
      <4> QED
        BY <1>3, <2>1, <4>1
    <3> QED
      BY <3>1
  <2>3. m[u - 1] # w /\ t < u
    BY <1>2, <1>3, <1>4, <2>2
  <2>4. f \in 1..n /\ a + f = t /\ l \in 1..n /\ a + l = u - 1 /\ f <= l
    BY <1>2, <1>4, <1>5, <2>1, <2>3
  <2>5. f \in black /\ l \in black
    <3> HIDE DEF f, l
    <3> QED
      BY <1>9, <2>1, <2>3, <2>4
  <2> HIDE DEF f, l
  <2>6. ASSUME NEW j \in black PROVE f <= j /\ j <= l
    <3>1. j \in 1..n /\ m[a + j] # w
      BY <1>9
    <3>2. a + j \notin b..(t - 1) /\ a + j \notin u..(e - 1)
      BY <1>1, <1>3, <3>1
    <3> QED
      BY <1>2, <1>4, <1>5, <2>4, <3>1, <3>2
  <2>7. P(f) /\ Q(l)
    BY <2>4, <2>6
  <2>8. p \in black \cup {n + 1} /\ P(p) /\ q \in black \cup {0} /\ Q(q)
    BY <2>5, <2>7
  <2> HIDE DEF p, q
  <2>9. p = f
    <3>1. p <= f /\ p \in black \cup {n + 1}
      BY <2>5, <2>8
    <3>2. p # n + 1
      BY <1>5, <2>4, <3>1
    <3>3. p \in black /\ f <= p
      BY <2>6, <3>1, <3>2
    <3>4. p \in 1..n /\ f \in 1..n
      BY <1>9, <2>4, <3>3
    <3> QED
      BY <1>5, <3>1, <3>3, <3>4
  <2>10. q = l
    <3>1. q >= l /\ q \in black \cup {0}
      BY <2>5, <2>8
    <3>2. q # 0
      BY <1>5, <2>4, <3>1
    <3>3. q \in black /\ q <= l
      BY <2>6, <3>1, <3>2
    <3>4. q \in 1..n /\ l \in 1..n
      BY <1>9, <2>4, <3>3
    <3> QED
      BY <1>5, <3>1, <3>3, <3>4
  <2>11. WithoutBlanks(x) = SubSeq(x, f, l)
    BY <1>8, <2>9, <2>10 DEF p, q
  <2>12. SubSeq(SubSeq(m, a + 1, a + n), f, l) = SubSeq(m, a + 1 + f - 1, a + 1 + l - 1)
    <3> DEFINE c == a + 1
               d == a + n
    <3>1. c \in 1..Len(m) /\ d \in 1..Len(m) /\ d - c + 1 = n
      BY <1>5, <2>4
    <3> HIDE DEF c, d
    <3>2. f \in 1..(d - c + 1) /\ l \in 1..(d - c + 1)
      BY <2>4, <3>1
    <3>3. SubSeq(SubSeq(m, c, d), f, l) = SubSeq(m, c + f - 1, c + l - 1)
      BY <3>1, <3>2, SubSeqOfSubSeq
    <3> QED
      BY <3>3 DEF c, d
  <2>13. a + 1 + f - 1 = t /\ a + 1 + l - 1 = u - 1
    BY <1>2, <1>4, <1>5, <2>4
  <2>14. SubSeq(x, f, l) = SubSeq(m, t, u - 1)
    BY <2>12, <2>13 DEF x
  <2> QED
    BY <1>1, <1>2, <1>3, <1>4, <1>5, <2>11, <2>14 DEF x
<1> QED
  BY <1>10, <1>11
\* The same, of where trim itself says that it begins and ends.
LEMMA TrimKeeps ==
  ASSUME NEW S, NEW m \in Seq(S), NEW b \in Nat, NEW e \in Nat, 1 <= b, b <= e, e <= Len(m)
  PROVE  SubSeq(m, FirstBlack(m, b, e), AfterLast(m, FirstBlack(m, b, e), e) - 1)
           = WithoutBlanks(SubSeq(m, b, e - 1))
  BY TrimIs

-----------------------------------------------------------------------------
(* The columns of a line, by the cuts around them.                         *)

LEMMA EndOfFacts ==
  ASSUME NEW S, NEW s \in Seq(S)
  PROVE  /\ Len(s) \in Nat /\ EndOf(s) \in Nat /\ 1 <= EndOf(s) /\ EndOf(s) <= Len(s) + 1
         /\ EndOf(s) = Len(s) + 1 \/ s[EndOf(s)] = "NUL"
         /\ \A k \in 1..(EndOf(s) - 1) : s[k] # "NUL"
<1> DEFINE w == "NUL"
           P(i) == (i = Len(s) + 1 \/ s[i] = w) /\ \A k \in 1..(i - 1) : s[k] # w
           T == {i \in 1..(Len(s) + 1) : i = Len(s) + 1 \/ s[i] = w}
           f == EndOf(s)
<1> HIDE DEF w
<1>0. Len(s) \in Nat
  BY LenProperties
<1>1. T \subseteq Nat /\ Len(s) + 1 \in T
  BY <1>0
<1>2. PICK t \in T : \A y \in T : t <= y
  <2> HIDE DEF T
  <2> QED
    BY <1>1, MinIsLeast
<1>3. t \in 1..(Len(s) + 1) /\ (t = Len(s) + 1 \/ s[t] = w)
  OBVIOUS
<1>4. ASSUME NEW k \in 1..(t - 1) PROVE s[k] # w
  <2>1. k \in 1..(Len(s) + 1) /\ ~(t <= k)
    BY <1>0, <1>3
  <2> QED
    BY <1>2, <2>1
<1>5. \E i \in 1..(Len(s) + 1) : P(i)
  BY <1>3, <1>4
<1>6. f = CHOOSE i \in 1..(Len(s) + 1) : P(i)
  BY DEF EndOf, w
<1> HIDE DEF f
<1>7. f \in 1..(Len(s) + 1) /\ P(f)
  BY <1>5, <1>6
<1>8. f \in Nat /\ 1 <= f /\ f <= Len(s) + 1
  BY <1>0, <1>7
<1> QED
  BY <1>0, <1>7, <1>8 DEF f, w

LEMMA ColumnCutsFacts ==
  ASSUME NEW S, NEW s \in Seq(S)
  PROVE  /\ ColumnCuts(s) \subseteq 0..EndOf(s) /\ 0 \in ColumnCuts(s) /\ EndOf(s) \in ColumnCuts(s)
         /\ \A c \in ColumnCuts(s) : c # 0 /\ c # EndOf(s) => c \in 1..(EndOf(s) - 1) /\ s[c] = ","
         /\ \A c \in 1..(EndOf(s) - 1) : s[c] = "," => c \in ColumnCuts(s)
<1> DEFINE E == EndOf(s)
           w == ","
<1>1. E \in Nat /\ 1 <= E
  BY EndOfFacts
<1> HIDE DEF E, w
<1>2. ColumnCuts(s) = {0, E} \cup {i \in 1..(E - 1) : s[i] = w}
  BY DEF ColumnCuts, E, w
<1>3. {0, E} \cup {i \in 1..(E - 1) : s[i] = w} \subseteq 0..E
  BY <1>1
<1>4. /\ \A c \in ColumnCuts(s) : c # 0 /\ c # E => c \in 1..(E - 1) /\ s[c] = w
      /\ \A c \in 1..(E - 1) : s[c] = w => c \in ColumnCuts(s)
      /\ 0 \in ColumnCuts(s) /\ E \in ColumnCuts(s)
  BY <1>2
<1> QED
  BY <1>2, <1>3, <1>4 DEF E, w

LEMMA ColumnRanks ==
  ASSUME NEW S, NEW s \in Seq(S)
  PROVE  /\ \A c \in ColumnCuts(s) : ColumnsBefore(s, c) \in Nat /\ ColumnCut(s, ColumnsBefore(s, c)) = c
         /\ \A c, e \in ColumnCuts(s) : c < e => ColumnsBefore(s, c) < ColumnsBefore(s, e)
         /\ \A c, e \in ColumnCuts(s) : c < e /\ (\A d \in ColumnCuts(s) : ~(c < d /\ d < e)) =>
              ColumnsBefore(s, e) = ColumnsBefore(s, c) + 1
         /\ Cardinality(ColumnCuts(s)) - 1 = ColumnsBefore(s, EndOf(s))
         /\ ColumnsBefore(s, 0) = 0
<1> DEFINE l == EndOf(s)
           C == ColumnCuts(s)
           B(c) == ColumnsBefore(s, c)
<1>1. l \in Nat /\ C \in SUBSET (0..l) /\ 0 \in C /\ l \in C
  BY EndOfFacts, ColumnCutsFacts
<1>2. \A c : B(c) = Cardinality({d \in C : d < c})
  BY DEF ColumnsBefore
<1>3. \A i : ColumnCut(s, i) = CHOOSE c \in C : Cardinality({d \in C : d < c}) = i
  BY DEF ColumnCut
<1> HIDE DEF l, C, B
<1>4. /\ \A c \in C : Cardinality({d \in C : d < c}) \in Nat
      /\ \A c, e \in C : c < e => Cardinality({d \in C : d < c}) < Cardinality({d \in C : d < e})
      /\ \A c, e \in C : c < e /\ (\A d \in C : ~(c < d /\ d < e)) =>
           Cardinality({d \in C : d < e}) = Cardinality({d \in C : d < c}) + 1
      /\ \A c \in C : (\A d \in C : d <= c) => Cardinality(C) = Cardinality({d \in C : d < c}) + 1
      /\ \A c \in C : (\A d \in C : c <= d) => Cardinality({d \in C : d < c}) = 0
  BY <1>1, Ranks
<1>5. /\ \A c \in C : B(c) \in Nat
      /\ \A c, e \in C : c < e => B(c) < B(e)
      /\ \A c, e \in C : c < e /\ (\A d \in C : ~(c < d /\ d < e)) => B(e) = B(c) + 1
      /\ \A c \in C : (\A d \in C : d <= c) => Cardinality(C) = B(c) + 1
      /\ \A c \in C : (\A d \in C : c <= d) => B(c) = 0
  BY <1>2, <1>4
<1>6. ASSUME NEW c \in C PROVE ColumnCut(s, B(c)) = c
  <2> DEFINE x == ColumnCut(s, B(c))
  <2>1. \E e \in C : B(e) = B(c)
    OBVIOUS
  <2>2. x = CHOOSE e \in C : B(e) = B(c)
    BY <1>2, <1>3
  <2> HIDE DEF x
  <2>3. x \in C /\ B(x) = B(c)
    BY <2>1, <2>2
  <2>4. x \in Int /\ c \in Int
    BY <1>1, <2>3
  <2>5. ~(x < c) /\ ~(c < x)
    BY <1>5, <2>3
  <2> QED
    BY <2>4, <2>5 DEF x
<1>7. Cardinality(C) = B(l) + 1 /\ B(l) \in Nat
  BY <1>1, <1>5
<1>8. Cardinality(C) - 1 = B(l)
  BY <1>7
<1>9. B(0) = 0
  BY <1>1, <1>5
<1> QED
  BY <1>5, <1>6, <1>8, <1>9 DEF l, C, B

LEMMA ColumnsLength ==
  ASSUME NEW S, NEW s \in Seq(S)
  PROVE  /\ Len(Columns(s)) = ColumnsBefore(s, EndOf(s)) /\ Len(Columns(s)) \in Nat
         /\ DOMAIN Columns(s) = 1..Len(Columns(s))
         /\ \A i \in 1..Len(Columns(s)) :
              Columns(s)[i] = WithoutBlanks(SubSeq(s, ColumnCut(s, i - 1) + 1, ColumnCut(s, i) - 1))
<1> DEFINE K == Cardinality(ColumnCuts(s)) - 1
<1>1. K = ColumnsBefore(s, EndOf(s)) /\ K \in Nat
  <2>1. Cardinality(ColumnCuts(s)) - 1 = ColumnsBefore(s, EndOf(s))
    BY ColumnRanks
  <2>2. ColumnsBefore(s, EndOf(s)) \in Nat
    BY ColumnRanks, ColumnCutsFacts
  <2> QED
    BY <2>1, <2>2
<1>2. Columns(s) = [i \in 1..K |-> WithoutBlanks(SubSeq(s, ColumnCut(s, i - 1) + 1, ColumnCut(s, i) - 1))]
  BY DEF Columns
<1> HIDE DEF K
<1>3. DOMAIN Columns(s) = 1..K /\ Len(Columns(s)) = K
  BY <1>1, <1>2
<1> QED
  BY <1>1, <1>2, <1>3

\* The memory of a line.
LEMMA MemoryFacts ==
  ASSUME NEW s \in Seq(Symbol)
  PROVE  /\ Append(s, "NUL") \in Seq(Symbol) /\ Len(Append(s, "NUL")) = Len(s) + 1
         /\ \A k \in 1..Len(s) : Append(s, "NUL")[k] = s[k]
         /\ Append(s, "NUL")[Len(s) + 1] = "NUL"
<1>1. "NUL" \in Symbol
  BY DEF Symbol
<1> QED
  BY <1>1, AppendProperties

\* What find_next_column_end finds behind a cut is the next one.
LEMMA NextColumnIs ==
  ASSUME NEW s \in Seq(Symbol), NEW m \in Seq(Symbol), Len(m) = Len(s) + 1,
         NEW r \in Nat, r - 1 \in ColumnCuts(s), r - 1 < EndOf(s), Unread(s, m, r),
         NEW e, e = ColumnEnd(m, r)
  PROVE  /\ 1 <= r /\ r <= e /\ e \in Nat /\ e <= EndOf(s) /\ e <= Len(m) /\ e \in ColumnCuts(s)
         /\ m[e] = "NUL" <=> e = EndOf(s)
         /\ \A k \in r..(e - 1) : m[k] # "NUL"
         /\ ColumnsBefore(s, r - 1) \in Nat
         /\ ColumnsBefore(s, e) = ColumnsBefore(s, r - 1) + 1
         /\ ColumnsBefore(s, e) <= Len(Columns(s))
         /\ Columns(s)[ColumnsBefore(s, r - 1) + 1] = WithoutBlanks(SubSeq(m, r, e - 1))
<1> DEFINE w == ","
           z == "NUL"
           sy == {w, z}
           C == ColumnCuts(s)
           E == EndOf(s)
           L == Len(s)
           c == r - 1
           B(d) == ColumnsBefore(s, d)
<1>0. w # z /\ w \in sy /\ z \in sy /\ \A x \in sy : x = w \/ x = z
  OBVIOUS
<1>1. /\ L \in Nat /\ E \in Nat /\ 1 <= E /\ E <= L + 1
      /\ E = L + 1 \/ s[E] = z
      /\ \A k \in 1..(E - 1) : s[k] # z
  BY EndOfFacts
<1>2. /\ C \subseteq 0..E /\ E \in C
      /\ \A d \in C : d # 0 /\ d # E => s[d] = w
      /\ \A d \in 1..(E - 1) : s[d] = w => d \in C
  BY ColumnCutsFacts
<1>3. /\ \A k \in 1..L : Append(s, z)[k] = s[k]
      /\ Append(s, z)[L + 1] = z
      /\ \A k \in r..(L + 1) : m[k] = Append(s, z)[k]
  BY MemoryFacts DEF Unread
<1>4. /\ \A d \in C : B(d) \in Nat /\ ColumnCut(s, B(d)) = d
      /\ \A d, f \in C : d < f => B(d) < B(f)
      /\ \A d, f \in C : d < f /\ (\A g \in C : ~(d < g /\ g < f)) => B(f) = B(d) + 1
  BY ColumnRanks
<1>5. /\ Len(Columns(s)) = B(E)
      /\ \A i \in 1..Len(Columns(s)) :
           Columns(s)[i] = WithoutBlanks(SubSeq(s, ColumnCut(s, i - 1) + 1, ColumnCut(s, i) - 1))
  BY ColumnsLength
<1>6. e = Find(m, r, sy) /\ c \in C /\ c < E /\ Len(m) = L + 1
  BY DEF ColumnEnd
<1>7. c + 1 = r
  OBVIOUS
<1> HIDE DEF w, z, sy, C, E, L, c, B
<1>8. c \in Nat /\ 1 <= r /\ r <= E
  <2>1. c \in 0..E /\ E \in Nat
    BY <1>1, <1>2, <1>6
  <2>2. c \in Nat /\ c < E
    BY <1>6, <2>1
  <2> QED
    BY <1>1, <1>7, <2>2
<1>9. \A k \in r..L : m[k] = s[k]
  <2>1. \A k \in r..L : k \in 1..L /\ k \in r..(L + 1)
    BY <1>1, <1>8
  <2> QED
    BY <1>3, <2>1
<1>10. m[L + 1] = z
  <2>1. L + 1 \in r..(L + 1)
    BY <1>1, <1>8
  <2> QED
    BY <1>3, <2>1
<1>11. m[E] = z /\ E \in r..Len(m)
  <2>1. E \in r..(L + 1)
    BY <1>1, <1>8
  <2>2. CASE E = L + 1
    BY <1>6, <1>10, <2>1, <2>2
  <2>3. CASE E # L + 1
    <3>1. E \in r..L
      BY <1>1, <2>1, <2>3
    <3> QED
      BY <1>1, <1>6, <1>9, <2>1, <2>3, <3>1
  <2> QED
    BY <2>2, <2>3
<1>12. e \in r..Len(m) /\ m[e] \in sy /\ \A k \in r..(e - 1) : m[k] \notin sy
  <2>1. \E j \in r..Len(m) : m[j] \in sy
    BY <1>0, <1>11
  <2> QED
    BY <1>6, <1>8, <2>1, FindFacts
<1>13. e \in Nat /\ r <= e /\ e <= L + 1 /\ e <= E
  <2>1. e \in r..(L + 1) /\ E \notin r..(e - 1)
    BY <1>0, <1>6, <1>11, <1>12
  <2> QED
    BY <1>1, <1>8, <2>1
<1>14. \A k \in r..(e - 1) : m[k] # z /\ m[k] # w
  BY <1>0, <1>12
<1>15. ASSUME e # E PROVE m[e] = w /\ e \in C
  <2>1. e \in 1..(E - 1) /\ e \in r..L
    BY <1>1, <1>8, <1>13, <1>15
  <2>2. m[e] = s[e] /\ s[e] # z
    BY <1>1, <1>9, <2>1
  <2>3. m[e] = w
    BY <1>0, <1>12, <2>2
  <2> QED
    BY <1>2, <2>1, <2>2, <2>3
<1>16. e \in C /\ (m[e] = z <=> e = E)
  BY <1>0, <1>2, <1>11, <1>15
<1>17. ASSUME NEW d \in C, c < d, d < e PROVE FALSE
  <2>1. d \in 0..E
    BY <1>2
  <2>2. d \in r..(e - 1) /\ d # 0 /\ d # E /\ d \in r..L
    BY <1>1, <1>7, <1>8, <1>13, <1>17, <2>1
  <2>3. m[d] = w
    BY <1>2, <1>9, <2>2
  <2> QED
    BY <1>14, <2>2, <2>3
<1>18. c < e
  BY <1>7, <1>8, <1>13
<1>19. B(e) = B(c) + 1 /\ B(c) \in Nat /\ B(e) \in Nat /\ B(E) \in Nat /\ ColumnCut(s, B(c)) = c /\ ColumnCut(s, B(e)) = e
  BY <1>2, <1>4, <1>6, <1>16, <1>17, <1>18
<1>20. B(e) <= B(E)
  <2>1. e = E \/ e < E
    BY <1>1, <1>13
  <2>2. e < E => B(e) < B(E)
    BY <1>2, <1>4, <1>16
  <2> QED
    BY <1>19, <2>1, <2>2
<1>21. Columns(s)[B(c) + 1] = WithoutBlanks(SubSeq(s, r, e - 1))
  <2> DEFINE n == B(c)
  <2>1. n + 1 \in 1..Len(Columns(s)) /\ (n + 1) - 1 = n /\ n + 1 = B(e)
    BY <1>5, <1>19, <1>20
  <2>2. ColumnCut(s, n) = c /\ ColumnCut(s, n + 1) = e
    BY <1>19, <2>1
  <2> HIDE DEF n
  <2>3. Columns(s)[n + 1] = WithoutBlanks(SubSeq(s, c + 1, e - 1))
    BY <1>5, <2>1, <2>2
  <2> QED
    BY <1>7, <2>3 DEF n
<1>22. SubSeq(s, r, e - 1) = SubSeq(m, r, e - 1)
  <2> DEFINE j == e - 1
  <2>1. j \in Nat /\ r <= j + 1 /\ j <= Len(s) /\ j <= Len(m)
    BY <1>1, <1>6, <1>8, <1>13 DEF L
  <2>2. \A k \in r..j : k \in r..L
    BY <1>1, <1>8, <1>13
  <2> HIDE DEF j
  <2>3. \A k \in r..j : s[k] = m[k]
    BY <1>9, <2>2
  <2>4. SubSeq(s, r, j) = SubSeq(m, r, j)
    BY <1>8, <2>1, <2>3, SamePart
  <2> QED
    BY <2>4 DEF j
<1>23. 1 <= r /\ r <= e /\ e \in Nat /\ e <= E /\ e <= Len(m) /\ B(e) <= Len(Columns(s))
  BY <1>5, <1>6, <1>8, <1>13, <1>20
<1> QED
  BY <1>14, <1>16, <1>19, <1>21, <1>22, <1>23 DEF z, C, E, c, B

-----------------------------------------------------------------------------
(* A column is read.                                                       *)

\* The line is written from the beginning of the column to its end only, ...
LEMMA ScanStep ==
  ASSUME NEW s \in Seq(Symbol), NEW m, NEW r, NEW p, Scanned(s, m, r, p), r # nullptr,
         NEW e, e = ColumnEnd(m, r),
         NEW n \in Seq(Symbol), Len(n) = Len(m), \A k \in 1..Len(m) : k \notin r..e => n[k] = m[k]
  PROVE  /\ Scanned(s, n, RestBehind(m, e), p + 1)
         /\ p \in Nat /\ p + 1 <= Len(Columns(s))
         /\ \A b : EndsBefore(m, r, b) => /\ EndsBefore(n, RestBehind(m, e), b)
                                          /\ CStringAt(n, b) = CStringAt(m, b)
<1> DEFINE z == "NUL"
           r2 == RestBehind(m, e)
           a == Append(s, z)
<1>1. /\ m \in Seq(Symbol) /\ Len(m) = Len(s) + 1 /\ Len(s) \in Nat
      /\ r \in Nat /\ r - 1 \in ColumnCuts(s) /\ r - 1 < EndOf(s)
      /\ p = ColumnsBefore(s, r - 1) /\ Unread(s, m, r)
  BY LenProperties DEF Scanned
<1>2. /\ 1 <= r /\ r <= e /\ e \in Nat /\ e <= EndOf(s) /\ e <= Len(m) /\ e \in ColumnCuts(s)
      /\ m[e] = z <=> e = EndOf(s)
      /\ p \in Nat
      /\ ColumnsBefore(s, e) = p + 1 /\ p + 1 <= Len(Columns(s))
  BY <1>1, NextColumnIs
<1>3. r2 = IF m[e] = z THEN nullptr ELSE e + 1
  BY DEF RestBehind
<1>4. \A k \in r..Len(m) : m[k] = a[k]
  BY <1>1 DEF Unread
<1>5. EndOf(s) \in Nat /\ Len(Columns(s)) = ColumnsBefore(s, EndOf(s))
  BY EndOfFacts, ColumnsLength
<1> HIDE DEF z, r2, a
<1>6. Scanned(s, n, r2, p + 1)
  <2>1. CASE m[e] = z
    <3>1. r2 = nullptr /\ e = EndOf(s)
      BY <1>2, <1>3, <2>1
    <3>2. p + 1 = Len(Columns(s))
      BY <1>2, <1>5, <3>1
    <3> QED
      BY <1>1, <3>1, <3>2 DEF Scanned
  <2>2. CASE m[e] # z
    <3>1. r2 = e + 1 /\ e # EndOf(s)
      BY <1>2, <1>3, <2>2
    <3>2. r2 \in Nat /\ r2 # 0 /\ r2 - 1 = e /\ e < EndOf(s)
      BY <1>2, <1>5, <3>1
    <3>3. \A k \in r2..Len(n) : k \in 1..Len(m) /\ k \notin r..e /\ k \in r..Len(m)
      BY <1>1, <1>2, <3>1
    <3>4. \A k \in r2..Len(n) : n[k] = a[k]
      BY <1>4, <3>3
    <3>5. Unread(s, n, r2)
      BY <3>4 DEF Unread, a, z
    <3>6. r2 - 1 \in ColumnCuts(s) /\ r2 - 1 < EndOf(s) /\ p + 1 = ColumnsBefore(s, r2 - 1)
      BY <1>2, <3>2
    <3> QED
      BY <1>1, <3>2, <3>5, <3>6 DEF Scanned, nullptr
  <2> QED
    BY <2>1, <2>2
<1>7. ASSUME NEW b, EndsBefore(m, r, b)
      PROVE  EndsBefore(n, r2, b) /\ CStringAt(n, b) = CStringAt(m, b)
  <2>1. b \in 1..Len(m) /\ \E j \in b..Len(m) : m[j] = z /\ j < r
    BY <1>7 DEF EndsBefore, z
  <2>2. PICK j \in b..Len(m) : m[j] = z /\ j < r
    BY <2>1
  <2>3. b \in Nat /\ 1 <= b /\ j \in Nat /\ b <= j /\ Len(m) \in Nat
    BY <1>1, <2>1, <2>2
  <2>4. \A k \in b..j : k \in 1..Len(m) /\ k \notin r..e
    BY <1>1, <1>2, <2>2, <2>3
  <2>5. \A k \in b..j : n[k] = m[k]
    BY <2>4
  <2>6. n[j] = z
    <3>1. j \in b..j
      BY <2>3
    <3> QED
      BY <2>2, <2>5, <3>1
  <2>7. r2 # nullptr => j < r2
    <3>1. r2 = nullptr \/ r2 = e + 1
      BY <1>3
    <3> QED
      BY <1>1, <1>2, <2>2, <2>3, <3>1
  <2>8. EndsBefore(n, r2, b)
    BY <2>1, <2>6, <2>7 DEF EndsBefore, z
  <2>9. CStringAt(n, b) = CStringAt(m, b)
    <3>1. m[j] = "NUL"
      BY <2>2 DEF z
    <3> QED
      BY <1>1, <2>2, <2>3, <2>5, <3>1, CStringKept
  <2> QED
    BY <2>8, <2>9
<1> QED
  BY <1>2, <1>6, <1>7 DEF r2

\* A NUL is written.
LEMMA EndedFacts ==
  ASSUME NEW m \in Seq(Symbol), NEW i \in 1..Len(m)
  PROVE  /\ Ended(m, i) \in Seq(Symbol) /\ Len(Ended(m, i)) = Len(m)
         /\ Ended(m, i)[i] = "NUL"
         /\ \A k \in 1..Len(m) : k # i => Ended(m, i)[k] = m[k]
<1>1. "NUL" \in Symbol
  BY DEF Symbol
<1> DEFINE z == "NUL"
<1>2. Ended(m, i) = [m EXCEPT ![i] = z] /\ z \in Symbol
  BY <1>1 DEF Ended
<1> HIDE DEF z
<1> DEFINE n == [m EXCEPT ![i] = z]
<1>3. n \in Seq(Symbol) /\ Len(n) = Len(m) /\ DOMAIN m = 1..Len(m)
  BY <1>2, ExceptSeq, LenProperties
<1>4. n[i] = z /\ \A k \in 1..Len(m) : k # i => n[k] = m[k]
  BY <1>3
<1> HIDE DEF n
<1>5. n = Ended(m, i)
  BY <1>2 DEF n
<1> QED
  BY <1>3, <1>4, <1>5 DEF z

\* ... by chop_next_column, ...
LEMMA ChoppedIs ==
  ASSUME NEW s \in Seq(Symbol), NEW m, NEW r, NEW p, Scanned(s, m, r, p), r # nullptr,
         NEW e, e = ColumnEnd(m, r), NEW n, n = Ended(m, e)
  PROVE  /\ n \in Seq(Symbol) /\ Len(n) = Len(m) /\ Len(m) \in Nat /\ e \in 1..Len(m) /\ r \in Nat /\ 1 <= r /\ r <= e
         /\ \A k \in 1..Len(m) : k \notin r..e => n[k] = m[k]
         /\ n[e] = "NUL" /\ \A k \in r..(e - 1) : n[k] = m[k]
<1>1. /\ m \in Seq(Symbol) /\ Len(m) = Len(s) + 1 /\ Len(s) \in Nat
      /\ r \in Nat /\ r - 1 \in ColumnCuts(s) /\ r - 1 < EndOf(s) /\ Unread(s, m, r)
  BY LenProperties DEF Scanned
<1>2. 1 <= r /\ r <= e /\ e \in Nat /\ e <= Len(m)
  BY <1>1, NextColumnIs
<1>3. e \in 1..Len(m) /\ Len(m) \in Nat
  BY <1>1, <1>2
<1>4. /\ n \in Seq(Symbol) /\ Len(n) = Len(m) /\ n[e] = "NUL"
      /\ \A k \in 1..Len(m) : k # e => n[k] = m[k]
  BY <1>1, <1>3, EndedFacts
<1>5. \A k \in 1..Len(m) : k \notin r..e => k # e
  BY <1>1, <1>2
<1>6. \A k \in r..(e - 1) : k \in 1..Len(m) /\ k # e
  BY <1>1, <1>2
<1> QED
  BY <1>1, <1>2, <1>3, <1>4, <1>5, <1>6

\* ... and by trim, which leaves the column of the line without its blanks.
LEMMA TrimmedIs ==
  ASSUME NEW s \in Seq(Symbol), NEW p, Scanned(s, mem, rest, p), rest # nullptr
  PROVE  /\ Trimmed \in Seq(Symbol) /\ Len(Trimmed) = Len(mem)
         /\ \A k \in 1..Len(mem) : k \notin rest..ColEnd => Trimmed[k] = mem[k]
         /\ TrimBegin \in Nat /\ EndsBefore(Trimmed, RestBehind(mem, ColEnd), TrimBegin)
         /\ CStringAt(Trimmed, TrimBegin) = Columns(s)[p + 1]
<1> DEFINE z == "NUL"
           m == mem
           r == rest
           e == ColEnd
           h == Chopped
           t == TrimBegin
           u == TrimEnd
           n == Trimmed
           r2 == RestBehind(m, e)
<1>1. /\ Scanned(s, m, r, p) /\ r # nullptr
      /\ e = ColumnEnd(m, r) /\ h = Ended(m, e) /\ t = FirstBlack(m, r, e) /\ u = AfterLast(m, t, e)
      /\ n = Ended(h, u)
  BY DEF ColEnd, Chopped, TrimBegin, TrimEnd, Trimmed
<1>2. r2 = nullptr \/ r2 = e + 1
  BY DEF RestBehind
<1> HIDE DEF m, r, e, h, t, u, n, r2
<1>3. /\ m \in Seq(Symbol) /\ Len(m) = Len(s) + 1 /\ Len(s) \in Nat
      /\ r \in Nat /\ r - 1 \in ColumnCuts(s) /\ r - 1 < EndOf(s)
      /\ p = ColumnsBefore(s, r - 1) /\ Unread(s, m, r)
  BY <1>1, LenProperties DEF Scanned
<1>4. /\ h \in Seq(Symbol) /\ Len(h) = Len(m) /\ Len(m) \in Nat /\ e \in 1..Len(m) /\ 1 <= r /\ r <= e
      /\ \A k \in 1..Len(m) : k \notin r..e => h[k] = m[k]
      /\ \A k \in r..(e - 1) : h[k] = m[k]
      /\ h[e] = z
  BY <1>1, ChoppedIs
<1>5. /\ \A k \in r..(e - 1) : m[k] # z
      /\ Columns(s)[p + 1] = WithoutBlanks(SubSeq(m, r, e - 1))
  BY <1>1, <1>3, NextColumnIs
<1> HIDE DEF z
<1>6. e \in Nat /\ e <= Len(m)
  BY <1>4
<1>7. /\ t \in r..e /\ u \in t..e /\ t \in Nat /\ u \in Nat
      /\ SubSeq(m, t, u - 1) = WithoutBlanks(SubSeq(m, r, e - 1))
  <2>1. m \in Seq(Symbol) /\ r \in Nat /\ e \in Nat /\ 1 <= r /\ r <= e /\ e <= Len(m)
    BY <1>3, <1>4, <1>6
  <2>2. t = FirstBlack(m, r, e) /\ u = AfterLast(m, t, e)
    BY <1>1
  <2>3. t \in r..e /\ u \in t..e /\ t \in Nat /\ u \in Nat
    BY <2>1, <2>2, TrimIs
  <2>4. SubSeq(m, FirstBlack(m, r, e), AfterLast(m, FirstBlack(m, r, e), e) - 1)
          = WithoutBlanks(SubSeq(m, r, e - 1))
    BY <2>1, TrimKeeps
  <2> QED
    BY <2>2, <2>3, <2>4
<1>8. r <= t /\ t <= u /\ u <= e /\ 1 <= t /\ u \in 1..Len(h)
  BY <1>3, <1>4, <1>6, <1>7
<1>9. /\ n \in Seq(Symbol) /\ Len(n) = Len(h) /\ n[u] = z
      /\ \A k \in 1..Len(h) : k # u => n[k] = h[k]
  BY <1>1, <1>4, <1>8, EndedFacts DEF z
<1>10. \A k \in 1..Len(m) : k \notin r..e => n[k] = m[k]
  <2>1. \A k \in 1..Len(m) : k \notin r..e => k # u
    BY <1>3, <1>6, <1>7, <1>8
  <2> QED
    BY <1>4, <1>9, <2>1
<1>11. \A k \in t..(u - 1) : n[k] = m[k] /\ m[k] # z
  <2>1. \A k \in t..(u - 1) : k \in 1..Len(h) /\ k # u /\ k \in r..(e - 1)
    BY <1>3, <1>4, <1>6, <1>7, <1>8
  <2> QED
    BY <1>4, <1>5, <1>9, <2>1
<1>12. SubSeq(n, t, u - 1) = SubSeq(m, t, u - 1)
  <2> DEFINE j == u - 1
  <2>1. j \in Nat /\ t <= j + 1 /\ j <= Len(n) /\ j <= Len(m)
    <3>1. Len(m) \in Nat /\ Len(n) = Len(m) /\ t \in Nat /\ u \in Nat
      BY <1>4, <1>7, <1>9
    <3> QED
      BY <1>6, <1>8, <3>1
  <2>2. \A k \in t..j : n[k] = m[k]
    BY <1>11
  <2> HIDE DEF j
  <2>3. SubSeq(n, t, j) = SubSeq(m, t, j)
    <3>1. m \in Seq(Symbol) /\ n \in Seq(Symbol) /\ t \in Nat /\ 1 <= t
      BY <1>3, <1>7, <1>8, <1>9
    <3> QED
      BY <2>1, <2>2, <3>1, SamePart
  <2> QED
    BY <2>3 DEF j
<1>13. u \in t..Len(n) /\ t \in 1..Len(n)
  BY <1>4, <1>6, <1>7, <1>8, <1>9
<1>14. CStringAt(n, t) = SubSeq(n, t, u - 1)
  <2> DEFINE sy == {z}
  <2>1. n[u] \in sy /\ \A k \in t..(u - 1) : n[k] \notin sy
    BY <1>9, <1>11
  <2> HIDE DEF sy
  <2>2. n \in Seq(Symbol) /\ t \in Nat /\ t >= 1
    BY <1>7, <1>8, <1>9
  <2>3. Find(n, t, sy) = u
    BY <1>13, <2>1, <2>2, FindIs
  <2> QED
    BY <2>3 DEF CStringAt, sy, z
<1>15. EndsBefore(n, r2, t)
  <2>1. r2 # nullptr => u < r2
    BY <1>2, <1>6, <1>7, <1>8
  <2> QED
    BY <1>9, <1>13, <2>1 DEF EndsBefore, z
<1> QED
  BY <1>4, <1>5, <1>7, <1>9, <1>10, <1>12, <1>14, <1>15 DEF m, e, r, t, n, r2

-----------------------------------------------------------------------------
(* The reader, one lemma for each action.                                  *)

\* The three columns, whose names differ.
LEMMA ColumnFacts ==
  /\ Column = 1..3 /\ Extra \notin Column /\ Extra \in Int
  /\ \A i, j \in Column : Name(i) = Name(j) => i = j
<1>1. Column = 1..3
  BY DEF Column, column_names
<1>2. \A i \in Column : i = 1 \/ i = 2 \/ i = 3
  BY <1>1
<1>3. /\ Name(1) = <<"hostname">> /\ Name(2) = <<"port">> /\ Name(3) = <<"password">>
  BY DEF Name, column_names
<1>4. Name(1) # Name(2) /\ Name(1) # Name(3) /\ Name(2) # Name(3)
  BY <1>3
<1>5. Extra \notin 1..3 /\ Extra \in Int
  BY DEF Extra
<1>6. \A i, j \in Column : Name(i) = Name(j) => i = j
  BY <1>2, <1>4, Zenon
<1> QED
  BY <1>1, <1>5, <1>6

\* A line of the file is a sequence of symbols.
LEMMA LineFacts ==
  ASSUME ColumnTypeOK, NEW n \in 1..Len(csvLines)
  PROVE  csvLines[n] \in Seq(Symbol)
<1>1. csvLines[n] \in Seq(STRING)
  BY ElementOfSeq DEF ColumnTypeOK
<1>2. STRING \subseteq Symbol
  BY DEF Symbol
<1> DEFINE A == STRING
           s == csvLines[n]
<1>3. s \in Seq(A) /\ A \subseteq Symbol
  BY <1>1, <1>2
<1> HIDE DEF A, s
<1>4. s \in Seq(Symbol)
  BY <1>3
<1> QED
  BY <1>4 DEF s

\* A line that has just been read.
LEMMA FreshLine ==
  ASSUME NEW s \in Seq(Symbol)
  PROVE  Scanned(s, Append(s, "NUL"), 1, 0)
<1> DEFINE a == Append(s, "NUL")
<1>1. a \in Seq(Symbol) /\ Len(a) = Len(s) + 1
  BY MemoryFacts
<1>2. 0 \in ColumnCuts(s) /\ 0 < EndOf(s) /\ 0 = ColumnsBefore(s, 0)
  <2>1. EndOf(s) \in Nat /\ 1 <= EndOf(s)
    BY EndOfFacts
  <2>2. 0 \in ColumnCuts(s) /\ ColumnsBefore(s, 0) = 0
    BY ColumnCutsFacts, ColumnRanks
  <2> QED
    BY <2>1, <2>2
<1>3. Unread(s, a, 1)
  BY DEF Unread
<1> HIDE DEF a
<1>4. 1 \in Nat /\ 1 - 1 = 0 /\ 1 # nullptr
  BY DEF nullptr
<1>5. Scanned(s, a, 1, 0)
  BY <1>1, <1>2, <1>3, <1>4 DEF Scanned
<1> QED
  BY <1>5 DEF a

\* The first line has been read.
LEMMA ColumnInitInv == ColumnInit => ColumnInv
<1> SUFFICES ASSUME ColumnInit PROVE ColumnInv
  OBVIOUS
<1>1. csvLines \in Seq(Seq(STRING)) \ {<<>>}
  BY ColumnAssumption DEF ColumnInit
<1>2. Len(csvLines) \in Nat /\ Len(csvLines) # 0
  <2> DEFINE A == Seq(STRING)
  <2>1. csvLines \in Seq(A) /\ csvLines # <<>>
    BY <1>1
  <2> HIDE DEF A
  <2> QED
    BY <2>1, LenProperties, EmptySeq
<1>3. 1 \in 1..Len(csvLines)
  BY <1>2
<1>4. /\ fileLine = 1 /\ mem = Memory(1) /\ rest = 1 /\ col_order = <<>>
      /\ row = [i \in Column |-> nullptr] /\ place = 0 /\ parsing = "header" /\ rowsRead = <<>>
  BY DEF ColumnInit
<1>5. row \in [Column -> Nat] /\ place \in Nat /\ fileLine \in 1..Len(csvLines)
  BY <1>3, <1>4 DEF nullptr
<1>6. ColumnTypeOK
  BY <1>1, <1>4, <1>5 DEF ColumnTypeOK
<1>7. OrderInv
  BY <1>4 DEF OrderInv
<1>8. Scanned(RowLine, mem, rest, Len(col_order))
  <2>1. csvLines[1] \in Seq(Symbol)
    BY <1>3, <1>6, LineFacts
  <2>2. Scanned(csvLines[1], Append(csvLines[1], "NUL"), 1, 0)
    BY <2>1, FreshLine
  <2>3. mem = Append(csvLines[1], "NUL") /\ RowLine = csvLines[1] /\ Len(col_order) = 0
    BY <1>4 DEF Memory, RowLine
  <2> QED
    BY <1>4, <2>2, <2>3
<1>9. \A n \in DOMAIN rowsRead : RowIsExact(n)
  BY <1>4
<1> QED
  BY <1>4, <1>6, <1>7, <1>8, <1>9 DEF ColumnInv

\* What has been read before stays as it is.
LEMMA RowsKept ==
  ASSUME UNCHANGED <<csvLines, rowsRead>>, \A n \in DOMAIN rowsRead : RowIsExact(n)
  PROVE  \A n \in DOMAIN rowsRead' : RowIsExact(n)'
<1>1. HeaderNames' = HeaderNames
  BY DEF HeaderNames
<1>2. \A i : Places(i)' = Places(i)
  BY <1>1 DEF Places
<1> QED
  BY <1>1, <1>2 DEF RowIsExact

\* A column of the header has got its place.
LEMMA OrderStep ==
  ASSUME OrderInv, UNCHANGED csvLines, NEW c \in Column \cup {Extra}, col_order' = Append(col_order, c),
         \A i \in Column : c = i <=> HeaderNames[Len(col_order) + 1] = Name(i),
         c # Extra => c \notin ToSet(col_order)
  PROVE  OrderInv' /\ Len(col_order') = Len(col_order) + 1
<1> DEFINE p == Len(col_order)
           S == Column \cup {Extra}
<1>1. /\ col_order \in Seq(S)
      /\ \A q \in DOMAIN col_order : \A i \in Column : col_order[q] = i <=> HeaderNames[q] = Name(i)
      /\ \A k, q \in DOMAIN col_order : col_order[k] = col_order[q] /\ k # q => col_order[k] = Extra
  BY DEF OrderInv
<1>2. HeaderNames' = HeaderNames
  BY DEF HeaderNames
<1> HIDE DEF S
<1>3. /\ col_order' \in Seq(S) /\ Len(col_order') = p + 1 /\ p \in Nat
      /\ \A q \in 1..p : col_order'[q] = col_order[q]
      /\ col_order'[p + 1] = c
      /\ DOMAIN col_order = 1..p /\ DOMAIN col_order' = 1..(p + 1)
  <2>1. c \in S
    BY DEF S
  <2> QED
    BY <1>1, <2>1, AppendProperties, LenProperties
<1>4. \A q \in 1..(p + 1) : q \in 1..p \/ q = p + 1
  BY <1>3
<1>5. \A q \in 1..p : col_order[q] \in ToSet(col_order) /\ q # p + 1
  BY <1>3 DEF ToSet
<1> HIDE DEF p
<1>6. \A q \in DOMAIN col_order' : \A i \in Column : col_order'[q] = i <=> HeaderNames[q] = Name(i)
  <2>1. \A i \in Column : c = i <=> HeaderNames[p + 1] = Name(i)
    BY DEF p
  <2> QED
    BY <1>1, <1>3, <1>4, <2>1
<1>7. \A k, q \in DOMAIN col_order' : col_order'[k] = col_order'[q] /\ k # q => col_order'[k] = Extra
  BY <1>1, <1>3, <1>4, <1>5
<1> QED
  BY <1>2, <1>3, <1>6, <1>7 DEF OrderInv, S, p

\* What chop_next_column and trim do to the line that is being read.
LEMMA ColumnStep ==
  ASSUME ColumnTypeOK, NEW p, Scanned(RowLine, mem, rest, p), rest # nullptr,
         NEW n, n = Chopped \/ n = Trimmed
  PROVE  /\ Scanned(RowLine, n, RestBehind(mem, ColEnd), p + 1)
         /\ p \in Nat /\ p + 1 <= Len(Columns(RowLine))
         /\ \A b : EndsBefore(mem, rest, b) => /\ EndsBefore(n, RestBehind(mem, ColEnd), b)
                                               /\ CStringAt(n, b) = CStringAt(mem, b)
         /\ TrimBegin \in Nat /\ EndsBefore(Trimmed, RestBehind(mem, ColEnd), TrimBegin)
         /\ CStringAt(Trimmed, TrimBegin) = Columns(RowLine)[p + 1]
<1> DEFINE s == RowLine
           m == mem
           r == rest
           e == ColEnd
           h == Chopped
           t == TrimBegin
           d == Trimmed
<1>1. s \in Seq(Symbol)
  <2>1. fileLine \in 1..Len(csvLines)
    BY DEF ColumnTypeOK
  <2> QED
    BY <2>1, LineFacts DEF RowLine
<1>2. e = ColumnEnd(m, r) /\ h = Ended(m, e)
  BY DEF ColEnd, Chopped
<1>3. Scanned(s, m, r, p) /\ r # nullptr
  OBVIOUS
<1>4. /\ d \in Seq(Symbol) /\ Len(d) = Len(m)
      /\ \A k \in 1..Len(m) : k \notin r..e => d[k] = m[k]
      /\ t \in Nat /\ EndsBefore(d, RestBehind(m, e), t)
      /\ CStringAt(d, t) = Columns(s)[p + 1]
  BY <1>1, TrimmedIs
<1> HIDE DEF s, m, r, e, h, t, d
<1>5. h \in Seq(Symbol) /\ Len(h) = Len(m) /\ \A k \in 1..Len(m) : k \notin r..e => h[k] = m[k]
  BY <1>1, <1>2, <1>3, ChoppedIs
<1>6. n \in Seq(Symbol) /\ Len(n) = Len(m) /\ \A k \in 1..Len(m) : k \notin r..e => n[k] = m[k]
  <2>1. n = h \/ n = d
    BY DEF h, d
  <2> QED
    BY <1>4, <1>5, <2>1
<1>7. /\ Scanned(s, n, RestBehind(m, e), p + 1)
      /\ p \in Nat /\ p + 1 <= Len(Columns(s))
      /\ \A b : EndsBefore(m, r, b) => /\ EndsBefore(n, RestBehind(m, e), b)
                                       /\ CStringAt(n, b) = CStringAt(m, b)
  BY <1>1, <1>2, <1>3, <1>6, ScanStep
<1> QED
  BY <1>4, <1>7 DEF s, m, r, e, t, d

\* parse_header_line, a column: an extra one, one of the three, or one of the three
\* again.
LEMMA HeaderColumnKeepsInv ==
  ASSUME ColumnInv, HeaderColumn
  PROVE  ColumnInv'
<1> DEFINE name == CStringAt(Trimmed, TrimBegin)
           same == {i \in Column : Name(i) = name}
           p == Len(col_order)
<1>1. ColumnTypeOK /\ OrderInv
  BY DEF ColumnInv
<1>2. fileLine = 1 /\ rowsRead = <<>> /\ Scanned(RowLine, mem, rest, p)
  BY DEF ColumnInv, HeaderColumn
<1>3. /\ rest # nullptr /\ mem' = Trimmed /\ rest' = RestBehind(mem, ColEnd)
      /\ UNCHANGED <<csvLines, fileLine, row, place, rowsRead>>
  BY DEF HeaderColumn, NextColumn
<1>4. RowLine' = RowLine /\ HeaderNames' = HeaderNames /\ HeaderNames = Columns(RowLine)
  BY <1>2, <1>3 DEF RowLine, HeaderNames
<1>5. /\ Scanned(RowLine, mem', rest', p + 1) /\ p \in Nat /\ p + 1 <= Len(Columns(RowLine))
      /\ name = HeaderNames[p + 1]
  BY <1>1, <1>2, <1>3, <1>4, ColumnStep
<1>6. \A i : Places(i)' = Places(i)
  BY <1>4 DEF Places
<1>7. DOMAIN HeaderNames = 1..Len(HeaderNames) /\ Len(HeaderNames) \in Nat
  <2>1. RowLine \in Seq(Symbol)
    <3>1. fileLine \in 1..Len(csvLines)
      BY <1>1 DEF ColumnTypeOK
    <3> QED
      BY <1>1, <3>1, LineFacts DEF RowLine
  <2> QED
    BY <1>4, <2>1, ColumnsLength
<1>8. \A n \in DOMAIN rowsRead' : RowIsExact(n)'
  BY <1>2, <1>3
<1>9. \/ /\ same = {} /\ col_order' = Append(col_order, Extra) /\ UNCHANGED parsing
      \/ \E i \in same \ ToSet(col_order) : col_order' = Append(col_order, i) /\ UNCHANGED parsing
      \/ same \cap ToSet(col_order) # {} /\ parsing' = "duplicated_column" /\ UNCHANGED col_order
  BY DEF HeaderColumn
<1>10. parsing = "header"
  BY DEF HeaderColumn
<1>11. \A i : i \in same <=> i \in Column /\ HeaderNames[p + 1] = Name(i)
  BY <1>5
<1> HIDE DEF name, same, p
<1>12. ASSUME NEW c \in Column \cup {Extra}, col_order' = Append(col_order, c), UNCHANGED parsing,
              \A i \in Column : c = i <=> HeaderNames[p + 1] = Name(i),
              c # Extra => c \notin ToSet(col_order)
       PROVE  ColumnInv'
  <2>1. OrderInv' /\ Len(col_order') = p + 1
    BY <1>1, <1>3, <1>12, OrderStep DEF p
  <2>2. ColumnTypeOK'
    BY <1>1, <1>3, <1>12 DEF ColumnTypeOK
  <2>3. Scanned(RowLine', mem', rest', Len(col_order'))
    BY <1>4, <1>5, <2>1
  <2>4. parsing' = "header" /\ fileLine' = 1 /\ rowsRead' = <<>>
    BY <1>2, <1>3, <1>10, <1>12
  <2> QED
    BY <1>8, <2>1, <2>2, <2>3, <2>4 DEF ColumnInv
<1>13. CASE same = {} /\ col_order' = Append(col_order, Extra) /\ UNCHANGED parsing
  <2>1. \A i \in Column : Extra = i <=> HeaderNames[p + 1] = Name(i)
    BY <1>11, <1>13, ColumnFacts
  <2> QED
    BY <1>12, <1>13, <2>1
<1>14. CASE \E i \in same \ ToSet(col_order) : col_order' = Append(col_order, i) /\ UNCHANGED parsing
  <2>1. PICK c \in same \ ToSet(col_order) : col_order' = Append(col_order, c) /\ UNCHANGED parsing
    BY <1>14
  <2>2. c \in Column /\ HeaderNames[p + 1] = Name(c)
    BY <1>11, <2>1
  <2>3. \A i \in Column : c = i <=> HeaderNames[p + 1] = Name(i)
    BY <2>2, ColumnFacts
  <2> QED
    BY <1>12, <2>1, <2>2, <2>3
<1>15. CASE same \cap ToSet(col_order) # {} /\ parsing' = "duplicated_column" /\ UNCHANGED col_order
  <2>1. PICK i \in same : i \in ToSet(col_order)
    BY <1>15
  <2>2. PICK q \in DOMAIN col_order : col_order[q] = i
    BY <2>1 DEF ToSet
  <2>3. q \in 1..p /\ HeaderNames[q] = Name(i) /\ i \in Column /\ HeaderNames[p + 1] = Name(i)
    <3>1. DOMAIN col_order = 1..p
      <4>1. col_order \in Seq(Column \cup {Extra})
        BY <1>1 DEF OrderInv
      <4> QED
        BY <4>1, LenProperties DEF p
    <3> QED
      BY <1>1, <1>11, <2>1, <2>2, <3>1 DEF OrderInv
  <2>4. q \in 1..Len(HeaderNames) /\ p + 1 \in 1..Len(HeaderNames) /\ q # p + 1
    BY <1>4, <1>5, <1>7, <2>3
  <2>5. q \in Places(i)' /\ p + 1 \in Places(i)'
    BY <1>6, <1>7, <2>3, <2>4 DEF Places
  <2>6. \E j \in Column : \E k, l \in Places(j)' : k # l
    BY <2>3, <2>4, <2>5
  <2>7. OrderInv'
    BY <1>1, <1>3, <1>4, <1>15 DEF OrderInv
  <2>8. ColumnTypeOK' /\ rowsRead' = <<>>
    BY <1>1, <1>2, <1>3, <1>15 DEF ColumnTypeOK
  <2> QED
    BY <1>8, <1>15, <2>6, <2>7, <2>8 DEF ColumnInv
<1> QED
  BY <1>9, <1>13, <1>14, <1>15

\* The places of the columns in the header, and that every line is a line.
LEMMA OrderFacts ==
  ASSUME ColumnTypeOK, OrderInv
  PROVE  /\ Len(col_order) \in Nat /\ DOMAIN col_order = 1..Len(col_order)
         /\ \A q \in 1..Len(col_order) : col_order[q] \in Column \cup {Extra}
         /\ \A n \in 1..Len(csvLines) : /\ csvLines[n] \in Seq(Symbol)
                                        /\ Len(Columns(csvLines[n])) \in Nat
                                        /\ DOMAIN Columns(csvLines[n]) = 1..Len(Columns(csvLines[n]))
         /\ fileLine \in 1..Len(csvLines) /\ Len(csvLines) \in Nat /\ fileLine \in Nat
         /\ Len(HeaderNames) \in Nat /\ DOMAIN HeaderNames = 1..Len(HeaderNames)
<1> DEFINE S == Column \cup {Extra}
<1>1. col_order \in Seq(S)
  BY DEF OrderInv
<1> HIDE DEF S
<1>2. /\ Len(col_order) \in Nat /\ DOMAIN col_order = 1..Len(col_order)
      /\ \A q \in 1..Len(col_order) : col_order[q] \in S
  BY <1>1, LenProperties, ElementOfSeq
<1>3. \A n \in 1..Len(csvLines) : /\ csvLines[n] \in Seq(Symbol)
                                  /\ Len(Columns(csvLines[n])) \in Nat
                                  /\ DOMAIN Columns(csvLines[n]) = 1..Len(Columns(csvLines[n]))
  BY LineFacts, ColumnsLength
<1>4. fileLine \in 1..Len(csvLines)
  BY DEF ColumnTypeOK
<1>5. Len(csvLines) \in Nat
  <2> DEFINE A == Seq(STRING)
  <2>1. csvLines \in Seq(A)
    BY DEF ColumnTypeOK
  <2> HIDE DEF A
  <2> QED
    BY <2>1, LenProperties
<1>6. 1 \in 1..Len(csvLines) /\ fileLine \in Nat
  BY <1>4, <1>5
<1>7. Len(HeaderNames) \in Nat /\ DOMAIN HeaderNames = 1..Len(HeaderNames)
  BY <1>3, <1>6 DEF HeaderNames
<1> QED
  BY <1>2, <1>3, <1>4, <1>5, <1>6, <1>7 DEF S

\* parse_header_line, after the last column.
LEMMA HeaderEndKeepsInv ==
  ASSUME ColumnInv, HeaderEnd
  PROVE  ColumnInv'
<1>1. ColumnTypeOK /\ OrderInv
  BY DEF ColumnInv
<1>2. fileLine = 1 /\ rowsRead = <<>> /\ Scanned(RowLine, mem, rest, Len(col_order))
  BY DEF ColumnInv, HeaderEnd
<1>3. /\ rest = nullptr /\ parsing' = IF Column \subseteq ToSet(col_order) THEN "rows" ELSE "missing_column"
      /\ UNCHANGED <<csvLines, fileLine, mem, rest, col_order, row, place, rowsRead>>
  BY DEF HeaderEnd
<1>4. HeaderNames' = HeaderNames /\ HeaderNames = Columns(RowLine)
  BY <1>2, <1>3 DEF RowLine, HeaderNames
<1>5. Len(col_order) = Len(HeaderNames)
  BY <1>2, <1>3, <1>4 DEF Scanned
<1>6. \A i : Places(i)' = Places(i)
  BY <1>4 DEF Places
<1>7. \A n \in DOMAIN rowsRead' : RowIsExact(n)'
  BY <1>2, <1>3
<1>8. OrderInv'
  BY <1>1, <1>3, <1>4 DEF OrderInv
<1>9. ColumnTypeOK'
  BY <1>1, <1>3 DEF ColumnTypeOK
<1>10. CASE Column \subseteq ToSet(col_order)
  <2>1. Len(rowsRead') = fileLine' - 1
    BY <1>2, <1>3
  <2>2. Len(col_order') = Len(HeaderNames') /\ Column \subseteq ToSet(col_order')
    BY <1>3, <1>4, <1>5, <1>10
  <2>3. parsing' = "rows"
    BY <1>3, <1>10
  <2> QED
    BY <1>7, <1>8, <1>9, <2>1, <2>2, <2>3 DEF ColumnInv
<1>11. CASE ~(Column \subseteq ToSet(col_order))
  <2>1. PICK i \in Column : i \notin ToSet(col_order)
    BY <1>11
  <2>2. ASSUME NEW q \in Places(i) PROVE FALSE
    <3>1. q \in DOMAIN HeaderNames /\ HeaderNames[q] = Name(i)
      BY <2>2 DEF Places
    <3>2. q \in DOMAIN col_order
      BY <1>1, <1>5, <3>1, OrderFacts
    <3>3. col_order[q] = i
      BY <1>1, <3>1, <3>2 DEF OrderInv
    <3> QED
      BY <2>1, <3>2, <3>3 DEF ToSet
  <2>3. \E j \in Column : Places(j)' = {}
    BY <1>6, <2>2
  <2>4. parsing' = "missing_column" /\ rowsRead' = <<>>
    BY <1>2, <1>3, <1>11
  <2> QED
    BY <1>7, <1>8, <1>9, <2>3, <2>4 DEF ColumnInv
<1> QED
  BY <1>10, <1>11

\* read_row, up to its first column: nothing of the row before is read any more.
LEMMA NextRowKeepsInv ==
  ASSUME ColumnInv, NextRow
  PROVE  ColumnInv'
<1>1. ColumnTypeOK /\ OrderInv
  BY DEF ColumnInv
<1>2. /\ Len(col_order) = Len(HeaderNames) /\ Column \subseteq ToSet(col_order)
      /\ Len(rowsRead) = fileLine - 1
      /\ \A n \in DOMAIN rowsRead : RowIsExact(n)
  BY DEF ColumnInv, NextRow
<1>3. /\ fileLine < Len(csvLines) /\ fileLine' = fileLine + 1 /\ mem' = Memory(fileLine') /\ rest' = 1
      /\ place' = 0 /\ parsing' = "row"
      /\ UNCHANGED <<csvLines, col_order, row, rowsRead>>
  BY DEF NextRow
<1>4. HeaderNames' = HeaderNames
  BY <1>3 DEF HeaderNames
<1>5. fileLine' \in 1..Len(csvLines) /\ Len(rowsRead') = fileLine' - 2 /\ place' \in Nat
      /\ 1..place' = {} /\ place' <= Len(col_order')
  <2>1. fileLine \in Nat /\ Len(csvLines) \in Nat /\ fileLine \in 1..Len(csvLines) /\ Len(col_order) \in Nat
    BY <1>1, OrderFacts
  <2>2. fileLine' \in 1..Len(csvLines) /\ fileLine' - 2 = fileLine - 1
    BY <1>3, <2>1
  <2> QED
    BY <1>2, <1>3, <2>1, <2>2
<1>6. Scanned(RowLine', mem', rest', place')
  <2>1. csvLines[fileLine'] \in Seq(Symbol)
    BY <1>1, <1>5, LineFacts
  <2>2. Scanned(csvLines[fileLine'], Append(csvLines[fileLine'], "NUL"), 1, 0)
    BY <2>1, FreshLine
  <2>3. RowLine' = csvLines[fileLine'] /\ mem' = Append(csvLines[fileLine'], "NUL")
    BY <1>3 DEF RowLine, Memory
  <2> QED
    BY <1>3, <2>2, <2>3
<1>7. RowInv'
  BY <1>5, <1>6 DEF RowInv
<1>8. OrderInv'
  BY <1>1, <1>3, <1>4 DEF OrderInv
<1>9. ColumnTypeOK'
  BY <1>1, <1>3, <1>5 DEF ColumnTypeOK
<1>10. \A n \in DOMAIN rowsRead' : RowIsExact(n)'
  BY <1>2, <1>3, RowsKept
<1> QED
  BY <1>2, <1>3, <1>4, <1>5, <1>7, <1>8, <1>9, <1>10 DEF ColumnInv

\* parse_line, a column: what is kept of those before ends before it begins.
LEMMA RowColumnKeepsInv ==
  ASSUME ColumnInv, RowColumn
  PROVE  ColumnInv'
<1> DEFINE i == col_order[place + 1]
<1>1. ColumnTypeOK /\ OrderInv
  BY DEF ColumnInv
<1>2. /\ Len(col_order) = Len(HeaderNames) /\ Column \subseteq ToSet(col_order)
      /\ Len(rowsRead) = fileLine - 2 /\ RowInv
      /\ \A n \in DOMAIN rowsRead : RowIsExact(n)
  BY DEF ColumnInv, RowColumn
<1>3. /\ rest # nullptr /\ place < Len(col_order) /\ rest' = RestBehind(mem, ColEnd) /\ place' = place + 1
      /\ \/ i = Extra /\ mem' = Chopped /\ UNCHANGED row
         \/ i # Extra /\ mem' = Trimmed /\ row' = [row EXCEPT ![i] = TrimBegin]
      /\ UNCHANGED <<csvLines, fileLine, col_order, parsing, rowsRead>>
  BY DEF RowColumn, NextColumn
<1>4. parsing = "row"
  BY DEF RowColumn
<1>5. HeaderNames' = HeaderNames /\ RowLine' = RowLine
  BY <1>3 DEF HeaderNames, RowLine
<1>6. /\ Scanned(RowLine, mem', rest', place + 1)
      /\ \A b : EndsBefore(mem, rest, b) => EndsBefore(mem', rest', b) /\ CStringAt(mem', b) = CStringAt(mem, b)
      /\ TrimBegin \in Nat
      /\ EndsBefore(Trimmed, rest', TrimBegin) /\ CStringAt(Trimmed, TrimBegin) = Columns(RowLine)[place + 1]
  <2>1. Scanned(RowLine, mem, rest, place) /\ (mem' = Chopped \/ mem' = Trimmed)
    BY <1>2, <1>3 DEF RowInv
  <2> QED
    BY <1>1, <1>3, <2>1, ColumnStep
<1>7. /\ place \in Nat /\ place' <= Len(col_order) /\ place' \in Nat
      /\ place + 1 \in 1..Len(col_order) /\ Len(col_order) \in Nat
      /\ \A q \in 1..place' : q \in 1..place \/ q = place + 1
      /\ \A q \in 1..place : q # place + 1 /\ q \in 1..Len(col_order)
  <2>1. place \in Nat /\ Len(col_order) \in Nat
    BY <1>1, OrderFacts DEF ColumnTypeOK
  <2> QED
    BY <1>3, <2>1
<1>8. /\ DOMAIN col_order = 1..Len(col_order)
      /\ i \in Column \cup {Extra}
      /\ \A q \in 1..Len(col_order) : col_order[q] \in Column \cup {Extra}
  BY <1>1, <1>7, OrderFacts
<1>9. \A q \in 1..place : col_order[q] # Extra => col_order[q] # i
  BY <1>1, <1>7, <1>8 DEF OrderInv
<1>10. row \in [Column -> Nat]
  BY <1>1 DEF ColumnTypeOK
<1> HIDE DEF i
<1>11. row' \in [Column -> Nat] /\ \A j \in Column : j # i => row'[j] = row[j]
  BY <1>3, <1>6, <1>8, <1>10
<1>12. ASSUME NEW q \in 1..place', col_order'[q] # Extra
       PROVE  /\ EndsBefore(mem', rest', row'[col_order'[q]])
              /\ CStringAt(mem', row'[col_order'[q]]) = Columns(RowLine)[q]
  <2>1. col_order[q] # Extra /\ col_order'[q] = col_order[q]
    BY <1>3, <1>12
  <2>2. CASE q \in 1..place
    <3>1. EndsBefore(mem, rest, row[col_order[q]]) /\ CStringAt(mem, row[col_order[q]]) = Columns(RowLine)[q]
      BY <1>2, <2>1, <2>2 DEF RowInv
    <3>2. row'[col_order[q]] = row[col_order[q]]
      BY <1>7, <1>8, <1>9, <1>11, <2>1, <2>2
    <3> QED
      BY <1>6, <2>1, <3>1, <3>2
  <2>3. CASE q = place + 1
    <3>1. col_order[q] = i /\ i # Extra
      BY <2>1, <2>3 DEF i
    <3>2. row'[i] = TrimBegin /\ mem' = Trimmed
      BY <1>3, <1>8, <1>10, <3>1
    <3> QED
      BY <1>6, <2>1, <2>3, <3>1, <3>2
  <2> QED
    BY <1>7, <2>2, <2>3
<1>13. RowInv'
  BY <1>3, <1>5, <1>6, <1>7, <1>12 DEF RowInv
<1>14. OrderInv'
  BY <1>1, <1>3, <1>5 DEF OrderInv
<1>15. ColumnTypeOK'
  BY <1>1, <1>3, <1>7, <1>11 DEF ColumnTypeOK
<1>16. \A n \in DOMAIN rowsRead' : RowIsExact(n)'
  BY <1>2, <1>3, RowsKept
<1> QED
  BY <1>2, <1>3, <1>4, <1>5, <1>13, <1>14, <1>15, <1>16 DEF ColumnInv

\* A value that ends before the rest of its line is a string.
LEMMA CStringType ==
  ASSUME NEW m \in Seq(Symbol), NEW r, NEW b, EndsBefore(m, r, b)
  PROVE  CStringAt(m, b) \in Seq(Symbol)
<1> DEFINE sy == {"NUL"}
           f == Find(m, b, sy)
<1>1. b \in 1..Len(m) /\ \E j \in b..Len(m) : m[j] \in sy
  BY DEF EndsBefore
<1>2. CStringAt(m, b) = SubSeq(m, b, f - 1)
  BY DEF CStringAt
<1> HIDE DEF sy
<1>3. Len(m) \in Nat /\ b \in Nat /\ b >= 1
  <2>1. Len(m) \in Nat
    BY LenProperties
  <2> QED
    BY <1>1, <2>1
<1>4. f \in b..Len(m)
  BY <1>1, <1>3, FindFacts
<1> HIDE DEF f
<1>5. \A k \in b..(f - 1) : k \in 1..Len(m)
  BY <1>3, <1>4
<1>6. \A k \in b..(f - 1) : m[k] \in Symbol
  BY <1>5, ElementOfSeq
<1>7. b \in Int /\ f - 1 \in Int
  BY <1>3, <1>4
<1>8. SubSeq(m, b, f - 1) \in Seq(Symbol)
  BY <1>6, <1>7, SubSeqProperties
<1> QED
  BY <1>2, <1>8

\* read_row, after the last column.
LEMMA RowEndKeepsInv ==
  ASSUME ColumnInv, RowEnd
  PROVE  ColumnInv'
<1> DEFINE value == [i \in Column |-> CStringAt(mem, row[i])]
           R == [Column -> Seq(Symbol)] \cup {<<>>}
           N == Len(rowsRead)
           p == Len(col_order)
<1>1. ColumnTypeOK /\ OrderInv
  BY DEF ColumnInv
<1>2. /\ p = Len(HeaderNames) /\ Column \subseteq ToSet(col_order)
      /\ N = fileLine - 2 /\ RowInv
      /\ \A n \in DOMAIN rowsRead : RowIsExact(n)
  BY DEF ColumnInv, RowEnd
<1>3. /\ parsing' = "rows"
      /\ \/ rest = nullptr /\ place = p /\ rowsRead' = Append(rowsRead, value)
         \/ /\ (rest = nullptr /\ place < p) \/ (rest # nullptr /\ place = p)
            /\ rowsRead' = Append(rowsRead, <<>>)
      /\ UNCHANGED <<csvLines, fileLine, mem, rest, col_order, row, place>>
  BY DEF RowEnd
<1>4. csvLines' = csvLines /\ HeaderNames' = HeaderNames
  BY <1>3 DEF HeaderNames
<1>5. \A i : Places(i)' = Places(i)
  BY <1>4 DEF Places
<1>6. Scanned(RowLine, mem, rest, place) /\ mem \in Seq(Symbol) /\ place <= p
  BY <1>2 DEF RowInv, Scanned
<1>7. rest = nullptr => place = Len(Columns(RowLine))
  BY <1>6 DEF Scanned
<1>8. rest # nullptr => place + 1 <= Len(Columns(RowLine))
  BY <1>1, <1>6, ColumnStep
<1>9. /\ p \in Nat /\ DOMAIN col_order = 1..p
      /\ fileLine \in Nat /\ place \in Nat
      /\ DOMAIN HeaderNames = 1..Len(HeaderNames)
      /\ Len(Columns(RowLine)) \in Nat
  <2>1. fileLine \in 1..Len(csvLines)
    BY <1>1, OrderFacts
  <2> QED
    BY <1>1, <2>1, OrderFacts DEF ColumnTypeOK, RowLine
<1>10. rowsRead \in Seq(R) /\ <<>> \in R
  BY <1>1 DEF ColumnTypeOK
<1>11. ASSUME NEW i \in Column PROVE (CStringAt(mem, row[i]) \in Seq(Symbol)) \/ place < p
  <2>1. PICK q \in DOMAIN col_order : col_order[q] = i
    BY <1>2 DEF ToSet
  <2>2. CASE place = p
    <3>1. q \in 1..place /\ col_order[q] # Extra
      BY <1>9, <2>1, <2>2, ColumnFacts
    <3>2. EndsBefore(mem, rest, row[i])
      BY <1>2, <2>1, <3>1 DEF RowInv
    <3> QED
      BY <1>6, <3>2, CStringType
  <2>3. CASE place # p
    <3>1. place < p
      <4>1. place \in Nat /\ p \in Nat /\ place <= p
        BY <1>6, <1>9
      <4> HIDE DEF p
      <4> QED
        BY <2>3, <4>1
    <3> QED
      BY <3>1
  <2> QED
    BY <2>2, <2>3
<1>12. place = p => value \in R
  BY <1>9, <1>11
<1>13. value # <<>>
  <2>1. DOMAIN value = Column /\ 1 \in Column
    BY ColumnFacts
  <2>2. DOMAIN <<>> = {}
    OBVIOUS
  <2> HIDE DEF value
  <2> QED
    BY <2>1, <2>2
<1> HIDE DEF R
<1>14. /\ Len(rowsRead) \in Nat /\ DOMAIN rowsRead = 1..N
       /\ rowsRead' \in Seq(R) /\ Len(rowsRead') = N + 1 /\ DOMAIN rowsRead' = 1..(N + 1)
       /\ \A n \in 1..N : rowsRead'[n] = rowsRead[n]
  <2> HIDE DEF value
  <2>1. \E v \in R : rowsRead' = Append(rowsRead, v)
    BY <1>3, <1>10, <1>12
  <2>2. PICK v \in R : rowsRead' = Append(rowsRead, v)
    BY <2>1
  <2> QED
    BY <1>10, <2>2, AppendProperties, LenProperties
<1>15. N + 2 = fileLine /\ N + 1 = fileLine - 1
  BY <1>2, <1>9, <1>14
<1>16. ASSUME NEW n \in 1..N PROVE RowIsExact(n)'
  <2>1. RowIsExact(n) /\ rowsRead'[n] = rowsRead[n]
    BY <1>2, <1>14
  <2> QED
    BY <1>3, <1>4, <1>5, <2>1 DEF RowIsExact
<1>17. ASSUME NEW k \in Nat, k = N + 1 PROVE RowIsExact(k)'
  <2> DEFINE columns == Columns(csvLines[k + 1])
  <2>1. columns = Columns(RowLine)
    <3>1. k + 1 = fileLine
      BY <1>14, <1>15, <1>17
    <3> QED
      BY <3>1 DEF RowLine
  <2>2. CASE rest = nullptr /\ place = p /\ rowsRead' = Append(rowsRead, value)
    <3>1. Len(columns) = Len(HeaderNames)
      BY <1>2, <1>7, <2>1, <2>2
    <3>2. rowsRead'[k] = value
      BY <1>10, <1>17, <2>2, AppendProperties
    <3>3. ASSUME NEW i \in Column, NEW q \in Places(i) PROVE value[i] = columns[q]
      <4>1. q \in 1..p /\ q \in 1..place /\ HeaderNames[q] = Name(i)
        BY <1>2, <1>9, <2>2, <3>3 DEF Places
      <4>2. col_order[q] = i /\ i # Extra
        BY <1>1, <1>9, <4>1, ColumnFacts DEF OrderInv
      <4>3. CStringAt(mem, row[i]) = Columns(RowLine)[q]
        BY <1>2, <4>1, <4>2 DEF RowInv
      <4> QED
        BY <2>1, <4>3
    <3> HIDE DEF value, columns
    <3>4. /\ rowsRead'[k] # <<>>
          /\ \A i \in Column : \A q \in Places(i)' : rowsRead'[k][i] = columns[q]
      BY <1>5, <1>13, <3>2, <3>3
    <3>5. Columns(csvLines'[k + 1]) = columns
      BY <1>4 DEF columns
    <3> QED
      BY <1>4, <3>1, <3>4, <3>5 DEF RowIsExact
  <2>3. CASE /\ (rest = nullptr /\ place < p) \/ (rest # nullptr /\ place = p)
             /\ rowsRead' = Append(rowsRead, <<>>)
    <3>1. Len(columns) # Len(HeaderNames)
      <4> DEFINE l == Len(Columns(RowLine))
      <4>1. /\ rest = nullptr => place = l
            /\ rest # nullptr => place + 1 <= l
            /\ place \in Nat /\ p \in Nat /\ l \in Nat
        BY <1>7, <1>8, <1>9
      <4> HIDE DEF columns, value, l, p
      <4>2. l # p
        <5>1. CASE rest = nullptr /\ place < p
          BY <4>1, <5>1
        <5>2. CASE rest # nullptr /\ place = p
          BY <4>1, <5>2
        <5> QED
          BY <2>3, <5>1, <5>2
      <4> QED
        BY <1>2, <2>1, <4>2 DEF l
    <3>2. rowsRead'[k] = <<>>
      BY <1>10, <1>17, <2>3, AppendProperties
    <3> HIDE DEF value, columns
    <3>3. Columns(csvLines'[k + 1]) = columns
      BY <1>4 DEF columns
    <3> QED
      BY <1>4, <3>1, <3>2, <3>3 DEF RowIsExact
  <2> QED
    BY <1>3, <2>2, <2>3
<1>18. \A n \in DOMAIN rowsRead' : RowIsExact(n)'
  <2>1. \A n \in 1..(N + 1) : n \in 1..N \/ n = N + 1
    BY <1>14
  <2>2. N + 1 \in Nat
    BY <1>14
  <2> QED
    BY <1>14, <1>16, <1>17, <2>1, <2>2
<1>19. OrderInv'
  BY <1>1, <1>3, <1>4 DEF OrderInv
<1>20. ColumnTypeOK'
  BY <1>1, <1>3, <1>14 DEF ColumnTypeOK, R
<1>21. Len(rowsRead') = fileLine' - 1
  BY <1>3, <1>14, <1>15
<1> QED
  BY <1>2, <1>3, <1>4, <1>18, <1>19, <1>20, <1>21 DEF ColumnInv

\* ColumnInv says what ColumnsAreExact says.
LEMMA ColumnInvIsExact == ColumnInv => ColumnsAreExact
<1> SUFFICES ASSUME ColumnInv PROVE ColumnsAreExact
  OBVIOUS
<1>1. ColumnTypeOK /\ OrderInv /\ \A n \in DOMAIN rowsRead : RowIsExact(n)
  BY DEF ColumnInv
<1>2. /\ parsing = "duplicated_column" => \E i \in Column : \E p, q \in Places(i) : p # q
      /\ parsing = "missing_column" => \E i \in Column : Places(i) = {}
      /\ parsing \in {"rows", "row"} => Len(col_order) = Len(HeaderNames) /\ Column \subseteq ToSet(col_order)
  BY DEF ColumnInv
<1>3. /\ Len(col_order) \in Nat /\ DOMAIN col_order = 1..Len(col_order)
      /\ Len(HeaderNames) \in Nat /\ DOMAIN HeaderNames = 1..Len(HeaderNames)
  BY <1>1, OrderFacts
<1>4. ASSUME Len(col_order) = Len(HeaderNames), Column \subseteq ToSet(col_order), NEW i \in Column
      PROVE  Cardinality(Places(i)) = 1
  <2>1. PICK q \in DOMAIN col_order : col_order[q] = i
    BY <1>4 DEF ToSet
  <2>2. q \in DOMAIN HeaderNames /\ HeaderNames[q] = Name(i)
    BY <1>1, <1>3, <1>4, <2>1 DEF OrderInv
  <2>3. ASSUME NEW k \in Places(i) PROVE k = q
    <3>1. k \in DOMAIN col_order /\ HeaderNames[k] = Name(i)
      BY <1>3, <1>4, <2>3 DEF Places
    <3>2. col_order[k] = i /\ i # Extra
      BY <1>1, <3>1, ColumnFacts DEF OrderInv
    <3> QED
      BY <1>1, <2>1, <3>1, <3>2 DEF OrderInv
  <2>4. Places(i) = {q}
    BY <2>2, <2>3 DEF Places
  <2> QED
    BY <2>4, FS_Singleton
<1>5. ASSUME NEW i \in Column, Cardinality(Places(i)) = 1
      PROVE  Places(i) # {} /\ \A p, q \in Places(i) : p = q
  <2>1. IsFiniteSet(Places(i))
    <3>1. Places(i) \subseteq 1..Len(HeaderNames)
      BY <1>3 DEF Places
    <3>2. IsFiniteSet(1..Len(HeaderNames))
      BY <1>3, FS_Interval
    <3> QED
      BY <3>1, <3>2, FS_Subset
  <2>2. PICK x : Places(i) = {x}
    BY <1>5, <2>1, FS_Singleton
  <2> QED
    BY <2>2
<1>6. parsing \in {"rows", "row"} => \A i \in Column : Cardinality(Places(i)) = 1
  BY <1>2, <1>4
<1>7. parsing \in {"duplicated_column", "missing_column"} => ~\A i \in Column : Cardinality(Places(i)) = 1
  BY <1>2, <1>5
<1> QED
  BY <1>1, <1>6, <1>7 DEF ColumnsAreExact

\* A header is taken if it has each of the three columns once, and a row, if it
\* has as many columns, for the values in the places that the header says, for
\* every file (Csv.hpp:850-935 and 1240-1269).
THEOREM ColumnsExact == ColumnSpec => []ColumnsAreExact
<1>1. ColumnInit => ColumnInv
  BY ColumnInitInv
<1>2. ColumnInv /\ [ColumnNext]_columnVars => ColumnInv'
  <2> SUFFICES ASSUME ColumnInv, [ColumnNext]_columnVars PROVE ColumnInv'
    OBVIOUS
  <2>1. CASE HeaderColumn
    BY <2>1, HeaderColumnKeepsInv
  <2>2. CASE HeaderEnd
    BY <2>2, HeaderEndKeepsInv
  <2>3. CASE NextRow
    BY <2>3, NextRowKeepsInv
  <2>4. CASE RowColumn
    BY <2>4, RowColumnKeepsInv
  <2>5. CASE RowEnd
    BY <2>5, RowEndKeepsInv
  <2>6. CASE UNCHANGED columnVars
    <3>1. UNCHANGED <<csvLines, fileLine, mem, rest, col_order, row, place, parsing, rowsRead>>
      BY <2>6 DEF columnVars
    <3>2. RowLine' = RowLine /\ HeaderNames' = HeaderNames
      BY <3>1 DEF RowLine, HeaderNames
    <3>3. \A i : Places(i)' = Places(i)
      BY <3>2 DEF Places
    <3>4. ColumnTypeOK' /\ OrderInv' /\ (RowInv => RowInv')
      BY <3>1, <3>2 DEF ColumnInv, ColumnTypeOK, OrderInv, RowInv
    <3>5. \A n \in DOMAIN rowsRead' : RowIsExact(n)'
      BY <3>1, RowsKept DEF ColumnInv
    <3> QED
      BY <3>1, <3>2, <3>3, <3>4, <3>5 DEF ColumnInv
  <2> QED
    BY <2>1, <2>2, <2>3, <2>4, <2>5, <2>6 DEF ColumnNext
<1> QED
  BY <1>1, <1>2, ColumnInvIsExact, PTL DEF ColumnSpec
=============================================================================
