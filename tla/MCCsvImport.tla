---------------------------- MODULE MCCsvImport ----------------------------
(* Instances of CsvImport for TLC: files put together from lines. *)
EXTENDS CsvImport, TLC

CONSTANT MaxRows

Header == <<"header", "CR", "LF">>
Rows == {<<"LF">>, <<"row", "LF">>, <<"row", "x", "LF">>, <<"row", "CR", "LF">>,
         <<"badport", "LF">>, <<"hugeport", "LF">>, <<"row", "x", "x", "LF">>}

\* A header and rows, with or without a byte order mark and a last LF.
Bodies == {Header \o FlattenSeq(rows) : rows \in SeqOf(Rows, MaxRows)}

CsvFiles ==
  {<<>>, ByteOrderMark, <<"row", "LF">>, <<"x", "x", "x", "x">>,
   <<"x", "x", "x", "x", "x", "x">>}
    \cup Bodies
    \cup {Front(f) : f \in Bodies}
    \cup {ByteOrderMark \o f : f \in Bodies}
=============================================================================
