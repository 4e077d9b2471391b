----------------------------- MODULE LineSource -----------------------------
(***************************************************************************)
(* What io::LineReader promises its caller (Csv.hpp): next_line hands out  *)
(* the lines of a file, each once and in order, without their line breaks, *)
(* and null at the end.  A line that is too long is refused; it is not     *)
(* consumed, so the next call refuses it again.                            *)
(*                                                                         *)
(* A file is a sequence of bytes.  "LF", "CR" and the three bytes of the   *)
(* UTF-8 byte order mark are written by their names; the other bytes are   *)
(* any other strings.                                                      *)
(***************************************************************************)
EXTENDS Integers, SequencesExt

CONSTANT MaxLength      \* a line is shorter than this

VARIABLES file,         \* the contents of the file
          next,         \* the position of the next line
          line          \* what next_line has returned to its caller

vars == <<file, next, line>>

NoLine    == [kind |-> "none", text |-> <<>>]
EndOfFile == [kind |-> "eof", text |-> <<>>]
TooLong   == [kind |-> "long", text |-> <<>>]
Line(s)   == [kind |-> "line", text |-> s]

ByteOrderMark == <<"EF", "BB", "BF">>

\* The end of the line that starts at n: its LF, or the end of the file.
IsEnd(n, e) == /\ e = Len(file) + 1 \/ file[e] = "LF"
               /\ \A i \in n..(e - 1) : file[i] # "LF"

\* A CR before the LF belongs to the line break.
WithoutCR(s) == IF s # <<>> /\ Last(s) = "CR" THEN Front(s) ELSE s

Init ==
  /\ next = IF IsPrefix(ByteOrderMark, file) THEN 4 ELSE 1
  /\ line = NoLine

NextLine ==
  /\ line = NoLine
  /\ \E e \in next..(Len(file) + 1) :
       /\ next <= Len(file)
       /\ IsEnd(next, e)
       /\ \/ /\ e - next < MaxLength
             /\ line' = Line(WithoutCR(SubSeq(file, next, e - 1)))
             /\ next' = e + 1
          \/ e - next >= MaxLength /\ line' = TooLong /\ UNCHANGED next
  /\ UNCHANGED file

End ==
  /\ line = NoLine
  /\ next > Len(file)
  /\ line' = EndOfFile
  /\ UNCHANGED <<file, next>>

\* The caller has used the line.
Used ==
  /\ line # NoLine
  /\ line' = NoLine
  /\ UNCHANGED <<file, next>>

Next == NextLine \/ End \/ Used

Spec == Init /\ [][Next]_vars
=============================================================================
