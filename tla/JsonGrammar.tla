---------------------------- MODULE JsonGrammar ----------------------------
(***************************************************************************)
(* What a text means as JSON, as a grammar that looks at the whole text at *)
(* once: where it begins, where it ends and where it can be cut in two.    *)
(*                                                                         *)
(* A text is a sequence of symbols: a character, a literal, or an escape   *)
(* sequence.  " " is any white space, "1" any digit but 0, "ctl" a control *)
(* character, "bad" an escape sequence that JSON does not know, and any    *)
(* other string a character without a meaning of its own.                  *)
(***************************************************************************)
EXTENDS Integers, SequencesExt

CONSTANT max_depth      \* how deep values may be nested

Literal == {"true", "false", "null"}
Digit == {"0", "1"}
Quote == "\""

\* The simple escape sequences, and those with a code point, of which two may
\* be the halves of one character.
Escape == [escNewline |-> "newline", escQuote |-> Quote]
CodePoint == [escLetter |-> "a", escLead |-> "lead", escTrail |-> "trail"]

InString(c) == c \notin {Quote, "ctl", "bad"}

Sub(s, i) == SubSeq(s, 1, i)            \* up to i
From(s, i) == SubSeq(s, i + 1, Len(s))  \* behind i

Trim(s) ==
  LET black == {i \in DOMAIN s : s[i] # " "}
  IN IF black = {} THEN <<>>
     ELSE SubSeq(s, CHOOSE i \in black : \A j \in black : i <= j,
                    CHOOSE i \in black : \A j \in black : i >= j)

-----------------------------------------------------------------------------
IsDigits(s) == s # <<>> /\ ToSet(s) \subseteq Digit
IsInteger(s) == IsDigits(s) /\ (s[1] = "0" => Len(s) = 1)
Signed(s, signs) == IF s # <<>> /\ s[1] \in signs THEN Tail(s) ELSE s

IsNumber(s) ==
  \E i, j \in 0..Len(s) :
    /\ i <= j
    /\ IsInteger(Signed(Sub(s, i), {"-"}))
    /\ i < j => s[i + 1] = "." /\ IsDigits(SubSeq(s, i + 2, j))
    /\ j < Len(s) => s[j + 1] = "e" /\ IsDigits(Signed(From(s, j + 1), {"+", "-"}))

IsString(s) ==
  /\ Len(s) >= 2 /\ s[1] = Quote /\ Last(s) = Quote
  /\ \A i \in 2..(Len(s) - 1) : InString(s[i])

\* The halves of a character that follow each other are one character.
Characters(s) ==
  LET IsPair(i) == i \in 1..(Len(s) - 1) /\ s[i] = "escLead" /\ s[i + 1] = "escTrail"
      Char(i) == CASE IsPair(i) -> <<"pair">>
                   [] IsPair(i - 1) -> <<>>
                   [] s[i] \in DOMAIN Escape -> <<Escape[s[i]]>>
                   [] s[i] \in DOMAIN CodePoint -> <<CodePoint[s[i]]>>
                   [] OTHER -> <<s[i]>>
  IN FlattenSeq([i \in DOMAIN s |-> Char(i)])

Inner(s) == SubSeq(s, 2, Len(s) - 1)
StringValue(s) == Characters(Inner(s))

Encloses(open, s, close) == Len(s) >= 2 /\ s[1] = open /\ Last(s) = close

\* A key that comes twice has its last value.
Object(members) ==
  {members[i] : i \in {i \in DOMAIN members :
     \A j \in (i + 1)..Len(members) : members[j][1] # members[i][1]}}

RECURSIVE Meaning(_, _), Lists(_, _), MemberLists(_, _), MeaningOfMember(_, _)

\* The values that a text may have, d levels down.
Meaning(text, d) ==
  LET s == Trim(text)
  IN IF d > max_depth THEN {} ELSE
     {<<s[1]>> : i \in {i \in DOMAIN s : Len(s) = 1 /\ s[i] \in Literal}}
       \cup (IF IsNumber(s) THEN {<<"number", s>>} ELSE {})
       \cup (IF IsString(s) THEN {<<"string", StringValue(s)>>} ELSE {})
       \cup (IF Encloses("[", s, "]")
               THEN {<<"array", l>> : l \in
                      IF Trim(Inner(s)) = <<>> THEN {<<>>} ELSE Lists(Inner(s), d + 1)}
               ELSE {})
       \cup (IF Encloses("{", s, "}")
               THEN {<<"object", Object(l)>> : l \in
                      IF Trim(Inner(s)) = <<>> THEN {<<>>} ELSE MemberLists(Inner(s), d + 1)}
               ELSE {})

Commas(s) == {i \in DOMAIN s : s[i] = ","}

Lists(s, d) ==
  {<<v>> : v \in Meaning(s, d)} \cup
    UNION {{<<v>> \o l : v \in Meaning(Sub(s, i - 1), d), l \in Lists(From(s, i), d)} :
             i \in Commas(s)}

MeaningOfMember(s, d) ==
  UNION {{<<StringValue(Trim(Sub(s, i - 1))), v>> : v \in Meaning(From(s, i), d)} :
           i \in {i \in DOMAIN s : s[i] = ":" /\ IsString(Trim(Sub(s, i - 1)))}}

MemberLists(s, d) ==
  {<<m>> : m \in MeaningOfMember(s, d)} \cup
    UNION {{<<m>> \o l : m \in MeaningOfMember(Sub(s, i - 1), d),
                         l \in MemberLists(From(s, i), d)} : i \in Commas(s)}
=============================================================================
