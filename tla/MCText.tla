------------------------------- MODULE MCText -------------------------------
(***************************************************************************)
(* The modules about text, one beside the other, and their instances for   *)
(* TLC: a behaviour is about a JSON text, a list of hosts, a CSV file, or  *)
(* the requests of an object.                                              *)
(***************************************************************************)
EXTENDS JsonParser, HostList, Request, CsvColumns

VARIABLE about

NoRows == <<<<>>>>      \* a file with an empty header and nothing else

textVars == <<about, jsonVars, hostVars, requestVars, columnVars>>

NoJson     == str = <<>> /\ JsonInit
NoHosts    == hostPorts = <<>> /\ HostInit
NoRequests == passwd = <<>> /\ RequestInit
NoColumns  == csvLines = NoRows /\ ColumnInit

TextInit ==
  \/ about = "json" /\ NoHosts /\ NoRequests /\ NoColumns /\ JsonInit
  \/ about = "hosts" /\ NoJson /\ NoRequests /\ NoColumns /\ HostInit
  \/ about = "requests" /\ NoJson /\ NoHosts /\ NoColumns /\ RequestInit
  \/ about = "columns" /\ NoJson /\ NoHosts /\ NoRequests /\ ColumnInit

\* Everything has been read or written.
TextEnd ==
  /\ \/ about = "json" /\ json # NotParsed
     \/ about = "hosts" /\ loading # "loop"
     \/ about = "requests" /\ at = "upload"
     \/ about = "columns" /\ ColumnsRead
  /\ UNCHANGED textVars

TextNext ==
  \/ about = "json" /\ Parse /\ UNCHANGED <<about, hostVars, requestVars, columnVars>>
  \/ about = "hosts" /\ HostNext /\ UNCHANGED <<about, jsonVars, requestVars, columnVars>>
  \/ about = "requests" /\ RequestNext /\ UNCHANGED <<about, jsonVars, hostVars, columnVars>>
  \/ about = "columns" /\ ColumnNext /\ UNCHANGED <<about, jsonVars, hostVars, requestVars>>
  \/ TextEnd

TextSpec == TextInit /\ [][TextNext]_textVars

-----------------------------------------------------------------------------
\* Lists of all kinds, and ports of all kinds.
HostTexts == SeqOf({"h", ",", ":", "9"}, 6)
               \cup {<<"h", ":">> \o p \o q : p \in SeqOf({" ", "+", "-", "0", "1", "h"}, 4),
                                           q \in {<<>>, <<",", "h">>}}

Numbers == SeqOf({"-", "0", "1", ".", "e", "+"}, 5)
             \cup {a \o b \o c : a \in SeqOf({"-", "0", "1"}, 2), b \in SeqOf({".", "0"}, 2),
                                 c \in SeqOf({"e", "+", "1"}, 3)}

Strings == {<<Quote>> \o s \o <<Quote>> :
              s \in SeqOf({"x", "escLetter", "escLead", "escTrail", "escQuote", Quote, "bad", "ctl"}, 4)}

Structures == SeqOf({"{", "}", "[", "]", ",", ":", Quote, "true", " "}, 5)

\* Members of two keys, and values nested up to the limit and beyond.
Keys == {<<Quote, "a", Quote, ":">>, <<Quote, "b", Quote, " ", ":">>}
Values == {<<"true">>, <<"null">>, <<"-", "1">>, <<Quote, ",", Quote>>}
Nested(V) == {<<"[">> \o v \o <<"]">> : v \in V} \cup {<<"{">> \o k \o v \o <<"}">> : k \in Keys, v \in V}
Deep == LET once == Nested(Values) twice == Nested(once)
        IN once \cup twice \cup Nested(twice)
Pairs == {<<"{">> \o k \o v \o sep \o l \o w \o <<"}">> :
            k, l \in Keys, v, w \in Values, sep \in {<<",">>, <<" ", ",", " ">>, <<",", ",">>}}

TypedPasswords == SeqOf({"x", "&", "+", "%", "9", "'", " "}, 3)
FileContents == SeqOf({"x", "NUL", Boundary}, 3)

\* Headers with all kinds of columns, and one row; some of them with rows of all
\* kinds, or with two rows.
Joined(columns) == FlattenSeq([i \in DOMAIN columns |->
                      IF i < Len(columns) THEN Append(columns[i], ",") ELSE columns[i]])
HeaderColumns == {<<"hostname">>, <<" ", "port">>, <<"password", " ">>, <<"port">>, <<"x">>, <<>>,
                  <<"x", " ", "port">>, <<"hostname", "NUL">>}
Headers == {Joined(c) : c \in SeqOf(HeaderColumns, 4) \ {<<>>}}
PlainHeader == Joined(<<<<"hostname">>, <<"port">>, <<"password">>>>)
SomeHeaders == {PlainHeader,
                Joined(<<<<"password">>, <<" ", "hostname", " ">>, <<"port">>>>),
                Joined(<<<<"x">>, <<"port">>, <<"hostname">>, <<>>, <<"password">>>>)}
SomeRows == {Joined(c) : c \in SeqOf({<<"a">>, <<" ", "b", " ">>, <<>>}, 4)}
OneRow == {<<h, <<"a", ",", "b", ",", " ", "c">>>> : h \in Headers}
AnyRow == {<<h, r>> : h \in SomeHeaders, r \in SeqOf({"a", ",", " ", "NUL"}, 5)}
            \cup {<<PlainHeader, r>> : r \in SeqOf({"a", ",", " ", "NUL"}, 6)}
TwoRows == {<<h, r, q>> : h \in SomeHeaders, r \in SomeRows,
                          q \in {<<"a", ",", "b">>, <<",", " ", ",", "c">>}}
CsvFiles == {NoRows} \cup OneRow \cup AnyRow \cup TwoRows

JsonTexts == Numbers \cup Strings \cup Structures \cup Deep \cup Pairs
=============================================================================
