----------------------------- MODULE JsonParser -----------------------------
(***************************************************************************)
(* json11's parser (Json.cpp), by which UpdateFactory reads the body of a  *)
(* reply: from left to right, a symbol at a time.  The texts, and what     *)
(* they mean, are those of JsonGrammar.                                    *)
(***************************************************************************)
EXTENDS JsonGrammar

CONSTANT Texts

VARIABLES str,          \* the text
          json          \* Json::parse's result

jsonVars == <<str, json>>

\* Parsed up to the position before pos, or failed.  The result of a failure
\* is Json(), which is null.
Parsed(pos, value) == [ok |-> TRUE, pos |-> pos, value |-> value]
Fail == [ok |-> FALSE, pos |-> 0, value |-> <<"null">>]

\* Behind the text there is the NUL of the std::string.
At(i) == IF i <= Len(str) THEN str[i] ELSE "NUL"

\* The first position from i on that has something else.
Skip(i, symbols) ==
  CHOOSE j \in i..(Len(str) + 1) :
    /\ At(j) \notin symbols
    /\ \A k \in i..(j - 1) : At(k) \in symbols

\* get_next_token: its position.
get_next_token(i) == Skip(i, {" "})

-----------------------------------------------------------------------------
\* encode_utf8: a code point that is waiting for its other half.
NoCodePoint == "none"
Encoded(out, codepoint) ==
  IF codepoint = NoCodePoint THEN out ELSE Append(out, CodePoint[codepoint])

RECURSIVE parse_string(_, _, _)

\* The loop of parse_string; `last' is last_escaped_codepoint.
parse_string(i, out, last) ==
  CASE At(i) = Quote -> Parsed(i + 1, Encoded(out, last))
    [] At(i) \in {"NUL", "ctl", "bad"} -> Fail
    [] At(i) \in DOMAIN CodePoint ->
         IF last = "escLead" /\ At(i) = "escTrail"
           THEN parse_string(i + 1, Append(out, "pair"), NoCodePoint)
           ELSE parse_string(i + 1, Encoded(out, last), At(i))
    [] OTHER ->
         LET c == IF At(i) \in DOMAIN Escape THEN Escape[At(i)] ELSE At(i)
         IN parse_string(i + 1, Append(Encoded(out, last), c), NoCodePoint)

String(i) == parse_string(i + 1, <<>>, NoCodePoint)

parse_number(i) ==
  LET int  == IF At(i) = "-" THEN i + 1 ELSE i
      frac == IF At(int) = "0" THEN int + 1 ELSE Skip(int, Digit)
      exp  == IF At(frac) = "." THEN Skip(frac + 1, Digit) ELSE frac
      sign == IF At(exp + 1) \in {"+", "-"} THEN exp + 2 ELSE exp + 1
      end  == IF At(exp) = "e" THEN Skip(sign, Digit) ELSE exp
  IN IF \/ At(int) \notin Digit
        \/ At(int) = "0" /\ At(int + 1) \in Digit
        \/ At(frac) = "." /\ exp = frac + 1
        \/ At(exp) = "e" /\ end = sign
       THEN Fail
       ELSE Parsed(end, <<"number", SubSeq(str, i, end - 1)>>)

RECURSIVE parse_json(_, _), Elements(_, _, _), Members(_, _, _)

\* parse_json's loop over an array: i is the position of the next element.
Elements(i, depth, data) ==
  LET element == parse_json(i, depth + 1)
      sep == get_next_token(element.pos)
      more == Append(data, element.value)
  IN IF ~element.ok \/ At(sep) \notin {",", "]"} THEN Fail
     ELSE IF At(sep) = "]" THEN Parsed(sep + 1, <<"array", more>>)
     ELSE Elements(get_next_token(sep + 1), depth, more)

\* Mutant: insert does not replace.
AssignOnce(data, key, value) ==
  IF \E m \in data : m[1] = key THEN data ELSE data \cup {<<key, value>>}

\* data[key] = value, in a std::map.
Assign(data, key, value) == {m \in data : m[1] # key} \cup {<<key, value>>}

\* parse_json's loop over an object: i is the position of the next key.
Members(i, depth, data) ==
  LET key   == String(i)
      colon == get_next_token(key.pos)
      value == parse_json(colon + 1, depth + 1)
      sep   == get_next_token(value.pos)
      more  == Assign(data, key.value, value.value)
  IN IF \/ At(i) # Quote
        \/ ~key.ok \/ At(colon) # ":"
        \/ ~value.ok \/ At(sep) \notin {",", "}"}
       THEN Fail
     ELSE IF At(sep) = "}" THEN Parsed(sep + 1, <<"object", more>>)
     ELSE Members(get_next_token(sep + 1), depth, more)

parse_json(pos, depth) ==
  LET i == get_next_token(pos)
      first == get_next_token(i + 1)
  IN IF depth > max_depth THEN Fail ELSE
     CASE At(i) \in {"-"} \cup Digit -> parse_number(i)
       [] At(i) \in Literal -> Parsed(i + 1, <<At(i)>>)
       [] At(i) = Quote ->
            IF String(i).ok THEN Parsed(String(i).pos, <<"string", String(i).value>>) ELSE Fail
       [] At(i) = "{" ->
            IF At(first) = "}" THEN Parsed(first + 1, <<"object", {}>>)
                               ELSE Members(first, depth, {})
       [] At(i) = "[" ->
            IF At(first) = "]" THEN Parsed(first + 1, <<"array", <<>>>>)
                               ELSE Elements(first, depth, <<>>)
       [] OTHER -> Fail

\* Json::parse: nothing may follow the value.
parse ==
  LET value == parse_json(1, 0)
  IN IF value.ok /\ get_next_token(value.pos) = Len(str) + 1 THEN value ELSE Fail

-----------------------------------------------------------------------------
NotParsed == [ok |-> FALSE, pos |-> -1, value |-> <<"null">>]

JsonInit == str \in Texts /\ json = NotParsed

Parse == json = NotParsed /\ json' = parse /\ UNCHANGED str

-----------------------------------------------------------------------------
(* The accessors, by which the program looks at what it has parsed.        *)

Null == <<"null">>

\* operator[]: anything that is not an object, or has no such member, has null.
Index(value, key) ==
  LET found == IF value[1] = "object" THEN {m \in value[2] : m[1] = key} ELSE {}
  IN IF found = {} THEN Null ELSE (CHOOSE m \in found : TRUE)[2]

\* Mutant: what is there is taken for true.
is_there(value) == value # Null

bool_value(value) == value = <<"true">>
string_value(value) == IF value[1] = "string" THEN value[2] ELSE <<>>

\* parseJsonResult: the literal null is as bad as no JSON.
parseJsonResult == json.ok /\ json.value # Null

\* The members that doAuth reads, "authentication" and "app_version".
Authentication == <<"a">>
AppVersion == <<"b">>

doAuthReads == [authenticated |-> bool_value(Index(json.value, Authentication)),
                fw_ver |-> string_value(Index(json.value, AppVersion))]

-----------------------------------------------------------------------------
\* A text that is JSON has the value it means, and any other text has none
\* (Json.cpp:644-745).
ParseIsExact ==
  json # NotParsed =>
    Meaning(str, 0) = IF json.ok THEN {json.value} ELSE {}

\* Whatever a device answers, doAuth takes itself for logged in only if the
\* answer is an object that says so, in the last of its members of that name,
\* and reads a version only if it is a string there (UpdateFactory.cpp:202-212,
\* Json.cpp:228-251).
RepliesFailSafe ==
  LET s == Trim(str)
      LastMember(l, key, value) ==
        \E i \in DOMAIN l : /\ l[i] = <<key, value>>
                            /\ \A j \in (i + 1)..Len(l) : l[j][1] # key
      Says(key, value) == /\ Encloses("{", s, "}")
                          /\ \E l \in MemberLists(Inner(s), 1) : LastMember(l, key, value)
  IN json # NotParsed =>
       /\ parseJsonResult <=> Meaning(str, 0) \notin {{}, {Null}}
       /\ doAuthReads.authenticated <=> Says(Authentication, <<"true">>)
       /\ doAuthReads.fw_ver # <<>> => Says(AppVersion, <<"string", doAuthReads.fw_ver>>)
=============================================================================
