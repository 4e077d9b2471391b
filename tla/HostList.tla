------------------------------ MODULE HostList ------------------------------
(***************************************************************************)
(* loadUpdateFactoriesFromStr (UpdateFactory.cpp): a list of destinations, *)
(* cut at commas, each "host" or "host:port".                              *)
(*                                                                         *)
(* A list is a sequence of characters: " " is any white space, and every   *)
(* other character stands for itself.                                      *)
(***************************************************************************)
EXTENDS Integers, FiniteSets, SequencesExt

CONSTANTS HostLists,
          IntMax        \* the greatest int

DefaultPort == 80

ASSUME HostAssumption ==
  /\ HostLists \subseteq Seq(STRING)
  /\ IntMax \in Nat /\ IntMax >= DefaultPort

VARIABLES hostPorts,    \* the list
          start, end,   \* the next entry, without its end
          destinations, \* of the objects in update_list
          loading       \* where the function is

hostVars == <<hostPorts, start, end, destinations, loading>>

\* s.find_first_of(c, from), or the length of s.
FindFirst(s, c, from) ==
  IF \A i \in from..Len(s) : s[i] # c THEN Len(s) + 1
  ELSE CHOOSE i \in from..Len(s) : s[i] = c /\ \A k \in from..(i - 1) : s[k] # c

\* The first place from `from' on that has none of C, or the one behind s.
Past(s, C, from) == CHOOSE i \in from..(Len(s) + 1) :
                      /\ i = Len(s) + 1 \/ s[i] \notin C
                      /\ \A k \in from..(i - 1) : s[k] \in C

IntRange == (-IntMax - 1)..IntMax
Sign == {"+", "-"}
Numeral == <<"0", "1", "2", "3", "4", "5", "6", "7", "8", "9">>

Number(minus, digits) ==
  LET n == FoldLeft(LAMBDA v, c : 10 * v + SelectInSeq(Numeral, LAMBDA d : d = c) - 1, 0, digits)
  IN IF minus THEN -n ELSE n

\* std::stoi: white space, a sign or none, and digits; what follows them is not
\* looked at.  Without digits it throws std::invalid_argument, and
\* std::out_of_range for a number that is no int.
SignAt(s) == Past(s, {" "}, 1)
HasSign(s) == SignAt(s) <= Len(s) /\ s[SignAt(s)] \in Sign
DigitsAt(s) == IF HasSign(s) THEN SignAt(s) + 1 ELSE SignAt(s)
Digits(s) == SubSeq(s, DigitsAt(s), Past(s, ToSet(Numeral), DigitsAt(s)) - 1)
HasNumber(s) == Digits(s) # <<>>
stoi(s) == Number(HasSign(s) /\ s[SignAt(s)] = "-", Digits(s))

\* parseHostPort, when std::stoi does not throw std::out_of_range.
HasPort(s) == FindFirst(s, ":", 1) <= Len(s)
PortText(s) == SubSeq(s, FindFirst(s, ":", 1) + 1, Len(s))
StatesPort(s) == HasPort(s) /\ HasNumber(PortText(s))
IsOutOfRange(s) == StatesPort(s) /\ stoi(PortText(s)) \notin IntRange

parseHostPort(s) ==
  [host |-> SubSeq(s, 1, FindFirst(s, ":", 1) - 1),
   port |-> IF StatesPort(s) THEN stoi(PortText(s)) ELSE DefaultPort]

HostInit ==
  /\ hostPorts \in HostLists
  /\ start = 1
  /\ end = FindFirst(hostPorts, ",", 1)
  /\ destinations = <<>>
  /\ loading = "loop"

Entry == SubSeq(hostPorts, start, end - 1)

\* Mutant: the next entry begins at the comma.
NextAtComma ==
  /\ start' = end
  /\ end' = FindFirst(hostPorts, ",", end + 1)

NextEntry ==
  /\ start' = end + 1
  /\ end' = FindFirst(hostPorts, ",", end + 1)

\* The loop: an object for each entry.  An exception of std::stoi leaves the
\* function with what is in destinations.
LoadEntry ==
  /\ loading = "loop" /\ start < end
  /\ \/ /\ ~IsOutOfRange(Entry)
        /\ destinations' = Append(destinations, parseHostPort(Entry))
        /\ NextEntry
        /\ UNCHANGED loading
     \/ /\ IsOutOfRange(Entry)
        /\ loading' = "out_of_range"
        /\ UNCHANGED <<start, end, destinations>>
  /\ UNCHANGED hostPorts

LoadEnd ==
  /\ loading = "loop" /\ start >= end
  /\ loading' = "returned"
  /\ UNCHANGED <<hostPorts, start, end, destinations>>

HostNext == LoadEntry \/ LoadEnd

HostSpec == HostInit /\ [][HostNext]_hostVars

-----------------------------------------------------------------------------
\* The entries of the list, by the places of the commas around them.
Cuts == {i \in 0..(Len(hostPorts) + 1) :
          i \in DOMAIN hostPorts => hostPorts[i] = ","}
Cut(i) == CHOOSE c \in Cuts : Cardinality({d \in Cuts : d < c}) = i
Entries == [i \in 1..(Cardinality(Cuts) - 1) |-> SubSeq(hostPorts, Cut(i - 1) + 1, Cut(i) - 1)]

\* A text states a number if it begins with i characters of white space, a sign
\* or none, and digits up to k, with none behind them.
IsStated(text, i, sign, k) ==
  /\ i + Len(sign) < k
  /\ \A b \in 1..i : text[b] = " "
  /\ \A b \in 1..Len(sign) : text[i + b] = sign[b]
  /\ \A b \in (i + Len(sign) + 1)..k : text[b] \in ToSet(Numeral)
  /\ k < Len(text) => text[k + 1] \notin ToSet(Numeral)

\* The number that a text states, or none.
Stated(text) ==
  LET ways == {w \in (0..Len(text)) \X {<<>>, <<"+">>, <<"-">>} \X (0..Len(text)) :
                 IsStated(text, w[1], w[2], w[3])}
  IN {Number(w[2] = <<"-">>, SubSeq(text, w[1] + Len(w[2]) + 1, w[3])) : w \in ways}

Behind(host, entry) == SubSeq(entry, Len(host) + 2, Len(entry))

\* An entry is a host, or a host and a port; a port that is not a number is the
\* default.
Names(object, entry) ==
  /\ ":" \notin ToSet(object.host)
  /\ object.port \in IntRange
  /\ \/ entry = object.host /\ object.port = DefaultPort
     \/ /\ IsPrefix(object.host \o <<":">>, entry)
        /\ \/ object.port \in Stated(Behind(object.host, entry))
           \/ Stated(Behind(object.host, entry)) = {} /\ object.port = DefaultPort

\* A port that is stated, but is no int.
NamesNoInt(entry) ==
  \E host \in Prefixes(entry) :
    /\ ":" \notin ToSet(host) /\ IsPrefix(host \o <<":">>, entry)
    /\ \E port \in Stated(Behind(host, entry)) : port \notin IntRange

\* Each entry before the first empty one gets its object, in order, and nothing
\* else does (UpdateFactory.cpp:452-472), or each one before a port that is out
\* of the range of int.
HostsAreExact ==
  LET empty == {i \in DOMAIN Entries : Entries[i] = <<>>}
      done == Len(destinations)
  IN /\ loading = "returned" => done + 1 \in empty \cup {Len(Entries) + 1}
     /\ loading = "out_of_range" => done < Len(Entries) /\ NamesNoInt(Entries[done + 1])
     /\ loading # "loop" =>
          /\ done <= Len(Entries)
          /\ \A i \in DOMAIN destinations : Names(destinations[i], Entries[i])
          /\ \A i \in empty : done < i
=============================================================================
