-------------------------- MODULE HttpClientProofs --------------------------
(* The proofs about HttpClient, and about Request, whose requests it sends. *)
EXTENDS HttpClient, Request, SequenceLemmas, SequenceTheorems, FiniteSetTheorems, TLAPS

-----------------------------------------------------------------------------
(* The inductive invariant of HttpClient.                                  *)

\* The request: the device acts when it has got all of it, and before it reports
\* success.
RequestInv ==
  /\ pc \in {"idle", "resolve", "connect"} => device = "none" /\ sent = 0
  /\ device = "none" => given = 0
  /\ pc \in {"write", "killed"} => sent < 1 + size
  /\ acted => received = 1 + size
  /\ given > 0 /\ reply.status \in {"s200", "s302"} => acted

\* The reply: its status is that of the first line, or none.
StatusInv ==
  /\ pc \in {"idle", "resolve", "connect", "write"} => got = 0 /\ buf = <<>> /\ res = NoResponse
  /\ pc = "status" =>
       /\ res = NoResponse
       /\ \/ got = 0 /\ buf = <<>>
          \/ got = 1 /\ buf = <<reply.status>>
  /\ pc = "headers" => res.body = <<>>
  /\ pc \in {"headers", "content", "untilEnd"} =>
       res.status = -1 \/ (given > 0 /\ res.status = Meant.status)

\* Where nothing but the end of the connection ends a read, what is received is
\* what is sent: k headers and perhaps a part of the next line, or all of them
\* and a part of the body; or nothing more can be received.
NoMore == device = "reset" \/ (device = "closed" /\ got = given)

HeadersRead(k) ==
  /\ res.status = Meant.status
  /\ res.headers = SubSeq(reply.headers, 1, k)
  /\ \/ got = 2 * (k + 1) /\ buf = <<>>
     \/ k < Len(reply.headers) /\ got = 2 * (k + 1) + 1 /\ buf = <<reply.headers[k + 1]>>

\* The body is read, or has been.
ReadsBody == pc \in {"content", "untilEnd"} \/ (pc = "close" /\ ok)

ExactInv ==
  /\ pc = "headers" => \/ NoMore /\ buf = <<>>
                       \/ \E k \in 0..Len(reply.headers) : HeadersRead(k)
  /\ ReadsBody =>
       /\ res.status = Meant.status
       /\ res.headers = reply.headers
       /\ got = HeadLength + Len(res.body)
       /\ res.body = SubSeq(reply.body, 1, Len(res.body))

\* What is going to be returned is a reply; a body until the end has no length.
ReplyInv ==
  /\ pc = "untilEnd" => ContentLength(res.headers) = 0
  /\ pc = "close" /\ ok => Promise!IsReply([status |-> res.status, body |-> res.body])

\* One socket is open from its opening to close_socket, and for good after an
\* exception.
SocketsInv ==
  sockets = IF pc \in {"idle", "resolve", "returned"} THEN 0 ELSE 1

HttpInv ==
  /\ TypeOK
  /\ SocketsInv
  /\ RequestInv
  /\ StatusInv
  /\ posix => ExactInv
  /\ ReplyInv

-----------------------------------------------------------------------------
(* What a reply looks like on the wire.                                    *)

LEMMA ReplyType ==
  ASSUME reply \in Replies
  PROVE  /\ reply.status \in Text /\ reply.headers \in Seq(Text) /\ reply.body \in Seq(Piece)
         /\ Len(reply.headers) \in Nat /\ Len(reply.body) \in Nat
         /\ \A i \in 1..Len(reply.headers) : reply.headers[i] \in Text
         /\ \A i \in 1..Len(reply.body) : reply.body[i] \in Piece
         /\ Text \subseteq Piece
         /\ \A x \in Text : x \notin LineEnd /\ x # "CRLF"
         /\ reply.headers \in Seq(Piece)
<1>1. reply \in [status : Text, headers : Seq(Text), body : Seq(Piece)]
  BY HttpAssumption
<1>2. reply.status \in Text /\ reply.headers \in Seq(Text) /\ reply.body \in Seq(Piece)
  BY <1>1
<1>3. /\ Len(reply.headers) \in Nat /\ Len(reply.body) \in Nat
      /\ \A i \in 1..Len(reply.headers) : reply.headers[i] \in Text
      /\ \A i \in 1..Len(reply.body) : reply.body[i] \in Piece
  BY <1>2, LenProperties, ElementOfSeq
<1>4. Text \subseteq Piece /\ \A x \in Text : x \notin LineEnd /\ x # "CRLF"
  BY DEF Text, Piece, LineEnd
<1>5. reply.headers \in Seq(Piece)
  BY <1>2, <1>4, SeqMonotonic
<1> QED
  BY <1>2, <1>3, <1>4, <1>5

LEMMA LinesType ==
  ASSUME reply \in Replies
  PROVE  /\ Lines \in Seq(Piece)
         /\ Len(Lines) = Len(reply.headers) + 1
         /\ Lines[1] = reply.status
         /\ \A k \in 1..Len(reply.headers) : Lines[k + 1] = reply.headers[k]
         /\ HeadLength = 2 * Len(reply.headers) + 3
<1> DEFINE first == <<reply.status>>
<1>1. /\ reply.status \in Piece /\ reply.headers \in Seq(Piece) /\ Len(reply.headers) \in Nat
  BY ReplyType
<1>2. first \in Seq(Piece) /\ Len(first) = 1 /\ first[1] = reply.status
  BY <1>1
<1>3. Lines = first \o reply.headers
  BY DEF Lines
<1> HIDE DEF first
<1>4. /\ first \o reply.headers \in Seq(Piece)
      /\ Len(first \o reply.headers) = Len(first) + Len(reply.headers)
      /\ \A i \in 1..Len(first) + Len(reply.headers) :
           (first \o reply.headers)[i] =
              IF i <= Len(first) THEN first[i] ELSE reply.headers[i - Len(first)]
  BY <1>1, <1>2, ConcatProperties
<1>5. Lines \in Seq(Piece) /\ Len(Lines) = Len(reply.headers) + 1
  BY <1>1, <1>2, <1>3, <1>4
<1>6. Lines[1] = reply.status
  BY <1>1, <1>2, <1>3, <1>4
<1>7. ASSUME NEW k \in 1..Len(reply.headers) PROVE Lines[k + 1] = reply.headers[k]
  <2>1. k + 1 \in 1..(1 + Len(reply.headers)) /\ ~(k + 1 <= 1) /\ (k + 1) - 1 = k
    BY <1>1
  <2> QED
    BY <1>2, <1>3, <1>4, <2>1
<1>8. HeadLength = 2 * Len(reply.headers) + 3
  BY <1>1, <1>5 DEF HeadLength
<1> QED
  BY <1>5, <1>6, <1>7, <1>8

\* The line i is at 2i - 1 and its end behind it; the body follows the empty line.
LEMMA WirePositions ==
  ASSUME reply \in Replies
  PROVE  /\ Wire \in Seq(Piece)
         /\ Len(Wire) = HeadLength + Len(reply.body)
         /\ \A i \in 1..Len(Wire) : Wire[i] \in Piece
         /\ Wire[1] = reply.status
         /\ \A k \in 0..Len(reply.headers) : Wire[2 * (k + 1)] = "CRLF"
         /\ \A k \in 1..Len(reply.headers) : Wire[2 * k + 1] = reply.headers[k]
         /\ Wire[HeadLength] = "CRLF"
         /\ \A j \in 1..Len(reply.body) : Wire[HeadLength + j] = reply.body[j]
<1> DEFINE H == Len(reply.headers)
           B == Len(reply.body)
           At(i) == IF i > HeadLength THEN reply.body[i - HeadLength]
                    ELSE IF i = HeadLength \/ i % 2 = 0 THEN "CRLF"
                    ELSE Lines[(i + 1) \div 2]
<1>1. /\ H \in Nat /\ B \in Nat /\ HeadLength = 2 * H + 3
      /\ \A j \in 1..B : reply.body[j] \in Piece
      /\ Lines \in Seq(Piece) /\ Len(Lines) = H + 1 /\ Lines[1] = reply.status
      /\ \A k \in 1..H : Lines[k + 1] = reply.headers[k]
  BY ReplyType, LinesType
<1>2. HeadLength \in Nat /\ HeadLength + B \in Nat /\ "CRLF" \in Piece
  <2> HIDE DEF B
  <2>1. HeadLength \in Nat /\ HeadLength + B \in Nat
    BY <1>1
  <2>2. "CRLF" \in Piece
    BY DEF Piece, LineEnd
  <2> QED
    BY <2>1, <2>2
<1>3. \A i \in 1..(H + 1) : Lines[i] \in Piece
  <2>1. \A i \in 1..Len(Lines) : Lines[i] \in Piece
    BY <1>1, ElementOfSeq
  <2> QED
    BY <1>1, <2>1
<1>4. Wire = [i \in 1..(HeadLength + B) |-> At(i)]
  BY DEF Wire
<1> HIDE DEF H, B
<1>5. ASSUME NEW i \in 1..(HeadLength + B) PROVE At(i) \in Piece
  <2>1. CASE i > HeadLength
    <3>1. i - HeadLength \in 1..B
      BY <1>1, <1>2, <2>1
    <3> QED
      BY <1>1, <2>1, <3>1
  <2>2. CASE i <= HeadLength /\ (i = HeadLength \/ i % 2 = 0)
    BY <1>2, <2>2
  <2>3. CASE i <= HeadLength /\ ~(i = HeadLength \/ i % 2 = 0)
    <3>1. (i + 1) \div 2 \in 1..(H + 1)
      BY <1>1, <2>3, Z3
    <3>2. At(i) = Lines[(i + 1) \div 2]
      BY <1>2, <2>3
    <3> QED
      BY <1>3, <3>1, <3>2
  <2> QED
    BY <1>2, <2>1, <2>2, <2>3
<1>6. Wire \in Seq(Piece) /\ Len(Wire) = HeadLength + B
  <2> HIDE DEF At
  <2>1. Wire \in [1..(HeadLength + B) -> Piece]
    BY <1>4, <1>5
  <2> QED
    BY <1>2, <2>1, SeqDef
<1>7. \A i \in 1..Len(Wire) : Wire[i] \in Piece
  BY <1>6, ElementOfSeq
<1>8. Wire[1] = reply.status
  <2>1. 1 \in 1..(HeadLength + B) /\ ~(1 > HeadLength) /\ 1 # HeadLength /\ 1 % 2 # 0
        /\ (1 + 1) \div 2 = 1
    BY <1>1
  <2> QED
    BY <1>1, <1>4, <2>1
<1>9. ASSUME NEW k \in 0..H PROVE Wire[2 * (k + 1)] = "CRLF"
  <2>1. /\ 2 * (k + 1) \in 1..(HeadLength + B) /\ ~(2 * (k + 1) > HeadLength)
        /\ (2 * (k + 1)) % 2 = 0
    BY <1>1, Z3
  <2> QED
    BY <1>4, <2>1
<1>10. ASSUME NEW k \in 1..H PROVE Wire[2 * k + 1] = reply.headers[k]
  <2>1. /\ 2 * k + 1 \in 1..(HeadLength + B) /\ ~(2 * k + 1 > HeadLength)
        /\ 2 * k + 1 # HeadLength /\ (2 * k + 1) % 2 # 0
        /\ ((2 * k + 1) + 1) \div 2 = k + 1
    BY <1>1, Z3
  <2>2. Wire[2 * k + 1] = Lines[k + 1]
    BY <1>4, <2>1
  <2> QED
    BY <1>1, <2>2
<1>11. Wire[HeadLength] = "CRLF"
  <2>1. HeadLength \in 1..(HeadLength + B) /\ ~(HeadLength > HeadLength)
    BY <1>1
  <2> QED
    BY <1>4, <2>1
<1>12. ASSUME NEW j \in 1..B PROVE Wire[HeadLength + j] = reply.body[j]
  <2>1. /\ HeadLength + j \in 1..(HeadLength + B) /\ HeadLength + j > HeadLength
        /\ (HeadLength + j) - HeadLength = j
    BY <1>1, <1>2
  <2> QED
    BY <1>4, <2>1
<1> QED
  BY <1>6, <1>7, <1>8, <1>9, <1>10, <1>11, <1>12 DEF H, B

-----------------------------------------------------------------------------
(* The Content-Length.                                                     *)

\* get_header_value_int returns a number, whatever the headers are.
LEMMA ContentLengthType ==
  ASSUME NEW headers \in Seq(Piece)
  PROVE  ContentLength(headers) \in Nat
<1> DEFINE I == {i \in 1..Len(headers) : headers[i] \in DOMAIN Length \cup {"badlength"}}
<1>1. FirstLength(headers) = IF I # {} THEN Min(I) ELSE 0
  BY DEF FirstLength, SelectInSeq
<1>2. Len(headers) \in Nat
  BY LenProperties
<1>3. CASE FirstLength(headers) = 0
  BY <1>3 DEF ContentLength
<1>4. CASE FirstLength(headers) # 0
  <2>1. I # {} /\ I \subseteq Nat
    BY <1>1, <1>2, <1>4
  <2>2. Min(I) \in I
    BY <2>1, MinIsLeast
  <2>3. headers[FirstLength(headers)] \in DOMAIN Length \cup {"badlength"}
    BY <1>1, <2>1, <2>2
  <2>4. \A l \in DOMAIN Length : Length[l] \in Nat
    BY DEF Length
  <2>5. CASE IsBadLength(headers)
    BY <2>5 DEF ContentLength
  <2>6. CASE ~IsBadLength(headers)
    <3>1. headers[FirstLength(headers)] \in DOMAIN Length
      BY <1>4, <2>3, <2>6 DEF IsBadLength
    <3> QED
      BY <1>4, <2>4, <2>6, <3>1 DEF ContentLength
  <2> QED
    BY <2>5, <2>6
<1> QED
  BY <1>3, <1>4

-----------------------------------------------------------------------------
(* The steps.                                                              *)

\* What a read leaves, if the device has sent what is read.
LEMMA GetsResult ==
  ASSUME TypeOK, NEW s, Gets(s)
  PROVE  /\ s \in Seq(Piece) /\ buf' = <<>> /\ got' \in got..given
         /\ \/ /\ got' = got + 1 /\ got + 1 <= given /\ device # "reset"
               /\ Wire[got + 1] \in LineEnd /\ s = Append(buf, Wire[got + 1])
            \/ got' = got /\ ReceivesNone /\ s = buf /\ buf # <<>>
<1>1. /\ got \in Nat /\ given \in Nat /\ got <= given /\ buf \in Seq(Piece)
      /\ given <= Len(Wire) /\ Len(Wire) \in Nat /\ \A i \in 1..Len(Wire) : Wire[i] \in Piece
  BY WirePositions, LenProperties DEF TypeOK
<1>2. CASE Receives(1) /\ Wire[got'] \in LineEnd /\ s = Append(buf, Wire[got']) /\ buf' = <<>>
  <2>1. got' = got + 1 /\ got + 1 <= given /\ device # "reset"
    BY <1>1, <1>2 DEF Receives
  <2>2. Wire[got + 1] \in Piece
    BY <1>1, <2>1
  <2>3. s \in Seq(Piece)
    BY <1>1, <1>2, <2>1, <2>2, AppendProperties
  <2> QED
    BY <1>1, <1>2, <2>1, <2>3
<1>3. CASE ReceivesNone /\ buf # <<>> /\ s = buf /\ buf' = <<>>
  BY <1>1, <1>3 DEF ReceivesNone
<1> QED
  BY <1>2, <1>3 DEF Gets

LEMMA HttpInvInit == Init => HttpInv
<1> SUFFICES ASSUME Init PROVE HttpInv
  OBVIOUS
<1>1. /\ Len(Wire) \in Nat /\ Addresses \in Nat /\ Sizes \subseteq Nat
      /\ <<>> \in Seq(Piece)
  BY WirePositions, LenProperties, EmptySeq, HttpAssumption DEF Init
<1>2. size \in Nat
  BY <1>1 DEF Init
<1>3. TypeOK
  <2>1. res \in [status  : {-1} \cup {Status[s] : s \in DOMAIN Status},
                headers : Seq(Piece),
                body    : Seq(Piece)]
    BY <1>1 DEF Init, NoResponse
  <2>2. pc # "content" /\ received = 0 /\ sent = 0 /\ got = 0 /\ given = 0 /\ sockets = 0
    BY DEF Init
  <2>3. received \in 0..sent /\ sent \in received..(1 + size) /\ got \in 0..given
        /\ given \in 0..Len(Wire) /\ sockets \in Nat
    BY <1>1, <1>2, <2>2
  <2> QED
    BY <1>1, <2>1, <2>2, <2>3 DEF Init, TypeOK
<1>4. SocketsInv
  BY DEF Init, SocketsInv
<1>5. RequestInv
  BY <1>2 DEF Init, RequestInv
<1>6. StatusInv
  BY DEF Init, StatusInv
<1>7. ExactInv
  BY DEF Init, ExactInv, ReadsBody
<1>8. ReplyInv
  BY DEF Init, ReplyInv
<1> QED
  BY <1>3, <1>4, <1>5, <1>6, <1>7, <1>8 DEF HttpInv

\* The type of what is read.
LEMMA TypeStep ==
  ASSUME TypeOK, SocketsInv, RequestInv, StatusInv, Send \/ Device, UNCHANGED chosenVars
  PROVE  TypeOK'
<1> USE DEF chosenVars, readVars, deviceVars
<1> DEFINE PCs == {"idle", "resolve", "connect", "write", "status", "headers", "content",
                   "untilEnd", "close", "returned", "threw", "killed"}
           Statuses == {-1} \cup {Status[s] : s \in DOMAIN Status}
           ResType == [status : Statuses, headers : Seq(Piece), body : Seq(Piece)]
<1>1. /\ pc \in PCs /\ posix \in BOOLEAN /\ candidates \in 0..Addresses /\ sockets \in Nat
      /\ size \in Nat /\ received \in Nat /\ sent \in Nat /\ received <= sent /\ sent <= 1 + size
      /\ size \in Sizes /\ reply \in Replies
      /\ got \in Nat /\ given \in Nat /\ got <= given /\ given <= Len(Wire) /\ Len(Wire) \in Nat
      /\ buf \in Seq(Piece) /\ res \in ResType
      /\ ok \in BOOLEAN /\ device \in {"none", "open", "closed", "reset"} /\ acted \in BOOLEAN
      /\ Addresses \in Nat
  BY WirePositions, LenProperties, HttpAssumption DEF TypeOK
<1>2. /\ res.status \in Statuses /\ res.headers \in Seq(Piece) /\ res.body \in Seq(Piece)
      /\ <<>> \in Seq(Piece) /\ Len(<<>>) = 0
      /\ \A i \in 1..Len(Wire) : Wire[i] \in Piece
  BY <1>1, WirePositions, EmptySeq
<1>3. Wire' = Wire
  BY DEF Wire, HeadLength, Lines
<1>4. ASSUME pc' \in PCs, candidates' \in 0..Addresses, sockets' \in Nat,
             received' \in Nat, sent' \in Nat, received' <= sent', sent' <= 1 + size,
             got' \in Nat, given' \in Nat, got' <= given', given' <= Len(Wire),
             buf' \in Seq(Piece), res' \in ResType,
             pc' = "content" => Len(res'.body) < ContentLength(res'.headers),
             ok' \in BOOLEAN, device' \in {"none", "open", "closed", "reset"}, acted' \in BOOLEAN
      PROVE  TypeOK'
  BY <1>1, <1>3, <1>4 DEF TypeOK
<1> HIDE DEF PCs, Statuses, ResType
<1>5. pc = "content" => Len(res.body) < ContentLength(res.headers)
  BY DEF TypeOK
<1>6. ASSUME UNCHANGED <<deviceVars, readVars>>, pc' \in PCs \ {"content"}, ok' \in BOOLEAN,
             candidates' \in 0..Addresses, sockets' \in Nat,
             sent' \in Nat, received <= sent', sent' <= 1 + size
      PROVE  TypeOK'
  BY <1>1, <1>4, <1>6
<1>7. ASSUME UNCHANGED <<deviceVars, candidates, sockets, sent>>,
             pc' \in PCs, ok' \in BOOLEAN,
             got' \in got..given, buf' \in Seq(Piece), res' \in ResType,
             pc' = "content" => Len(res'.body) < ContentLength(res'.headers)
      PROVE  TypeOK'
  <2>1. got' \in Nat /\ got' <= given
    BY <1>1, <1>7
  <2> QED
    BY <1>1, <1>4, <1>7, <2>1
<1>8. CASE Ask
  BY <1>1, <1>6, <1>8 DEF Ask, PCs
<1>9. CASE OpenSocket
  <2>1. candidates' \in 0..Addresses /\ sockets' \in Nat
    BY <1>1, <1>9 DEF OpenSocket
  <2>2. pc' \in PCs \ {"content"}
    BY <1>9 DEF OpenSocket, PCs
  <2> QED
    BY <1>1, <1>6, <1>9, <2>1, <2>2 DEF OpenSocket
<1>10. CASE NoAddress
  BY <1>1, <1>6, <1>10 DEF NoAddress, PCs
<1>11. CASE Connected
  BY <1>1, <1>4, <1>11 DEF Connected, PCs
<1>12. CASE Refused
  <2>1. sockets' \in Nat
    BY <1>12 DEF Refused, SocketsInv
  <2> QED
    BY <1>1, <1>6, <1>12, <2>1 DEF Refused, PCs
<1>13. CASE Write
  <2>1. sent' \in Nat /\ received <= sent' /\ sent' <= 1 + size
    BY <1>1, <1>13 DEF Write, RequestInv
  <2> QED
    BY <1>1, <1>6, <1>13, <2>1 DEF Write, PCs
<1>14. CASE WriteFails
  BY <1>1, <1>6, <1>14 DEF WriteFails, PCs
<1>15. CASE Killed
  BY <1>1, <1>6, <1>15 DEF Killed, PCs
<1>16. CASE GetsByte
  <2>1. got' = got + 1 /\ got + 1 <= given
    BY <1>1, <1>16 DEF GetsByte, Receives
  <2>2. Wire[got'] \in Piece
    BY <1>1, <1>2, <2>1
  <2>3. buf' \in Seq(Piece)
    BY <1>1, <1>16, <2>2, AppendProperties DEF GetsByte
  <2> QED
    BY <1>1, <1>7, <1>16, <2>1, <2>3 DEF GetsByte
<1>17. CASE GetsNothing
  <2>1. UNCHANGED <<got, buf, res>> /\ pc' = "close" /\ ok' = FALSE
    BY <1>17 DEF GetsNothing, ReceivesNone, Result
  <2>2. got' \in got..given
    BY <1>1, <2>1
  <2>3. pc' \in PCs /\ pc' # "content"
    BY <2>1 DEF PCs
  <2> QED
    BY <1>1, <1>7, <1>17, <2>1, <2>2, <2>3 DEF GetsNothing
<1>18. CASE read_response_line
  <2>1. PICK s \in Line :
          /\ Gets(s)
          /\ res' = [res EXCEPT !.status = IF IsStatusLine(s) THEN Status[s[1]] ELSE @]
    BY <1>18 DEF read_response_line
  <2>2. buf' = <<>> /\ got' \in got..given
    BY <2>1, GetsResult
  <2>3. (IF IsStatusLine(s) THEN Status[s[1]] ELSE res.status) \in Statuses
    BY <1>2 DEF IsStatusLine, Statuses
  <2>4. res' \in ResType
    BY <1>1, <2>1, <2>3 DEF ResType
  <2> QED
    BY <1>1, <1>2, <1>7, <1>18, <2>2, <2>4 DEF read_response_line, PCs
<1>19. CASE read_headers
  <2>1. PICK s \in Line :
          /\ Gets(s)
          /\ res' = [res EXCEPT !.headers =
                       IF Len(s) = 2 /\ s[2] = "CRLF" THEN Append(@, s[1]) ELSE @]
    BY <1>19 DEF read_headers
  <2>2. buf' = <<>> /\ got' \in got..given /\ s \in Seq(Piece)
    BY <2>1, GetsResult
  <2>3. (IF Len(s) = 2 /\ s[2] = "CRLF" THEN Append(res.headers, s[1]) ELSE res.headers)
           \in Seq(Piece)
    <3>1. ASSUME Len(s) = 2 PROVE Append(res.headers, s[1]) \in Seq(Piece)
      <4>1. s \in Seq(Piece) /\ 1 \in 1..Len(s)
        BY <2>2, <3>1
      <4>2. s[1] \in Piece
        BY <4>1, ElementOfSeq, Zenon
      <4> QED
        BY <1>2, <4>2, AppendProperties
    <3> QED
      BY <1>2, <3>1
  <2>4. res' \in ResType
    BY <1>1, <2>1, <2>3 DEF ResType
  <2> QED
    BY <1>1, <1>2, <1>7, <1>19, <2>2, <2>4 DEF read_headers
<1>20. CASE EmptyLine
  <2>1. buf' = <<>> /\ got' \in got..given
    BY <1>20, GetsResult DEF EmptyLine
  <2>2. pc' \in PCs
    BY <1>20 DEF EmptyLine, PCs
  <2>3. ASSUME pc' = "content" PROVE Len(res.body) < ContentLength(res.headers)
    <3>1. res.body = <<>> /\ ContentLength(res.headers) # 0
      BY <1>20, <2>3 DEF EmptyLine, StatusInv
    <3>2. ContentLength(res.headers) \in Nat
      BY <1>2, ContentLengthType
    <3> QED
      BY <1>2, <3>1, <3>2
  <2> QED
    BY <1>1, <1>2, <1>7, <1>20, <2>1, <2>2, <2>3 DEF EmptyLine
<1>21. CASE Content
  <2>1. PICK n \in 1..(ContentLength(res.headers) - Len(res.body)) :
          /\ Receives(n)
          /\ res' = [res EXCEPT !.body = @ \o SubSeq(Wire, got + 1, got + n)]
    BY <1>21 DEF Content
  <2>2. /\ ContentLength(res.headers) \in Nat /\ Len(res.body) \in Nat
        /\ n \in Nat /\ n >= 1 /\ n <= ContentLength(res.headers) - Len(res.body)
    BY <1>2, ContentLengthType, LenProperties
  <2>3. got' \in got..given /\ got + n <= given
    <3>1. n \in 1..(given - got) /\ got' = got + n
      BY <2>1 DEF Receives
    <3> QED
      BY <1>1, <3>1
  <2>4. /\ SubSeq(Wire, got + 1, got + n) \in Seq(Piece)
        /\ Len(SubSeq(Wire, got + 1, got + n)) = n
    <3>1. \A i \in (got + 1)..(got + n) : Wire[i] \in Piece
      BY <1>1, <1>2, <2>2, <2>3
    <3>2. got + 1 \in Int /\ got + n \in Int
      BY <1>1, <2>2
    <3>3. /\ SubSeq(Wire, got + 1, got + n) \in Seq(Piece)
          /\ Len(SubSeq(Wire, got + 1, got + n)) =
               IF got + 1 <= got + n THEN (got + n) - (got + 1) + 1 ELSE 0
      BY <3>1, <3>2, SubSeqProperties
    <3> QED
      BY <1>1, <2>2, <3>3
  <2>5. /\ res.body \o SubSeq(Wire, got + 1, got + n) \in Seq(Piece)
        /\ Len(res.body \o SubSeq(Wire, got + 1, got + n)) = Len(res.body) + n
    BY <1>2, <2>4, ConcatProperties
  <2>6. /\ res' \in ResType /\ res'.headers = res.headers
        /\ res'.body = res.body \o SubSeq(Wire, got + 1, got + n)
    BY <1>1, <2>1, <2>5 DEF ResType
  <2>7. pc' \in PCs /\ ok' \in BOOLEAN
    BY <1>1, <1>21 DEF Content, Result, PCs
  <2>8. ASSUME pc' = "content" PROVE Len(res'.body) < ContentLength(res'.headers)
    <3>1. Len(res'.body) # ContentLength(res.headers)
      BY <1>21, <2>8 DEF Content, Result
    <3>2. Len(res'.body) = Len(res.body) + n
      BY <2>5, <2>6
    <3>3. ContentLength(res'.headers) = ContentLength(res.headers)
      BY <2>6
    <3>4. Len(res'.body) < ContentLength(res.headers)
      BY <2>2, <3>1, <3>2
    <3> QED
      BY <3>3, <3>4
  <2> QED
    BY <1>1, <1>7, <1>21, <2>3, <2>6, <2>7, <2>8 DEF Content
<1>22. CASE ContentEnds
  <2>1. UNCHANGED <<got, buf, res>> /\ pc' = "close" /\ ok' = FALSE
    BY <1>22 DEF ContentEnds, ReceivesNone, Result
  <2>2. got' \in got..given
    BY <1>1, <2>1
  <2>3. pc' \in PCs /\ pc' # "content"
    BY <2>1 DEF PCs
  <2> QED
    BY <1>1, <1>7, <1>22, <2>1, <2>2, <2>3 DEF ContentEnds
<1>23. CASE UntilEnd
  <2>1. CASE Receives(1) /\ res' = [res EXCEPT !.body = Append(@, Wire[got'])] /\ UNCHANGED <<pc, ok>>
    <3>1. got' = got + 1 /\ got + 1 <= given
      BY <1>1, <2>1 DEF Receives
    <3>2. Append(res.body, Wire[got']) \in Seq(Piece)
      BY <1>1, <1>2, <3>1, AppendProperties
    <3>3. res' \in ResType
      BY <1>1, <2>1, <3>2 DEF ResType
    <3> QED
      BY <1>1, <1>7, <1>23, <2>1, <3>1, <3>3 DEF UntilEnd
  <2>2. CASE ReceivesNone /\ Result(TRUE) /\ UNCHANGED res
    BY <1>1, <1>7, <1>23, <2>2 DEF UntilEnd, ReceivesNone, Result, PCs
  <2> QED
    BY <1>23, <2>1, <2>2 DEF UntilEnd
<1>24. CASE CloseSocket
  <2>1. sockets' \in Nat
    BY <1>24 DEF CloseSocket, SocketsInv
  <2> QED
    BY <1>1, <1>6, <1>24, <2>1 DEF CloseSocket, PCs
<1>25. CASE Device
  <2>1. /\ received' \in Nat /\ received' <= sent
        /\ given' \in Nat /\ got <= given' /\ given' <= Len(Wire)
    BY <1>1, <1>25 DEF Device, DeviceReads, DeviceActs, DeviceAnswers, DeviceCloses
  <2>2. device' \in {"none", "open", "closed", "reset"} /\ acted' \in BOOLEAN
    BY <1>1, <1>25 DEF Device, DeviceReads, DeviceActs, DeviceAnswers, DeviceCloses
  <2> QED
    BY <1>1, <1>4, <1>5, <1>25, <2>1, <2>2 DEF Device
<1> QED
  BY <1>8, <1>9, <1>10, <1>11, <1>12, <1>13, <1>14, <1>15, <1>16, <1>17, <1>18, <1>19,
     <1>20, <1>21, <1>22, <1>23, <1>24, <1>25 DEF Send

LEMMA SocketsStep ==
  ASSUME TypeOK, SocketsInv, Send \/ Device
  PROVE  SocketsInv'
<1> USE DEF SocketsInv, Result
<1>1. CASE Ask \/ OpenSocket \/ NoAddress \/ Connected \/ Refused
  BY <1>1 DEF Ask, OpenSocket, NoAddress, Connected, Refused
<1>2. CASE Write \/ WriteFails \/ Killed
  BY <1>2 DEF Write, WriteFails, Killed
<1>3. CASE GetsByte \/ GetsNothing \/ read_response_line \/ read_headers \/ EmptyLine
  BY <1>3 DEF GetsByte, GetsNothing, read_response_line, read_headers, EmptyLine
<1>4. CASE Content \/ ContentEnds \/ UntilEnd
  BY <1>4 DEF Content, ContentEnds, UntilEnd
<1>5. CASE CloseSocket
  BY <1>5 DEF CloseSocket
<1>6. CASE Device
  BY <1>6 DEF Device
<1> QED
  BY <1>1, <1>2, <1>3, <1>4, <1>5, <1>6 DEF Send

\* What the client writes and what the device has of it.
LEMMA RequestStep ==
  ASSUME TypeOK, RequestInv, Send \/ Device, UNCHANGED chosenVars
  PROVE  RequestInv'
<1> USE DEF chosenVars, readVars, deviceVars
<1>1. /\ size \in Nat /\ received \in Nat /\ sent \in Nat /\ received <= sent /\ sent <= 1 + size
      /\ given \in Nat
  BY WirePositions, LenProperties, HttpAssumption DEF TypeOK
<1>2. CASE Ask \/ OpenSocket \/ NoAddress \/ Refused \/ CloseSocket
  BY <1>2 DEF RequestInv, Ask, OpenSocket, NoAddress, Refused, CloseSocket
<1>3. CASE Connected
  BY <1>1, <1>3 DEF RequestInv, Connected
<1>4. CASE Write
  <2>1. /\ pc = "write" /\ device = "open" /\ sent' = sent + 1 /\ sent < 1 + size
        /\ pc' = IF sent' = 1 + size THEN "status" ELSE "write"
        /\ UNCHANGED <<device, received, acted, given, size, reply>>
    BY <1>4 DEF Write, RequestInv
  <2>2. pc' = "write" => sent' < 1 + size
    BY <1>1, <2>1
  <2>3. pc' \notin {"idle", "resolve", "connect", "killed"}
    BY <2>1
  <2> QED
    BY <2>1, <2>2, <2>3 DEF RequestInv
<1>5. CASE WriteFails \/ Killed
  BY <1>5 DEF RequestInv, WriteFails, Killed
<1>6. CASE GetsByte \/ GetsNothing \/ read_response_line \/ read_headers \/ EmptyLine
  BY <1>6 DEF RequestInv, GetsByte, GetsNothing, read_response_line, read_headers, EmptyLine, Result
<1>7. CASE Content \/ ContentEnds \/ UntilEnd
  BY <1>7 DEF RequestInv, Content, ContentEnds, UntilEnd, Result
<1>8. CASE Device
  <2>0. UNCHANGED <<pc, sent, size, reply>>
    BY <1>8 DEF Device
  <2>1. CASE DeviceReads
    <3>1. ~acted
      BY <1>1, <2>1 DEF DeviceReads, RequestInv
    <3> QED
      BY <2>0, <2>1, <3>1 DEF DeviceReads, RequestInv
  <2>2. CASE DeviceActs
    BY <2>0, <2>2 DEF DeviceActs, RequestInv
  <2>3. CASE DeviceAnswers
    BY <2>0, <2>3 DEF DeviceAnswers, RequestInv
  <2>4. CASE DeviceCloses
    BY <2>0, <2>4 DEF DeviceCloses, RequestInv
  <2> QED
    BY <1>8, <2>1, <2>2, <2>3, <2>4 DEF Device
<1> QED
  BY <1>2, <1>3, <1>4, <1>5, <1>6, <1>7, <1>8 DEF Send

\* A status is the device's own, or none.
LEMMA StatusStep ==
  ASSUME TypeOK, RequestInv, StatusInv, Send \/ Device, UNCHANGED chosenVars
  PROVE  StatusInv'
<1> USE DEF chosenVars, readVars, deviceVars
<1>1. /\ got \in Nat /\ given \in Nat /\ got <= given /\ reply \in Replies
      /\ res \in [status  : {-1} \cup {Status[s] : s \in DOMAIN Status},
                  headers : Seq(Piece),
                  body    : Seq(Piece)]
  BY WirePositions, LenProperties DEF TypeOK
<1>2. /\ Wire[1] = reply.status /\ reply.status \notin LineEnd
      /\ Wire[2] = "CRLF" /\ "CRLF" \in LineEnd
  <2>1. /\ 0 \in 0..Len(reply.headers) /\ 2 * (0 + 1) = 2
    BY <1>1, ReplyType
  <2> QED
    BY <1>1, <2>1, ReplyType, WirePositions DEF LineEnd
<1>3. Meant' = Meant
  BY DEF Meant
<1>4. CASE Ask \/ OpenSocket \/ NoAddress \/ Refused \/ CloseSocket \/ Connected
  BY <1>4 DEF StatusInv, Ask, OpenSocket, NoAddress, Refused, CloseSocket, Connected
<1>5. CASE Write \/ WriteFails \/ Killed
  BY <1>5 DEF StatusInv, Write, WriteFails, Killed
<1>6. CASE GetsByte
  <2>1. /\ got' = got + 1 /\ got + 1 <= given /\ Wire[got + 1] \notin LineEnd
        /\ buf' = Append(buf, Wire[got + 1])
        /\ pc \in {"status", "headers"} /\ pc' = pc /\ UNCHANGED <<res, given, reply>>
    BY <1>1, <1>6 DEF GetsByte, Receives
  <2>2. CASE pc = "status"
    <3>1. got = 0 /\ buf = <<>> /\ res = NoResponse
      BY <1>2, <2>1, <2>2 DEF StatusInv
    <3>2. got' = 1 /\ buf' = <<reply.status>>
      BY <1>2, <2>1, <3>1
    <3> QED
      BY <2>1, <2>2, <3>1, <3>2 DEF StatusInv
  <2>3. CASE pc = "headers"
    BY <1>3, <2>1, <2>3 DEF StatusInv
  <2> QED
    BY <2>1, <2>2, <2>3
<1>7. CASE read_response_line
  <2>1. PICK s \in Line :
          /\ Gets(s)
          /\ res' = [res EXCEPT !.status = IF IsStatusLine(s) THEN Status[s[1]] ELSE @]
    BY <1>7 DEF read_response_line
  <2>2. /\ pc' \in {"headers", "threw"} /\ UNCHANGED <<given, reply>>
        /\ res = NoResponse /\ res'.body = <<>>
        /\ \/ got = 0 /\ buf = <<>>
           \/ got = 1 /\ buf = <<reply.status>>
    <3>1. /\ pc = "status" /\ pc' \in {"headers", "threw"} /\ UNCHANGED <<given, reply>>
      BY <1>7 DEF read_response_line
    <3>2. /\ res = NoResponse
          /\ \/ got = 0 /\ buf = <<>>
             \/ got = 1 /\ buf = <<reply.status>>
      BY <3>1 DEF StatusInv
    <3>3. res'.body = <<>>
      BY <2>1, <3>2 DEF NoResponse
    <3> QED
      BY <3>1, <3>2, <3>3
  <2>3. res'.status = IF IsStatusLine(s) THEN Status[s[1]] ELSE -1
    BY <2>1, <2>2 DEF NoResponse
  <2>4. \/ /\ got' = got + 1 /\ got + 1 <= given /\ Wire[got + 1] \in LineEnd
           /\ s = Append(buf, Wire[got + 1])
        \/ s = buf /\ buf # <<>>
    BY <2>1, GetsResult
  <2>5. got = 1 /\ buf = <<reply.status>>
    BY <1>2, <2>2, <2>4
  <2>6. CASE s = <<reply.status, "CRLF">> /\ given > 0
    <3>1. res'.status = Meant.status
      BY <2>3, <2>6 DEF Meant, IsStatusLine
    <3> QED
      BY <1>3, <2>2, <2>6, <3>1 DEF StatusInv
  <2>7. CASE s = <<reply.status>>
    <3>1. ~IsStatusLine(s)
      BY <2>7 DEF IsStatusLine
    <3>2. res'.status = -1
      BY <2>3, <3>1
    <3> QED
      BY <2>2, <3>2 DEF StatusInv
  <2> QED
    BY <1>1, <1>2, <2>4, <2>5, <2>6, <2>7
<1>8. CASE read_headers
  <2>1. PICK x : res' = [res EXCEPT !.headers = x]
    BY <1>8 DEF read_headers
  <2>2. res'.status = res.status /\ res'.body = res.body
    BY <1>1, <2>1
  <2>3. pc = "headers" /\ pc' = "headers" /\ UNCHANGED given
    BY <1>8 DEF read_headers
  <2> QED
    BY <1>3, <2>2, <2>3 DEF StatusInv
<1>9. CASE EmptyLine
  BY <1>3, <1>9 DEF StatusInv, EmptyLine
<1>10. CASE GetsNothing \/ ContentEnds
  BY <1>10 DEF StatusInv, GetsNothing, ContentEnds, Result
<1>11. CASE Content \/ UntilEnd
  <2>1. PICK x : res' = [res EXCEPT !.body = x]
    <3>1. CASE UNCHANGED res
      BY <1>1, <3>1
    <3> QED
      BY <1>11, <3>1 DEF Content, UntilEnd
  <2>2. res'.status = res.status
    BY <1>1, <2>1
  <2>3. pc \in {"content", "untilEnd"} /\ pc' \in {pc, "close"} /\ UNCHANGED given
    BY <1>11 DEF Content, UntilEnd, Result
  <2> QED
    BY <1>3, <2>2, <2>3 DEF StatusInv
<1>12. CASE Device
  <2>1. UNCHANGED <<pc, got, buf, res, reply>> /\ (given > 0 => given' > 0)
    BY <1>1, <1>12 DEF Device, DeviceReads, DeviceActs, DeviceAnswers, DeviceCloses
  <2> QED
    BY <1>3, <2>1 DEF StatusInv
<1> QED
  BY <1>4, <1>5, <1>6, <1>7, <1>8, <1>9, <1>10, <1>11, <1>12 DEF Send

-----------------------------------------------------------------------------
(* Where only the end of the connection ends a read.                       *)

\* A part of the body is what comes next on the wire.
LEMMA BodyGrows ==
  ASSUME reply \in Replies, NEW l \in Nat, NEW n \in Nat, l + n <= Len(reply.body)
  PROVE  /\ SubSeq(reply.body, 1, l) \o SubSeq(Wire, HeadLength + l + 1, HeadLength + l + n)
              = SubSeq(reply.body, 1, l + n)
         /\ Len(SubSeq(reply.body, 1, l + n)) = l + n
<1> DEFINE b == reply.body
           w == Wire
           a == HeadLength
<1>1. b \in Seq(Piece) /\ w \in Seq(Piece) /\ Len(b) \in Nat
  BY ReplyType, WirePositions
<1>2. a \in Nat /\ a + Len(b) <= Len(w)
  <2>1. a \in Nat
    BY ReplyType, LinesType
  <2>2. Len(w) = a + Len(b)
    BY WirePositions
  <2> HIDE DEF a, b, w
  <2> QED
    BY <1>1, <2>1, <2>2
<1>3. \A i \in 1..Len(b) : w[a + i] = b[i]
  BY WirePositions
<1>4. l + n <= Len(b)
  OBVIOUS
<1> HIDE DEF a, b, w
<1>5. /\ SubSeq(b, 1, l) \o SubSeq(w, a + l + 1, a + l + n) = SubSeq(b, 1, l + n)
      /\ Len(SubSeq(b, 1, l + n)) = l + n
  <2> DEFINE S == Piece
  <2>1. b \in Seq(S) /\ w \in Seq(S)
    BY <1>1
  <2> HIDE DEF S
  <2> QED
    BY <2>1, <1>2, <1>3, <1>4, PrefixGrows, ZenonT(60)
<1> QED
  BY <1>5 DEF a, b, w

\* What a read gets, and when nothing more can be received.
LEMMA NoMoreFacts ==
  ASSUME TypeOK, posix
  PROVE  /\ ReceivesNone => NoMore /\ UNCHANGED got
         /\ \A n \in Nat \ {0} : NoMore => ~Receives(n)
         /\ NoMore /\ UNCHANGED <<got, deviceVars>> => NoMore'
         /\ NoMore /\ Device => NoMore'
<1>1. got \in Nat /\ given \in Nat /\ got <= given
  BY WirePositions, LenProperties DEF TypeOK
<1>2. ReceivesNone => NoMore /\ UNCHANGED got
  BY DEF ReceivesNone, NoMore
<1>3. ASSUME NEW n \in Nat \ {0}, NoMore PROVE ~Receives(n)
  BY <1>1, <1>3 DEF NoMore, Receives
<1>4. ASSUME NoMore, UNCHANGED <<got, deviceVars>> PROVE NoMore'
  BY <1>4 DEF NoMore, deviceVars
<1>5. ASSUME NoMore, Device PROVE NoMore'
  BY <1>5 DEF NoMore, Device, DeviceReads, DeviceActs, DeviceAnswers, DeviceCloses, readVars
<1> QED
  BY <1>2, <1>3, <1>4, <1>5

LEMMA ExactStep ==
  ASSUME TypeOK, StatusInv, posix, ExactInv, Send \/ Device, UNCHANGED chosenVars
  PROVE  ExactInv'
<1> USE DEF chosenVars, readVars
<1> DEFINE h == reply.headers
           b == reply.body
           ResType == [status  : {-1} \cup {Status[s] : s \in DOMAIN Status},
                       headers : Seq(Piece),
                       body    : Seq(Piece)]
<1>1. /\ got \in Nat /\ given \in Nat /\ got <= given /\ given <= Len(Wire) /\ reply \in Replies
      /\ res \in ResType /\ buf \in Seq(Piece) /\ ok \in BOOLEAN
  BY WirePositions, LenProperties DEF TypeOK
<1>2. /\ Len(h) \in Nat /\ Len(b) \in Nat /\ h \in Seq(Piece) /\ b \in Seq(Piece)
      /\ \A i \in 1..Len(h) : h[i] \notin LineEnd /\ h[i] # "CRLF"
      /\ reply.status \notin LineEnd /\ "CRLF" \in LineEnd
  BY <1>1, ReplyType DEF LineEnd
<1>3. /\ HeadLength = 2 * Len(h) + 3 /\ Len(Wire) = HeadLength + Len(b)
      /\ Wire[1] = reply.status /\ Wire[HeadLength] = "CRLF"
      /\ \A k \in 0..Len(h) : Wire[2 * (k + 1)] = "CRLF"
      /\ \A k \in 1..Len(h) : Wire[2 * k + 1] = h[k]
      /\ \A j \in 1..Len(b) : Wire[HeadLength + j] = b[j]
  BY <1>1, LinesType, WirePositions
<1>4. Meant' = Meant /\ HeadLength' = HeadLength /\ reply' = reply
  BY DEF Meant, HeadLength, Lines
<1> HIDE DEF h, b, ResType
<1>5. /\ res.headers \in Seq(Piece) /\ res.body \in Seq(Piece) /\ Len(res.body) \in Nat
  BY <1>1, LenProperties DEF ResType
<1>6. ASSUME pc' \notin {"headers", "content", "untilEnd"}, pc' = "close" => ok' = FALSE
      PROVE  ExactInv'
  BY <1>6 DEF ExactInv, ReadsBody
<1>7. ASSUME pc' = "headers", NoMore', buf' = <<>> PROVE ExactInv'
  BY <1>7 DEF ExactInv, ReadsBody
<1>8. ASSUME pc' = "headers", NEW k \in 0..Len(h), res'.status = Meant.status,
             res'.headers = SubSeq(h, 1, k),
             \/ got' = 2 * (k + 1) /\ buf' = <<>>
             \/ k < Len(h) /\ got' = 2 * (k + 1) + 1 /\ buf' = <<h[k + 1]>>
      PROVE  ExactInv'
  <2>1. HeadersRead(k)'
    BY <1>4, <1>8 DEF HeadersRead, h
  <2>2. (\E n \in 0..Len(reply.headers) : HeadersRead(n))'
    BY <1>4, <2>1 DEF h
  <2> QED
    BY <1>8, <2>2 DEF ExactInv, ReadsBody
<1>9. CASE Ask \/ OpenSocket \/ NoAddress \/ Refused \/ CloseSocket \/ Connected
  BY <1>6, <1>9 DEF Ask, OpenSocket, NoAddress, Refused, CloseSocket, Connected
<1>10. CASE Write \/ WriteFails \/ Killed
  BY <1>6, <1>10 DEF Write, WriteFails, Killed
<1>11. CASE GetsNothing \/ ContentEnds
  BY <1>6, <1>11 DEF GetsNothing, ContentEnds, Result
<1>12. CASE GetsByte
  <2>1. /\ got' = got + 1 /\ got + 1 <= given /\ Wire[got + 1] \notin LineEnd
        /\ buf' = Append(buf, Wire[got + 1]) /\ Receives(1)
        /\ pc \in {"status", "headers"} /\ pc' = pc /\ UNCHANGED res
    BY <1>1, <1>12 DEF GetsByte, Receives
  <2>2. CASE pc = "status"
    BY <1>6, <2>1, <2>2
  <2>3. CASE pc = "headers"
    <3>1. ~NoMore
      BY <2>1, NoMoreFacts
    <3>2. PICK k \in 0..Len(h) : HeadersRead(k)
      BY <2>3, <3>1 DEF ExactInv, h
    <3>3. got # 2 * (k + 1) + 1
      <4>1. ASSUME got = 2 * (k + 1) + 1, k < Len(h) PROVE FALSE
        <5>1. k + 1 \in 0..Len(h) /\ got + 1 = 2 * ((k + 1) + 1)
          BY <1>2, <4>1
        <5> QED
          BY <1>2, <1>3, <2>1, <5>1
      <4> QED
        BY <3>2, <4>1 DEF HeadersRead, h
    <3>4. got = 2 * (k + 1) /\ buf = <<>> /\ res.status = Meant.status /\ res.headers = SubSeq(h, 1, k)
      BY <3>2, <3>3 DEF HeadersRead, h
    <3>5. k < Len(h)
      <4>1. ASSUME k = Len(h) PROVE FALSE
        <5>1. got + 1 = HeadLength
          BY <1>2, <1>3, <3>4, <4>1
        <5> QED
          BY <1>2, <1>3, <2>1, <5>1
      <4> QED
        BY <1>2, <4>1
    <3>6. k + 1 \in 1..Len(h) /\ got + 1 = 2 * (k + 1) + 1
      BY <1>2, <3>4, <3>5
    <3>7. Wire[got + 1] = h[k + 1]
      BY <1>3, <3>6
    <3>8. buf' = <<h[k + 1]>>
      BY <2>1, <3>4, <3>7
    <3> QED
      BY <1>8, <2>1, <2>3, <3>4, <3>5, <3>6, <3>8
  <2> QED
    BY <2>1, <2>2, <2>3
<1>13. CASE read_response_line
  <2>1. PICK s \in Line :
          /\ Gets(s)
          /\ res' = [res EXCEPT !.status = IF IsStatusLine(s) THEN Status[s[1]] ELSE @]
    BY <1>13 DEF read_response_line
  <2>2. pc = "status" /\ pc' \in {"headers", "threw"} /\ UNCHANGED deviceVars
    BY <1>13 DEF read_response_line
  <2>3. /\ res = NoResponse
        /\ \/ got = 0 /\ buf = <<>>
           \/ got = 1 /\ buf = <<reply.status>>
    BY <2>2 DEF StatusInv
  <2>4. /\ buf' = <<>>
        /\ \/ /\ got' = got + 1 /\ Wire[got + 1] \in LineEnd /\ s = Append(buf, Wire[got + 1])
           \/ got' = got /\ ReceivesNone
    BY <2>1, GetsResult
  <2>5. CASE got' = got /\ ReceivesNone
    <3>1. NoMore'
      BY <2>2, <2>5, NoMoreFacts
    <3>2. CASE pc' = "headers"
      BY <1>7, <2>4, <3>1, <3>2
    <3>3. CASE pc' = "threw"
      BY <1>6, <3>3
    <3> QED
      BY <2>2, <3>2, <3>3
  <2>6. CASE got' = got + 1 /\ Wire[got + 1] \in LineEnd /\ s = Append(buf, Wire[got + 1])
    <3>1. got = 1 /\ buf = <<reply.status>>
      BY <1>2, <1>3, <2>3, <2>6
    <3>2. 0 \in 0..Len(h) /\ got + 1 = 2 * (0 + 1)
      BY <1>2, <3>1
    <3>3. s = <<reply.status, "CRLF">>
      <4>1. Wire[got + 1] = "CRLF"
        BY <1>3, <3>2
      <4>2. s = Append(<<reply.status>>, "CRLF")
        BY <2>6, <3>1, <4>1
      <4> QED
        BY <4>2, AppendToOne
    <3>4. res'.status = Meant.status
      BY <2>1, <2>3, <3>3 DEF Meant, IsStatusLine, NoResponse
    <3>5. res'.headers = SubSeq(h, 1, 0)
      <4>1. res'.headers = <<>>
        BY <2>1, <2>3 DEF NoResponse
      <4>2. SubSeq(h, 1, 0) = <<>>
        BY SubSeqEmpty
      <4> QED
        BY <4>1, <4>2
    <3>6. CASE pc' = "headers"
      BY <1>8, <2>4, <2>6, <3>2, <3>4, <3>5, <3>6
    <3>7. CASE pc' = "threw"
      BY <1>6, <3>7
    <3> QED
      BY <2>2, <3>6, <3>7
  <2> QED
    BY <2>4, <2>5, <2>6
<1>14. CASE read_headers
  <2>1. PICK s \in Line :
          /\ Gets(s)
          /\ s # <<"CRLF">>
          /\ res' = [res EXCEPT !.headers =
                       IF Len(s) = 2 /\ s[2] = "CRLF" THEN Append(@, s[1]) ELSE @]
    BY <1>14 DEF read_headers
  <2>2. pc = "headers" /\ pc' = "headers" /\ UNCHANGED deviceVars
    BY <1>14 DEF read_headers
  <2>3. /\ buf' = <<>>
        /\ \/ /\ got' = got + 1 /\ got + 1 <= given /\ Wire[got + 1] \in LineEnd
              /\ s = Append(buf, Wire[got + 1]) /\ device # "reset"
           \/ got' = got /\ ReceivesNone
    BY <2>1, GetsResult
  <2>4. CASE got' = got /\ ReceivesNone
    <3>1. NoMore'
      BY <2>2, <2>4, NoMoreFacts
    <3> QED
      BY <1>7, <2>2, <2>3, <3>1
  <2>5. CASE /\ got' = got + 1 /\ got + 1 <= given /\ Wire[got + 1] \in LineEnd
             /\ s = Append(buf, Wire[got + 1]) /\ device # "reset"
    <3>1. ~NoMore
      BY <1>1, <2>5 DEF NoMore
    <3>2. PICK k \in 0..Len(h) : HeadersRead(k)
      BY <2>2, <3>1 DEF ExactInv, h
    <3>3. ~(got = 2 * (k + 1) /\ buf = <<>>)
      <4>1. ASSUME got = 2 * (k + 1), buf = <<>> PROVE FALSE
        <5>1. CASE k < Len(h)
          <6>1. k + 1 \in 1..Len(h) /\ got + 1 = 2 * (k + 1) + 1
            BY <1>2, <4>1, <5>1
          <6> QED
            BY <1>2, <1>3, <2>5, <6>1
        <5>2. CASE k = Len(h)
          <6>1. got + 1 = HeadLength
            BY <1>2, <1>3, <4>1, <5>2
          <6>2. s = <<"CRLF">>
            BY <1>3, <2>5, <4>1, <6>1
          <6> QED
            BY <2>1, <6>2
        <5> QED
          BY <1>2, <5>1, <5>2
      <4> QED
        BY <4>1
    <3>4. /\ k < Len(h) /\ got = 2 * (k + 1) + 1 /\ buf = <<h[k + 1]>>
          /\ res.status = Meant.status /\ res.headers = SubSeq(h, 1, k)
      BY <3>2, <3>3 DEF HeadersRead, h
    <3>5. /\ k \in Nat /\ k + 1 \in 0..Len(h) /\ k + 1 <= Len(h) /\ got + 1 = 2 * ((k + 1) + 1)
      BY <1>2, <3>4
    <3>6. s = <<h[k + 1], "CRLF">>
      <4>1. Wire[got + 1] = "CRLF"
        BY <1>3, <3>5
      <4>2. s = Append(<<h[k + 1]>>, "CRLF")
        BY <2>5, <3>4, <4>1
      <4> QED
        BY <4>2, AppendToOne
    <3>7. res'.headers = Append(res.headers, h[k + 1]) /\ res'.status = res.status
      BY <1>1, <2>1, <3>6 DEF ResType
    <3>8. res'.headers = SubSeq(h, 1, k + 1)
      BY <1>2, <3>4, <3>5, <3>7, PrefixAppend
    <3> QED
      BY <1>8, <2>2, <2>3, <2>5, <3>4, <3>5, <3>7, <3>8
  <2> QED
    BY <2>3, <2>4, <2>5
<1>15. CASE EmptyLine
  <2>1. Gets(<<"CRLF">>) /\ pc = "headers" /\ pc' \in {"threw", "untilEnd", "content"} /\ UNCHANGED res
    BY <1>15 DEF EmptyLine
  <2>2. \/ /\ got' = got + 1 /\ got + 1 <= given /\ device # "reset"
           /\ Wire[got + 1] \in LineEnd /\ <<"CRLF">> = Append(buf, Wire[got + 1])
        \/ ReceivesNone /\ <<"CRLF">> = buf /\ buf # <<>>
    BY <2>1, GetsResult
  <2>3. PICK k \in 0..Len(h) : HeadersRead(k)
    <3>1. CASE ReceivesNone /\ <<"CRLF">> = buf /\ buf # <<>>
      BY <2>1, <3>1 DEF ExactInv, h
    <3>2. CASE got + 1 <= given /\ device # "reset"
      <4>1. ~NoMore
        BY <1>1, <3>2 DEF NoMore
      <4> QED
        BY <2>1, <4>1 DEF ExactInv, h
    <3> QED
      BY <2>2, <3>1, <3>2
  <2>4. ~(k < Len(h) /\ buf = <<h[k + 1]>>)
    <3>1. ASSUME k < Len(h), buf = <<h[k + 1]>> PROVE FALSE
      <4>1. h[k + 1] # "CRLF" /\ <<h[k + 1]>> # <<>>
        BY <1>2, <3>1
      <4>2. <<"CRLF">> # <<h[k + 1]>>
        BY <4>1
      <4>3. <<"CRLF">> # Append(<<h[k + 1]>>, Wire[got + 1])
        <5>1. Append(<<h[k + 1]>>, Wire[got + 1]) = <<h[k + 1], Wire[got + 1]>>
          BY AppendToOne
        <5>2. <<"CRLF">> # <<h[k + 1], Wire[got + 1]>>
          OBVIOUS
        <5> QED
          BY <5>1, <5>2
      <4> QED
        BY <2>2, <3>1, <4>2, <4>3
    <3> QED
      BY <3>1
  <2>5. got = 2 * (k + 1) /\ buf = <<>> /\ res.status = Meant.status /\ res.headers = SubSeq(h, 1, k)
    BY <2>3, <2>4 DEF HeadersRead, h
  <2>6. got' = got + 1 /\ Wire[got + 1] \in LineEnd
    BY <2>2, <2>5
  <2>7. k = Len(h)
    <3>1. ASSUME k < Len(h) PROVE FALSE
      <4>1. k + 1 \in 1..Len(h) /\ got + 1 = 2 * (k + 1) + 1
        BY <1>2, <2>5, <3>1
      <4> QED
        BY <1>2, <1>3, <2>6, <4>1
    <3> QED
      BY <1>2, <3>1
  <2>8. res.headers = h
    BY <1>2, <2>5, <2>7, SubSeqFull
  <2>9. res.body = <<>> /\ Len(<<>>) = 0 /\ <<>> = SubSeq(b, 1, 0)
    BY <2>1, SubSeqEmpty DEF StatusInv
  <2>10. got' = HeadLength + Len(res.body)
    BY <1>2, <1>3, <2>5, <2>6, <2>7, <2>9
  <2> QED
    BY <1>4, <1>6, <2>1, <2>5, <2>8, <2>9, <2>10 DEF ExactInv, ReadsBody, b, h
<1>16. ASSUME ReadsBody
       PROVE  /\ res.status = Meant.status /\ res.headers = h
              /\ got = HeadLength + Len(res.body) /\ res.body = SubSeq(b, 1, Len(res.body))
  BY <1>16 DEF ExactInv, h, b
<1>17. ASSUME pc' # "headers", res'.status = Meant.status, res'.headers = h,
              got' = HeadLength + Len(res'.body), res'.body = SubSeq(b, 1, Len(res'.body))
       PROVE  ExactInv'
  BY <1>4, <1>17 DEF ExactInv, ReadsBody, b, h
<1>18. CASE Content
  <2>1. PICK n \in 1..(ContentLength(res.headers) - Len(res.body)) :
          /\ Receives(n)
          /\ res' = [res EXCEPT !.body = @ \o SubSeq(Wire, got + 1, got + n)]
    BY <1>18 DEF Content
  <2>2. pc = "content" /\ pc' \in {"content", "close"}
    BY <1>18 DEF Content, Result
  <2>3. n \in Nat /\ n >= 1
    BY <1>5, ContentLengthType
  <2>4. got' = got + n /\ got + n <= given
    BY <1>1, <2>1, <2>3 DEF Receives
  <2>5. /\ res'.status = res.status /\ res'.headers = res.headers
        /\ res'.body = res.body \o SubSeq(Wire, got + 1, got + n)
    BY <1>1, <2>1 DEF ResType
  <2>6. /\ res'.body = SubSeq(b, 1, Len(res.body) + n)
        /\ Len(res'.body) = Len(res.body) + n
    <3> DEFINE l == Len(res.body)
    <3>1. l \in Nat /\ got = HeadLength + l /\ res.body = SubSeq(b, 1, l) /\ HeadLength \in Nat
      BY <1>2, <1>3, <1>5, <1>16, <2>2 DEF ReadsBody
    <3> HIDE DEF l
    <3>2. l + n <= Len(b) /\ HeadLength + Len(b) <= Len(Wire)
      <4>1. HeadLength + l + n <= HeadLength + Len(b)
        BY <1>1, <1>2, <1>3, <2>3, <2>4, <3>1
      <4> QED
        BY <1>2, <1>3, <2>3, <3>1, <4>1
    <3>4. /\ SubSeq(b, 1, l) \o SubSeq(Wire, HeadLength + l + 1, HeadLength + l + n) = SubSeq(b, 1, l + n)
          /\ Len(SubSeq(b, 1, l + n)) = l + n
      BY <1>1, <2>3, <3>1, <3>2, BodyGrows DEF b
    <3>5. res'.body = SubSeq(b, 1, l) \o SubSeq(Wire, HeadLength + l + 1, HeadLength + l + n)
      BY <2>5, <3>1
    <3> QED
      BY <3>4, <3>5 DEF l
  <2>7. got' = HeadLength + Len(res'.body)
    <3>1. HeadLength \in Nat /\ got = HeadLength + Len(res.body)
      BY <1>2, <1>3, <1>16, <2>2 DEF ReadsBody
    <3> QED
      BY <1>5, <2>3, <2>4, <2>6, <3>1
  <2> QED
    BY <1>16, <1>17, <2>2, <2>5, <2>6, <2>7 DEF ReadsBody
<1>19. CASE UntilEnd
  <2>1. pc = "untilEnd" /\ pc' \in {"untilEnd", "close"}
    BY <1>19 DEF UntilEnd, Result
  <2>2. CASE pc' = "untilEnd"
    <3>1. Receives(1) /\ res' = [res EXCEPT !.body = Append(@, Wire[got'])]
      BY <1>19, <2>2 DEF UntilEnd, Result
    <3>2. got' = got + 1 /\ got + 1 <= given
      BY <1>1, <3>1 DEF Receives
    <3>3. /\ res'.status = res.status /\ res'.headers = res.headers
          /\ res'.body = Append(res.body, Wire[got + 1])
      BY <1>1, <3>1, <3>2 DEF ResType
    <3>4. Len(res.body) + 1 \in 1..Len(b) /\ got + 1 = HeadLength + (Len(res.body) + 1)
          /\ HeadLength \in Nat
      <4>1. HeadLength \in Nat /\ got = HeadLength + Len(res.body)
        BY <1>2, <1>3, <1>16, <2>1 DEF ReadsBody
      <4>2. got + 1 <= HeadLength + Len(b)
        BY <1>1, <1>3, <1>2, <3>2
      <4> QED
        BY <1>2, <1>5, <4>1, <4>2
    <3>5. Wire[got + 1] = b[Len(res.body) + 1]
      <4>1. Wire[HeadLength + (Len(res.body) + 1)] = b[Len(res.body) + 1]
        BY <1>3, <3>4
      <4> QED
        BY <3>4, <4>1
    <3>6. res'.body = SubSeq(b, 1, Len(res.body) + 1) /\ Len(res'.body) = Len(res.body) + 1
      <4>1. Len(res.body) + 1 <= Len(b) /\ Len(res.body) + 1 \in Nat
        BY <1>2, <1>5, <3>4
      <4>2. Append(SubSeq(b, 1, Len(res.body)), b[Len(res.body) + 1]) = SubSeq(b, 1, Len(res.body) + 1)
        BY <1>2, <1>5, <4>1, PrefixAppend
      <4>3. res'.body = SubSeq(b, 1, Len(res.body) + 1)
        BY <1>16, <2>1, <3>3, <3>5, <4>2 DEF ReadsBody
      <4>4. Wire[got + 1] \in Piece
        BY <1>2, <3>4, <3>5, ElementOfSeq
      <4> QED
        BY <1>5, <3>3, <4>3, <4>4, AppendProperties
    <3>7. got' = HeadLength + Len(res'.body)
      BY <1>5, <3>2, <3>4, <3>6
    <3> QED
      BY <1>16, <1>17, <2>1, <2>2, <3>3, <3>6, <3>7 DEF ReadsBody
  <2>3. CASE pc' = "close"
    BY <1>16, <1>17, <1>19, <2>1, <2>3 DEF UntilEnd, ReceivesNone, ReadsBody
  <2> QED
    BY <2>1, <2>2, <2>3
<1>20. CASE Device
  <2>1. UNCHANGED <<pc, got, buf, res, ok>>
    BY <1>20 DEF Device
  <2>2. NoMore => NoMore'
    BY <1>20, NoMoreFacts
  <2>3. ASSUME NEW k \in 0..Len(h), HeadersRead(k), pc = "headers" PROVE ExactInv'
    BY <1>8, <2>1, <2>3 DEF HeadersRead, h
  <2>4. CASE pc = "headers"
    <3>1. CASE NoMore /\ buf = <<>>
      BY <1>7, <2>1, <2>2, <2>4, <3>1
    <3>2. CASE \E k \in 0..Len(h) : HeadersRead(k)
      BY <2>3, <2>4, <3>2
    <3> QED
      BY <2>4, <3>1, <3>2 DEF ExactInv, h
  <2>5. CASE pc # "headers" /\ ReadsBody
    BY <1>16, <1>17, <2>1, <2>5
  <2>6. CASE pc # "headers" /\ ~ReadsBody
    BY <1>6, <2>1, <2>6, <1>1 DEF ReadsBody
  <2> QED
    BY <2>4, <2>5, <2>6
<1> QED
  BY <1>9, <1>10, <1>11, <1>12, <1>13, <1>14, <1>15, <1>18, <1>19, <1>20 DEF Send

\* What a read may rely on.
TypeFacts == /\ got <= given /\ given <= Len(Wire) /\ got \in Nat /\ given \in Nat
             /\ res.body \in Seq(Piece)

LEMMA TypeRead == TypeOK => TypeFacts
  BY WirePositions, LenProperties DEF TypeOK, TypeFacts

\* What is returned is a reply of the device.
LEMMA ReplyStep ==
  ASSUME HttpInv, Send \/ Device, UNCHANGED chosenVars, TypeOK', posix => ExactInv'
  PROVE  ReplyInv'
<1> USE DEF chosenVars
<1> DEFINE a == [status |-> res.status, body |-> res.body]
<1>1. /\ TypeOK /\ RequestInv /\ StatusInv /\ (posix => ExactInv) /\ reply \in Replies /\ reply' = reply
      /\ pc = "untilEnd" => ContentLength(res.headers) = 0
      /\ pc = "close" /\ ok => Promise!IsReply(a)
      /\ res \in [status  : {-1} \cup {Status[s] : s \in DOMAIN Status},
                  headers : Seq(Piece),
                  body    : Seq(Piece)]
      /\ ok \in BOOLEAN /\ acted \in BOOLEAN /\ posix \in BOOLEAN
  BY DEF HttpInv, TypeOK, ReplyInv
<1>2. Meant' = Meant /\ Meant.status \in Int /\ Meant.length = ContentLength(reply.headers)
      /\ Meant.body = reply.body
  BY DEF Meant, Status
<1>3. ASSUME pc' \notin {"untilEnd", "close"} PROVE ReplyInv'
  BY <1>3 DEF ReplyInv
<1>4. ASSUME pc' = "close", ok' = FALSE PROVE ReplyInv'
  BY <1>4 DEF ReplyInv
<1>5. CASE Ask \/ OpenSocket \/ NoAddress \/ Refused \/ CloseSocket \/ Connected
  BY <1>3, <1>5 DEF Ask, OpenSocket, NoAddress, Refused, CloseSocket, Connected
<1>6. CASE Write \/ WriteFails \/ Killed
  BY <1>3, <1>6 DEF Write, WriteFails, Killed
<1>7. CASE GetsByte \/ read_response_line \/ read_headers
  BY <1>3, <1>7 DEF GetsByte, read_response_line, read_headers
<1>8. CASE GetsNothing \/ ContentEnds
  BY <1>4, <1>8 DEF GetsNothing, ContentEnds, Result
<1>9. CASE EmptyLine
  <2>1. pc' \in {"threw", "untilEnd", "content"} /\ UNCHANGED res
        /\ (pc' = "untilEnd" => ContentLength(res.headers) = 0)
    BY <1>9 DEF EmptyLine
  <2> QED
    BY <2>1 DEF ReplyInv
<1>10. CASE Content \/ UntilEnd
  <2>1. /\ pc \in {"content", "untilEnd"} /\ UNCHANGED <<given, acted>>
        /\ pc' \in {pc, "close"} /\ (pc' = "close" => ok' \in BOOLEAN)
    BY <1>10 DEF Content, UntilEnd, Result, deviceVars
  <2>2. PICK x : res' = [res EXCEPT !.body = x]
    <3>1. CASE UNCHANGED res
      BY <1>1, <3>1
    <3> QED
      BY <1>10, <3>1 DEF Content, UntilEnd
  <2>3. res'.status = res.status /\ res'.headers = res.headers
    BY <1>1, <2>2
  <2>4. CASE pc' = pc
    BY <1>1, <2>1, <2>3, <2>4 DEF ReplyInv
  <2>5. CASE pc' = "close" /\ ok'
    <3>1. res.status = -1 \/ (given > 0 /\ res.status = Meant.status)
      BY <1>1, <2>1 DEF StatusInv
    <3>2. res'.status \in Success => acted'
      <4>1. ASSUME res.status \in Success PROVE acted
        <5>1. given > 0 /\ Meant.status \in Success
          BY <3>1, <4>1 DEF Success
        <5>2. reply.status \in {"s200", "s302"}
          BY <5>1 DEF Meant, Success, Status
        <5> QED
          BY <1>1, <5>1, <5>2 DEF RequestInv
      <4> QED
        BY <2>1, <2>3, <4>1
    <3>3. CASE ~posix
      <4>1. ~posix' /\ res'.status \in {Meant'.status, -1}
        BY <1>2, <2>3, <3>1, <3>3
      <4>2. Promise!IsReply([status |-> res.status, body |-> res.body])'
        BY <3>2, <4>1 DEF Promise!IsReply
      <4> QED
        BY <2>5, <4>2 DEF ReplyInv
    <3>4. CASE posix
      <4>1. ExactInv'
        BY <3>4
      <4>2. /\ res'.status = Meant'.status /\ res'.headers = reply.headers
            /\ got' = HeadLength' + Len(res'.body)
            /\ res'.body = SubSeq(reply.body, 1, Len(res'.body))
        BY <1>1, <2>5, <4>1 DEF ExactInv, ReadsBody
      <4>3. Len(res'.body) \in Nat /\ Len(res'.body) <= Len(reply.body) /\ Len(reply.body) \in Nat
        <5>1. /\ got' <= given' /\ given' <= Len(Wire)' /\ got' \in Nat /\ given' \in Nat
              /\ res'.body \in Seq(Piece)
          <6>1. TypeFacts'
            BY TypeRead, PTL
          <6> QED
            BY <6>1 DEF TypeFacts
        <5>2. HeadLength' = HeadLength /\ HeadLength \in Nat /\ Len(Wire)' = HeadLength + Len(reply.body)
              /\ Len(reply.body) \in Nat
          <6>1. HeadLength' = HeadLength /\ Wire' = Wire
            BY <1>1 DEF HeadLength, Wire, Lines
          <6>2. HeadLength \in Nat /\ Len(reply.body) \in Nat
            BY <1>1, ReplyType, LinesType
          <6> QED
            BY <1>1, <6>1, <6>2, WirePositions
        <5>3. Len(res'.body) \in Nat
          BY <5>1, LenProperties
        <5>4. HeadLength + Len(res'.body) <= HeadLength + Len(reply.body)
          BY <4>2, <5>1, <5>2, <5>3
        <5> QED
          BY <5>2, <5>3, <5>4
      <4>4. CASE Content
        <5>1. Len(res'.body) = ContentLength(res.headers) /\ pc = "content"
          BY <2>5, <4>4 DEF Content, Result
        <5>2. ContentLength(res.headers) = Meant.length /\ Meant.length = Len(res'.body)
          BY <1>2, <2>3, <4>2, <5>1
        <5>3. res'.body = SubSeq(reply.body, 1, Meant.length) /\ Meant.length <= Len(reply.body)
          BY <4>2, <4>3, <5>2, Zenon
        <5>4. Meant.length # 0
          <6>1. Len(res.body) < ContentLength(res.headers) /\ Len(res.body) \in Nat
                /\ ContentLength(res.headers) \in Nat
            BY <1>1, <5>1, ContentLengthType, LenProperties DEF TypeOK
          <6> QED
            BY <5>2, <6>1
        <5>5. Promise!IsBody(res.body)'
          BY <1>2, <5>3, <5>4 DEF Promise!IsBody
        <5>6. Promise!IsReply([status |-> res.status, body |-> res.body])'
          BY <3>2, <4>2, <5>5 DEF Promise!IsReply
        <5> QED
          BY <2>5, <5>6 DEF ReplyInv
      <4>5. CASE UntilEnd
        <5>1. Meant.length = 0
          BY <1>1, <1>2, <2>3, <4>2, <4>5 DEF UntilEnd
        <5>2. Promise!IsPrefix(res'.body, Meant.body)
          <6> DEFINE s == res'.body
                     t == Meant.body
          <6>1. t = reply.body
            BY <1>2
          <6>2. Len(s) <= Len(t) /\ s = SubSeq(t, 1, Len(s))
            BY <4>2, <4>3, <6>1
          <6> HIDE DEF s, t
          <6>3. Promise!IsPrefix(s, t)
            BY <6>2 DEF Promise!IsPrefix
          <6> QED
            BY <6>3 DEF s, t
        <5>3. Promise!IsBody(res.body)'
          BY <1>2, <5>1, <5>2 DEF Promise!IsBody
        <5>4. Promise!IsReply([status |-> res.status, body |-> res.body])'
          BY <3>2, <4>2, <5>3 DEF Promise!IsReply
        <5> QED
          BY <2>5, <5>4 DEF ReplyInv
      <4> QED
        BY <1>10, <4>4, <4>5
    <3> QED
      BY <3>3, <3>4
  <2>6. CASE pc' = "close" /\ ~ok'
    BY <2>6 DEF ReplyInv
  <2> QED
    BY <2>1, <2>4, <2>5, <2>6
<1>11. CASE Device
  <2>1. UNCHANGED <<pc, res, ok>> /\ (acted => acted')
    BY <1>11 DEF Device, DeviceReads, DeviceActs, DeviceAnswers, DeviceCloses, readVars
  <2>2. CASE pc = "close" /\ ok
    <3>1. Promise!IsReply(a)
      BY <1>1, <2>2
    <3>2. Promise!IsReply([status |-> res.status, body |-> res.body])'
      BY <1>2, <2>1, <3>1 DEF Promise!IsReply, Promise!IsBody
    <3> QED
      BY <2>1, <2>2, <3>2 DEF ReplyInv
  <2>3. CASE ~(pc = "close" /\ ok)
    BY <1>1, <2>1, <2>3 DEF ReplyInv
  <2> QED
    BY <2>2, <2>3
<1> QED
  BY <1>5, <1>6, <1>7, <1>8, <1>9, <1>10, <1>11 DEF Send

-----------------------------------------------------------------------------
(* The theorems.                                                           *)

LEMMA HttpInvStep == HttpInv /\ [Next]_vars => HttpInv'
<1> SUFFICES ASSUME HttpInv, [Next]_vars PROVE HttpInv'
  OBVIOUS
<1>1. CASE (Send \/ Device) /\ UNCHANGED chosenVars
  <2>1. TypeOK' /\ SocketsInv' /\ RequestInv' /\ StatusInv'
    BY <1>1, TypeStep, SocketsStep, RequestStep, StatusStep DEF HttpInv
  <2>2. posix => ExactInv'
    BY <1>1, ExactStep DEF HttpInv
  <2>3. posix' = posix
    BY <1>1 DEF chosenVars
  <2>4. ReplyInv'
    BY <1>1, <2>1, <2>2, ReplyStep
  <2> QED
    BY <2>1, <2>2, <2>3, <2>4 DEF HttpInv
<1>2. CASE UNCHANGED vars
  <2>1. UNCHANGED <<pc, posix, candidates, sockets, sent, got, buf, res, ok, device, size,
                    received, acted, reply, given>>
    BY <1>2 DEF vars, readVars, deviceVars, chosenVars
  <2>2. Wire' = Wire /\ Meant' = Meant /\ HeadLength' = HeadLength
    BY <2>1 DEF Wire, Meant, HeadLength, Lines
  <2>3. TypeOK'
    BY <2>1, <2>2 DEF HttpInv, TypeOK
  <2>4. SocketsInv' /\ RequestInv' /\ StatusInv'
    BY <2>1, <2>2 DEF HttpInv, SocketsInv, RequestInv, StatusInv
  <2>5. posix => ExactInv'
    BY <2>1, <2>2 DEF HttpInv, ExactInv, HeadersRead, NoMore, ReadsBody
  <2>6. ReplyInv'
    BY <2>1, <2>2 DEF HttpInv, ReplyInv, Promise!IsReply, Promise!IsBody
  <2> QED
    BY <2>1, <2>3, <2>4, <2>5, <2>6 DEF HttpInv
<1> QED
  BY <1>1, <1>2 DEF Next

LEMMA HttpInvariance == Spec => []HttpInv
  BY HttpInvInit, HttpInvStep, PTL DEF Spec

\* Whatever the device answers, and wherever the connection breaks, the parts of
\* the Response stay what they are declared as; no more of a body is read than its
\* Content-Length (Http.hpp:652-671).
THEOREM TypeCorrect == Spec => []TypeOK
<1>1. HttpInv => TypeOK
  BY DEF HttpInv
<1> QED
  BY <1>1, HttpInvariance, PTL

\* However many addresses a host name has, one socket at most is open at a time,
\* and none when send has returned, whatever it returns (Http.hpp:350-375,
\* 1086-1103).  An exception, of a Content-Length or of a status that std::stoi
\* does not take, is no return.
THEOREM SocketsClosed == Spec => []SocketsAreClosed
<1>1. HttpInv => SocketsAreClosed
  BY DEF HttpInv, SocketsInv, SocketsAreClosed
<1> QED
  BY <1>1, HttpInvariance, PTL

\* A step of send or of the device is one of the exchange, or none.
LEMMA ExchangeStep ==
  ASSUME HttpInv, HttpInv', [Next]_vars
  PROVE  [Promise!Next]_Promise!vars
<1> DEFINE request == CASE pc = "idle" -> "idle"
                        [] pc = "killed" -> "killed"
                        [] pc \in {"returned", "threw"} -> "returned"
                        [] OTHER -> "asked"
           answer == IF pc = "returned" /\ ok
                       THEN [status |-> res.status, body |-> res.body] ELSE NoAnswer
           asking == {"resolve", "connect", "write", "status", "headers", "content",
                      "untilEnd", "close"}
<1>1. TypeOK /\ RequestInv /\ ReplyInv
  BY DEF HttpInv
<1>2. /\ pc \in asking => request = "asked" /\ answer = NoAnswer
      /\ pc' \in asking => request' = "asked" /\ answer' = NoAnswer
      /\ pc = "idle" => request = "idle" /\ answer = NoAnswer
      /\ pc' = "killed" => request' = "killed" /\ answer' = NoAnswer
      /\ pc' \in {"returned", "threw"} => request' = "returned"
      /\ pc' = "threw" => answer' = NoAnswer
      /\ pc' = "returned" /\ ~ok' => answer' = NoAnswer
      /\ pc' = "returned" /\ ok' => answer' = [status |-> res'.status, body |-> res'.body]
  OBVIOUS
<1>3. CASE (Send \/ Device) /\ UNCHANGED chosenVars
  <2>1. UNCHANGED <<posix, size, reply>> /\ Meant' = Meant
    BY <1>3 DEF chosenVars, Meant
  <2>2. ASSUME pc \in asking, pc' \in asking, UNCHANGED acted PROVE UNCHANGED Promise!vars
    BY <1>2, <2>1, <2>2 DEF Promise!vars
  <2>3. ASSUME pc \in asking, pc' \in {"returned", "threw"}, UNCHANGED acted,
               answer' = NoAnswer \/ Promise!IsReply(answer')
        PROVE  Promise!Return
    BY <1>2, <2>1, <2>3 DEF Promise!Return
  <2>4. CASE Ask
    <3>1. pc = "idle" /\ pc' = "resolve" /\ UNCHANGED acted
      BY <2>4 DEF Ask, deviceVars
    <3>2. Promise!Ask
      BY <1>2, <2>1, <3>1 DEF Promise!Ask
    <3> QED
      BY <3>2 DEF Promise!Next
  <2>5. CASE OpenSocket \/ Connected \/ Refused \/ Write \/ WriteFails
    <3>1. pc \in asking /\ pc' \in asking /\ UNCHANGED acted
      BY <2>5 DEF OpenSocket, Connected, Refused, Write, WriteFails, deviceVars
    <3> QED
      BY <2>2, <3>1
  <2>6. CASE NoAddress
    <3>1. pc = "resolve" /\ pc' = "returned" /\ ok' = FALSE /\ UNCHANGED acted
      BY <2>6 DEF NoAddress, deviceVars
    <3>2. Promise!Return
      BY <1>2, <2>3, <3>1
    <3> QED
      BY <3>2 DEF Promise!Next
  <2>7. CASE Killed
    <3>1. pc = "write" /\ pc' = "killed" /\ UNCHANGED acted
      BY <2>7 DEF Killed, deviceVars
    <3>2. ~acted
      <4>1. size \in Nat /\ received \in Nat /\ sent \in Nat /\ received <= sent
        BY <1>1, HttpAssumption DEF TypeOK
      <4> QED
        BY <1>1, <3>1, <4>1 DEF RequestInv
    <3>3. acted = FALSE
      BY <1>1, <3>2 DEF TypeOK
    <3>4. Promise!Kill
      BY <1>2, <2>1, <3>1, <3>3 DEF Promise!Kill
    <3> QED
      BY <3>4 DEF Promise!Next
  <2>8. CASE GetsByte \/ GetsNothing \/ read_headers
    <3>1. pc \in asking /\ pc' \in asking /\ UNCHANGED acted
      BY <2>8 DEF GetsByte, GetsNothing, read_headers, Result, deviceVars
    <3> QED
      BY <2>2, <3>1
  <2>9. CASE read_response_line \/ EmptyLine
    <3>1. /\ pc \in {"status", "headers"} /\ UNCHANGED acted
          /\ pc' \in {"headers", "threw", "untilEnd", "content"}
      BY <2>9 DEF read_response_line, EmptyLine, deviceVars
    <3>2. CASE pc' = "threw"
      <4>1. Promise!Return
        BY <1>2, <2>3, <3>1, <3>2
      <4> QED
        BY <4>1 DEF Promise!Next
    <3>3. CASE pc' # "threw"
      BY <2>2, <3>1, <3>3
    <3> QED
      BY <3>2, <3>3
  <2>10. CASE Content \/ ContentEnds \/ UntilEnd
    <3>1. pc \in asking /\ pc' \in asking /\ UNCHANGED acted
      BY <2>10 DEF Content, ContentEnds, UntilEnd, Result, deviceVars
    <3> QED
      BY <2>2, <3>1
  <2>11. CASE CloseSocket
    <3>1. pc = "close" /\ pc' = "returned" /\ UNCHANGED <<acted, ok, res>>
      BY <2>11 DEF CloseSocket, deviceVars, readVars
    <3>2. answer' = NoAnswer \/ Promise!IsReply(answer')
      BY <1>1, <1>2, <3>1 DEF ReplyInv
    <3>3. Promise!Return
      BY <2>3, <3>1, <3>2
    <3> QED
      BY <3>3 DEF Promise!Next
  <2>12. CASE Device
    <3>1. UNCHANGED <<pc, ok, res>>
      BY <2>12 DEF Device, readVars
    <3>2. CASE DeviceActs
      <4>1. ~acted /\ acted' = TRUE /\ received = 1 + size
        BY <3>2 DEF DeviceActs
      <4>2. pc \notin {"idle", "killed"}
        <5>1. size \in Nat /\ received \in Nat /\ sent \in Nat /\ received <= sent
          BY <1>1, HttpAssumption DEF TypeOK
        <5> QED
          BY <1>1, <4>1, <5>1 DEF RequestInv
      <4>3. request \notin {"idle", "killed"}
        BY <4>2
      <4>4. Promise!Act
        BY <2>1, <3>1, <4>1, <4>3 DEF Promise!Act
      <4> QED
        BY <4>4 DEF Promise!Next
    <3>3. CASE DeviceReads \/ DeviceAnswers \/ DeviceCloses
      <4>1. UNCHANGED acted
        BY <3>3 DEF DeviceReads, DeviceAnswers, DeviceCloses
      <4>2. UNCHANGED Promise!vars
        BY <2>1, <3>1, <4>1 DEF Promise!vars
      <4> QED
        BY <4>2
    <3> QED
      BY <2>12, <3>2, <3>3 DEF Device
  <2> QED
    BY <1>3, <2>4, <2>5, <2>6, <2>7, <2>8, <2>9, <2>10, <2>11, <2>12 DEF Send
<1>4. CASE UNCHANGED vars
  BY <1>4 DEF vars, readVars, deviceVars, chosenVars, Promise!vars, Meant
<1> QED
  BY <1>3, <1>4 DEF Next

\* Whatever a device answers and for a request of any length: send returns the
\* device's reply, whole, or none, reports success only if the device has acted,
\* and dies of SIGPIPE only if the device never will (Http.hpp:830-846, 1086-1103).
THEOREM Refinement == Spec => ImplementsExchange
<1>1. Init => Promise!Init
  BY DEF Init, Promise!Init
<1>2. HttpInv /\ HttpInv' /\ [Next]_vars => [Promise!Next]_Promise!vars
  BY ExchangeStep
<1> QED
  BY <1>1, <1>2, HttpInvariance, PTL DEF Spec, ImplementsExchange, Promise!Spec

-----------------------------------------------------------------------------
(* Request                                                                 *)

\* It is s up to the first mark in it, or all of it.
IsCut(found, s, mark) ==
  \E e \in 1..(Len(s) + 1) :
    /\ found = SubSeq(s, 1, e - 1)
    /\ e = Len(s) + 1 \/ s[e] = mark
    /\ \A l \in 1..(e - 1) : s[l] # mark

\* The first mark in s is its last element.
EndsFirst(s, mark) ==
  Len(s) # 0 /\ s[Len(s)] = mark /\ \A l \in 1..(Len(s) - 1) : s[l] # mark

\* What lies between the end of a and the start of c: b up to the first mark in it.
LEMMA BetweenParts ==
  ASSUME NEW S, NEW a \in Seq(S), NEW b \in Seq(S), NEW c \in Seq(S), NEW from, NEW to,
         EndsFirst(a, from), c = <<>> \/ (Len(c) # 0 /\ c[1] = to)
  PROVE  IsCut(Between(a \o b \o c, from, to), b, to)
<1> DEFINE s == a \o b \o c
           n == Len(a)
           m == Len(b)
<1>1. /\ n \in Nat \ {0} /\ m \in Nat /\ Len(c) \in Nat
      /\ a[n] = from /\ \A l \in 1..(n - 1) : a[l] # from
  BY LenProperties DEF EndsFirst
<1> HIDE DEF n, m
<1>2. /\ s \in Seq(S) /\ Len(s) = n + m + Len(c)
      /\ \A i \in 1..n : s[i] = a[i]
      /\ \A i \in 1..m : s[n + i] = b[i]
      /\ \A i \in 1..Len(c) : s[n + m + i] = c[i]
  <2>1. /\ a \o b \in Seq(S) /\ Len(a \o b) = n + m
        /\ \A i \in 1..(n + m) : (a \o b)[i] = IF i <= n THEN a[i] ELSE b[i - n]
    BY ConcatProperties DEF n, m
  <2> DEFINE ab == a \o b
  <2>2. /\ s \in Seq(S) /\ Len(s) = n + m + Len(c)
        /\ \A i \in 1..(n + m + Len(c)) : s[i] = IF i <= n + m THEN ab[i] ELSE c[i - (n + m)]
    <3>1. ab \in Seq(S) /\ Len(ab) = n + m
      BY <2>1
    <3> HIDE DEF ab
    <3>2. /\ ab \o c \in Seq(S) /\ Len(ab \o c) = n + m + Len(c)
          /\ \A i \in 1..(n + m + Len(c)) :
               (ab \o c)[i] = IF i <= n + m THEN ab[i] ELSE c[i - (n + m)]
      <4>1. /\ ab \o c \in Seq(S) /\ Len(ab \o c) = Len(ab) + Len(c)
            /\ \A i \in 1..(Len(ab) + Len(c)) :
                 (ab \o c)[i] = IF i <= Len(ab) THEN ab[i] ELSE c[i - Len(ab)]
        BY <3>1, ConcatProperties, Zenon
      <4> QED
        BY <3>1, <4>1, Zenon
    <3>3. s = ab \o c
      BY DEF ab
    <3> QED
      BY <3>2, <3>3
  <2> HIDE DEF ab, s
  <2>3. /\ \A i \in 1..n : i <= n + m /\ i \in 1..(n + m + Len(c)) /\ i \in 1..(n + m)
        /\ \A i \in 1..m : /\ n + i <= n + m /\ n + i \in 1..(n + m + Len(c)) /\ n + i \in 1..(n + m)
                           /\ ~(n + i <= n) /\ (n + i) - n = i
        /\ \A i \in 1..Len(c) : /\ ~(n + m + i <= n + m) /\ n + m + i \in 1..(n + m + Len(c))
                                /\ (n + m + i) - (n + m) = i
    BY <1>1
  <2>4. /\ \A i \in 1..n : ab[i] = a[i]
        /\ \A i \in 1..m : ab[n + i] = b[i]
    BY <2>1, <2>3 DEF ab
  <2>5. /\ \A i \in 1..n : s[i] = ab[i]
        /\ \A i \in 1..m : s[n + i] = ab[n + i]
        /\ \A i \in 1..Len(c) : s[n + m + i] = c[(n + m + i) - (n + m)]
    BY <2>2, <2>3
  <2> QED
    BY <2>2, <2>3, <2>4, <2>5
<1> HIDE DEF s
<1> DEFINE First(k) == s[k] = from /\ \A l \in 1..(k - 1) : s[l] # from
           Next1(k) == /\ k = Len(s) + 1 \/ s[k] = to
                       /\ \A l \in (n + 1)..(k - 1) : s[l] # to
<1>3. (CHOOSE k \in DOMAIN s : First(k)) = n
  <2>1. DOMAIN s = 1..Len(s)
    BY <1>2, LenProperties
  <2>2. n \in DOMAIN s /\ First(n)
    <3>1. n \in 1..n /\ n \in 1..Len(s) /\ \A l \in 1..(n - 1) : l \in 1..n
      BY <1>1, <1>2, SMTT(20)
    <3>2. s[n] = a[n] /\ \A l \in 1..(n - 1) : s[l] = a[l]
      BY <1>2, <3>1
    <3> QED
      BY <1>1, <2>1, <3>1, <3>2
  <2>3. ASSUME NEW k \in DOMAIN s, First(k) PROVE k = n
    <3>1. k \in 1..Len(s) /\ Len(s) \in Nat /\ k \in Int
      BY <1>1, <1>2, <2>1
    <3>2. ~(k < n)
      BY <1>1, <1>2, <2>2, <2>3, <3>1
    <3>3. ~(n < k)
      BY <1>1, <1>2, <2>2, <2>3, <3>1
    <3> QED
      BY <1>1, <3>1, <3>2, <3>3
  <2> QED
    BY <2>2, <2>3
<1>4. PICK e \in 1..(m + 1) : /\ e = m + 1 \/ b[e] = to
                              /\ \A l \in 1..(e - 1) : b[l] # to
  <2> DEFINE P == {k \in 1..(m + 1) : k = m + 1 \/ b[k] = to}
  <2>1. P \subseteq Nat /\ m + 1 \in P
    BY <1>1
  <2>2. PICK e \in P : \A k \in P : e <= k
    BY <2>1, MinIsLeast
  <2>3. \A l \in 1..(e - 1) : l \notin P /\ l \in 1..(m + 1)
    BY <1>1, <2>1, <2>2
  <2> QED
    BY <2>2, <2>3
<1>5. (CHOOSE k \in (n + 1)..(Len(s) + 1) : Next1(k)) = n + e
  <2>0. e \in Int /\ 1 <= e /\ e <= m + 1 /\ Len(s) \in Nat /\ n + m <= Len(s)
    BY <1>1, <1>2
  <2>1. ASSUME NEW l \in (n + 1)..(n + e - 1) PROVE s[l] # to
    <3>1. l - n \in 1..(e - 1) /\ n + (l - n) = l /\ l - n \in 1..m
      BY <1>1, <2>0
    <3> QED
      BY <1>2, <1>4, <3>1
  <2>2. n + e = Len(s) + 1 \/ s[n + e] = to
    <3>1. CASE e # m + 1
      <4>1. e \in 1..m /\ b[e] = to
        BY <1>1, <1>4, <2>0, <3>1
      <4> QED
        BY <1>2, <4>1
    <3>2. CASE e = m + 1 /\ c = <<>>
      <4>1. Len(c) = 0
        BY <3>2
      <4> QED
        BY <1>1, <1>2, <3>2, <4>1
    <3>3. CASE e = m + 1 /\ Len(c) # 0 /\ c[1] = to
      <4>1. 1 \in 1..Len(c) /\ n + m + 1 = n + e
        BY <1>1, <3>3
      <4> QED
        BY <1>2, <3>3, <4>1
    <3> QED
      BY <3>1, <3>2, <3>3
  <2>3. n + e \in (n + 1)..(Len(s) + 1) /\ Next1(n + e)
    BY <1>1, <2>0, <2>1, <2>2
  <2>4. ASSUME NEW k \in (n + 1)..(Len(s) + 1), Next1(k) PROVE k = n + e
    <3>0. k \in Int /\ n + 1 <= k /\ k <= Len(s) + 1
      BY <1>1, <2>0
    <3>1. ~(k < n + e)
      <4> SUFFICES ASSUME k < n + e PROVE FALSE
        OBVIOUS
      <4>1. k \in (n + 1)..(n + e - 1) /\ k # Len(s) + 1
        BY <1>1, <2>0, <3>0
      <4> QED
        BY <2>1, <2>4, <4>1
    <3>2. ~(n + e < k)
      <4> SUFFICES ASSUME n + e < k PROVE FALSE
        OBVIOUS
      <4>1. n + e \in (n + 1)..(k - 1) /\ n + e # Len(s) + 1
        BY <1>1, <2>0, <3>0
      <4> QED
        BY <2>2, <2>4, <4>1
    <3> QED
      BY <1>1, <2>0, <3>0, <3>1, <3>2
  <2> QED
    BY <2>3, <2>4
<1>6. Between(s, from, to) = SubSeq(s, n + 1, (n + e) - 1)
  BY <1>3, <1>5, Zenon DEF Between
<1>7. SubSeq(s, n + 1, (n + e) - 1) = SubSeq(b, 1, e - 1)
  <2>0. e \in Int /\ 1 <= e /\ e <= m + 1 /\ Len(s) \in Nat /\ n + m <= Len(s)
    BY <1>1, <1>2
  <2> DEFINE u == SubSeq(s, n + 1, (n + e) - 1)
             v == SubSeq(b, 1, e - 1)
  <2>1. /\ u \in Seq(S) /\ Len(u) = e - 1
        /\ \A i \in 1..(e - 1) : u[i] = s[n + i]
    <3>1. /\ u \in Seq(S)
          /\ Len(u) = IF n + 1 <= (n + e) - 1 THEN (n + e) - 1 - (n + 1) + 1 ELSE 0
          /\ \A i \in 1..((n + e) - 1 - (n + 1) + 1) : u[i] = s[(n + 1) + i - 1]
      BY <1>1, <1>2, <2>0, SubSeqProperties
    <3> HIDE DEF u
    <3> QED
      BY <1>1, <2>0, <3>1
  <2>2. /\ v \in Seq(S) /\ Len(v) = e - 1
        /\ \A i \in 1..(e - 1) : v[i] = b[i]
    BY <1>1, <2>0, SubSeqProperties DEF m
  <2> HIDE DEF u, v
  <2>3. \A i \in 1..(e - 1) : u[i] = v[i]
    <3>1. \A i \in 1..(e - 1) : i \in 1..m
      BY <1>1, <2>0
    <3> QED
      BY <1>2, <2>1, <2>2, <3>1
  <2>4. u = v
    BY <2>1, <2>2, <2>3, SeqEqual
  <2> QED
    BY <2>4 DEF u, v
<1> QED
  BY <1>4, <1>6, <1>7 DEF s, m, IsCut

-----------------------------------------------------------------------------
\* Decoding never yields more symbols, and fewer if there is an escape; without
\* one it changes the "+" and nothing else.
LEMMA DecodedLength ==
  ASSUME NEW S, NEW s \in Seq(S)
  PROVE  /\ FormDecoded(s) \in [1..Cardinality(Starts(s)) -> {DecodedChar(s, Start(s, n)) : n \in Nat}]
         /\ Cardinality(Starts(s)) \in Nat
         /\ Cardinality(Starts(s)) <= Len(s)
         /\ (\E i \in 1..Len(s) : IsEscape(s, i)) => Cardinality(Starts(s)) < Len(s)
<1>1. Len(s) \in Nat /\ DOMAIN s = 1..Len(s)
  BY LenProperties
<1>2. IsFiniteSet(1..Len(s)) /\ Cardinality(1..Len(s)) = Len(s)
  BY <1>1, FS_Interval
<1>3. Starts(s) \subseteq 1..Len(s)
  BY <1>1 DEF Starts
<1>4. /\ Cardinality(Starts(s)) \in Nat
      /\ Cardinality(Starts(s)) <= Len(s)
      /\ Cardinality(Starts(s)) = Len(s) => Starts(s) = 1..Len(s)
  <2> DEFINE all == 1..Len(s)
             T == Starts(s)
  <2>1. /\ IsFiniteSet(T) /\ Cardinality(T) <= Cardinality(all)
        /\ Cardinality(all) = Cardinality(T) => all = T
    <3> HIDE DEF all, T
    <3>1. IsFiniteSet(all) /\ T \subseteq all
      BY <1>2, <1>3 DEF all, T
    <3> QED
      BY <3>1, FS_Subset
  <2> QED
    BY <1>2, <2>1, FS_CardinalityType
<1>5. ASSUME NEW i \in 1..Len(s), IsEscape(s, i) PROVE i + 1 \in 1..Len(s) /\ i + 1 \notin Starts(s)
  <2>1. i \in 1..(Len(s) - 2)
    BY <1>5 DEF IsEscape
  <2>2. i + 1 \in 1..Len(s) /\ (i + 1) - 1 = i
    BY <1>1, <2>1
  <2> QED
    BY <1>5, <2>2 DEF Starts
<1>6. (\E i \in 1..Len(s) : IsEscape(s, i)) => Cardinality(Starts(s)) < Len(s)
  <2>1. ASSUME NEW i \in 1..Len(s), IsEscape(s, i) PROVE Starts(s) # 1..Len(s)
    BY <1>5, <2>1
  <2> QED
    BY <1>1, <1>4, <2>1
<1>7. FormDecoded(s) \in [1..Cardinality(Starts(s)) -> {DecodedChar(s, Start(s, n)) : n \in Nat}]
  BY <1>4 DEF FormDecoded
<1> QED
  BY <1>4, <1>6, <1>7

LEMMA DecodedWithoutEscape ==
  ASSUME NEW S, NEW s \in Seq(S), \A i \in 1..Len(s) : ~IsEscape(s, i)
  PROVE  FormDecoded(s) = [n \in 1..Len(s) |-> IF s[n] = "+" THEN " " ELSE s[n]]
<1>1. Len(s) \in Nat /\ DOMAIN s = 1..Len(s)
  BY LenProperties
<1>2. \A i \in Int : ~IsEscape(s, i)
  <2>1. \A i \in Int : i \in 1..(Len(s) - 2) => i \in 1..Len(s)
    BY <1>1
  <2> QED
    BY <2>1 DEF IsEscape
<1>3. Starts(s) = 1..Len(s)
  <2>1. \A i \in 1..Len(s) : i - 1 \in Int /\ i - 2 \in Int
    BY <1>1
  <2> QED
    BY <1>1, <1>2, <2>1 DEF Starts
<1>4. ASSUME NEW i \in 1..Len(s)
      PROVE  Cardinality({k \in Starts(s) : k <= i}) = i
  <2>1. {k \in 1..Len(s) : k <= i} = 1..i
    BY <1>1
  <2>2. Cardinality(1..i) = i
    BY <1>1, FS_Interval
  <2> QED
    BY <1>3, <2>1, <2>2
<1>5. \A n \in 1..Len(s) : Start(s, n) = n
  BY <1>3, <1>4, Zenon DEF Start
<1>6. \A n \in 1..Len(s) : DecodedChar(s, n) = IF s[n] = "+" THEN " " ELSE s[n]
  <2>1. \A n \in 1..Len(s) : n \in Int
    BY <1>1
  <2> QED
    BY <1>2, <2>1 DEF DecodedChar
<1>7. Cardinality(Starts(s)) = Len(s)
  BY <1>1, <1>3, FS_Interval
<1>8. FormDecoded(s) = [n \in 1..Len(s) |-> DecodedChar(s, Start(s, n))]
  BY <1>7 DEF FormDecoded
<1>9. \A n \in 1..Len(s) : DecodedChar(s, Start(s, n)) = IF s[n] = "+" THEN " " ELSE s[n]
  BY <1>5, <1>6
<1> QED
  BY <1>8, <1>9

\* What was not encoded is decoded to itself only if it needed no encoding.
LEMMA DecodedToItself ==
  ASSUME NEW S, NEW s \in Seq(S)
  PROVE  FormDecoded(s) = s
           <=> /\ "+" \notin ToSet(s)
               /\ \A i \in DOMAIN s : ~IsEscape(s, i)
<1>1. Len(s) \in Nat /\ DOMAIN s = 1..Len(s)
  BY LenProperties
<1>2. CASE \E i \in DOMAIN s : IsEscape(s, i)
  <2>1. Cardinality(Starts(s)) \in Nat /\ Cardinality(Starts(s)) < Len(s)
    BY <1>1, <1>2, DecodedLength
  <2>2. DOMAIN FormDecoded(s) = 1..Cardinality(Starts(s))
    BY DEF FormDecoded
  <2>3. 1..Cardinality(Starts(s)) # 1..Len(s)
    BY <1>1, <2>1
  <2> QED
    BY <1>1, <1>2, <2>2, <2>3
<1>3. CASE \A i \in DOMAIN s : ~IsEscape(s, i)
  <2>1. FormDecoded(s) = [n \in 1..Len(s) |-> IF s[n] = "+" THEN " " ELSE s[n]]
    BY <1>1, <1>3, DecodedWithoutEscape
  <2>2. s = [n \in 1..Len(s) |-> s[n]]
    BY <1>1, SeqDef
  <2>3. FormDecoded(s) = s <=> \A n \in 1..Len(s) : s[n] # "+"
    <3>1. ASSUME \A n \in 1..Len(s) : s[n] # "+" PROVE FormDecoded(s) = s
      BY <2>1, <2>2, <3>1
    <3>2. ASSUME NEW n \in 1..Len(s), s[n] = "+" PROVE FormDecoded(s) # s
      <4>1. FormDecoded(s)[n] = " "
        BY <2>1, <3>2
      <4> QED
        BY <3>2, <4>1
    <3> QED
      BY <3>1, <3>2
  <2>4. "+" \notin ToSet(s) <=> \A n \in 1..Len(s) : s[n] # "+"
    BY <1>1 DEF ToSet
  <2> QED
    BY <1>3, <2>3, <2>4
<1> QED
  BY <1>2, <1>3

-----------------------------------------------------------------------------
(* What the device finds in the two bodies.                                *)

\* A sequence that is cut at a mark in it is not decoded to the whole.
LEMMA CutOrWhole ==
  ASSUME NEW S, NEW p \in Seq(S), NEW mark, NEW found, IsCut(found, p, mark)
  PROVE  /\ mark \notin ToSet(p) <=> found = p
         /\ mark \in ToSet(p) => FormDecoded(found) # p
<1>0. PICK e \in 1..(Len(p) + 1) : /\ found = SubSeq(p, 1, e - 1)
                                   /\ e = Len(p) + 1 \/ p[e] = mark
                                   /\ \A l \in 1..(e - 1) : p[l] # mark
  BY DEF IsCut
<1>1. Len(p) \in Nat /\ DOMAIN p = 1..Len(p) /\ e \in Int /\ 1 <= e /\ e <= Len(p) + 1
  BY LenProperties
<1>2. mark \notin ToSet(p) <=> \A i \in 1..Len(p) : p[i] # mark
  BY <1>1 DEF ToSet
<1>3. CASE e = Len(p) + 1
  <2>1. e - 1 = Len(p)
    BY <1>1, <1>3
  <2>2. found = p
    BY <1>0, <2>1, SubSeqFull
  <2>3. mark \notin ToSet(p)
    BY <1>0, <1>2, <2>1
  <2> QED
    BY <2>2, <2>3
<1>4. CASE e # Len(p) + 1
  <2>1. e \in 1..Len(p) /\ e - 1 \in Nat /\ e - 1 < Len(p)
    BY <1>1, <1>4
  <2>2. mark \in ToSet(p)
    BY <1>0, <1>2, <1>4, <2>1
  <2>3. found \in Seq(S) /\ Len(found) = e - 1
    <3> DEFINE cut == SubSeq(p, 1, e - 1)
    <3>1. cut \in Seq(S) /\ Len(cut) = e - 1
      BY <1>1, <2>1, SubSeqProperties
    <3> QED
      BY <1>0, <3>1
  <2>4. FormDecoded(found) # p
    <3> DEFINE c == Cardinality(Starts(found))
    <3>1. c \in Nat /\ c <= Len(found)
      BY <2>3, DecodedLength
    <3>2. DOMAIN FormDecoded(found) = 1..c
      BY DEF FormDecoded
    <3> HIDE DEF c
    <3>3. c < Len(p) /\ Len(p) # 0
      BY <1>1, <2>1, <2>3, <3>1
    <3>4. Len(p) \in 1..Len(p) /\ Len(p) \notin 1..c
      BY <1>1, <3>1, <3>3
    <3> QED
      BY <1>1, <3>2, <3>4
  <2>5. found # p
    BY <2>1, <2>3
  <2> QED
    BY <2>2, <2>4, <2>5
<1> QED
  BY <1>3, <1>4

\* The password's part of the login's form: the last.
LEMMA LastOfFour ==
  ASSUME NEW S, NEW w \in S, NEW x \in S, NEW y \in S, NEW z \in S, NEW mark,
         NEW p \in Seq(S), w # z, x # z, y # z
  PROVE  IsCut(Between(<<w, x, y, z>> \o p, z, mark), p, mark)
<1> DEFINE a == <<w, x, y, z>>
<1>1. a \in Seq(S) /\ Len(a) = 4 /\ a[4] = z /\ a[1] # z /\ a[2] # z /\ a[3] # z
  OBVIOUS
<1> HIDE DEF a
<1>2. \A l \in 1..(4 - 1) : l = 1 \/ l = 2 \/ l = 3
  OBVIOUS
<1>3. EndsFirst(a, z)
  BY <1>1, <1>2 DEF EndsFirst
<1>4. <<>> \in Seq(S) /\ a \o p \o <<>> = a \o p
  <2>1. a \o p \in Seq(S)
    BY <1>1, ConcatProperties
  <2> QED
    BY <2>1, ConcatEmptySeq
<1>5. IsCut(Between(a \o p \o <<>>, z, mark), p, mark)
  BY <1>1, <1>3, <1>4, BetweenParts, Zenon
<1> QED
  BY <1>4, <1>5 DEF a

\* The image's part of the upload's form: between others.
LEMMA BetweenOthers ==
  ASSUME NEW S, NEW mark \in S, NEW y \in S, NEW z \in S, NEW f \in Seq(S), mark # y
  PROVE  IsCut(Between(<<mark, y>> \o f \o <<mark, z, mark>>, y, mark), f, mark)
<1> DEFINE a == <<mark, y>>
           c == <<mark, z, mark>>
<1>1. /\ a \in Seq(S) /\ Len(a) = 2 /\ a[2] = y /\ a[1] # y
      /\ c \in Seq(S) /\ Len(c) = 3 /\ c[1] = mark
  OBVIOUS
<1> HIDE DEF a, c
<1>2. \A l \in 1..(2 - 1) : l = 1
  OBVIOUS
<1>3. EndsFirst(a, y) /\ Len(c) # 0
  BY <1>1, <1>2 DEF EndsFirst
<1>4. IsCut(Between(a \o f \o c, y, mark), f, mark)
  BY <1>1, <1>3, BetweenParts, Zenon
<1> QED
  BY <1>4 DEF a, c

LEMMA FormOfFour ==
  ASSUME NEW w, NEW x, NEW y, NEW z, NEW p \in Seq(STRING)
  PROVE  <<w, x, y, z>> \o p # <<>>
<1> DEFINE S == STRING \cup {w, x, y, z}
           a == <<w, x, y, z>>
<1>1. a \in Seq(S) /\ p \in Seq(S) /\ Len(a) = 4
  BY SeqMonotonic
<1> HIDE DEF a, S
<1>2. Len(a \o p) = 4 + Len(p) /\ Len(p) \in Nat
  <2>1. Len(a \o p) = Len(a) + Len(p) /\ Len(p) \in Nat
    BY <1>1, ConcatProperties, LenProperties, Zenon
  <2> QED
    BY <1>1, <2>1, Zenon
<1>3. Len(<<>>) = 0
  OBVIOUS
<1>4. a \o p # <<>>
  BY <1>2, <1>3
<1> QED
  BY <1>4 DEF a

LEMMA FormOfParts ==
  ASSUME NEW mark, NEW y, NEW z, NEW f \in Seq(STRING)
  PROVE  <<mark, y>> \o f \o <<mark, z, mark>> # <<>>
<1> DEFINE S == STRING \cup {mark, y, z}
           a == <<mark, y>>
           c == <<mark, z, mark>>
<1>1. a \in Seq(S) /\ f \in Seq(S) /\ Len(a) = 2 /\ c \in Seq(S) /\ Len(c) = 3
  BY SeqMonotonic
<1> HIDE DEF a, c, S
<1>2. a \o f \in Seq(S) /\ Len(a \o f) \in Nat
  BY <1>1, ConcatProperties, LenProperties
<1> DEFINE b == a \o f
<1>3. b \in Seq(S) /\ Len(b) \in Nat
  BY <1>2
<1> HIDE DEF b
<1>4. Len(b \o c) = Len(b) + 3
  <2>1. Len(b \o c) = Len(b) + Len(c)
    BY <1>1, <1>3, ConcatProperties, Zenon
  <2> QED
    BY <1>1, <2>1, Zenon
<1>5. Len(<<>>) = 0
  OBVIOUS
<1>6. b \o c # <<>>
  BY <1>3, <1>4, <1>5
<1> QED
  BY <1>6 DEF a, b, c

LEMMA PasswordArrives ==
  ASSUME NEW p \in Seq(STRING)
  PROVE  (/\ ToSet(p) \cap {"&", "+"} = {}
          /\ \A i \in DOMAIN p : ~IsEscape(p, i))
           <=> FormDecoded(Between(<<"login=", "serial", "&", "password=">> \o p,
                                   "password=", "&")) = p
<1> DEFINE found == Between(<<"login=", "serial", "&", "password=">> \o p, "password=", "&")
           S == STRING \cup {"login=", "serial", "&", "password="}
<1>0. p \in Seq(S)
  BY SeqMonotonic
<1>1. IsCut(found, p, "&")
  <2>1. /\ "login=" \in S /\ "serial" \in S /\ "&" \in S /\ "password=" \in S
        /\ "login=" # "password=" /\ "serial" # "password=" /\ "&" # "password="
    OBVIOUS
  <2> HIDE DEF S
  <2> QED
    BY <1>0, <2>1, LastOfFour, Zenon
<1> HIDE DEF found
<1>2. /\ "&" \notin ToSet(p) <=> found = p
      /\ "&" \in ToSet(p) => FormDecoded(found) # p
  BY <1>1, CutOrWhole, Zenon
<1>3. CASE "&" \in ToSet(p)
  <2>1. ToSet(p) \cap {"&", "+"} # {}
    BY <1>3
  <2> QED
    BY <1>2, <1>3, <2>1 DEF found
<1>4. CASE "&" \notin ToSet(p)
  <2>1. ToSet(p) \cap {"&", "+"} = {} <=> "+" \notin ToSet(p)
    BY <1>4
  <2>2. found = p
    BY <1>2, <1>4
  <2>3. FormDecoded(p) = p <=> /\ "+" \notin ToSet(p)
                              /\ \A i \in DOMAIN p : ~IsEscape(p, i)
    BY DecodedToItself
  <2> QED
    BY <2>1, <2>2, <2>3, Zenon DEF found
<1> QED
  BY <1>3, <1>4

LEMMA ImageArrives ==
  ASSUME NEW f \in Seq(STRING)
  PROVE  Boundary \notin ToSet(f) <=> Between(Form(f), "name=update_file", Boundary) = f
<1> DEFINE S == STRING \cup {Boundary, "name=update_file", "name=update_install"}
<1>1. f \in Seq(S)
  BY SeqMonotonic
<1>2. IsCut(Between(Form(f), "name=update_file", Boundary), f, Boundary)
  <2>1. /\ Boundary \in S /\ "name=update_file" \in S /\ "name=update_install" \in S
        /\ Boundary # "name=update_file"
    BY DEF Boundary
  <2> HIDE DEF S
  <2> QED
    BY <1>1, <2>1, BetweenOthers, Zenon DEF Form
<1> QED
  BY <1>2, CutOrWhole, Zenon

-----------------------------------------------------------------------------
(* What is written.                                                        *)

IsRequest(r) ==
  r = [method |-> r.method, path |-> r.path, headers |-> r.headers, body |-> r.body]

LEMMA OneValue ==
  ASSUME NEW x
  PROVE  Append(<<>>, x) = <<x>> /\ Head(<<x>>) = x /\ <<x>> # <<>> /\ DOMAIN <<x>> = {1} /\ <<x>>[1] = x
<1>1. <<x>> \in Seq({x}) /\ <<>> \in Seq({x}) /\ Len(<<x>>) = 1 /\ <<x>>[1] = x /\ <<x>> # <<>>
  OBVIOUS
<1>2. Head(<<x>>) = x
  BY <1>1, HeadTailProperties
<1>3. DOMAIN <<x>> = 1..1 /\ 1..1 = {1}
  BY <1>1, LenProperties
<1>4. Append(<<>>, x) = <<x>>
  BY <1>1, AppendProperties, SeqEqual
<1> QED
  BY <1>1, <1>2, <1>3, <1>4

Cookies == IF phpsessid = "" THEN <<>> ELSE <<phpsessid>>

\* The headers as genRequest and doUpdate leave them.
SetOnce(headers, type) ==
  /\ DOMAIN headers = HeaderName
  /\ headers["Host"] = <<"hostname">>
  /\ headers["Content-Type"] = <<type>>
  /\ headers["Cookie"] = Cookies
  /\ headers[FormType] = <<>>

FramedAs(w, type) ==
  /\ w.headers["Host"] = <<"hostname">>
  /\ w.headers["Content-Length"] = <<Len(w.body)>>
  /\ w.headers["Content-Type"] = <<type>>
  /\ phpsessid # "" =>
       w.headers["Cookie"] = IF phpsessid \in LongIds THEN <<>> ELSE <<phpsessid>>

BodyOf(r, body) == IF body = <<>> THEN r.body ELSE body

LEMMA HeaderNames ==
  /\ "Host" \in HeaderName /\ "Content-Type" \in HeaderName /\ "Cookie" \in HeaderName
  /\ "Content-Length" \in HeaderName /\ FormType \in HeaderName
  /\ FormType # "Host" /\ FormType # "Content-Type" /\ FormType # "Cookie"
  /\ FormType # "Content-Length"
BY DEF HeaderName, FormType

\* genRequest sets each header once and takes nothing from the headers before it.
LEMMA Generated ==
  ASSUME NEW r, IsRequest(r), NEW path, NEW body, NEW g, g = genRequest(r, path, body)
  PROVE  IsRequest(g) /\ g.body = BodyOf(r, body) /\ SetOnce(g.headers, FormType)
<1> DEFINE typed == set_header(NoHeaders, "Content-Type", FormType)
           general == set_header(typed, "Host", "hostname")
           session == IF phpsessid = "" THEN general ELSE set_header(general, "Cookie", phpsessid)
           full == IF body = <<>> THEN session
                   ELSE set_header(session, "Content-Length", Len(body))
<1>1. g = [r EXCEPT !.path = path,
                    !.body = IF body = <<>> THEN @ ELSE body,
                    !.headers = full]
  BY DEF genRequest
<1>2. SetOnce(full, FormType)
  <2>1. /\ DOMAIN typed = HeaderName
        /\ typed["Content-Type"] = <<FormType>>
        /\ typed["Host"] = <<>> /\ typed["Cookie"] = <<>> /\ typed[FormType] = <<>>
    BY HeaderNames, OneValue DEF set_header, NoHeaders
  <2> HIDE DEF typed
  <2>2. /\ DOMAIN general = HeaderName
        /\ general["Host"] = <<"hostname">>
        /\ general["Content-Type"] = <<FormType>>
        /\ general["Cookie"] = <<>> /\ general[FormType] = <<>>
    BY HeaderNames, <2>1, OneValue DEF set_header
  <2> HIDE DEF general
  <2>3. SetOnce(session, FormType)
    BY HeaderNames, <2>2, OneValue DEF set_header, SetOnce, Cookies
  <2> HIDE DEF session
  <2> QED
    BY HeaderNames, <2>3, OneValue DEF set_header, SetOnce
<1> HIDE DEF full
<1>3. g = [method |-> r.method, path |-> path, headers |-> full, body |-> BodyOf(r, body)]
  BY <1>1 DEF IsRequest, BodyOf
<1>4. /\ g.method = r.method /\ g.path = path /\ g.headers = full /\ g.body = BodyOf(r, body)
  BY <1>3
<1> QED
  BY <1>2, <1>3, <1>4 DEF IsRequest

\* write_request writes each header of such a request once and the body as it is,
\* of which it tells the length.
LEMMA Written ==
  ASSUME NEW r, NEW type, SetOnce(r.headers, type), NEW w, w = write_request(r)
  PROVE  w.body = r.body /\ FramedAs(w, type)
<1>1. w.body = r.body
  BY DEF write_request, WrittenBody, has_header, SetOnce
<1>2. w.headers = write_headers(r)
  BY DEF write_request
<1>3. /\ w.headers["Host"] = r.headers["Host"]
      /\ w.headers["Content-Length"] = <<Len(r.body)>>
      /\ w.headers["Content-Type"] = <<get_header_value(r.headers, "Content-Type", "text/plain")>>
      /\ w.headers["Cookie"] = Fitting(r.headers["Cookie"])
  BY <1>2, HeaderNames DEF write_headers
<1>4. get_header_value(r.headers, "Content-Type", "text/plain") = type
  BY OneValue DEF get_header_value, has_header, SetOnce
<1>5. phpsessid # "" => Fitting(r.headers["Cookie"]) =
                          IF phpsessid \in LongIds THEN <<>> ELSE <<phpsessid>>
  <2> SUFFICES ASSUME phpsessid # "" PROVE Fitting(r.headers["Cookie"]) =
                          IF phpsessid \in LongIds THEN <<>> ELSE <<phpsessid>>
    OBVIOUS
  <2> DEFINE ids == <<phpsessid>>
  <2>1. r.headers["Cookie"] = ids
    BY DEF SetOnce, Cookies
  <2>2. DOMAIN ids = {1} /\ ids[1] = phpsessid
    BY OneValue
  <2> HIDE DEF ids
  <2>3. (\E i \in DOMAIN ids : ids[i] \in LongIds) <=> phpsessid \in LongIds
    BY <2>2
  <2>4. Fitting(ids) = IF phpsessid \in LongIds THEN <<>> ELSE ids
    BY <2>3, Zenon DEF Fitting
  <2> QED
    BY <2>1, <2>4 DEF ids
<1> QED
  BY <1>1, <1>3, <1>4, <1>5 DEF FramedAs, SetOnce

LoginForm == <<"login=", "serial", "&", "password=">> \o passwd

\* What was written last is framed, and its body is the form that was meant.
SentInv ==
  /\ passwd \in Seq(STRING) /\ image \in Seq(STRING)
  /\ IsRequest(req)
  /\ at \in {"nothing", "start", "login", "cleanup", "upload"}
  /\ at \in {"login", "cleanup", "upload"} => phpsessid # ""
  /\ Framed
  /\ at = "login" => wire.body = LoginForm
  /\ at = "upload" => wire.body = Form(image)

LEMMA NewIsRequest == IsRequest(NewRequest) /\ NewRequest.body = <<>>
BY DEF IsRequest, NewRequest

LEMMA SentInit == RequestInit => SentInv
<1> SUFFICES ASSUME RequestInit PROVE SentInv
  OBVIOUS
<1>1. passwd \in Seq(STRING) /\ image \in Seq(STRING)
  BY RequestAssumption, EmptySeq DEF RequestInit
<1>2. IsRequest(req) /\ at = "nothing"
  BY NewIsRequest DEF RequestInit
<1> QED
  BY <1>1, <1>2 DEF SentInv, Framed

\* A request whose headers are set once is framed when it is written.
LEMMA SentFramed ==
  ASSUME NEW r, IsRequest(r), NEW type, SetOnce(r.headers, type),
         NEW method, NEW from, NEW to, SendRequest(r, method, from, to),
         phpsessid' = phpsessid, to # "nothing", to # "start" => phpsessid # "",
         type = IF to = "upload" THEN "multipart/form-data" ELSE FormType
  PROVE  at \in from /\ at' = to /\ IsRequest(req') /\ wire'.body = r.body /\ Framed'
<1>1. at \in from /\ at' = to /\ req' = [r EXCEPT !.method = method] /\ wire' = write_request(req')
  BY DEF SendRequest
<1>2. PICK q : q = req'
  OBVIOUS
<1>3. PICK w : w = wire'
  OBVIOUS
<1>4. IsRequest(q) /\ q.headers = r.headers /\ q.body = r.body
  BY <1>1, <1>2 DEF IsRequest
<1>5. w = write_request(q)
  BY <1>1, <1>2, <1>3
<1>6. w.body = q.body /\ FramedAs(w, type)
  <2>1. SetOnce(q.headers, type)
    BY <1>4
  <2> QED
    BY <1>5, <2>1, Written, Zenon
<1>7. Framed'
  BY <1>1, <1>3, <1>6 DEF Framed, FramedAs
<1>8. IsRequest(req')
  BY <1>2, <1>4
<1> QED
  BY <1>1, <1>3, <1>4, <1>6, <1>7, <1>8

\* The same of a request as genRequest makes it.
LEMMA GeneratedFramed ==
  ASSUME NEW r, IsRequest(r), NEW path, NEW body, NEW method, NEW from, NEW to,
         SendRequest(genRequest(r, path, body), method, from, to),
         phpsessid' = phpsessid, to # "nothing", to # "upload", to # "start" => phpsessid # ""
  PROVE  at \in from /\ at' = to /\ IsRequest(req') /\ wire'.body = BodyOf(r, body) /\ Framed'
<1>1. PICK g : g = genRequest(r, path, body)
  OBVIOUS
<1>2. IsRequest(g) /\ g.body = BodyOf(r, body) /\ SetOnce(g.headers, FormType)
  BY <1>1, Generated, Zenon
<1>3. SendRequest(g, method, from, to)
  BY <1>1
<1>4. FormType = IF to = "upload" THEN "multipart/form-data" ELSE FormType
  OBVIOUS
<1>5. at \in from /\ at' = to /\ IsRequest(req') /\ wire'.body = g.body /\ Framed'
  BY <1>2, <1>3, <1>4, SentFramed
<1> QED
  BY <1>2, <1>5

LEMMA SentStep == SentInv /\ [RequestNext]_requestVars => SentInv'
<1> SUFFICES ASSUME SentInv, [RequestNext]_requestVars PROVE SentInv'
  OBVIOUS
<1>0. /\ passwd \in Seq(STRING) /\ image \in Seq(STRING) /\ IsRequest(req)
      /\ at \in {"nothing", "start", "login", "cleanup", "upload"} /\ Framed
      /\ at \in {"login", "cleanup", "upload"} => phpsessid # ""
  BY DEF SentInv
<1>1. CASE AskStart
  <2>1. phpsessid' = phpsessid /\ passwd' = passwd /\ image' = image
    BY <1>1 DEF AskStart
  <2>2. SendRequest(genRequest(NewRequest, <<"/start.php">>, <<>>), "GET", {"nothing"}, "start")
    BY <1>1 DEF AskStart, doGet
  <2>3. at' = "start" /\ IsRequest(req') /\ Framed'
    <3>1. "start" # "nothing" /\ "start" # "upload"
      OBVIOUS
    <3> QED
      BY <2>1, <2>2, <3>1, NewIsRequest, GeneratedFramed, Zenon
  <2> QED
    BY <1>0, <2>1, <2>3 DEF SentInv
<1>2. CASE GrepCookie
  <2>1. at = "start" /\ UNCHANGED <<passwd, image, req, at, wire>>
    BY <1>2 DEF GrepCookie
  <2>2. Framed'
    BY <1>0, <2>1 DEF Framed
  <2> QED
    BY <1>0, <2>1, <2>2 DEF SentInv
<1>3. CASE AskLogin
  <2>1. phpsessid # "" /\ phpsessid' = phpsessid /\ passwd' = passwd /\ image' = image
    BY <1>3 DEF AskLogin
  <2>2. SendRequest(genRequest(req, <<"/start.php">>, LoginForm), "POST", {"start"}, "login")
    BY <1>3 DEF AskLogin, doPost, LoginForm
  <2>3. at' = "login" /\ IsRequest(req') /\ wire'.body = BodyOf(req, LoginForm) /\ Framed'
    <3>1. "login" # "nothing" /\ "login" # "upload"
      OBVIOUS
    <3> QED
      BY <1>0, <2>1, <2>2, <3>1, GeneratedFramed, Zenon
  <2>4. LoginForm # <<>>
    BY <1>0, FormOfFour DEF LoginForm
  <2>5. wire'.body = LoginForm'
    BY <2>1, <2>3, <2>4 DEF BodyOf, LoginForm
  <2> QED
    BY <1>0, <2>1, <2>3, <2>5 DEF SentInv
<1>4. CASE AskCleanup
  <2>1. phpsessid # "" /\ phpsessid' = phpsessid /\ passwd' = passwd /\ image' = image
    BY <1>4 DEF AskCleanup
  <2>2. SendRequest(genRequest(NewRequest, <<"/setup.php?update_cleanup=1">>, <<>>),
                    "GET", {"start", "login"}, "cleanup")
    BY <1>4 DEF AskCleanup, doGet
  <2>3. at' = "cleanup" /\ IsRequest(req') /\ Framed'
    <3>1. "cleanup" # "nothing" /\ "cleanup" # "upload"
      OBVIOUS
    <3> QED
      BY <2>1, <2>2, <3>1, NewIsRequest, GeneratedFramed, Zenon
  <2> QED
    BY <1>0, <2>1, <2>3 DEF SentInv
<1>5. CASE AskUpload
  <2>1. phpsessid' = phpsessid /\ passwd' = passwd /\ image' \in Images
    BY <1>5 DEF AskUpload
  <2>2. PICK f : f = image'
    OBVIOUS
  <2>3. f \in Seq(STRING)
    BY <2>1, <2>2, RequestAssumption
  <2>4. PICK g : g = genRequest(req, <<"/mum-webservice/0/update.php">>, Form(f))
    OBVIOUS
  <2>5. IsRequest(g) /\ g.body = BodyOf(req, Form(f)) /\ SetOnce(g.headers, FormType)
    BY <1>0, <2>4, Generated, Zenon
  <2> DEFINE type == "multipart/form-data"
             multipart == set_header(erase(g.headers, "Content-Type"), "Content-Type", type)
  <2>6. SetOnce(multipart, type)
    BY <2>5, HeaderNames, OneValue DEF SetOnce, set_header, erase
  <2>7. PICK r : r = [g EXCEPT !.headers = multipart]
    OBVIOUS
  <2>8. IsRequest(r) /\ r.headers = multipart /\ r.body = g.body
    BY <2>5, <2>7 DEF IsRequest
  <2>9. SendRequest(r, "POST", {"cleanup"}, "upload")
    BY <1>5, <2>2, <2>4, <2>7 DEF AskUpload, doPost
  <2>10. at = "cleanup"
    BY <2>9 DEF SendRequest
  <2>11. SetOnce(r.headers, type) /\ phpsessid # ""
    BY <1>0, <2>6, <2>8, <2>10
  <2> HIDE DEF multipart
  <2>12. at' = "upload" /\ IsRequest(req') /\ wire'.body = r.body /\ Framed'
    <3>1. "upload" # "nothing" /\ type = IF "upload" = "upload" THEN "multipart/form-data" ELSE FormType
      OBVIOUS
    <3> HIDE DEF type
    <3> QED
      BY <2>1, <2>8, <2>9, <2>11, <3>1, SentFramed, Zenon
  <2>13. Form(f) # <<>>
    BY <2>3, FormOfParts DEF Form
  <2>14. wire'.body = Form(image')
    BY <2>2, <2>5, <2>8, <2>12, <2>13 DEF BodyOf
  <2> QED
    BY <1>0, <2>1, <2>2, <2>3, <2>10, <2>11, <2>12, <2>14 DEF SentInv
<1>6. CASE UNCHANGED requestVars
  <2>1. UNCHANGED <<passwd, image, phpsessid, req, at, wire>>
    BY <1>6 DEF requestVars
  <2> QED
    BY <2>1 DEF SentInv, Framed, LoginForm
<1> QED
  BY <1>1, <1>2, <1>3, <1>4, <1>5, <1>6 DEF RequestNext

\* Whatever is typed as a password, whatever the image and the cookie are: the
\* requests are framed, the password arrives as it was typed unless it has
\* characters that mean something in a form, and the image unless the boundary is
\* part of it (UpdateFactory.cpp:214-218, 285-299, 334-354, Http.hpp:551-566,
\* 717-724).
THEOREM RequestCorrectness == RequestSpec => []RequestArrives
<1>1. SentInv => RequestArrives
  <2> SUFFICES ASSUME SentInv PROVE RequestArrives
    OBVIOUS
  <2>1. passwd \in Seq(STRING) /\ image \in Seq(STRING) /\ Framed
    BY DEF SentInv
  <2>2. at = "login" =>
          ((/\ ToSet(passwd) \cap {"&", "+"} = {}
            /\ \A i \in DOMAIN passwd : ~IsEscape(passwd, i))
             <=> FormDecoded(Between(wire.body, "password=", "&")) = passwd)
    <3>1. at = "login" => wire.body = <<"login=", "serial", "&", "password=">> \o passwd
      BY DEF SentInv, LoginForm
    <3> QED
      BY <2>1, <3>1, PasswordArrives, Zenon
  <2>3. at = "upload" =>
          (Boundary \notin ToSet(image) <=> Between(wire.body, "name=update_file", Boundary) = image)
    <3>1. at = "upload" => wire.body = Form(image)
      BY DEF SentInv
    <3> QED
      BY <2>1, <3>1, ImageArrives, Zenon
  <2> QED
    BY <2>1, <2>2, <2>3, Zenon DEF RequestArrives, Arrived
<1> QED
  BY <1>1, SentInit, SentStep, PTL DEF RequestSpec
=============================================================================
