----------------------------- MODULE HttpClient -----------------------------
(***************************************************************************)
(* httplib::Client::send (Http.hpp), as UpdateFactory calls it: a          *)
(* connection for each request, over a blocking stream socket.             *)
(*                                                                         *)
(* The device and the network are external.  The device reads, acts,       *)
(* answers, falls silent, closes the connection or resets it when it       *)
(* likes; it reports success only after it has got the whole request.      *)
(*                                                                         *)
(* What travels is cut into pieces.  A request is its head, which the      *)
(* network always has room for, and `size' pieces of body.  A line of the  *)
(* reply is its text and its end, so that it can be cut in between.        *)
(***************************************************************************)
EXTENDS Integers, SequencesExt

CONSTANTS Addresses,      \* how many addresses a host name has at most
          Sizes,          \* how long the body of a request may be
          Window,         \* how much of a request the network holds
          Replies,        \* what the device may answer
          NoAnswer

\* What ends a line; the text of a line is neither.
LineEnd == {"CRLF", "LF"}
Text    == STRING \ LineEnd
Piece   == Text \cup LineEnd

ASSUME HttpAssumption ==
  /\ Addresses \in Nat
  /\ Sizes \subseteq Nat
  /\ Window \in Nat \ {0}
  /\ Replies \subseteq [status : Text, headers : Seq(Text), body : Seq(Piece)]

VARIABLES
  pc,                     \* where send is
  posix,                  \* the build: for a POSIX system or for Windows
  candidates,             \* the addresses that are left to try
  sockets,                \* the number of open sockets
  sent,                   \* how much of the request has been sent
  got,                    \* how much of the reply has been received
  buf,                    \* the line that is being read
  res,                    \* the Response
  ok,                     \* what send returns
  device,                 \* the device's end of the connection (external)
  size,                   \* the length of the request's body
  received,               \* how much of the request the device has read
  acted,                  \* it has done what it is asked for
  reply,                  \* what it answers
  given                   \* how much of that it has sent

deviceVars == <<device, received, acted, given>>
chosenVars == <<posix, size, reply>>
readVars == <<got, buf, res>>
vars == <<pc, candidates, sockets, sent, readVars, ok, deviceVars, chosenVars>>

-----------------------------------------------------------------------------
Status == [s200 |-> 200, s302 |-> 302, s403 |-> 403, s500 |-> 500]
Success == {200, 302}

\* The Content-Length headers that std::stoi takes; "badlength" is one that it
\* does not take, and any other header is one the code does not look for here.
Length == [length0 |-> 0, length1 |-> 1, length2 |-> 2]

\* The lines, an empty one, and the body.
Lines == <<reply.status>> \o reply.headers
HeadLength == 2 * Len(Lines) + 1
Wire == [i \in 1..(HeadLength + Len(reply.body)) |->
           IF i > HeadLength THEN reply.body[i - HeadLength]
           ELSE IF i = HeadLength \/ i % 2 = 0 THEN "CRLF"
           ELSE Lines[(i + 1) \div 2]]

\* get_header_value_int: the first one with the name counts.
FirstLength(headers) ==
  SelectInSeq(headers, LAMBDA h : h \in DOMAIN Length \cup {"badlength"})

IsBadLength(headers) ==
  FirstLength(headers) # 0 /\ headers[FirstLength(headers)] = "badlength"

ContentLength(headers) ==
  IF FirstLength(headers) = 0 \/ IsBadLength(headers)
    THEN 0 ELSE Length[headers[FirstLength(headers)]]

NoResponse == [status |-> -1, headers |-> <<>>, body |-> <<>>]

Init ==
  /\ pc = "idle"
  /\ posix \in BOOLEAN
  /\ candidates \in 0..Addresses
  /\ sockets = 0
  /\ sent = 0 /\ got = 0 /\ buf = <<>>
  /\ res = NoResponse
  /\ ok = FALSE
  /\ device = "none"
  /\ size \in Sizes
  /\ received = 0 /\ acted = FALSE
  /\ reply \in Replies
  /\ given = 0

\* send's result, before the socket is closed.
Result(r) == pc' = "close" /\ ok' = r

-----------------------------------------------------------------------------
(* create_client_socket                                                    *)

Ask ==
  /\ pc = "idle"
  /\ pc' = "resolve"
  /\ UNCHANGED <<candidates, sockets, sent, readVars, ok, deviceVars>>

\* socket() for the next address; it may fail.
OpenSocket ==
  /\ pc = "resolve"
  /\ candidates > 0
  /\ candidates' = candidates - 1
  /\ \/ pc' = "connect" /\ sockets' = sockets + 1
     \/ UNCHANGED <<pc, sockets>>
  /\ UNCHANGED <<sent, readVars, ok, deviceVars>>

NoAddress ==
  /\ pc = "resolve"
  /\ candidates = 0
  /\ pc' = "returned" /\ ok' = FALSE
  /\ UNCHANGED <<candidates, sockets, sent, readVars, deviceVars>>

Connected ==
  /\ pc = "connect"
  /\ pc' = "write"
  /\ device' = "open"
  /\ UNCHANGED <<candidates, sockets, sent, readVars, ok, received, acted, given>>

\* Mutant: the socket of an address that does not answer stays open.
RefusedOpen ==
  /\ pc = "connect"
  /\ pc' = "resolve"
  /\ UNCHANGED <<candidates, sockets, sent, readVars, ok, deviceVars>>

Refused ==
  /\ pc = "connect"
  /\ pc' = "resolve"
  /\ sockets' = sockets - 1
  /\ UNCHANGED <<candidates, sent, readVars, ok, deviceVars>>

-----------------------------------------------------------------------------
(* write_request: what SocketStream::write returns is not looked at.       *)

\* Mutant: something is written after the body.
WriteTrailer ==
  /\ pc = "write"
  /\ device = "open"
  /\ sent - received < Window
  /\ sent' = sent + 1
  /\ pc' = IF sent' > 1 + size THEN "status" ELSE "write"
  /\ UNCHANGED <<candidates, sockets, readVars, ok, deviceVars>>

Write ==
  /\ pc = "write"
  /\ device = "open"
  /\ sent - received < Window
  /\ sent' = sent + 1
  /\ pc' = IF sent' = 1 + size THEN "status" ELSE "write"
  /\ UNCHANGED <<candidates, sockets, readVars, ok, deviceVars>>

\* Mutant: no timeout for sending.
WriteFailsGone ==
  /\ pc = "write"
  /\ device # "open"
  /\ pc' = "status"
  /\ UNCHANGED <<candidates, sockets, sent, readVars, ok, deviceVars>>

\* The device has gone, or does not take any more before the time is out.
\* setsockopt takes an int for SO_SNDTIMEO and SO_RCVTIMEO on Windows only; a
\* POSIX system wants a struct timeval and refuses it (external).
WriteFails ==
  /\ pc = "write"
  /\ device # "open" \/ (~posix /\ sent - received = Window)
  /\ pc' = "status"
  /\ UNCHANGED <<candidates, sockets, sent, readVars, ok, deviceVars>>

\* Only Server ignores SIGPIPE.
Killed ==
  /\ pc = "write"
  /\ posix /\ device # "open"
  /\ pc' = "killed"
  /\ UNCHANGED <<candidates, sockets, sent, readVars, ok, deviceVars>>

-----------------------------------------------------------------------------
(* Reading.  recv returns something, or less than 1.                       *)

Receives(n) == /\ device # "reset"
               /\ n \in 1..(given - got)
               /\ got' = got + n

\* The end of the connection, an error, or the time is out.
ReceivesNone == /\ \/ device = "reset"
                   \/ device = "closed" /\ got = given
                   \/ ~posix /\ got = given
                /\ UNCHANGED got

\* socket_gets returns this line.
Gets(s) ==
  \/ /\ Receives(1)
     /\ Wire[got'] \in LineEnd
     /\ s = Append(buf, Wire[got'])
     /\ buf' = <<>>
  \/ ReceivesNone /\ buf # <<>> /\ s = buf /\ buf' = <<>>

\* It goes on.
GetsByte ==
  /\ pc \in {"status", "headers"}
  /\ Receives(1)
  /\ Wire[got'] \notin LineEnd
  /\ buf' = Append(buf, Wire[got'])
  /\ UNCHANGED <<pc, candidates, sockets, sent, res, ok, deviceVars>>

\* It returns false.
GetsNothing ==
  /\ pc \in {"status", "headers"}
  /\ ReceivesNone /\ buf = <<>>
  /\ Result(FALSE)
  /\ UNCHANGED <<candidates, sockets, sent, buf, res, deviceVars>>

Line == {Append(buf, x) : x \in LineEnd} \cup {buf}

IsStatusLine(s) == /\ Len(s) = 2 /\ s[2] = "CRLF"
                   /\ s[1] \in DOMAIN Status

\* "badstatus" matches as well, with a number that is out of the range of int.
IsBadStatusLine(s) == s = <<"badstatus", "CRLF">>

\* read_response_line; a line that does not match leaves -1, and an exception of
\* std::stoi leaves send with its socket open.
read_response_line ==
  /\ pc = "status"
  /\ \E s \in Line :
       /\ Gets(s)
       /\ res' = [res EXCEPT !.status = IF IsStatusLine(s) THEN Status[s[1]] ELSE @]
       /\ pc' = IF IsBadStatusLine(s) THEN "threw" ELSE "headers"
  /\ UNCHANGED <<candidates, sockets, sent, ok, deviceVars>>

\* read_headers; a line that does not match is skipped.
read_headers ==
  /\ pc = "headers"
  /\ \E s \in Line :
       /\ Gets(s)
       /\ s # <<"CRLF">>
       /\ res' = [res EXCEPT !.headers =
                    IF Len(s) = 2 /\ s[2] = "CRLF" THEN Append(@, s[1]) ELSE @]
  /\ UNCHANGED <<pc, candidates, sockets, sent, ok, deviceVars>>

\* The empty line, and get_header_value_int: an exception of std::stoi or of
\* assign, too, leaves send with its socket open.
EmptyLine ==
  /\ pc = "headers"
  /\ Gets(<<"CRLF">>)
  /\ pc' = IF IsBadLength(res.headers) THEN "threw"
           ELSE IF ContentLength(res.headers) = 0 THEN "untilEnd" ELSE "content"
  /\ UNCHANGED <<candidates, sockets, sent, res, ok, deviceVars>>

\* Mutant: a body that is cut counts as well.
CutContent ==
  /\ pc = "content"
  /\ ReceivesNone
  /\ Result(TRUE)
  /\ UNCHANGED <<candidates, sockets, sent, buf, res, deviceVars>>

\* read_content fails.
ContentEnds ==
  /\ pc = "content"
  /\ ReceivesNone
  /\ Result(FALSE)
  /\ UNCHANGED <<candidates, sockets, sent, buf, res, deviceVars>>

\* Mutant: each recv asks for the whole body.
ContentWhole ==
  /\ pc = "content"
  /\ \E n \in 1..ContentLength(res.headers) :
       /\ Receives(n)
       /\ res' = [res EXCEPT !.body = @ \o SubSeq(Wire, got + 1, got + n)]
  /\ IF Len(res'.body) = ContentLength(res.headers)
       THEN Result(TRUE) ELSE UNCHANGED <<pc, ok>>
  /\ UNCHANGED <<candidates, sockets, sent, buf, deviceVars>>

\* read_content with a Content-Length.
Content ==
  /\ pc = "content"
  /\ \E n \in 1..(ContentLength(res.headers) - Len(res.body)) :
       /\ Receives(n)
       /\ res' = [res EXCEPT !.body = @ \o SubSeq(Wire, got + 1, got + n)]
  /\ IF Len(res'.body) = ContentLength(res.headers)
       THEN Result(TRUE) ELSE UNCHANGED <<pc, ok>>
  /\ UNCHANGED <<candidates, sockets, sent, buf, deviceVars>>

\* read_content without a Content-Length: what there is until nothing comes.
UntilEnd ==
  /\ pc = "untilEnd"
  /\ \/ /\ Receives(1)
        /\ res' = [res EXCEPT !.body = Append(@, Wire[got'])]
        /\ UNCHANGED <<pc, ok>>
     \/ ReceivesNone /\ Result(TRUE) /\ UNCHANGED res
  /\ UNCHANGED <<candidates, sockets, sent, buf, deviceVars>>

CloseSocket ==
  /\ pc = "close"
  /\ sockets' = sockets - 1
  /\ pc' = "returned"
  /\ UNCHANGED <<candidates, sent, readVars, ok, deviceVars>>

Send ==
  \/ Ask \/ OpenSocket \/ NoAddress \/ Connected \/ Refused
  \/ Write \/ WriteFails \/ Killed
  \/ GetsByte \/ GetsNothing \/ read_response_line \/ read_headers \/ EmptyLine
  \/ Content \/ ContentEnds \/ UntilEnd
  \/ CloseSocket

-----------------------------------------------------------------------------
(* The device (external).                                                  *)

DeviceReads ==
  /\ device = "open"
  /\ received < sent
  /\ received' = received + 1
  /\ UNCHANGED <<device, acted, given>>

\* Also when the client has given up.
DeviceActs ==
  /\ received = 1 + size
  /\ ~acted
  /\ acted' = TRUE
  /\ UNCHANGED <<device, received, given>>

\* A refusal may come before the whole request.
DeviceAnswers ==
  /\ device = "open"
  /\ received > 0
  /\ given < Len(Wire)
  /\ reply.status \in {"s200", "s302"} => acted
  /\ given' = given + 1
  /\ UNCHANGED <<device, received, acted>>

DeviceCloses ==
  /\ device = "open"
  /\ device' \in {"closed", "reset"}
  /\ UNCHANGED <<received, acted, given>>

Device ==
  /\ DeviceReads \/ DeviceActs \/ DeviceAnswers \/ DeviceCloses
  /\ UNCHANGED <<pc, candidates, sockets, sent, readVars, ok>>

Ended == pc \in {"returned", "threw", "killed"}

Next ==
  \/ Send /\ UNCHANGED chosenVars
  \/ Device /\ UNCHANGED chosenVars
  \/ Ended /\ UNCHANGED vars

\* The client runs; the device is never made to do anything.
Spec == Init /\ [][Next]_vars /\ WF_vars(Send /\ UNCHANGED chosenVars)

-----------------------------------------------------------------------------
TypeOK ==
  /\ pc \in {"idle", "resolve", "connect", "write", "status", "headers", "content",
             "untilEnd", "close", "returned", "threw", "killed"}
  /\ posix \in BOOLEAN
  /\ candidates \in 0..Addresses
  /\ sockets \in Nat
  /\ size \in Sizes
  /\ received \in 0..sent /\ sent \in received..(1 + size)
  /\ reply \in Replies
  /\ got \in 0..given /\ given \in 0..Len(Wire)
  /\ buf \in Seq(Piece)
  /\ res \in [status  : {-1} \cup {Status[s] : s \in DOMAIN Status},
              headers : Seq(Piece),
              body    : Seq(Piece)]
  /\ pc = "content" => Len(res.body) < ContentLength(res.headers)
  /\ ok \in BOOLEAN
  /\ device \in {"none", "open", "closed", "reset"}
  /\ acted \in BOOLEAN

\* Of the sockets that create_socket opens (Http.hpp:350-375) one at most is
\* open at a time; none is left of an address that refused, nor when send
\* returns, whatever it returns.  Of an exception nothing is asked: it passes
\* by close_socket today (Http.hpp:490), and may as well close its socket.
SocketsAreClosed ==
  /\ sockets <= 1
  /\ pc \in {"idle", "resolve", "returned"} => sockets = 0

Meant == [status |-> IF reply.status \in DOMAIN Status THEN Status[reply.status] ELSE -1,
          length |-> ContentLength(reply.headers),
          body   |-> reply.body]

\* Whatever the device does, and wherever the connection breaks, the caller
\* gets its reply, whole, or none; success only if the device has acted
\* (Http.hpp:1086-1103); and if SIGPIPE ends the program (Http.hpp:830-846),
\* the device has not got the whole request and never acts on it.
Promise == INSTANCE Exchange WITH
             request <- CASE pc = "idle" -> "idle"
                          [] pc = "killed" -> "killed"
                          [] pc \in {"returned", "threw"} -> "returned"
                          [] OTHER -> "asked",
             meant <- Meant,
             exact <- posix,
             answer <- IF pc = "returned" /\ ok
                         THEN [status |-> res.status, body |-> res.body] ELSE NoAnswer
ImplementsExchange == Promise!Spec

\* A request ends if the timeouts are in force, and anyway if the device closes
\* the connection (Http.hpp:360-363).
RequestEnds ==
  pc # "idle" /\ (~posix \/ device \in {"closed", "reset"}) ~> Ended
=============================================================================
