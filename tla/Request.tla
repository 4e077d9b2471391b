------------------------------ MODULE Request ------------------------------
(***************************************************************************)
(* What UpdateFactory's requests look like: genRequest, doGet and doPost   *)
(* (UpdateFactory.cpp), which fill httplib's Request, and write_request    *)
(* (Http.hpp), which writes it to the device.                              *)
(*                                                                         *)
(* A body is a sequence of symbols: characters, or pieces of text that     *)
(* contain none of the special characters.  "9" is any hexadecimal digit,  *)
(* "'" any character that encode_url writes as a "%" and two of them.      *)
(***************************************************************************)
EXTENDS Integers, FiniteSets, SequencesExt

CONSTANTS
  Passwords,    \* what may be typed as a password
  Images,       \* what an update file may contain
  SessionIds,   \* what a device may set as its cookie
  LongIds       \* those for which the header is not shorter than BUFSIZ

ASSUME RequestAssumption == Passwords \subseteq Seq(STRING) /\ Images \subseteq Seq(STRING)

VARIABLES
  passwd, image,   \* of the object
  phpsessid,       \* empty until the device has set it
  req,             \* the Request that doAuth and doUpdate each use twice
  at,              \* the request that was written last
  wire             \* what was written

requestVars == <<passwd, image, phpsessid, req, at, wire>>

-----------------------------------------------------------------------------
(* httplib: the headers are a multimap, the values of each name in order. *)

FormType == "application/x-www-form-urlencoded"
HeaderName == {"Connection", "Content-Length", "Content-Type", "Cookie", "Host", FormType}

NoHeaders == [name \in HeaderName |-> <<>>]
set_header(headers, name, value) == [headers EXCEPT ![name] = Append(@, value)]
erase(headers, name) == [headers EXCEPT ![name] = <<>>]
has_header(headers, name) == headers[name] # <<>>
get_header_value(headers, name, default) ==
  IF has_header(headers, name) THEN Head(headers[name]) ELSE default

\* Up to the first NUL, where a C string ends.
CString(s) == SubSeq(s, 1, (CHOOSE i \in 1..(Len(s) + 1) :
                              /\ i = Len(s) + 1 \/ s[i] = "NUL"
                              /\ \A k \in 1..(i - 1) : s[k] # "NUL") - 1)

EncodedChar(c) == CASE c = " " -> <<"+">> [] c = "'" -> <<"%", "9", "9">> [] OTHER -> <<c>>

encode_url(s) == FlattenSeq([i \in DOMAIN CString(s) |-> EncodedChar(s[i])])

\* socket_printf writes nothing at all if the line does not fit its buffer; there
\* is one cookie at most.
Fitting(ids) == IF \E i \in DOMAIN ids : ids[i] \in LongIds THEN <<>> ELSE ids

write_headers(r) ==
  [name \in HeaderName |->
     CASE name = "Connection" -> <<"close">> \o r.headers[name]
       [] name = "Content-Type" -> <<get_header_value(r.headers, name, "text/plain")>>
       [] name = "Content-Length" -> <<Len(r.body)>>
       [] name = "Cookie" -> Fitting(r.headers[name])
       [] OTHER -> r.headers[name]]

\* Mutant: the type of the body decides, as it was meant to.
BodyByType(r) ==
  IF get_header_value(r.headers, "Content-Type", "") = FormType
    THEN encode_url(r.body) ELSE r.body

\* The condition looks for a header that has the name of a type.
WrittenBody(r) ==
  IF has_header(r.headers, FormType) THEN encode_url(r.body) ELSE r.body

write_request(r) ==
  [method |-> r.method, path |-> encode_url(r.path),
   headers |-> write_headers(r), body |-> WrittenBody(r)]

-----------------------------------------------------------------------------
(* UpdateFactory                                                           *)

NewRequest == [method |-> "", path |-> <<>>, headers |-> NoHeaders, body |-> <<>>]

genRequest(r, path, body) ==
  LET typed == set_header(NoHeaders, "Content-Type", FormType)
      general == set_header(typed, "Host", "hostname")
      session == IF phpsessid = "" THEN general ELSE set_header(general, "Cookie", phpsessid)
  IN [r EXCEPT !.path = path,
               !.body = IF body = <<>> THEN @ ELSE body,
               !.headers = IF body = <<>> THEN session
                           ELSE set_header(session, "Content-Length", Len(body))]

SendRequest(r, method, from, to) ==
  /\ at \in from
  /\ at' = to
  /\ req' = [r EXCEPT !.method = method]
  /\ wire' = write_request(req')

doGet(r, from, to) == SendRequest(r, "GET", from, to)
doPost(r, from, to) == SendRequest(r, "POST", from, to)

RequestInit ==
  /\ passwd \in Passwords
  /\ image = <<>>
  /\ phpsessid = ""
  /\ req = NewRequest
  /\ at = "nothing"
  /\ wire = NewRequest

\* doAuth asks without a cookie, ...
AskStart ==
  /\ doGet(genRequest(NewRequest, <<"/start.php">>, <<>>), {"nothing"}, "start")
  /\ UNCHANGED <<passwd, image, phpsessid>>

\* ... takes the one it gets ...
GrepCookie ==
  /\ at = "start" /\ phpsessid = ""
  /\ phpsessid' \in SessionIds
  /\ UNCHANGED <<passwd, image, req, at, wire>>

\* ... and logs in, if it must.
AskLogin ==
  /\ phpsessid # ""
  /\ doPost(genRequest(req, <<"/start.php">>, <<"login=", "serial", "&", "password=">> \o passwd),
            {"start"}, "login")
  /\ UNCHANGED <<passwd, image, phpsessid>>

\* doUpdate has a Request of its own.
AskCleanup ==
  /\ phpsessid # ""
  /\ doGet(genRequest(NewRequest, <<"/setup.php?update_cleanup=1">>, <<>>),
           {"start", "login"}, "cleanup")
  /\ UNCHANGED <<passwd, image, phpsessid>>

Boundary == "------WebKitFormBoundaryUPDATETOOL"

\* Mutant: genRequest for a C string.
FormOfCString(file) ==
  CString(<<Boundary, "name=update_file">> \o file \o <<Boundary, "name=update_install", Boundary>>)

Form(file) ==
  <<Boundary, "name=update_file">> \o file \o <<Boundary, "name=update_install", Boundary>>

AskUpload ==
  /\ image' \in Images
  /\ LET r == genRequest(req, <<"/mum-webservice/0/update.php">>, Form(image'))
         multipart == set_header(erase(r.headers, "Content-Type"),
                                 "Content-Type", "multipart/form-data")
     IN doPost([r EXCEPT !.headers = multipart], {"cleanup"}, "upload")
  /\ UNCHANGED <<passwd, phpsessid>>

RequestNext == AskStart \/ GrepCookie \/ AskLogin \/ AskCleanup \/ AskUpload
RequestSpec == RequestInit /\ [][RequestNext]_requestVars

-----------------------------------------------------------------------------
(* What a device makes of a body (external).                               *)

\* The symbols between the first of one kind and the next of another.
Between(s, from, to) ==
  LET i == CHOOSE k \in DOMAIN s : s[k] = from /\ \A l \in 1..(k - 1) : s[l] # from
      j == CHOOSE k \in (i + 1)..(Len(s) + 1) :
             /\ k = Len(s) + 1 \/ s[k] = to
             /\ \A l \in (i + 1)..(k - 1) : s[l] # to
  IN SubSeq(s, i + 1, j - 1)

IsEscape(s, i) == /\ i \in 1..(Len(s) - 2)
                  /\ s[i] = "%" /\ s[i + 1] = "9" /\ s[i + 2] = "9"

\* The places that are not those of the digits of an escape.
Starts(s) == {i \in DOMAIN s : ~IsEscape(s, i - 1) /\ ~IsEscape(s, i - 2)}
Start(s, n) == CHOOSE i \in Starts(s) : Cardinality({k \in Starts(s) : k <= i}) = n

DecodedChar(s, i) ==
  CASE IsEscape(s, i) -> "'" [] ~IsEscape(s, i) /\ s[i] = "+" -> " " [] OTHER -> s[i]

FormDecoded(s) == [n \in 1..Cardinality(Starts(s)) |-> DecodedChar(s, Start(s, n))]

-----------------------------------------------------------------------------
Framed ==
  at # "nothing" =>
    /\ wire.headers["Host"] = <<"hostname">>
    /\ wire.headers["Content-Length"] = <<Len(wire.body)>>
    /\ wire.headers["Content-Type"] = <<IF at = "upload" THEN "multipart/form-data" ELSE FormType>>
    /\ at # "start" =>
         wire.headers["Cookie"] = IF phpsessid \in LongIds THEN <<>> ELSE <<phpsessid>>

Arrived ==
  /\ at = "login" =>
       (/\ ToSet(passwd) \cap {"&", "+"} = {}
        /\ \A i \in DOMAIN passwd : ~IsEscape(passwd, i))
         <=> FormDecoded(Between(wire.body, "password=", "&")) = passwd
  /\ at = "upload" =>
       Boundary \notin ToSet(image) <=> Between(wire.body, "name=update_file", Boundary) = image

\* A request can be told apart: each header is there once, the length is that of
\* the body, the type that of the form, and the session is named unless its
\* cookie is too long to be written (UpdateFactory.cpp:334-354, Http.hpp:279-290
\* and 551-566).  The password arrives as it was typed unless it has characters
\* that mean something in a form, because it is not encoded
\* (UpdateFactory.cpp:214-218, Http.hpp:717-724); the image arrives, with all its
\* NULs, unless the boundary is part of it (UpdateFactory.cpp:285-299).
RequestArrives == Framed /\ Arrived
=============================================================================
