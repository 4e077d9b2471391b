--------------------------- MODULE UpdateFactory ---------------------------
(***************************************************************************)
(* class UpdateFactory (UpdateFactory.hpp, UpdateFactory.cpp): one object  *)
(* per update, and its conversation with a device (an EnergyManager) over  *)
(* HTTP.  Each request is a step, because other objects talk to the same   *)
(* or other devices in between.  The methods are called in an order that   *)
(* the program decides: UpdateJob models the worker threads, UpdateTool    *)
(* the command line program.                                               *)
(*                                                                         *)
(* The device is external.  What is assumed of it is what the code relies  *)
(* on: it reports its version truthfully, it takes an image only from a    *)
(* session that is logged in, and it answers 200 or 302 to an image only   *)
(* if it takes it.  It may answer anything else, its answers may get lost, *)
(* and it may forget its sessions.  An image that is sent and not answered *)
(* may be taken at any later moment, once (HttpClient shows why).          *)
(***************************************************************************)
EXTENDS Integers, FiniteSets, SequencesExt

CONSTANTS Session,      \* the UpdateFactory objects
          Device,       \* the destinations: host name and port
          NoObject,     \* an UpdateFactory that is not constructed
          Firmware,     \* the versions that devices start with
          Image         \* the update files, each named by its trailer's
                        \* version, or "missing" or "short"

ASSUME UpdateFactoryAssumption ==
  /\ IsFiniteSet(Session)
  /\ Firmware \subseteq STRING
  /\ Image \subseteq STRING

VARIABLES
  pc,          \* where the program is with each object
  uf,          \* the members of each object
  rv,          \* what its last method returned
  installed,   \* the version of each device (external)
  loggedIn,    \* the PHP sessions that are logged in (external)
  late,        \* the objects whose image was sent and not answered: the
               \* device may take it yet (external)
  installs,    \* history: the installations, in order
  readAt       \* history: the installations before each object read a version

vars == <<pc, uf, rv, installed, loggedIn, late, installs, readAt>>
deviceVars == <<installed, loggedIn, late, installs>>

-----------------------------------------------------------------------------
(* Versions.  A member of enum EMCVersion is written as its string.        *)

EMC_UNKNOWN == "Unknown"

version_map == <<"1.38", "1.39", "1.50", "1.50.1", "2.00", "2.01", "2.02",
                 "2.03", "2.04">>

EMCVersion == ToSet(version_map) \cup {EMC_UNKNOWN}

\* Mutant: a version that is not in the map is taken as it is.
AnyVersion(emc_version) == emc_version

mapEmcVersion(emc_version) ==
  IF emc_version \in ToSet(version_map) THEN emc_version ELSE EMC_UNKNOWN

isEmcVersionLowerThen(ver, check_ver) ==
  \E i, j \in DOMAIN version_map :
     version_map[i] = ver /\ version_map[j] = check_ver /\ i < j

UpdateError == {"UPDATE_OK", "UPDATE_HTTP_ERROR", "UPDATE_HTTP_NOT200",
                "UPDATE_HTTP_SID", "UPDATE_JSON_ERROR", "UPDATE_AUTH_ERROR",
                "UPDATE_VERSION", "UPDATE_FILE"}

-----------------------------------------------------------------------------
(* Session cookies.  Every start.php request without a cookie gets a new   *)
(* PHP session, named by the object that asked.                            *)

Cookie   == Session \X {"whole", "cut"}
NoCookie == <<>>

\* A Set-Cookie header with the session id: alone, or with attributes after
\* a semicolon; or none.
SetCookie == {"none", "bare", "attributes"}

\* Without a semicolon the last character is cut off.
grepCookie(setcookie, s) == <<s, IF setcookie = "bare" THEN "cut" ELSE "whole">>

(* The replies, as far as the code looks at them.                          *)
StartReply  == [status : {200, 500}, setcookie : SetCookie, json : BOOLEAN,
                authentication : BOOLEAN]
LoginReply  == [status : {200, 403, 500}, json : BOOLEAN, authentication : BOOLEAN]
UploadReply == {200, 302, 403, 500}

-----------------------------------------------------------------------------
\* An object as setDest, which begins with cleanup, setPass and setUpdateFile
\* leave it.
NewObject(dest, passwd, update_file) ==
  [dest |-> dest, passwd |-> passwd, update_file |-> update_file,
   phpsessid |-> NoCookie, authenticated |-> FALSE,
   mapped_emc_version |-> EMC_UNKNOWN, mapped_firmware_version |-> EMC_UNKNOWN,
   update_buffer |-> "none"]

Members ==
  [dest : Device, passwd : {"right", "wrong"}, update_file : Image,
   phpsessid : Cookie \cup {NoCookie}, authenticated : BOOLEAN,
   mapped_emc_version : EMCVersion, mapped_firmware_version : EMCVersion,
   update_buffer : Image \cup {"none"}]

Installation == [session : Session, device : Device,
                 old : Firmware \cup Image, new : Image]

Init ==
  /\ pc = [s \in Session |-> "new"]
  /\ uf = [s \in Session |-> NoObject]
  /\ rv = [s \in Session |-> "UPDATE_OK"]
  /\ installed \in [Device -> Firmware]
  /\ loggedIn = {}
  /\ late = {}
  /\ installs = <<>>
  /\ readAt = [s \in Session |-> 0]

To(s, to) == pc' = [pc EXCEPT ![s] = to]

Goto(s, from, to) ==
  /\ pc[s] = from
  /\ To(s, to)

\* A method returns.
Return(s, to, error) ==
  /\ To(s, to)
  /\ rv' = [rv EXCEPT ![s] = error]

\* An object is constructed and gets its destination, password and file.
SetDest(s, file, to) ==
  /\ Goto(s, "new", to)
  /\ \E dest \in Device, passwd \in {"right", "wrong"} :
       uf' = [uf EXCEPT ![s] = NewObject(dest, passwd, file)]
  /\ UNCHANGED <<rv, deviceVars, readAt>>

-----------------------------------------------------------------------------
(* doAuth                                                                  *)

AuthReturn(s, error) == Return(s, "authDone", error)

\* doGet fails: no connection, or no reply.
StartLost(s) ==
  /\ AuthReturn(s, "UPDATE_HTTP_ERROR")
  /\ UNCHANGED <<uf, deviceVars, readAt>>

\* A reply without a session id, or with another status than 200.
StartRefused(s, r) ==
  /\ \/ r.status # 200 /\ AuthReturn(s, "UPDATE_HTTP_NOT200")
     \/ r.status = 200 /\ r.setcookie = "none" /\ AuthReturn(s, "UPDATE_HTTP_SID")
  /\ UNCHANGED <<uf, readAt>>

\* A session id, but a body that is not JSON.
StartNoJson(s, r) ==
  /\ r.status = 200 /\ r.setcookie # "none" /\ ~r.json
  /\ uf' = [uf EXCEPT ![s].phpsessid = grepCookie(r.setcookie, s)]
  /\ AuthReturn(s, "UPDATE_JSON_ERROR")
  /\ UNCHANGED readAt

\* The version is read; without a login of its own the object is done.
StartRead(s, r) ==
  LET version == mapEmcVersion(installed[uf[s].dest])
  IN /\ r.status = 200 /\ r.setcookie # "none" /\ r.json
     /\ uf' = [uf EXCEPT ![s] =
                 [@ EXCEPT !.phpsessid = grepCookie(r.setcookie, s),
                           !.mapped_emc_version = version,
                           !.authenticated = r.authentication /\ version # EMC_UNKNOWN]]
     /\ \/ version = EMC_UNKNOWN /\ AuthReturn(s, "UPDATE_VERSION")
        \/ version # EMC_UNKNOWN /\ r.authentication /\ AuthReturn(s, "UPDATE_OK")
        \/ version # EMC_UNKNOWN /\ ~r.authentication /\ To(s, "login") /\ UNCHANGED rv
     /\ readAt' = [readAt EXCEPT ![s] = Len(installs)]

\* GET /start.php.  A device without a password logs the session in at once.
AuthStart(s) ==
  /\ pc[s] = "doAuth"
  /\ \/ StartLost(s)
     \/ \E r \in StartReply :
          /\ StartRefused(s, r) \/ StartNoJson(s, r) \/ StartRead(s, r)
          /\ loggedIn' = loggedIn \cup (IF r.authentication THEN {<<s, "whole">>} ELSE {})
          /\ UNCHANGED <<installed, late, installs>>

LoginRead(s, r) ==
  /\ r.status = 200 /\ r.json
  /\ uf' = [uf EXCEPT ![s].authenticated = r.authentication]
  /\ AuthReturn(s, "UPDATE_OK")

LoginFailed(s, r) ==
  /\ \/ AuthReturn(s, "UPDATE_HTTP_ERROR")            \* the reply is lost
     \/ r.status = 403 /\ AuthReturn(s, "UPDATE_AUTH_ERROR")
     \/ r.status = 500 /\ AuthReturn(s, "UPDATE_HTTP_NOT200")
     \/ r.status = 200 /\ ~r.json /\ AuthReturn(s, "UPDATE_JSON_ERROR")
  /\ UNCHANGED uf

\* POST /start.php with the password.  The device logs in the session whose
\* cookie it gets.
AuthLogin(s) ==
  /\ pc[s] = "login"
  /\ \E r \in LoginReply :
       /\ LoginRead(s, r) \/ LoginFailed(s, r)
       /\ r.authentication => uf[s].passwd = "right" /\ r.status # 403
       /\ loggedIn' = loggedIn \cup (IF r.authentication THEN {uf[s].phpsessid} ELSE {})
  /\ UNCHANGED <<installed, late, installs, readAt>>

-----------------------------------------------------------------------------
(* loadUpdateFile                                                          *)

\* Mutant: the version is taken, the buffer is not.
LoadVersionOnly(s) ==
  /\ uf[s].update_file \notin {"missing", "short"}
  /\ uf' = [uf EXCEPT ![s].mapped_firmware_version = mapEmcVersion(uf[s].update_file)]
  /\ Return(s, "loadDone", "UPDATE_OK")

LoadFile(s) ==
  /\ uf[s].update_file \notin {"missing", "short"}
  /\ uf' = [uf EXCEPT ![s] =
              [@ EXCEPT !.update_buffer = uf[s].update_file,
                        !.mapped_firmware_version = mapEmcVersion(uf[s].update_file)]]
  /\ Return(s, "loadDone", "UPDATE_OK")

LoadFailed(s) ==
  /\ \/ uf[s].update_file = "missing" /\ Return(s, "loadDone", "UPDATE_FILE")
     \/ uf[s].update_file = "short" /\ Return(s, "loadDone", "UPDATE_VERSION")
  /\ UNCHANGED uf

loadUpdateFile(s) ==
  /\ pc[s] = "load"
  /\ LoadFile(s) \/ LoadFailed(s)
  /\ UNCHANGED <<deviceVars, readAt>>

-----------------------------------------------------------------------------
(* doUpdate                                                                *)

UpdateReturn(s, error) == Return(s, "updateDone", error)

VersionsKnown(s) == /\ uf[s].mapped_emc_version # EMC_UNKNOWN
                    /\ uf[s].mapped_firmware_version # EMC_UNKNOWN

\* What doUpdate checks before it sends anything.
Checked(s) ==
  CASE ~VersionsKnown(s) -> "UPDATE_VERSION"
    [] VersionsKnown(s) /\ ~uf[s].authenticated -> "UPDATE_AUTH_ERROR"
    [] OTHER -> "UPDATE_OK"

\* The checks, then GET /setup.php?update_cleanup=1.
UpdateCleanup(s) ==
  /\ pc[s] = "doUpdate"
  /\ \/ Checked(s) # "UPDATE_OK" /\ UpdateReturn(s, Checked(s))
     \/ /\ Checked(s) = "UPDATE_OK"
        /\ \E error \in {"UPDATE_HTTP_ERROR", "UPDATE_HTTP_NOT200", "UPDATE_JSON_ERROR"} :
             UpdateReturn(s, error)
     \/ Checked(s) = "UPDATE_OK" /\ To(s, "upload") /\ UNCHANGED rv
  /\ UNCHANGED <<uf, deviceVars, readAt>>

\* Mutant: default: break.
UploadAnyStatus(status) == IF status = 403 THEN "UPDATE_AUTH_ERROR" ELSE "UPDATE_OK"

\* What doUpdate makes of the status: 302 is as good as 200.
UploadResult(status) ==
  CASE status = 403 -> "UPDATE_AUTH_ERROR"
    [] status \in {200, 302} -> "UPDATE_OK"
    [] OTHER -> "UPDATE_HTTP_NOT200"

\* The device installs the image it has got (external).
Install(s) ==
  LET d == uf[s].dest
  IN /\ installed' = [installed EXCEPT ![d] = uf[s].update_buffer]
     /\ installs' = Append(installs, [session |-> s, device |-> d,
                                      old |-> installed[d], new |-> uf[s].update_buffer])

\* The device answers: 200 and 302 only if it has taken the image.
UploadAnswered(s) ==
  \E status \in UploadReply, takes \in BOOLEAN :
     /\ status \in {200, 302} => takes
     /\ takes => uf[s].phpsessid \in loggedIn /\ status # 403
     /\ IF takes THEN Install(s) ELSE UNCHANGED <<installed, installs>>
     /\ UpdateReturn(s, UploadResult(status))
     /\ UNCHANGED late

\* No answer comes back, but the image may have arrived.
UploadLost(s) ==
  /\ late' = late \cup {s}
  /\ UpdateReturn(s, "UPDATE_HTTP_ERROR")
  /\ UNCHANGED <<installed, installs>>

\* POST /mum-webservice/0/update.php with the image.
UpdateUpload(s) ==
  /\ pc[s] = "upload"
  /\ UploadAnswered(s) \/ UploadLost(s)
  /\ UNCHANGED <<uf, loggedIn, readAt>>

-----------------------------------------------------------------------------
\* A device takes an image that nobody waits for any more.
LateInstall(s) ==
  /\ s \in late
  /\ uf[s].phpsessid \in loggedIn
  /\ Install(s)
  /\ late' = late \ {s}
  /\ UNCHANGED <<pc, uf, rv, loggedIn, readAt>>

\* A device forgets its sessions: it has restarted, or they have expired.
Forget(d) ==
  /\ loggedIn' = {c \in loggedIn : uf[c[1]].dest # d}
  /\ loggedIn' # loggedIn
  /\ UNCHANGED <<pc, uf, rv, installed, late, installs, readAt>>

\* What devices do by themselves.
DeviceNext == (\E d \in Device : Forget(d)) \/ (\E s \in Session : LateInstall(s))

\* A reply whose Content-Length or status std::stoi does not take: send throws
\* (pc = "threw" in HttpClient), and so does the method.  Whether the device has acted
\* is as open as after a reply that is lost; what it has logged in is the
\* session of an object that is no longer used.
MethodThrows(s) ==
  /\ \/ pc[s] \in {"doAuth", "login", "upload"}
     \/ pc[s] = "doUpdate" /\ Checked(s) = "UPDATE_OK"
  /\ To(s, "threw")
  /\ late' = IF pc[s] = "upload" THEN late \cup {s} ELSE late
  /\ UNCHANGED <<uf, rv, installed, loggedIn, installs, readAt>>

\* The methods of one object.
Method(s) ==
  \/ AuthStart(s)
  \/ AuthLogin(s)
  \/ loadUpdateFile(s)
  \/ UpdateCleanup(s)
  \/ UpdateUpload(s)
  \/ MethodThrows(s)

-----------------------------------------------------------------------------
\* Where the program is between the methods of an object, and inside them.
PC == {"new", "listed", "doAuth", "login", "authDone", "load", "loadDone",
       "doUpdate", "upload", "updateDone",
       "updated", "error", "badimage", "mismatch", "failed", "threw"}

TypeOK ==
  /\ pc \in [Session -> PC]
  /\ rv \in [Session -> UpdateError]
  /\ uf \in [Session -> {NoObject} \cup Members]
  /\ installed \in [Device -> Firmware \cup Image]
  /\ loggedIn \subseteq Cookie
  /\ late \subseteq Session
  /\ installs \in Seq(Installation)
  /\ readAt \in [Session -> Nat]

\* The sessions whose device has taken their image.
Took == {s \in Session : \E i \in DOMAIN installs : installs[i].session = s}

InstalledBy(s) ==
  \E i \in DOMAIN installs : /\ installs[i].session = s
                             /\ installs[i].device = uf[s].dest
                             /\ installs[i].new = uf[s].update_file

\* A session that is reported as a success has updated its device, with the
\* image that was named when it was submitted (JobQueue.cpp:136-149,
\* UpdateTool.cpp:123-125).
SuccessIsInstalled ==
  \A s \in Session : pc[s] = "updated" => InstalledBy(s)

\* The image is in memory whenever its version is known, so doUpdate never
\* takes the address of the first byte of an empty buffer
\* (UpdateFactory.cpp:252-255 and 295).
BufferIsLoaded ==
  \A s \in Session : pc[s] # "new" =>
     /\ uf[s].mapped_firmware_version # EMC_UNKNOWN =>
          uf[s].update_buffer = uf[s].mapped_firmware_version
     /\ pc[s] = "upload" => uf[s].update_buffer # "none"

\* A device is reset to an earlier version, or gets the one it has again, only
\* if another session has updated it after this one read its version: the
\* comparison (JobQueue.cpp:115, UpdateTool.cpp:116) is never wrong, it can
\* only be out of date.
Overtaken(i) ==
  \E k \in (readAt[installs[i].session] + 1)..(i-1) :
     installs[k].device = installs[i].device

OnlyOvertakenDowngrade ==
  \A i \in DOMAIN installs :
     isEmcVersionLowerThen(installs[i].old, installs[i].new) \/ Overtaken(i)

\* "compare REMOTE with UPDATE IMAGE firmware version" (JobQueue.cpp:114) and
\* "EnergyManager already updated to an equal or higher firmware version"
\* (UpdateFactory.cpp:89): an image is installed over lower versions only.
\* It does not hold for the worker threads, which compare side by side; for the
\* command line program UpdateTool says how much of it does.
NeverDowngrades ==
  \A i \in DOMAIN installs :
     isEmcVersionLowerThen(installs[i].old, installs[i].new)
=============================================================================
