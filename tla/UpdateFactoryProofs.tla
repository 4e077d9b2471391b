------------------------ MODULE UpdateFactoryProofs ------------------------
(***************************************************************************)
(* What the methods of UpdateFactory preserve, for every number of         *)
(* sessions and devices and whatever the devices answer.  UpdateJobProofs  *)
(* and UpdateToolProofs use it for the two programs.                       *)
(***************************************************************************)
EXTENDS UpdateFactory, SequenceLemmas, TLAPS

-----------------------------------------------------------------------------
(* The inductive invariant.                                                *)

\* What is known of a session that is at p, with the members u, the result e
\* and the version read after n installations.
BufferInv(u) ==
  u.mapped_firmware_version # EMC_UNKNOWN =>
     /\ u.update_buffer = u.mapped_firmware_version
     /\ u.update_buffer = u.update_file

ReadInv(u, n) ==
  u.mapped_emc_version # EMC_UNKNOWN =>
     /\ n <= Len(installs)
     /\ \/ u.mapped_emc_version = installed[u.dest]
        \/ \E k \in (n+1)..Len(installs) : installs[k].device = u.dest

SuccessInv(s, p, u, e) ==
  p = "updated" \/ (p = "updateDone" /\ e = "UPDATE_OK") =>
     \E i \in 1..Len(installs) : /\ installs[i].session = s
                                 /\ installs[i].device = u.dest
                                 /\ installs[i].new = u.update_file

SessionInv(s, p, u, e, n) ==
  /\ u \in Members
  /\ p = "login" => u.phpsessid \in Cookie
  /\ p \in {"doUpdate", "upload"} =>
        isEmcVersionLowerThen(u.mapped_emc_version, u.mapped_firmware_version)
  /\ BufferInv(u)
  /\ ReadInv(u, n)
  /\ SuccessInv(s, p, u, e)

\* A session is past its upload when it has installed something.
PastUpload == {"updateDone", "updated", "error", "failed", "threw"}

\* What is known of a session whose image was not answered and not taken.
LateSession(s, p, u, e) ==
  /\ p \in {"updateDone", "error", "failed", "threw"}
  /\ p = "updateDone" => e # "UPDATE_OK"
  /\ isEmcVersionLowerThen(u.mapped_emc_version, u.mapped_firmware_version)
  /\ \A i \in 1..Len(installs) : installs[i].session # s

LateInv == \A s \in late : LateSession(s, pc[s], uf[s], rv[s])

InstallsInv == \A i \in 1..Len(installs) : pc[installs[i].session] \in PastUpload

IndInv ==
  /\ TypeOK
  /\ \A s \in Session : pc[s] # "new" => SessionInv(s, pc[s], uf[s], rv[s], readAt[s])
  /\ LateInv
  /\ InstallsInv
  /\ OnlyOvertakenDowngrade

\* The versions that are compared are in the map.
LEMMA LowerIsKnown ==
  ASSUME NEW v, NEW w, isEmcVersionLowerThen(v, w)
  PROVE  v # EMC_UNKNOWN /\ w # EMC_UNKNOWN /\ v # "none" /\ w # "none"
<1>1. \A i \in DOMAIN version_map : version_map[i] # "Unknown" /\ version_map[i] # "none"
  BY DEF version_map
<1> QED
  BY <1>1 DEF isEmcVersionLowerThen, EMC_UNKNOWN

LEMMA MapVersion ==
  ASSUME NEW v
  PROVE  /\ mapEmcVersion(v) \in EMCVersion
         /\ mapEmcVersion(v) # EMC_UNKNOWN => mapEmcVersion(v) = v
BY DEF mapEmcVersion, EMCVersion

\* The version that is compared with an image is the device's own, or another
\* session has been there.
LEMMA LowerThanInstalled ==
  ASSUME IndInv, NEW s \in Session, pc[s] \in {"doUpdate", "upload"} \/ s \in late
  PROVE  /\ uf[s] \in Members
         /\ uf[s].mapped_emc_version # EMC_UNKNOWN
         /\ isEmcVersionLowerThen(uf[s].mapped_emc_version, uf[s].update_buffer)
         /\ uf[s].update_buffer = uf[s].update_file
         /\ uf[s].update_buffer \in Image
<1>1. SessionInv(s, pc[s], uf[s], rv[s], readAt[s])
  BY DEF IndInv, LateInv, LateSession
<1>2. isEmcVersionLowerThen(uf[s].mapped_emc_version, uf[s].mapped_firmware_version)
  BY <1>1 DEF SessionInv, IndInv, LateInv, LateSession
<1>3. uf[s] \in Members /\ BufferInv(uf[s])
  BY <1>1 DEF SessionInv
<1>4. uf[s].update_file \in Image
  BY <1>3 DEF Members
<1> QED
  BY <1>2, <1>3, <1>4, LowerIsKnown DEF BufferInv

\* The history of installations.
LEMMA InstallsType ==
  ASSUME TypeOK
  PROVE  /\ DOMAIN installs = 1..Len(installs) /\ Len(installs) \in Nat
         /\ \A i \in 1..Len(installs) : /\ installs[i] \in Installation
                                        /\ installs[i].session \in Session
<1>1. installs \in Seq(Installation)
  BY DEF TypeOK
<1>2. \A i \in 1..Len(installs) : installs[i] \in Installation
  BY <1>1
<1>3. \A r \in Installation : r.session \in Session
  BY DEF Installation
<1> QED
  BY <1>1, <1>2, <1>3

-----------------------------------------------------------------------------
\* A step of one session, to p, that installs nothing.
SessionMoves(s, p, u, e, n) ==
  /\ pc' = [pc EXCEPT ![s] = p]
  /\ uf' = [uf EXCEPT ![s] = u]
  /\ rv' = [rv EXCEPT ![s] = e]
  /\ readAt' = [readAt EXCEPT ![s] = n]
  /\ loggedIn' \in SUBSET Cookie
  /\ installed' = installed
  /\ installs' = installs
  /\ late' \subseteq late \cup {s}
  /\ pc[s] \in PastUpload => p \in PastUpload /\ n = readAt[s]

LEMMA SessionStep ==
  ASSUME IndInv, NEW s \in Session,
         NEW p \in PC, NEW u, NEW e \in UpdateError, NEW n \in Nat,
         SessionMoves(s, p, u, e, n),
         SessionInv(s, p, u, e, n),
         s \in late' => LateSession(s, p, u, e)
  PROVE  IndInv'
<1> USE DEF SessionMoves
<1>1. TypeOK
  BY DEF IndInv
<1>2. /\ pc'[s] = p /\ uf'[s] = u /\ rv'[s] = e /\ readAt'[s] = n
      /\ \A t \in Session \ {s} : /\ pc'[t] = pc[t] /\ uf'[t] = uf[t] /\ rv'[t] = rv[t]
                                  /\ readAt'[t] = readAt[t]
  BY <1>1 DEF TypeOK
<1>3. TypeOK'
  <2>1. u \in Members
    BY DEF SessionInv
  <2> QED
    BY <1>1, <2>1 DEF TypeOK
<1>4. ASSUME NEW t \in Session, pc'[t] # "new"
      PROVE  SessionInv(t, pc[t], uf[t], rv[t], readAt[t])'
  <2>1. SessionInv(t, pc'[t], uf'[t], rv'[t], readAt'[t])
    BY <1>2, <1>4 DEF IndInv
  <2> QED
    BY <2>1 DEF SessionInv, BufferInv, ReadInv, SuccessInv
<1>5. InstallsInv'
  BY <1>1, <1>2, InstallsType DEF IndInv, InstallsInv
<1>6. OnlyOvertakenDowngrade'
  <2>1. \A i \in DOMAIN installs : readAt'[installs[i].session] = readAt[installs[i].session]
    <3>1. \A i \in 1..Len(installs) : installs[i].session \in Session
      BY <1>1, InstallsType
    <3>2. \A i \in 1..Len(installs) : pc[installs[i].session] \in PastUpload
      BY DEF IndInv, InstallsInv
    <3>3. DOMAIN installs = 1..Len(installs)
      BY <1>1, InstallsType
    <3> QED
      BY <1>2, <3>1, <3>2, <3>3
  <2>2. OnlyOvertakenDowngrade
    BY DEF IndInv
  <2> QED
    BY <2>1, <2>2 DEF OnlyOvertakenDowngrade, Overtaken
<1>7. LateInv'
  <2>1. ASSUME NEW t \in late'
        PROVE  LateSession(t, pc'[t], uf'[t], rv'[t])
    <3>1. CASE t = s
      BY <1>2, <2>1, <3>1
    <3>2. CASE t # s
      <4>1. t \in late /\ t \in Session
        BY <1>1, <2>1, <3>2 DEF TypeOK
      <4> QED
        BY <1>2, <3>2, <4>1 DEF IndInv, LateInv
    <3> QED
      BY <3>1, <3>2
  <2> QED
    BY <2>1 DEF LateInv, LateSession
<1> QED
  BY <1>3, <1>4, <1>5, <1>6, <1>7 DEF IndInv

\* An unanswered image belongs to a session that is past its upload.
LEMMA LateIsPast ==
  ASSUME IndInv, NEW s \in late
  PROVE  pc[s] \in PastUpload /\ s \in Session
BY DEF IndInv, LateInv, LateSession, PastUpload, TypeOK

\* The program moves a session on and changes nothing else.
LEMMA MoveStep ==
  ASSUME IndInv, NEW s \in Session, NEW p \in PC,
         pc[s] # "new", To(s, p), UNCHANGED <<uf, rv, deviceVars, readAt>>,
         pc[s] \in PastUpload => p \in PastUpload,
         SessionInv(s, p, uf[s], rv[s], readAt[s]),
         s \in late => LateSession(s, p, uf[s], rv[s])
  PROVE  IndInv'
<1>1. TypeOK
  BY DEF IndInv
<1>2. rv[s] \in UpdateError /\ readAt[s] \in Nat
  BY <1>1 DEF TypeOK
<1>3. SessionMoves(s, p, uf[s], rv[s], readAt[s])
  BY <1>1 DEF SessionMoves, TypeOK, To, deviceVars
<1>4. late' = late
  BY DEF deviceVars
<1> QED
  BY <1>2, <1>3, <1>4, SessionStep

\* A step that changes only what the device knows of sessions.
LEMMA DeviceStep ==
  ASSUME IndInv, loggedIn' \in SUBSET Cookie,
         UNCHANGED <<pc, uf, rv, installed, late, installs, readAt>>
  PROVE  IndInv'
<1>1. TypeOK'
  BY DEF IndInv, TypeOK
<1>2. ASSUME NEW t \in Session, pc'[t] # "new"
      PROVE  SessionInv(t, pc[t], uf[t], rv[t], readAt[t])'
  BY <1>2 DEF IndInv, SessionInv, BufferInv, ReadInv, SuccessInv
<1>3. InstallsInv' /\ OnlyOvertakenDowngrade' /\ LateInv'
  BY DEF IndInv, InstallsInv, OnlyOvertakenDowngrade, Overtaken, LateInv, LateSession
<1> QED
  BY <1>1, <1>2, <1>3 DEF IndInv

\* The device of a session takes its image, at once or late.
LEMMA InstallStep ==
  ASSUME IndInv, NEW s \in Session, NEW p \in PastUpload, NEW e \in UpdateError,
         pc[s] = "upload" \/ s \in late, Install(s),
         pc' = [pc EXCEPT ![s] = p], rv' = [rv EXCEPT ![s] = e], late' = late \ {s},
         UNCHANGED <<uf, loggedIn, readAt>>
  PROVE  IndInv'
<1> DEFINE d == uf[s].dest
           N == Len(installs)
           entry == [session |-> s, device |-> d, old |-> installed[d], new |-> uf[s].update_buffer]
<1>1. TypeOK
  BY DEF IndInv
<1>2. /\ uf[s] \in Members /\ uf[s].mapped_emc_version # EMC_UNKNOWN
      /\ isEmcVersionLowerThen(uf[s].mapped_emc_version, uf[s].update_buffer)
      /\ uf[s].update_buffer = uf[s].update_file /\ uf[s].update_buffer \in Image
  BY LowerThanInstalled
<1>3. d \in Device /\ installed[d] \in Firmware \cup Image
  <2>1. d \in Device
    BY <1>2 DEF Members
  <2> QED
    BY <1>1, <2>1 DEF TypeOK
<1>4. entry \in Installation
  BY <1>2, <1>3 DEF Installation
<1>5. /\ installs' \in Seq(Installation)
      /\ Len(installs') = N + 1 /\ N \in Nat
      /\ DOMAIN installs = 1..N /\ DOMAIN installs' = 1..(N + 1)
      /\ \A i \in 1..N : installs'[i] = installs[i]
      /\ installs'[N + 1] = entry
  <2>1. installs \in Seq(Installation) /\ installs' = Append(installs, entry)
    BY <1>1 DEF TypeOK, Install
  <2> QED
    BY <1>4, <2>1, AppendProperties
<1>6. /\ pc'[s] = p /\ rv'[s] = e /\ p # "login" /\ p \notin {"doUpdate", "upload"}
      /\ \A t \in Session \ {s} : pc'[t] = pc[t] /\ rv'[t] = rv[t]
      /\ uf' = uf /\ readAt' = readAt
      /\ installed'[d] = uf[s].update_buffer
      /\ \A x \in Device \ {d} : installed'[x] = installed[x]
      /\ pc[s] # "new"
  BY <1>1, <1>3, LateIsPast DEF TypeOK, Install, PastUpload
<1>7. TypeOK'
  BY <1>1, <1>2, <1>3, <1>5 DEF TypeOK, Install, PC, PastUpload
<1>8. ASSUME NEW t \in Session, pc'[t] # "new"
      PROVE  SessionInv(t, pc[t], uf[t], rv[t], readAt[t])'
  <2>1. SessionInv(t, pc[t], uf[t], rv[t], readAt[t])
    BY <1>6, <1>8 DEF IndInv
  <2>2. uf[t].dest \in Device /\ readAt[t] \in Nat
    BY <1>1, <2>1 DEF SessionInv, Members, TypeOK
  <2>3. ReadInv(uf[t], readAt[t])'
    <3>1. ReadInv(uf[t], readAt[t])
      BY <2>1 DEF SessionInv
    <3>2. CASE uf[t].dest = d
      BY <1>5, <1>6, <2>2, <3>1, <3>2 DEF ReadInv
    <3>3. CASE uf[t].dest # d
      BY <1>5, <1>6, <2>2, <3>1, <3>3 DEF ReadInv
    <3> QED
      BY <3>2, <3>3
  <2>4. SuccessInv(t, pc[t], uf[t], rv[t])'
    <3>1. CASE t = s
      BY <1>2, <1>5, <1>6, <3>1 DEF SuccessInv
    <3>2. CASE t # s
      BY <1>5, <1>6, <2>1, <3>2 DEF SessionInv, SuccessInv
    <3> QED
      BY <3>1, <3>2
  <2>5. /\ uf'[t] \in Members /\ BufferInv(uf[t])'
        /\ pc'[t] = "login" => uf'[t].phpsessid \in Cookie
        /\ pc'[t] \in {"doUpdate", "upload"} =>
              isEmcVersionLowerThen(uf[t].mapped_emc_version, uf[t].mapped_firmware_version)'
    BY <1>6, <2>1 DEF SessionInv, BufferInv
  <2> QED
    BY <2>3, <2>4, <2>5 DEF SessionInv
<1>9. InstallsInv'
  <2>1. ASSUME NEW i \in 1..(N + 1)
        PROVE  pc'[installs'[i].session] \in PastUpload
    <3>1. CASE i = N + 1
      BY <1>5, <1>6, <3>1
    <3>2. CASE i \in 1..N
      <4>1. installs[i].session \in Session /\ pc[installs[i].session] \in PastUpload
        BY <1>1, <3>2, InstallsType DEF IndInv, InstallsInv
      <4> QED
        BY <1>5, <1>6, <3>2, <4>1
    <3> QED
      BY <1>5, <3>1, <3>2
  <2> QED
    BY <1>5, <2>1 DEF InstallsInv
<1>10. OnlyOvertakenDowngrade'
  <2>1. ASSUME NEW i \in 1..(N + 1)
        PROVE  isEmcVersionLowerThen(installs'[i].old, installs'[i].new) \/ Overtaken(i)'
    <3>1. CASE i \in 1..N
      <4>1. isEmcVersionLowerThen(installs[i].old, installs[i].new) \/ Overtaken(i)
        BY <1>5, <3>1 DEF IndInv, OnlyOvertakenDowngrade
      <4>2. readAt[installs[i].session] \in Nat
        BY <1>1, <3>1, InstallsType DEF TypeOK
      <4> QED
        BY <1>5, <1>6, <3>1, <4>1, <4>2 DEF Overtaken
    <3>2. CASE i = N + 1
      <4>1. readAt[s] \in Nat
        BY <1>1 DEF TypeOK
      <4>2. ReadInv(uf[s], readAt[s])
        BY <1>6 DEF IndInv, SessionInv
      <4>3. CASE uf[s].mapped_emc_version = installed[d]
        BY <1>2, <1>5, <3>2, <4>3
      <4>4. CASE \E k \in (readAt[s]+1)..N : installs[k].device = d
        BY <1>5, <1>6, <3>2, <4>1, <4>4 DEF Overtaken
      <4> QED
        BY <1>2, <4>2, <4>3, <4>4 DEF ReadInv
    <3> QED
      BY <1>5, <3>1, <3>2
  <2> QED
    BY <1>5, <2>1 DEF OnlyOvertakenDowngrade
<1>11. LateInv'
  <2>1. ASSUME NEW t \in late'
        PROVE  LateSession(t, pc[t], uf[t], rv[t])'
    <3>1. t \in Session /\ t # s /\ LateSession(t, pc[t], uf[t], rv[t])
      BY <1>1, <2>1 DEF IndInv, LateInv, TypeOK
    <3>2. \A i \in 1..(N + 1) : installs'[i].session # t
      BY <1>5, <3>1 DEF LateSession
    <3> QED
      BY <1>5, <1>6, <3>1, <3>2 DEF LateSession
  <2> QED
    BY <2>1 DEF LateInv
<1> QED
  BY <1>7, <1>8, <1>9, <1>10, <1>11 DEF IndInv

-----------------------------------------------------------------------------
\* No object is constructed at first.
LEMMA InitInv == Init => IndInv
<1> SUFFICES ASSUME Init PROVE IndInv
  OBVIOUS
<1>1. installs \in Seq(Installation) /\ Len(installs) = 0 /\ DOMAIN installs = {}
  BY DEF Init
<1>2. TypeOK
  BY <1>1 DEF Init, TypeOK, PC, UpdateError
<1>3. InstallsInv
  BY <1>1 DEF InstallsInv
<1>4. OnlyOvertakenDowngrade
  BY <1>1 DEF OnlyOvertakenDowngrade
<1>5. LateInv
  BY DEF Init, LateInv
<1> QED
  BY <1>2, <1>3, <1>4, <1>5 DEF IndInv, Init

\* An object is constructed.
LEMMA SetDestStep ==
  ASSUME IndInv, NEW s \in Session, NEW file \in Image, NEW to \in {"doAuth", "listed"},
         SetDest(s, file, to)
  PROVE  IndInv'
<1>1. TypeOK
  BY DEF IndInv
<1>2. PICK dest \in Device, passwd \in {"right", "wrong"} :
         uf' = [uf EXCEPT ![s] = NewObject(dest, passwd, file)]
  BY DEF SetDest
<1> DEFINE u == NewObject(dest, passwd, file)
<1>3. /\ u \in Members
      /\ u.mapped_emc_version = EMC_UNKNOWN /\ u.mapped_firmware_version = EMC_UNKNOWN
  BY DEF NewObject, Members, EMCVersion
<1>4. rv[s] \in UpdateError /\ readAt[s] \in Nat /\ to \in PC
  BY <1>1 DEF TypeOK, PC
<1>5. SessionInv(s, to, u, rv[s], readAt[s])
  BY <1>3 DEF SessionInv, BufferInv, ReadInv, SuccessInv
<1>6. pc[s] = "new" /\ "new" \notin PastUpload
  BY DEF SetDest, Goto, PastUpload
<1>7. late' = late /\ s \notin late
  BY <1>6, LateIsPast DEF SetDest, deviceVars
<1>8. SessionMoves(s, to, u, rv[s], readAt[s])
  <2> HIDE DEF u
  <2>1. pc' = [pc EXCEPT ![s] = to] /\ uf' = [uf EXCEPT ![s] = u]
    BY <1>2 DEF SetDest, Goto, To, u
  <2>2. UNCHANGED <<rv, installed, loggedIn, installs, readAt>>
    BY DEF SetDest, deviceVars
  <2> QED
    BY <1>1, <1>6, <1>7, <2>1, <2>2 DEF SessionMoves, TypeOK
<1> HIDE DEF u
<1> QED
  BY <1>4, <1>5, <1>6, <1>7, <1>8, SessionStep

\* GET /start.php.
LEMMA AuthStartStep ==
  ASSUME IndInv, NEW s \in Session, AuthStart(s)
  PROVE  IndInv'
<1>1. TypeOK /\ pc[s] = "doAuth"
  BY DEF IndInv, AuthStart
<1>2. /\ rv[s] \in UpdateError /\ readAt[s] \in Nat
      /\ "doAuth" \notin PastUpload /\ "authDone" \in PC /\ "login" \in PC
      /\ late' = late /\ s \notin late
  BY <1>1, LateIsPast DEF TypeOK, PC, PastUpload, AuthStart, StartLost, deviceVars
<1>3. SessionInv(s, "doAuth", uf[s], rv[s], readAt[s]) /\ uf[s] \in Members
  BY <1>1 DEF IndInv, SessionInv
<1>4. ASSUME NEW e \in UpdateError
      PROVE  SessionInv(s, "authDone", uf[s], e, readAt[s])
  BY <1>3 DEF SessionInv, SuccessInv
<1>5. CASE StartLost(s)
  <2>1. SessionMoves(s, "authDone", uf[s], "UPDATE_HTTP_ERROR", readAt[s])
    BY <1>1, <1>2, <1>5 DEF SessionMoves, StartLost, AuthReturn, Return, To, deviceVars, TypeOK
  <2>2. "UPDATE_HTTP_ERROR" \in UpdateError
    BY DEF UpdateError
  <2> QED
    BY <1>2, <1>4, <2>1, <2>2, SessionStep
<1>6. CASE ~StartLost(s)
  <2>1. PICK r \in StartReply :
          /\ StartRefused(s, r) \/ StartNoJson(s, r) \/ StartRead(s, r)
          /\ loggedIn' = loggedIn \cup (IF r.authentication THEN {<<s, "whole">>} ELSE {})
          /\ UNCHANGED <<installed, installs>>
    BY <1>6 DEF AuthStart
  <2>2. loggedIn' \in SUBSET Cookie /\ r.authentication \in BOOLEAN
    BY <1>1, <2>1 DEF TypeOK, Cookie, StartReply
  <2>3. grepCookie(r.setcookie, s) \in Cookie
    BY DEF grepCookie, Cookie
  <2>4. CASE StartRefused(s, r)
    <3>1. PICK e \in {"UPDATE_HTTP_NOT200", "UPDATE_HTTP_SID"} : AuthReturn(s, e)
      BY <2>4 DEF StartRefused
    <3>2. SessionMoves(s, "authDone", uf[s], e, readAt[s])
      BY <1>1, <1>2, <2>1, <2>2, <2>4, <3>1
      DEF SessionMoves, StartRefused, AuthReturn, Return, To, TypeOK
    <3>3. e \in UpdateError
      BY DEF UpdateError
    <3> QED
      BY <1>2, <1>4, <3>2, <3>3, SessionStep
  <2>5. CASE StartNoJson(s, r)
    <3> DEFINE u == [uf[s] EXCEPT !.phpsessid = grepCookie(r.setcookie, s)]
    <3>1. /\ u \in Members /\ u.dest = uf[s].dest
          /\ u.mapped_emc_version = uf[s].mapped_emc_version
          /\ BufferInv(u) = BufferInv(uf[s])
      BY <1>3, <2>3 DEF Members, BufferInv
    <3>2. SessionInv(s, "authDone", u, "UPDATE_JSON_ERROR", readAt[s])
      BY <1>3, <3>1 DEF SessionInv, SuccessInv, ReadInv
    <3>3. SessionMoves(s, "authDone", u, "UPDATE_JSON_ERROR", readAt[s])
      BY <1>1, <1>2, <2>1, <2>2, <2>5
      DEF SessionMoves, StartNoJson, AuthReturn, Return, To, TypeOK
    <3>4. "UPDATE_JSON_ERROR" \in UpdateError
      BY DEF UpdateError
    <3> HIDE DEF u
    <3> QED
      BY <1>2, <3>2, <3>3, <3>4, SessionStep
  <2>6. CASE StartRead(s, r)
    <3> DEFINE version == mapEmcVersion(installed[uf[s].dest])
               u == [uf[s] EXCEPT !.phpsessid = grepCookie(r.setcookie, s),
                                  !.mapped_emc_version = version,
                                  !.authenticated = r.authentication /\ version # EMC_UNKNOWN]
    <3>1. version \in EMCVersion /\ (version # EMC_UNKNOWN => version = installed[uf[s].dest])
      BY MapVersion
    <3> HIDE DEF version
    <3>2. /\ u \in Members /\ u.dest = uf[s].dest
          /\ u.mapped_emc_version = version
          /\ u.phpsessid \in Cookie
          /\ BufferInv(u) = BufferInv(uf[s])
      BY <1>3, <2>2, <2>3, <3>1 DEF Members, BufferInv
    <3>3. Len(installs) \in Nat
      BY <1>1, InstallsType
    <3>4. \E p \in {"authDone", "login"}, e \in UpdateError :
             SessionMoves(s, p, u, e, Len(installs))
      <4>1. /\ uf' = [uf EXCEPT ![s] = u] /\ readAt' = [readAt EXCEPT ![s] = Len(installs)]
            /\ installed' = installed /\ installs' = installs
        BY <2>1, <2>6 DEF StartRead, version
      <4>2. \E p \in {"authDone", "login"}, e \in UpdateError :
               pc' = [pc EXCEPT ![s] = p] /\ rv' = [rv EXCEPT ![s] = e]
        <5>1. CASE \E e \in {"UPDATE_VERSION", "UPDATE_OK"} : AuthReturn(s, e)
          BY <5>1 DEF AuthReturn, Return, To, UpdateError
        <5>2. CASE To(s, "login") /\ UNCHANGED rv
          <6>1. rv' = [rv EXCEPT ![s] = rv[s]]
            BY <1>1, <5>2 DEF TypeOK
          <6> QED
            BY <1>2, <5>2, <6>1 DEF To
        <5> QED
          BY <2>6, <5>1, <5>2 DEF StartRead
      <4> HIDE DEF u
      <4> QED
        BY <1>1, <1>2, <2>2, <4>1, <4>2 DEF SessionMoves
    <3>5. PICK p \in {"authDone", "login"}, e \in UpdateError :
             SessionMoves(s, p, u, e, Len(installs))
      BY <3>4
    <3>6. SessionInv(s, p, u, e, Len(installs))
      <4> HIDE DEF u
      <4>1. ReadInv(u, Len(installs))
        BY <3>1, <3>2, <3>3 DEF ReadInv
      <4> QED
        BY <1>3, <3>2, <4>1 DEF SessionInv, SuccessInv
    <3> HIDE DEF u
    <3> QED
      BY <1>2, <3>3, <3>5, <3>6, SessionStep
  <2> QED
    BY <2>1, <2>4, <2>5, <2>6
<1> QED
  BY <1>5, <1>6

\* POST /start.php.
LEMMA AuthLoginStep ==
  ASSUME IndInv, NEW s \in Session, AuthLogin(s)
  PROVE  IndInv'
<1>1. TypeOK /\ pc[s] = "login"
  BY DEF IndInv, AuthLogin
<1>2. /\ rv[s] \in UpdateError /\ readAt[s] \in Nat
      /\ "login" \notin PastUpload /\ "authDone" \in PC
      /\ late' = late /\ s \notin late
  BY <1>1, LateIsPast, ZenonT(40) DEF TypeOK, PC, PastUpload, AuthLogin
<1>3. /\ SessionInv(s, "login", uf[s], rv[s], readAt[s])
      /\ uf[s] \in Members /\ uf[s].phpsessid \in Cookie
  BY <1>1 DEF IndInv, SessionInv
<1>4. PICK r \in LoginReply :
        /\ LoginRead(s, r) \/ LoginFailed(s, r)
        /\ loggedIn' = loggedIn \cup (IF r.authentication THEN {uf[s].phpsessid} ELSE {})
  BY DEF AuthLogin
<1>5. /\ loggedIn' \in SUBSET Cookie /\ r.authentication \in BOOLEAN
      /\ UNCHANGED <<installed, installs, readAt>>
  BY <1>1, <1>3, <1>4 DEF TypeOK, LoginReply, AuthLogin
<1>6. CASE LoginRead(s, r)
  <2> DEFINE u == [uf[s] EXCEPT !.authenticated = r.authentication]
  <2>1. /\ u \in Members /\ u.dest = uf[s].dest
        /\ u.mapped_emc_version = uf[s].mapped_emc_version
        /\ BufferInv(u) = BufferInv(uf[s])
    BY <1>3, <1>5 DEF Members, BufferInv
  <2>2. SessionInv(s, "authDone", u, "UPDATE_OK", readAt[s])
    <3> HIDE DEF u
    <3> QED
      BY <1>3, <2>1 DEF SessionInv, SuccessInv, ReadInv
  <2>3. SessionMoves(s, "authDone", u, "UPDATE_OK", readAt[s])
    BY <1>1, <1>2, <1>5, <1>6
    DEF SessionMoves, LoginRead, AuthReturn, Return, To, TypeOK
  <2>4. "UPDATE_OK" \in UpdateError
    BY DEF UpdateError
  <2> HIDE DEF u
  <2> QED
    BY <1>2, <2>2, <2>3, <2>4, SessionStep
<1>7. CASE LoginFailed(s, r)
  <2>1. PICK e \in UpdateError : AuthReturn(s, e)
    BY <1>7 DEF LoginFailed, UpdateError
  <2>2. SessionInv(s, "authDone", uf[s], e, readAt[s])
    BY <1>3 DEF SessionInv, SuccessInv
  <2>3. SessionMoves(s, "authDone", uf[s], e, readAt[s])
    BY <1>1, <1>2, <1>5, <1>7, <2>1
    DEF SessionMoves, LoginFailed, AuthReturn, Return, To, TypeOK
  <2> QED
    BY <1>2, <2>2, <2>3, SessionStep
<1> QED
  BY <1>4, <1>6, <1>7

\* The image is read from its file.
LEMMA loadUpdateFileStep ==
  ASSUME IndInv, NEW s \in Session, loadUpdateFile(s)
  PROVE  IndInv'
<1>1. TypeOK /\ pc[s] = "load"
  BY DEF IndInv, loadUpdateFile
<1>2. /\ readAt[s] \in Nat /\ "load" \notin PastUpload /\ "loadDone" \in PC
      /\ UNCHANGED <<installed, loggedIn, late, installs, readAt>> /\ loggedIn \in SUBSET Cookie
      /\ s \notin late
  BY <1>1, LateIsPast DEF TypeOK, PC, PastUpload, loadUpdateFile, deviceVars
<1>3. SessionInv(s, "load", uf[s], rv[s], readAt[s]) /\ uf[s] \in Members
  BY <1>1 DEF IndInv, SessionInv
<1>4. CASE LoadFile(s)
  <2> DEFINE fw == mapEmcVersion(uf[s].update_file)
             u == [uf[s] EXCEPT !.update_buffer = uf[s].update_file,
                                !.mapped_firmware_version = fw]
  <2>1. fw \in EMCVersion /\ (fw # EMC_UNKNOWN => fw = uf[s].update_file)
    BY MapVersion
  <2>2. uf' = [uf EXCEPT ![s] = u]
    BY <1>4 DEF LoadFile
  <2> HIDE DEF fw
  <2>3. /\ u \in Members /\ u.dest = uf[s].dest
        /\ u.mapped_emc_version = uf[s].mapped_emc_version
        /\ u.mapped_firmware_version = fw
        /\ u.update_buffer = uf[s].update_file /\ u.update_file = uf[s].update_file
    BY <1>3, <2>1 DEF Members
  <2> HIDE DEF u
  <2>4. SessionInv(s, "loadDone", u, "UPDATE_OK", readAt[s])
    BY <1>3, <2>1, <2>3 DEF SessionInv, SuccessInv, ReadInv, BufferInv
  <2>5. SessionMoves(s, "loadDone", u, "UPDATE_OK", readAt[s])
    BY <1>1, <1>2, <1>4, <2>2 DEF SessionMoves, LoadFile, Return, To, TypeOK
  <2>6. "UPDATE_OK" \in UpdateError
    BY DEF UpdateError
  <2> QED
    BY <1>2, <2>4, <2>5, <2>6, SessionStep
<1>5. CASE LoadFailed(s)
  <2>1. PICK e \in UpdateError : Return(s, "loadDone", e)
    BY <1>5 DEF LoadFailed, UpdateError
  <2>2. SessionInv(s, "loadDone", uf[s], e, readAt[s])
    BY <1>3 DEF SessionInv, SuccessInv
  <2>3. SessionMoves(s, "loadDone", uf[s], e, readAt[s])
    BY <1>1, <1>2, <1>5, <2>1 DEF SessionMoves, LoadFailed, Return, To, TypeOK
  <2> QED
    BY <1>2, <2>2, <2>3, SessionStep
<1> QED
  BY <1>4, <1>5 DEF loadUpdateFile

\* The checks of doUpdate and its first request.
LEMMA UpdateCleanupStep ==
  ASSUME IndInv, NEW s \in Session, UpdateCleanup(s)
  PROVE  IndInv'
<1>1. TypeOK /\ pc[s] = "doUpdate"
  BY DEF IndInv, UpdateCleanup
<1>2. /\ readAt[s] \in Nat /\ rv[s] \in UpdateError
      /\ "doUpdate" \notin PastUpload /\ "updateDone" \in PC /\ "upload" \in PC
      /\ UNCHANGED <<uf, installed, loggedIn, late, installs, readAt>>
      /\ loggedIn \in SUBSET Cookie /\ s \notin late
  BY <1>1, LateIsPast DEF TypeOK, PC, PastUpload, UpdateCleanup, deviceVars
<1>3. SessionInv(s, "doUpdate", uf[s], rv[s], readAt[s])
  BY <1>1 DEF IndInv
<1>4. CASE To(s, "upload") /\ UNCHANGED rv
  <2>1. SessionInv(s, "upload", uf[s], rv[s], readAt[s])
    BY <1>3 DEF SessionInv, SuccessInv
  <2>2. SessionMoves(s, "upload", uf[s], rv[s], readAt[s])
    BY <1>1, <1>2, <1>4 DEF SessionMoves, To, TypeOK
  <2> QED
    BY <1>2, <2>1, <2>2, SessionStep
<1>5. CASE \E e \in UpdateError \ {"UPDATE_OK"} : UpdateReturn(s, e)
  <2>1. PICK e \in UpdateError \ {"UPDATE_OK"} : UpdateReturn(s, e)
    BY <1>5
  <2>2. SessionInv(s, "updateDone", uf[s], e, readAt[s])
    BY <1>3 DEF SessionInv, SuccessInv
  <2>3. SessionMoves(s, "updateDone", uf[s], e, readAt[s])
    BY <1>1, <1>2, <2>1 DEF SessionMoves, UpdateReturn, Return, To, TypeOK
  <2> QED
    BY <1>2, <2>2, <2>3, SessionStep
<1>6. Checked(s) # "UPDATE_OK" => Checked(s) \in UpdateError \ {"UPDATE_OK"}
  BY DEF Checked, UpdateError
<1> QED
  BY <1>4, <1>5, <1>6 DEF UpdateCleanup, UpdateError

\* The upload: doUpdate reports a success only if the device takes the image.
LEMMA UpdateUploadStep ==
  ASSUME IndInv, NEW s \in Session, UpdateUpload(s)
  PROVE  IndInv'
<1>1. TypeOK /\ pc[s] = "upload"
  BY DEF IndInv, UpdateUpload
<1>2. /\ readAt[s] \in Nat /\ "upload" \notin PastUpload /\ "updateDone" \in PC \cap PastUpload
      /\ UNCHANGED <<uf, loggedIn, readAt>> /\ loggedIn \in SUBSET Cookie
      /\ s \notin late
  BY <1>1, LateIsPast DEF TypeOK, PC, PastUpload, UpdateUpload
<1>3. SessionInv(s, "upload", uf[s], rv[s], readAt[s])
  BY <1>1 DEF IndInv
<1>4. CASE UploadAnswered(s)
  <2>1. PICK status \in UploadReply, takes \in BOOLEAN :
          /\ status \in {200, 302} => takes
          /\ IF takes THEN Install(s) ELSE UNCHANGED <<installed, installs>>
          /\ UpdateReturn(s, UploadResult(status))
          /\ UNCHANGED late
    BY <1>4 DEF UploadAnswered
  <2> DEFINE e == UploadResult(status)
  <2>2. e \in UpdateError /\ (e = "UPDATE_OK" => takes)
    BY <2>1 DEF UploadResult, UpdateError
  <2>3. pc' = [pc EXCEPT ![s] = "updateDone"] /\ rv' = [rv EXCEPT ![s] = e]
    BY <2>1 DEF UpdateReturn, Return, To
  <2> HIDE DEF e
  <2>4. CASE takes
    <3>1. late' = late \ {s}
      BY <1>2, <2>1
    <3> QED
      BY <1>1, <1>2, <2>1, <2>2, <2>3, <2>4, <3>1, InstallStep
  <2>5. CASE ~takes
    <3>1. SessionInv(s, "updateDone", uf[s], e, readAt[s])
      BY <1>3, <2>2, <2>5 DEF SessionInv, SuccessInv
    <3>2. SessionMoves(s, "updateDone", uf[s], e, readAt[s])
      BY <1>1, <1>2, <2>1, <2>3, <2>5 DEF SessionMoves, TypeOK
    <3> QED
      BY <1>2, <2>1, <2>2, <3>1, <3>2, SessionStep
  <2> QED
    BY <2>4, <2>5
<1>5. CASE UploadLost(s)
  <2> DEFINE e == "UPDATE_HTTP_ERROR"
  <2>1. SessionInv(s, "updateDone", uf[s], e, readAt[s])
    BY <1>3 DEF SessionInv, SuccessInv
  <2>2. SessionMoves(s, "updateDone", uf[s], e, readAt[s])
    BY <1>1, <1>2, <1>5 DEF SessionMoves, UploadLost, UpdateReturn, Return, To, TypeOK
  <2>3. LateSession(s, "updateDone", uf[s], e)
    <3>1. \A i \in 1..Len(installs) : installs[i].session # s
      BY <1>1, <1>2 DEF IndInv, InstallsInv
    <3> QED
      BY <1>3, <3>1 DEF LateSession, SessionInv
  <2>4. e \in UpdateError
    BY DEF UpdateError
  <2> QED
    BY <1>2, <2>1, <2>2, <2>3, <2>4, SessionStep
<1> QED
  BY <1>4, <1>5 DEF UpdateUpload

\* An exception may leave the image of an upload behind.
LEMMA MethodThrowsStep ==
  ASSUME IndInv, NEW s \in Session, MethodThrows(s)
  PROVE  IndInv'
<1>1. TypeOK /\ pc[s] \in {"doAuth", "login", "doUpdate", "upload"}
  BY DEF IndInv, MethodThrows
<1>2. /\ readAt[s] \in Nat /\ rv[s] \in UpdateError /\ loggedIn \in SUBSET Cookie
      /\ pc[s] \notin PastUpload /\ "threw" \in PC /\ s \notin late
  BY <1>1, LateIsPast DEF TypeOK, PC, PastUpload
<1>3. SessionInv(s, pc[s], uf[s], rv[s], readAt[s])
  BY <1>1 DEF IndInv
<1>4. SessionInv(s, "threw", uf[s], rv[s], readAt[s])
  BY <1>3 DEF SessionInv, SuccessInv
<1>5. SessionMoves(s, "threw", uf[s], rv[s], readAt[s])
  BY <1>1, <1>2 DEF SessionMoves, MethodThrows, To, TypeOK
<1>6. s \in late' => LateSession(s, "threw", uf[s], rv[s])
  <2>1. s \in late' => pc[s] = "upload"
    BY <1>2 DEF MethodThrows
  <2>2. \A i \in 1..Len(installs) : installs[i].session # s
    BY <1>1, <1>2 DEF IndInv, InstallsInv
  <2> QED
    BY <1>3, <2>1, <2>2 DEF LateSession, SessionInv
<1> QED
  BY <1>2, <1>4, <1>5, <1>6, SessionStep

\* Every method.
LEMMA MethodStep ==
  ASSUME IndInv, NEW s \in Session, Method(s)
  PROVE  IndInv'
BY AuthStartStep, AuthLoginStep, loadUpdateFileStep, UpdateCleanupStep, UpdateUploadStep,
   MethodThrowsStep
DEF Method

\* What devices do by themselves: they forget sessions and take images late.
LEMMA DeviceNextStep ==
  ASSUME IndInv, DeviceNext
  PROVE  IndInv'
<1>1. ASSUME NEW d \in Device, Forget(d) PROVE IndInv'
  <2>1. loggedIn' \in SUBSET Cookie
    BY <1>1 DEF IndInv, TypeOK, Forget
  <2> QED
    BY <1>1, <2>1, DeviceStep DEF Forget
<1>2. ASSUME NEW s \in Session, LateInstall(s) PROVE IndInv'
  <2>1. s \in late /\ pc[s] \in PastUpload
    BY <1>2, LateIsPast DEF LateInstall
  <2>2. rv[s] \in UpdateError /\ pc' = [pc EXCEPT ![s] = pc[s]] /\ rv' = [rv EXCEPT ![s] = rv[s]]
    BY <1>2 DEF LateInstall, IndInv, TypeOK
  <2>3. Install(s) /\ late' = late \ {s} /\ UNCHANGED <<uf, loggedIn, readAt>>
    BY <1>2 DEF LateInstall
  <2> QED
    BY <2>1, <2>2, <2>3, InstallStep
<1> QED
  BY <1>1, <1>2 DEF DeviceNext

-----------------------------------------------------------------------------
(* Which sessions have had their image taken.                              *)

\* A session whose image is taken had none taken before.
LEMMA TookGrows ==
  ASSUME IndInv, NEW s \in Session, Install(s), pc[s] = "upload" \/ s \in late
  PROVE  /\ s \notin Took /\ Took' = Took \cup {s}
         /\ Len(installs) \in Nat /\ Len(installs') = Len(installs) + 1
         /\ \A i \in 1..Len(installs) : installs'[i] = installs[i]
         /\ installs'[Len(installs) + 1] =
               [session |-> s, device |-> uf[s].dest,
                old |-> installed[uf[s].dest], new |-> uf[s].update_buffer]
         /\ installed' = [installed EXCEPT ![uf[s].dest] = uf[s].update_buffer]
         /\ DOMAIN installs = 1..Len(installs) /\ DOMAIN installs' = 1..(Len(installs) + 1)
<1> DEFINE N == Len(installs)
           entry == [session |-> s, device |-> uf[s].dest,
                     old |-> installed[uf[s].dest], new |-> uf[s].update_buffer]
<1>1. TypeOK
  BY DEF IndInv
<1>2. uf[s] \in Members /\ uf[s].update_buffer \in Image
  BY LowerThanInstalled
<1>3. uf[s].dest \in Device
  BY <1>2 DEF Members
<1>4. entry \in Installation
  BY <1>1, <1>2, <1>3 DEF Installation, TypeOK
<1>5. entry.session = s /\ installs' = Append(installs, entry) /\ installs \in Seq(Installation)
  BY <1>1 DEF Install, TypeOK
<1>6. installed' = [installed EXCEPT ![uf[s].dest] = uf[s].update_buffer]
  BY DEF Install
<1> HIDE DEF entry
<1>7. /\ Len(installs') = N + 1 /\ N \in Nat
      /\ DOMAIN installs = 1..N /\ DOMAIN installs' = 1..(N + 1)
      /\ \A i \in 1..N : installs'[i] = installs[i]
      /\ installs'[N + 1] = entry
  BY <1>4, <1>5, AppendProperties
<1>8. Took' = Took \cup {s}
  <2>1. Took' \subseteq Took \cup {s}
    BY <1>5, <1>7 DEF Took
  <2>2. (\A i \in 1..N : i \in 1..(N + 1)) /\ N + 1 \in 1..(N + 1)
    BY <1>7
  <2> QED
    BY <1>5, <1>7, <2>1, <2>2 DEF Took
<1>9. s \notin Took
  <2>1. CASE pc[s] = "upload"
    BY <1>7, <2>1 DEF Took, IndInv, InstallsInv, PastUpload
  <2>2. CASE s \in late
    BY <1>7, <2>2 DEF Took, IndInv, LateInv, LateSession
  <2> QED
    BY <2>1, <2>2
<1> QED
  BY <1>6, <1>7, <1>8, <1>9 DEF entry

\* A method leads to the place behind it or to its second request, or throws.
LEMMA MethodMoves ==
  ASSUME NEW s \in Session, Method(s)
  PROVE  /\ pc[s] \in {"doAuth", "login", "load", "doUpdate", "upload"}
         /\ \E p \in {"login", "authDone", "loadDone", "upload", "updateDone", "threw"} :
               pc' = [pc EXCEPT ![s] = p]
         /\ \/ UNCHANGED <<installed, installs>>
            \/ /\ pc[s] = "upload" /\ Install(s)
               /\ pc' = [pc EXCEPT ![s] = "updateDone"]
<1> USE DEF Return, To
<1>1. CASE AuthStart(s)
  <2>1. CASE StartLost(s)
    BY <1>1, <2>1 DEF AuthStart, StartLost, AuthReturn, deviceVars
  <2>2. CASE ~StartLost(s)
    <3>1. PICK r \in StartReply : /\ StartRefused(s, r) \/ StartNoJson(s, r) \/ StartRead(s, r)
                                  /\ UNCHANGED <<installed, installs>>
      BY <1>1, <2>2 DEF AuthStart
    <3> QED
      BY <1>1, <3>1 DEF AuthStart, StartRefused, StartNoJson, StartRead, AuthReturn
  <2> QED
    BY <2>1, <2>2
<1>2. CASE AuthLogin(s)
  <2>1. PICK r \in LoginReply : LoginRead(s, r) \/ LoginFailed(s, r)
    BY <1>2 DEF AuthLogin
  <2> QED
    BY <1>2, <2>1 DEF AuthLogin, LoginRead, LoginFailed, AuthReturn
<1>3. CASE loadUpdateFile(s)
  BY <1>3 DEF loadUpdateFile, LoadFile, LoadFailed, deviceVars
<1>4. CASE UpdateCleanup(s)
  BY <1>4 DEF UpdateCleanup, UpdateReturn, deviceVars
<1>5. CASE UpdateUpload(s)
  BY <1>5 DEF UpdateUpload, UploadAnswered, UploadLost, UpdateReturn
<1>6. CASE MethodThrows(s)
  BY <1>6 DEF MethodThrows
<1> QED
  BY <1>1, <1>2, <1>3, <1>4, <1>5, <1>6 DEF Method

-----------------------------------------------------------------------------
\* A step that changes nothing.
LEMMA StutterStep ==
  ASSUME IndInv, UNCHANGED vars
  PROVE  IndInv'
<1>1. loggedIn' \in SUBSET Cookie
  BY DEF IndInv, TypeOK, vars
<1> QED
  BY <1>1, DeviceStep DEF vars

\* What the invariant says of the properties.
LEMMA InvImplies ==
  ASSUME IndInv
  PROVE  TypeOK /\ SuccessIsInstalled /\ BufferIsLoaded /\ OnlyOvertakenDowngrade
<1>1. TypeOK /\ OnlyOvertakenDowngrade
  BY DEF IndInv
<1>2. DOMAIN installs = 1..Len(installs)
  BY <1>1, InstallsType
<1>3. SuccessIsInstalled
  BY <1>2 DEF IndInv, SessionInv, SuccessInv, SuccessIsInstalled, InstalledBy
<1>4. ASSUME NEW s \in Session, pc[s] # "new"
      PROVE  /\ uf[s].mapped_firmware_version # EMC_UNKNOWN =>
                  uf[s].update_buffer = uf[s].mapped_firmware_version
             /\ pc[s] = "upload" => uf[s].update_buffer # "none"
  <2>1. BufferInv(uf[s])
    BY <1>4 DEF IndInv, SessionInv
  <2>2. ASSUME pc[s] = "upload" PROVE uf[s].update_buffer # "none"
    BY <2>2, LowerThanInstalled, LowerIsKnown
  <2> QED
    BY <2>1, <2>2 DEF BufferInv
<1> QED
  BY <1>1, <1>3, <1>4 DEF BufferIsLoaded
=============================================================================
