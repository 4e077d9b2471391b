-------------------------- MODULE UpdateToolProofs --------------------------
(***************************************************************************)
(* The command line program, for any number of rows and devices.  Main     *)
(* updates one row after the other, so the version that a row compares is  *)
(* current when its image is sent, unless an image without an answer comes *)
(* late; and since all rows have one file, what comes late is a repeat.    *)
(***************************************************************************)
EXTENDS UpdateTool, UpdateFactoryProofs, FiniteSetTheorems

-----------------------------------------------------------------------------
(* The inductive invariant, with IndInv.                                   *)

\* At most one session talks to a device.
OneAtATime ==
  \A s, t \in Session :
     pc[s] \notin Over \cup {"new"} /\ pc[t] \notin Over \cup {"new"} => s = t

\* All rows have the same file, and a device that has taken it keeps it.
OneFile ==
  /\ \A s \in Session : pc[s] # "new" => uf[s].update_file = update_file
  /\ \A i \in 1..Len(installs) :
       LET e == installs[i]
       IN e.device = uf[e.session].dest /\ installed[e.device] = update_file

\* What is installed while a row is under way, after it has read the version
\* of its device, is its own image or one that came late.
OvertakenByLost ==
  \A s \in Session :
     /\ pc[s] = "listed" => uf[s].mapped_emc_version = EMC_UNKNOWN
     /\ pc[s] \notin Over \cup {"new"} /\ uf[s].mapped_emc_version # EMC_UNKNOWN =>
          \A k \in (readAt[s]+1)..Len(installs) :
             installs[k].session = s \/ pc[installs[k].session] = "failed"

\* What main has counted.
Counted ==
  /\ totalUpdates = Cardinality({s \in Session : pc[s] \notin {"new", "listed"}})
  /\ successUpdates = Cardinality({s \in Session : pc[s] = "updated"})
  /\ Len(installs) = Cardinality(Took)
  /\ printed => \A s \in Session : pc[s] \in Over \ {"listed"}

ToolInv ==
  /\ IndInv
  /\ update_file \in Image
  /\ printed \in BOOLEAN
  /\ OneAtATime
  /\ OneFile
  /\ OvertakenByLost
  /\ Counted
  /\ OnlyLostRepeats

Active(s) == pc[s] \notin Over \cup {"new"}

-----------------------------------------------------------------------------
(* The invariant of the methods.                                           *)

LEMMA MainStep ==
  ASSUME IndInv, NEW s \in Session, update_file \in Image,
         LoadUpdateFactory(s) \/ NextUpdate(s) \/ Authenticated(s) \/ Loaded(s) \/ Updated(s)
  PROVE  IndInv'
<1>1. CASE LoadUpdateFactory(s)
  BY <1>1, SetDestStep DEF LoadUpdateFactory
<1>2. ASSUME pc[s] # "new" PROVE SessionInv(s, pc[s], uf[s], rv[s], readAt[s])
  BY <1>2 DEF IndInv
<1>3. CASE NextUpdate(s)
  <2>1. /\ pc[s] = "listed" /\ "listed" \notin PastUpload /\ "doAuth" \in PC
        /\ To(s, "doAuth") /\ UNCHANGED <<uf, rv, deviceVars, readAt>>
    BY <1>3 DEF NextUpdate, Goto, PC, PastUpload
  <2>2. SessionInv(s, "doAuth", uf[s], rv[s], readAt[s])
    BY <1>2, <2>1 DEF SessionInv, SuccessInv
  <2> QED
    BY <2>1, <2>2, LateIsPast, MoveStep
<1>4. CASE Authenticated(s)
  <2>1. PICK p \in {"load", "failed"} : To(s, p)
    BY <1>4 DEF Authenticated
  <2>2. /\ pc[s] = "authDone" /\ "authDone" \notin PastUpload /\ p \in PC
        /\ UNCHANGED <<uf, rv, deviceVars, readAt>>
    BY <1>4 DEF Authenticated, PC, PastUpload
  <2>3. SessionInv(s, p, uf[s], rv[s], readAt[s])
    BY <1>2, <2>2 DEF SessionInv, SuccessInv
  <2> QED
    BY <2>1, <2>2, <2>3, LateIsPast, MoveStep
<1>5. CASE Loaded(s)
  <2>1. PICK p \in {"failed", "mismatch", "doUpdate"} :
          /\ To(s, p)
          /\ p = "doUpdate" => isEmcVersionLowerThen(uf[s].mapped_emc_version,
                                                     uf[s].mapped_firmware_version)
    BY <1>5 DEF Loaded
  <2>2. /\ pc[s] = "loadDone" /\ "loadDone" \notin PastUpload /\ p \in PC
        /\ UNCHANGED <<uf, rv, deviceVars, readAt>>
    BY <1>5 DEF Loaded, PC, PastUpload
  <2>3. SessionInv(s, p, uf[s], rv[s], readAt[s])
    BY <1>2, <2>1, <2>2 DEF SessionInv, SuccessInv
  <2> QED
    BY <2>1, <2>2, <2>3, LateIsPast, MoveStep
<1>6. CASE Updated(s)
  <2>1. PICK p \in {"updated", "failed"} : To(s, p) /\ (p = "updated" <=> rv[s] = "UPDATE_OK")
    BY <1>6 DEF Updated
  <2>2. /\ pc[s] = "updateDone" /\ p \in PastUpload /\ p \in PC
        /\ UNCHANGED <<uf, rv, deviceVars, readAt>>
    BY <1>6 DEF Updated, PC, PastUpload
  <2>3. SessionInv(s, p, uf[s], rv[s], readAt[s])
    BY <1>2, <2>1, <2>2 DEF SessionInv, SuccessInv
  <2>4. s \in late => LateSession(s, p, uf[s], rv[s])
    BY <2>1, <2>2 DEF IndInv, LateInv, LateSession
  <2> QED
    BY <2>1, <2>2, <2>3, <2>4, MoveStep
<1> QED
  BY <1>1, <1>3, <1>4, <1>5, <1>6

-----------------------------------------------------------------------------
(* What a step does to the list of rows.                                   *)

\* The row s goes to p with what it has read, if anything, just now or before.
RowMoves(s, p) ==
  /\ pc[s] \notin Over \ {"listed"}
  /\ pc' = [pc EXCEPT ![s] = p]
  /\ \A t \in Session \ {s} : uf'[t] = uf[t] /\ readAt'[t] = readAt[t]
  /\ uf'[s].update_file = update_file
  /\ pc[s] # "new" => uf'[s].dest = uf[s].dest
  /\ \/ uf'[s].mapped_emc_version = EMC_UNKNOWN
     \/ readAt'[s] = Len(installs)
     \/ /\ Active(s)
        /\ uf'[s].mapped_emc_version = uf[s].mapped_emc_version
        /\ readAt'[s] = readAt[s]
  /\ p = "listed" => uf'[s].mapped_emc_version = EMC_UNKNOWN
  /\ \/ UNCHANGED <<installed, installs>>
     \/ pc[s] = "upload" /\ p = "updateDone" /\ Install(s)

\* What a method does to the members of its object.
LEMMA MethodMembers ==
  ASSUME ToolInv, NEW s \in Session, Method(s)
  PROVE  /\ \A t \in Session \ {s} : uf'[t] = uf[t] /\ readAt'[t] = readAt[t]
         /\ uf'[s].update_file = uf[s].update_file /\ uf'[s].dest = uf[s].dest
         /\ \/ readAt'[s] = Len(installs)
            \/ /\ uf'[s].mapped_emc_version = uf[s].mapped_emc_version
               /\ readAt'[s] = readAt[s]
<1>1. TypeOK /\ uf[s] \in Members
  BY DEF ToolInv, IndInv, SessionInv, Method, AuthStart, AuthLogin, loadUpdateFile, UpdateCleanup,
         UpdateUpload, MethodThrows
<1>2. ASSUME UNCHANGED uf
      PROVE  /\ \A t \in Session \ {s} : uf'[t] = uf[t]
             /\ uf'[s] = uf[s]
  BY <1>2
<1>3. ASSUME NEW u, uf' = [uf EXCEPT ![s] = u]
      PROVE  uf'[s] = u /\ \A t \in Session \ {s} : uf'[t] = uf[t]
  BY <1>1, <1>3 DEF TypeOK
<1>4. ASSUME UNCHANGED readAt PROVE readAt'[s] = readAt[s] /\ \A t \in Session : readAt'[t] = readAt[t]
  BY <1>4
<1>5. CASE AuthStart(s)
  <2>1. CASE StartLost(s)
    BY <1>2, <1>4, <2>1 DEF StartLost
  <2>2. CASE ~StartLost(s)
    <3>1. PICK r \in StartReply : StartRefused(s, r) \/ StartNoJson(s, r) \/ StartRead(s, r)
      BY <1>5, <2>2 DEF AuthStart
    <3>2. CASE StartRefused(s, r)
      BY <1>2, <1>4, <3>2 DEF StartRefused
    <3>3. CASE StartNoJson(s, r)
      <4> DEFINE u == [uf[s] EXCEPT !.phpsessid = grepCookie(r.setcookie, s)]
      <4>1. /\ u.update_file = uf[s].update_file /\ u.dest = uf[s].dest
            /\ u.mapped_emc_version = uf[s].mapped_emc_version
        BY <1>1 DEF Members
      <4>2. uf' = [uf EXCEPT ![s] = u]
        BY <1>1, <3>3 DEF StartNoJson, TypeOK
      <4> HIDE DEF u
      <4> QED
        BY <1>3, <1>4, <3>3, <4>1, <4>2 DEF StartNoJson
    <3>4. CASE StartRead(s, r)
      <4> DEFINE version == mapEmcVersion(installed[uf[s].dest])
                 u == [uf[s] EXCEPT !.phpsessid = grepCookie(r.setcookie, s),
                                    !.mapped_emc_version = version,
                                    !.authenticated = r.authentication /\ version # EMC_UNKNOWN]
      <4>1. u.update_file = uf[s].update_file /\ u.dest = uf[s].dest
        BY <1>1 DEF Members
      <4>2. uf' = [uf EXCEPT ![s] = u] /\ readAt' = [readAt EXCEPT ![s] = Len(installs)]
        BY <3>4 DEF StartRead
      <4> HIDE DEF u
      <4> QED
        BY <1>1, <1>3, <4>1, <4>2 DEF TypeOK
    <3> QED
      BY <3>1, <3>2, <3>3, <3>4
  <2> QED
    BY <2>1, <2>2
<1>6. CASE AuthLogin(s)
  <2>1. PICK r \in LoginReply : LoginRead(s, r) \/ LoginFailed(s, r)
    BY <1>6 DEF AuthLogin
  <2>2. CASE LoginRead(s, r)
    <3> DEFINE u == [uf[s] EXCEPT !.authenticated = r.authentication]
    <3>1. /\ u.update_file = uf[s].update_file /\ u.dest = uf[s].dest
          /\ u.mapped_emc_version = uf[s].mapped_emc_version
      BY <1>1 DEF Members
    <3>2. uf' = [uf EXCEPT ![s] = u]
      BY <1>1, <2>2 DEF LoginRead, TypeOK
    <3> HIDE DEF u
    <3> QED
      BY <1>3, <1>4, <1>6, <3>1, <3>2 DEF AuthLogin
  <2>3. CASE LoginFailed(s, r)
    BY <1>2, <1>4, <1>6, <2>3 DEF LoginFailed, AuthLogin
  <2> QED
    BY <2>1, <2>2, <2>3
<1>7. CASE loadUpdateFile(s)
  <2>1. CASE LoadFile(s)
    <3> DEFINE u == [uf[s] EXCEPT !.update_buffer = uf[s].update_file,
                                  !.mapped_firmware_version = mapEmcVersion(uf[s].update_file)]
    <3>1. /\ u.update_file = uf[s].update_file /\ u.dest = uf[s].dest
          /\ u.mapped_emc_version = uf[s].mapped_emc_version
      BY <1>1 DEF Members
    <3>2. uf' = [uf EXCEPT ![s] = u]
      BY <2>1 DEF LoadFile
    <3> HIDE DEF u
    <3> QED
      BY <1>3, <1>4, <1>7, <3>1, <3>2 DEF loadUpdateFile
  <2>2. CASE LoadFailed(s)
    BY <1>2, <1>4, <1>7, <2>2 DEF LoadFailed, loadUpdateFile
  <2> QED
    BY <1>7, <2>1, <2>2 DEF loadUpdateFile
<1>8. CASE UpdateCleanup(s) \/ UpdateUpload(s) \/ MethodThrows(s)
  BY <1>2, <1>4, <1>8 DEF UpdateCleanup, UpdateUpload, MethodThrows
<1> QED
  BY <1>5, <1>6, <1>7, <1>8 DEF Method

LEMMA RowMethod ==
  ASSUME ToolInv, NEW s \in Session, Method(s)
  PROVE  \E p \in {"login", "authDone", "loadDone", "upload", "updateDone", "threw"} : RowMoves(s, p)
<1>1. PICK p \in {"login", "authDone", "loadDone", "upload", "updateDone", "threw"} :
        pc' = [pc EXCEPT ![s] = p]
  BY MethodMoves
<1>2. Active(s) /\ pc[s] # "new" /\ pc[s] \notin Over
  BY MethodMoves DEF Active, Over
<1>3. uf[s].update_file = update_file
  BY <1>2 DEF ToolInv, OneFile
<1>4. p = pc'[s] /\ [pc EXCEPT ![s] = "updateDone"][s] = "updateDone"
  BY <1>1 DEF ToolInv, IndInv, TypeOK
<1>5. \/ UNCHANGED <<installed, installs>>
      \/ pc[s] = "upload" /\ p = "updateDone" /\ Install(s)
  BY <1>4, MethodMoves
<1> QED
  BY <1>1, <1>2, <1>3, <1>5, MethodMembers DEF RowMoves

-----------------------------------------------------------------------------
(* One row after the other.                                                *)

\* A row that is sent over a version it does not raise repeats one whose
\* answer was lost.
LEMMA RepeatStep ==
  ASSUME ToolInv, NEW s \in Session, Install(s), pc[s] = "upload" \/ s \in late,
         \A t \in Session : pc[t] = "failed" => pc'[t] = "failed",
         \A t \in Session : pc[t] # "new" => uf'[t].dest = uf[t].dest
  PROVE  OnlyLostRepeats'
<1> DEFINE N == Len(installs)
           d == uf[s].dest
<1>1. TypeOK /\ IndInv /\ OneFile /\ OvertakenByLost /\ OnlyLostRepeats
  BY DEF ToolInv, IndInv
<1>2. /\ uf[s].mapped_emc_version # EMC_UNKNOWN
      /\ isEmcVersionLowerThen(uf[s].mapped_emc_version, uf[s].update_buffer)
      /\ uf[s].update_buffer = uf[s].update_file
  BY <1>1, LowerThanInstalled
<1>3. pc[s] # "new" /\ (pc[s] = "failed" \/ Active(s))
  BY <1>1 DEF IndInv, LateInv, LateSession, Active, Over
<1>4. uf[s].update_file = update_file
  BY <1>1, <1>3 DEF OneFile
<1>5. /\ s \notin Took /\ Took' = Took \cup {s} /\ N \in Nat
      /\ DOMAIN installs = 1..N /\ DOMAIN installs' = 1..(N + 1)
      /\ \A i \in 1..N : installs'[i] = installs[i]
      /\ installs'[N + 1].old = installed[d] /\ installs'[N + 1].new = update_file
      /\ installs'[N + 1].device = d
  <2>1. /\ s \notin Took /\ Took' = Took \cup {s} /\ N \in Nat
        /\ DOMAIN installs = 1..N /\ DOMAIN installs' = 1..(N + 1)
        /\ \A i \in 1..N : installs'[i] = installs[i]
    BY <1>1, TookGrows
  <2>2. installs'[N + 1] = [session |-> s, device |-> d, old |-> installed[d],
                            new |-> uf[s].update_buffer]
    BY <1>1, TookGrows
  <2> QED
    BY <1>2, <1>4, <2>1, <2>2
<1>6. ASSUME NEW t \in Took PROVE t \in Session /\ pc[t] # "new"
  BY <1>1, <1>5, <1>6 DEF Took, IndInv, InstallsInv, PastUpload
<1>7. ASSUME ~isEmcVersionLowerThen(installed[d], update_file)
      PROVE  /\ installed[d] = update_file
             /\ \E t \in Took \cup {s} : uf[t].dest = d /\ pc[t] = "failed"
  <2>1. ReadInv(uf[s], readAt[s]) /\ readAt[s] \in Nat
    BY <1>1, <1>3 DEF IndInv, SessionInv, TypeOK
  <2>2. PICK k \in (readAt[s]+1)..N : installs[k].device = d
    BY <1>2, <1>4, <1>7, <2>1 DEF ReadInv
  <2>3. k \in 1..N
    BY <1>5, <2>1
  <2>4. installed[d] = update_file /\ uf[installs[k].session].dest = d
    BY <1>1, <2>2, <2>3 DEF OneFile
  <2>5. installs[k].session \in Took
    BY <1>1, <1>5, <2>3, InstallsType DEF Took
  <2>6. pc[s] = "failed" \/ pc[installs[k].session] = "failed"
    <3>1. installs[k].session # s
      BY <1>5, <2>5
    <3> QED
      BY <1>1, <1>2, <1>3, <2>2, <3>1 DEF OvertakenByLost, Active
  <2> QED
    BY <2>4, <2>5, <2>6
<1>8. ASSUME NEW i \in 1..(N + 1)
      PROVE  \/ isEmcVersionLowerThen(installs'[i].old, installs'[i].new)
             \/ /\ installs'[i].old = installs'[i].new
                /\ \E t \in Took' : uf'[t].dest = installs'[i].device /\ pc'[t] = "failed"
  <2>1. CASE i \in 1..N
    BY <1>1, <1>5, <1>6, <2>1 DEF OnlyLostRepeats
  <2>2. CASE i = N + 1
    BY <1>3, <1>5, <1>6, <1>7, <2>2
  <2> QED
    BY <1>5, <2>1, <2>2
<1> QED
  BY <1>5, <1>8 DEF OnlyLostRepeats

\* What OneFile says after an installation.
LEMMA FileStep ==
  ASSUME ToolInv, NEW s \in Session, Install(s), pc[s] = "upload" \/ s \in late,
         \A t \in Session : pc'[t] # "new" => uf'[t].update_file = update_file,
         \A t \in Session : pc[t] # "new" => uf'[t].dest = uf[t].dest,
         update_file' = update_file
  PROVE  OneFile'
<1> DEFINE N == Len(installs)
           d == uf[s].dest
<1>1. TypeOK /\ IndInv /\ OneFile
  BY DEF ToolInv, IndInv
<1>2. uf[s].update_buffer = uf[s].update_file /\ d \in Device
  BY <1>1, LowerThanInstalled DEF Members
<1>3. pc[s] # "new"
  BY <1>1, LateIsPast DEF PastUpload
<1>4. /\ N \in Nat /\ Len(installs') = N + 1
      /\ \A i \in 1..N : installs'[i] = installs[i]
      /\ installs'[N + 1].session = s /\ installs'[N + 1].device = d
      /\ installed' = [installed EXCEPT ![d] = update_file]
  <2>1. /\ N \in Nat /\ Len(installs') = N + 1
        /\ \A i \in 1..N : installs'[i] = installs[i]
    BY <1>1, TookGrows
  <2>2. /\ installs'[N + 1] = [session |-> s, device |-> d, old |-> installed[d],
                               new |-> uf[s].update_buffer]
        /\ installed' = [installed EXCEPT ![d] = uf[s].update_buffer]
    BY <1>1, TookGrows
  <2>3. uf[s].update_buffer = update_file
    BY <1>1, <1>2, <1>3 DEF OneFile
  <2> QED
    BY <2>1, <2>2, <2>3
<1>5. ASSUME NEW i \in 1..(N + 1)
      PROVE  LET e == installs'[i]
             IN e.device = uf'[e.session].dest /\ installed'[e.device] = update_file
  <2>1. CASE i \in 1..N
    <3>1. /\ installs[i].session \in Session /\ pc[installs[i].session] # "new"
          /\ installs[i].device \in Device
      BY <1>1, <2>1, InstallsType DEF IndInv, InstallsInv, PastUpload, Installation
    <3>2. installed'[installs[i].device] = update_file
      BY <1>1, <1>4, <2>1, <3>1 DEF OneFile, TypeOK
    <3> QED
      BY <1>1, <1>4, <2>1, <3>1, <3>2 DEF OneFile
  <2>2. CASE i = N + 1
    BY <1>1, <1>2, <1>3, <1>4, <2>2 DEF TypeOK
  <2> QED
    BY <1>4, <2>1, <2>2
<1> QED
  BY <1>4, <1>5 DEF OneFile

\* What OvertakenByLost says of a row whose reading is not touched.
LEMMA OvertakenStep ==
  ASSUME ToolInv, NEW s \in Session,
         UNCHANGED <<installed, installs>> \/
           (Install(s) /\ (pc[s] = "upload" \/ s \in late)),
         \A x \in Session : pc[x] = "failed" => pc'[x] = "failed",
         NEW t \in Session, Active(t), readAt'[t] = readAt[t],
         uf'[t].mapped_emc_version = uf[t].mapped_emc_version,
         uf'[t].mapped_emc_version # EMC_UNKNOWN,
         NEW k \in (readAt'[t]+1)..Len(installs')
  PROVE  installs'[k].session = t \/ pc'[installs'[k].session] = "failed"
<1>1. TypeOK /\ IndInv /\ OvertakenByLost /\ OneAtATime
  BY DEF ToolInv, IndInv
<1>2. ASSUME NEW j \in (readAt[t]+1)..Len(installs)
      PROVE  installs[j].session = t \/ pc'[installs[j].session] = "failed"
  <2>1. readAt[t] \in Nat /\ Len(installs) \in Nat
    BY <1>1, InstallsType DEF TypeOK
  <2>2. installs[j].session \in Session
    BY <1>1, <2>1, InstallsType
  <2> QED
    BY <1>1, <1>2, <2>2 DEF OvertakenByLost, Active
<1>3. CASE UNCHANGED <<installed, installs>>
  BY <1>2, <1>3
<1>4. CASE Install(s) /\ (pc[s] = "upload" \/ s \in late)
  <2>1. /\ Len(installs) \in Nat /\ Len(installs') = Len(installs) + 1
        /\ \A i \in 1..Len(installs) : installs'[i] = installs[i]
        /\ installs'[Len(installs) + 1].session = s
    <3>1. installs'[Len(installs) + 1] =
            [session |-> s, device |-> uf[s].dest,
             old |-> installed[uf[s].dest], new |-> uf[s].update_buffer]
      BY <1>1, <1>4, TookGrows
    <3> QED
      BY <1>1, <1>4, <3>1, TookGrows
  <2>2. readAt[t] \in Nat
    BY <1>1 DEF TypeOK
  <2>3. CASE k \in (readAt[t]+1)..Len(installs)
    BY <1>2, <2>1, <2>2, <2>3
  <2>4. CASE k = Len(installs) + 1
    <3>1. pc[s] = "failed" \/ Active(s)
      BY <1>1, <1>4 DEF IndInv, LateInv, LateSession, Active, Over
    <3>2. pc[s] = "failed" \/ s = t
      BY <1>1, <3>1 DEF OneAtATime, Active
    <3> QED
      BY <2>1, <2>4, <3>2
  <2> QED
    BY <2>1, <2>2, <2>3, <2>4
<1> QED
  BY <1>3, <1>4

LEMMA RowStep ==
  ASSUME ToolInv, NEW s \in Session, NEW p \in PC \ {"new"}, RowMoves(s, p),
         update_file' = update_file,
         \/ Active(s) /\ p # "listed"
         \/ p \in Over
         \/ \A t \in Session : pc[t] \in Over
  PROVE  OneAtATime' /\ OneFile' /\ OvertakenByLost' /\ OnlyLostRepeats'
<1>1. IndInv /\ TypeOK /\ OneAtATime /\ OneFile /\ OvertakenByLost /\ OnlyLostRepeats
  BY DEF ToolInv, IndInv
<1>2. /\ pc'[s] = p /\ pc[s] # "failed"
      /\ \A t \in Session \ {s} : pc'[t] = pc[t] /\ uf'[t] = uf[t] /\ readAt'[t] = readAt[t]
  BY <1>1 DEF TypeOK, RowMoves, Over
<1>3. OneAtATime'
  BY <1>1, <1>2 DEF OneAtATime, Active
<1>4. /\ \A t \in Session : pc[t] = "failed" => pc'[t] = "failed"
      /\ \A t \in Session : pc[t] # "new" => uf'[t].dest = uf[t].dest
      /\ \A t \in Session : pc'[t] # "new" => uf'[t].update_file = update_file
  BY <1>1, <1>2 DEF RowMoves, OneFile
<1>5. OneFile' /\ OnlyLostRepeats'
  <2>1. CASE UNCHANGED <<installed, installs>>
    <3>1. \A i \in 1..Len(installs) : /\ installs[i].session \in Session
                                      /\ pc[installs[i].session] # "new"
      BY <1>1, InstallsType DEF IndInv, InstallsInv, PastUpload
    <3>2. OneFile'
      BY <1>1, <1>4, <2>1, <3>1 DEF OneFile
    <3>3. Took' = Took
      BY <2>1 DEF Took
    <3>4. \A t \in Took : t \in Session /\ pc[t] # "new"
      BY <1>1, <3>1, InstallsType DEF Took
    <3>5. OnlyLostRepeats'
      BY <1>1, <1>4, <2>1, <3>3, <3>4 DEF OnlyLostRepeats
    <3> QED
      BY <3>2, <3>5
  <2>2. CASE pc[s] = "upload" /\ Install(s)
    BY <1>4, <2>2, FileStep, RepeatStep
  <2> QED
    BY <2>1, <2>2 DEF RowMoves
<1>6. OvertakenByLost'
  <2>1. ASSUME NEW t \in Session
        PROVE  pc'[t] = "listed" => uf'[t].mapped_emc_version = EMC_UNKNOWN
    BY <1>1, <1>2 DEF OvertakenByLost, RowMoves
  <2>2. ASSUME NEW t \in Session, pc'[t] \notin Over \cup {"new"},
               uf'[t].mapped_emc_version # EMC_UNKNOWN,
               NEW k \in (readAt'[t]+1)..Len(installs')
        PROVE  installs'[k].session = t \/ pc'[installs'[k].session] = "failed"
    <3>1. UNCHANGED <<installed, installs>> \/ (Install(s) /\ (pc[s] = "upload" \/ s \in late))
      BY DEF RowMoves
    <3>2. CASE Active(t) /\ readAt'[t] = readAt[t]
               /\ uf'[t].mapped_emc_version = uf[t].mapped_emc_version
      BY <1>4, <2>2, <3>1, <3>2, OvertakenStep
    <3>3. CASE ~(Active(t) /\ readAt'[t] = readAt[t]
                 /\ uf'[t].mapped_emc_version = uf[t].mapped_emc_version)
      <4>1. t = s /\ readAt'[t] = Len(installs)
        BY <1>2, <2>2, <3>3 DEF RowMoves, Active
      <4>2. CASE UNCHANGED <<installed, installs>>
        BY <1>1, <2>2, <4>1, <4>2, InstallsType
      <4>3. CASE pc[s] = "upload" /\ Install(s)
        <5>1. /\ Len(installs) \in Nat /\ Len(installs') = Len(installs) + 1
              /\ installs'[Len(installs) + 1] =
                    [session |-> s, device |-> uf[s].dest,
                     old |-> installed[uf[s].dest], new |-> uf[s].update_buffer]
          BY <1>1, <4>3, TookGrows
        <5> QED
          BY <2>2, <4>1, <5>1
      <4> QED
        BY <4>2, <4>3 DEF RowMoves
    <3> QED
      BY <3>2, <3>3
  <2> QED
    BY <2>1, <2>2 DEF OvertakenByLost
<1> QED
  BY <1>3, <1>5, <1>6

-----------------------------------------------------------------------------
(* What main counts.                                                       *)

\* The rows that have been looked at, and the ones that are updated.
Started == {s \in Session : pc[s] \notin {"new", "listed"}}
Succeeded == {s \in Session : pc[s] = "updated"}

LEMMA SessionsAreFinite ==
  ASSUME NEW S \in SUBSET Session
  PROVE  IsFiniteSet(S) /\ Cardinality(S) \in Nat /\ Cardinality(S) <= Cardinality(Session)
BY UpdateFactoryAssumption, FS_Subset, FS_CardinalityType

LEMMA OneMore ==
  ASSUME NEW S \in SUBSET Session, NEW s \in Session \ S
  PROVE  Cardinality(S \cup {s}) = Cardinality(S) + 1
BY SessionsAreFinite, FS_AddElement

LEMMA CountedSets ==
  Counted <=> /\ totalUpdates = Cardinality(Started)
              /\ successUpdates = Cardinality(Succeeded)
              /\ Len(installs) = Cardinality(Took)
              /\ printed => \A s \in Session : pc[s] \in Over \ {"listed"}
BY DEF Counted, Started, Succeeded

\* Each installation is the first of its row.
LEMMA TookCounts ==
  ASSUME ToolInv, NEW s \in Session, Install(s), pc[s] = "upload" \/ s \in late
  PROVE  Len(installs') = Cardinality(Took')
<1>1. s \notin Took /\ Took' = Took \cup {s} /\ Len(installs') = Len(installs) + 1
  BY TookGrows DEF ToolInv
<1>2. Cardinality(Took \cup {s}) = Cardinality(Took) + 1
  BY <1>1, OneMore DEF Took
<1> QED
  BY <1>1, <1>2, CountedSets DEF ToolInv

LEMMA CountStep ==
  ASSUME ToolInv, NEW s \in Session, NEW p \in PC \ {"new"}, RowMoves(s, p),
         pc[s] \in {"new", "listed"} \/ p # "listed",
         totalUpdates' = IF pc[s] \in {"new", "listed"} /\ p # "listed"
                           THEN totalUpdates + 1 ELSE totalUpdates,
         successUpdates' = IF p = "updated" THEN successUpdates + 1 ELSE successUpdates,
         printed' = printed
  PROVE  Counted'
<1>1. TypeOK /\ Counted /\ InstallsInv
  BY DEF ToolInv, IndInv
<1>2. pc'[s] = p /\ \A t \in Session \ {s} : pc'[t] = pc[t]
  BY <1>1 DEF TypeOK, RowMoves
<1>3. totalUpdates' = Cardinality(Started')
  <2>1. CASE pc[s] \in {"new", "listed"} /\ p # "listed"
    <3>1. Started' = Started \cup {s} /\ s \notin Started /\ Started \in SUBSET Session
      BY <1>2, <2>1 DEF Started
    <3>2. Cardinality(Started \cup {s}) = Cardinality(Started) + 1
      BY <3>1, OneMore
    <3> QED
      BY <1>1, <2>1, <3>1, <3>2, CountedSets
  <2>2. CASE ~(pc[s] \in {"new", "listed"} /\ p # "listed")
    <3>1. Started' = Started
      BY <1>2, <2>2 DEF Started
    <3> QED
      BY <1>1, <2>2, <3>1, CountedSets
  <2> QED
    BY <2>1, <2>2
<1>4. successUpdates' = Cardinality(Succeeded')
  <2>1. CASE p = "updated"
    <3>1. Succeeded' = Succeeded \cup {s} /\ s \notin Succeeded /\ Succeeded \in SUBSET Session
      BY <1>2, <2>1 DEF Succeeded, Over, RowMoves
    <3>2. Cardinality(Succeeded \cup {s}) = Cardinality(Succeeded) + 1
      BY <3>1, OneMore
    <3> QED
      BY <1>1, <2>1, <3>1, <3>2, CountedSets
  <2>2. CASE p # "updated"
    <3>1. Succeeded' = Succeeded
      BY <1>2, <2>2 DEF Succeeded, Over, RowMoves
    <3> QED
      BY <1>1, <2>2, <3>1, CountedSets
  <2> QED
    BY <2>1, <2>2
<1>5. Len(installs') = Cardinality(Took')
  <2>1. CASE UNCHANGED <<installed, installs>>
    BY <1>1, <2>1, CountedSets DEF Took
  <2>2. CASE pc[s] = "upload" /\ Install(s)
    BY <1>1, <2>2, TookCounts
  <2> QED
    BY <2>1, <2>2 DEF RowMoves
<1>6. ~printed
  BY <1>1 DEF Counted, RowMoves
<1> QED
  BY <1>3, <1>4, <1>5, <1>6 DEF Counted, Started, Succeeded

-----------------------------------------------------------------------------
(* ToolInv is inductive.                                                   *)

LEMMA ToolInitInv == ToolInit => ToolInv
<1> SUFFICES ASSUME ToolInit PROVE ToolInv
  OBVIOUS
<1>1. Init /\ IndInv
  BY InitInv DEF ToolInit
<1>2. Started = {} /\ Succeeded = {} /\ Took = {} /\ Len(installs) = 0 /\ DOMAIN installs = {}
  BY <1>1 DEF Init, Started, Succeeded, Took
<1>3. OneAtATime /\ OneFile /\ OvertakenByLost
  BY <1>1, <1>2 DEF Init, OneAtATime, OneFile, OvertakenByLost
<1>4. Counted
  BY <1>2, CountedSets, FS_EmptySet DEF ToolInit
<1>5. OnlyLostRepeats
  BY <1>2 DEF OnlyLostRepeats
<1> QED
  BY <1>1, <1>3, <1>4, <1>5 DEF ToolInit, ToolInv

\* The steps of main and the methods it calls.
LEMMA RowActions ==
  ASSUME ToolInv, NEW s \in Session,
         \/ LoadUpdateFactory(s) \/ NextUpdate(s) \/ Call(s)
         \/ Authenticated(s) \/ Loaded(s) \/ Updated(s)
  PROVE  ToolInv'
<1>1. /\ TypeOK /\ IndInv /\ OneFile /\ OvertakenByLost
      /\ update_file \in Image /\ printed \in BOOLEAN
  BY DEF ToolInv, IndInv
<1>2. IndInv' /\ update_file' = update_file /\ printed' = printed
  BY <1>1, MainStep, MethodStep
  DEF LoadUpdateFactory, NextUpdate, Call, Authenticated, Loaded, Updated, mainVars
<1>3. ASSUME NEW p \in PC \ {"new"}, RowMoves(s, p),
             \/ Active(s) /\ p # "listed"
             \/ p \in Over
             \/ \A t \in Session : pc[t] \in Over,
             pc[s] \in {"new", "listed"} \/ p # "listed",
             totalUpdates' = IF pc[s] \in {"new", "listed"} /\ p # "listed"
                               THEN totalUpdates + 1 ELSE totalUpdates,
             successUpdates' = IF p = "updated" THEN successUpdates + 1 ELSE successUpdates
      PROVE  ToolInv'
  <2>1. OneAtATime' /\ OneFile' /\ OvertakenByLost' /\ OnlyLostRepeats'
    BY <1>2, <1>3, RowStep
  <2>2. Counted'
    BY <1>2, <1>3, CountStep
  <2> QED
    BY <1>1, <1>2, <2>1, <2>2 DEF ToolInv
<1>4. ASSUME pc[s] # "new" PROVE uf[s].update_file = update_file
  BY <1>1, <1>4 DEF OneFile
<1>5. CASE LoadUpdateFactory(s)
  <2>1. pc[s] = "new" /\ pc' = [pc EXCEPT ![s] = "listed"]
        /\ UNCHANGED <<installed, installs, readAt, totalUpdates, successUpdates>>
    BY <1>5 DEF LoadUpdateFactory, SetDest, Goto, To, deviceVars, mainVars
  <2>2. /\ uf'[s].mapped_emc_version = EMC_UNKNOWN /\ uf'[s].update_file = update_file
        /\ \A t \in Session \ {s} : uf'[t] = uf[t]
    BY <1>1, <1>5 DEF LoadUpdateFactory, SetDest, NewObject, TypeOK
  <2>3. RowMoves(s, "listed")
    BY <2>1, <2>2 DEF RowMoves, Over
  <2> QED
    BY <1>3, <2>1, <2>3 DEF PC, Over
<1>6. CASE NextUpdate(s)
  <2>1. /\ pc[s] = "listed" /\ pc' = [pc EXCEPT ![s] = "doAuth"]
        /\ totalUpdates' = totalUpdates + 1 /\ \A t \in Session : pc[t] \in Over
        /\ UNCHANGED <<uf, readAt, installed, installs, successUpdates>>
    BY <1>6 DEF NextUpdate, Goto, To, deviceVars
  <2>2. RowMoves(s, "doAuth")
    BY <1>1, <1>4, <2>1 DEF RowMoves, OvertakenByLost
  <2> QED
    BY <1>3, <2>1, <2>2 DEF PC
<1>7. CASE Call(s)
  <2>1. PICK p \in {"login", "authDone", "loadDone", "upload", "updateDone", "threw"} : RowMoves(s, p)
    BY <1>7, RowMethod DEF Call
  <2>2. Active(s) /\ pc[s] \notin {"new", "listed"}
    BY <1>7, MethodMoves DEF Call, Active, Over
  <2>3. UNCHANGED <<totalUpdates, successUpdates>>
    BY <1>7 DEF Call, mainVars
  <2> QED
    BY <1>3, <2>1, <2>2, <2>3 DEF PC
<1>8. CASE Authenticated(s) \/ Loaded(s) \/ Updated(s)
  <2>1. PICK p \in {"load", "failed", "mismatch", "doUpdate", "updated"} :
          /\ pc' = [pc EXCEPT ![s] = p]
          /\ successUpdates' = IF p = "updated" THEN successUpdates + 1 ELSE successUpdates
    BY <1>8 DEF Authenticated, Loaded, Updated, To, mainVars
  <2>2. /\ pc[s] \in {"authDone", "loadDone", "updateDone"}
        /\ UNCHANGED <<uf, readAt, installed, installs, totalUpdates>>
    BY <1>8 DEF Authenticated, Loaded, Updated, deviceVars, mainVars
  <2>3. Active(s) /\ pc[s] \notin Over /\ pc[s] # "new"
    BY <2>2 DEF Active, Over
  <2>4. RowMoves(s, p)
    BY <1>4, <2>1, <2>2, <2>3 DEF RowMoves
  <2> QED
    BY <1>3, <2>1, <2>2, <2>3, <2>4 DEF PC
<1> QED
  BY <1>5, <1>6, <1>7, <1>8

\* A device takes the image of a row that has failed.
LEMMA LateStep ==
  ASSUME ToolInv, NEW s \in Session, LateInstall(s), UNCHANGED <<mainVars, printed>>
  PROVE  ToolInv'
<1>1. IndInv'
  BY DeviceNextStep DEF DeviceNext, ToolInv
<1>2. /\ s \in late /\ Install(s)
      /\ UNCHANGED <<pc, uf, readAt, update_file, totalUpdates, successUpdates, printed>>
  BY DEF LateInstall, mainVars
<1>3. OneFile'
  BY <1>2, FileStep DEF ToolInv, OneFile
<1>4. OnlyLostRepeats'
  BY <1>2, RepeatStep
<1>5. OneAtATime'
  BY <1>2 DEF ToolInv, OneAtATime
<1>6. OvertakenByLost'
  <2>1. ASSUME NEW t \in Session, pc'[t] \notin Over \cup {"new"},
               uf'[t].mapped_emc_version # EMC_UNKNOWN,
               NEW k \in (readAt'[t]+1)..Len(installs')
        PROVE  installs'[k].session = t \/ pc'[installs'[k].session] = "failed"
    BY <1>2, <2>1, OvertakenStep DEF Active
  <2> QED
    BY <1>2, <2>1 DEF ToolInv, OvertakenByLost
<1>7. Counted'
  <2>1. Len(installs') = Cardinality(Took')
    BY <1>2, TookCounts
  <2> QED
    BY <1>2, <2>1 DEF ToolInv, Counted
<1> QED
  BY <1>1, <1>2, <1>3, <1>4, <1>5, <1>6, <1>7 DEF ToolInv

\* A device forgets, the summary is printed, or nothing happens.
LEMMA OtherActions ==
  ASSUME ToolInv,
         \/ \E d \in Device : Forget(d) /\ UNCHANGED <<mainVars, printed>>
         \/ Summary
         \/ UNCHANGED toolVars
  PROVE  ToolInv'
<1>1. IndInv'
  BY DeviceNextStep, StutterStep DEF DeviceNext, ToolInv, Summary, toolVars
<1>2. UNCHANGED <<pc, uf, installed, installs, readAt, update_file, totalUpdates, successUpdates>>
  BY DEF Forget, Summary, toolVars, vars, deviceVars, mainVars
<1>3. OneAtATime' /\ OneFile' /\ OvertakenByLost' /\ OnlyLostRepeats'
  BY <1>2 DEF ToolInv, OneAtATime, OneFile, OvertakenByLost, OnlyLostRepeats, Took
<1>4. printed' \in BOOLEAN /\ (printed' => printed \/ \A s \in Session : pc[s] \in Over \ {"listed"})
  <2>1. printed \in BOOLEAN
    BY DEF ToolInv
  <2>2. CASE Summary
    BY <2>2, Zenon DEF Summary
  <2>3. CASE printed' = printed
    BY <2>1, <2>3, Zenon
  <2>4. Summary \/ printed' = printed
    BY Zenon DEF toolVars
  <2> QED
    BY <2>2, <2>3, <2>4
<1>5. Counted'
  BY <1>2, <1>4 DEF ToolInv, Counted, Took
<1> QED
  BY <1>1, <1>2, <1>3, <1>4, <1>5 DEF ToolInv

\* ToolInv (UpdateTool) holds in every reachable state.
THEOREM Invariant == ToolSpec => []ToolInv
<1>1. ToolInv /\ [ToolNext]_toolVars => ToolInv'
  <2> SUFFICES ASSUME ToolInv, [ToolNext]_toolVars PROVE ToolInv'
    OBVIOUS
  <2>1. ASSUME NEW s \in Session,
               \/ LoadUpdateFactory(s) \/ NextUpdate(s) \/ Call(s)
               \/ Authenticated(s) \/ Loaded(s) \/ Updated(s)
        PROVE  ToolInv'
    BY <2>1, RowActions
  <2>2. CASE \/ \E d \in Device : Forget(d) /\ UNCHANGED <<mainVars, printed>>
             \/ Summary
             \/ UNCHANGED toolVars
    BY <2>2, OtherActions
  <2>3. ASSUME NEW s \in Session, LateInstall(s), UNCHANGED <<mainVars, printed>>
        PROVE  ToolInv'
    BY <2>3, LateStep
  <2> QED
    BY <2>1, <2>2, <2>3 DEF ToolNext, DeviceNext, Exited
<1> QED
  BY <1>1, ToolInitInv, PTL DEF ToolSpec

-----------------------------------------------------------------------------
\* The rows, the devices and the counters of main keep their types; no counter
\* exceeds the number of rows.
THEOREM TypeCorrect == ToolSpec => []ToolTypeOK
<1>1. ToolInv => ToolTypeOK
  <2> SUFFICES ASSUME ToolInv PROVE ToolTypeOK
    OBVIOUS
  <2>1. TypeOK /\ update_file \in Image /\ printed \in BOOLEAN
    BY DEF ToolInv, IndInv
  <2>2. Started \in SUBSET Session /\ Succeeded \in SUBSET Session
    BY DEF Started, Succeeded
  <2>3. /\ totalUpdates \in Nat /\ totalUpdates <= Cardinality(Session)
        /\ successUpdates \in Nat /\ successUpdates <= Cardinality(Session)
    BY <2>2, SessionsAreFinite, CountedSets DEF ToolInv
  <2>4. Cardinality(Session) \in Nat
    BY SessionsAreFinite
  <2> QED
    BY <2>1, <2>3, <2>4 DEF ToolTypeOK
<1> QED
  BY <1>1, Invariant, PTL

\* The command line program installs no image over a higher version, and one
\* over an equal version only where an answer was lost (UpdateTool.cpp:116),
\* however often a device is listed.
THEOREM OnlyUpgrades == ToolSpec => []OnlyLostRepeats
<1>1. ToolInv => OnlyLostRepeats
  BY DEF ToolInv
<1> QED
  BY <1>1, Invariant, PTL

\* The summary (UpdateTool.cpp:141-145) accounts for every row and for every
\* installation.
THEOREM HonestSummary == ToolSpec => []SummaryIsHonest
<1>1. ToolInv => SummaryIsHonest
  <2> SUFFICES ASSUME ToolInv, printed
               PROVE  /\ totalUpdates = Cardinality(Session)
                      /\ successUpdates + Cardinality({s \in Took : pc[s] = "failed"}) = Len(installs)
    BY DEF SummaryIsHonest
  <2> DEFINE unsure == {s \in Took : pc[s] = "failed"}
  <2>1. /\ totalUpdates = Cardinality(Started)
        /\ successUpdates = Cardinality(Succeeded)
        /\ Len(installs) = Cardinality(Took)
        /\ \A s \in Session : pc[s] \in {"updated", "mismatch", "failed"}
    BY CountedSets DEF ToolInv, Over
  <2>2. Started = Session
    BY <2>1 DEF Started
  <2>3. Succeeded \subseteq Took
    BY InvImplies DEF ToolInv, SuccessIsInstalled, InstalledBy, Succeeded, Took
  <2>4. \A s \in Took : pc[s] \in PastUpload
    <3>1. DOMAIN installs = 1..Len(installs)
      BY InstallsType DEF ToolInv, IndInv
    <3> QED
      BY <3>1 DEF ToolInv, IndInv, InstallsInv, Took
  <2>5. Took = Succeeded \cup unsure /\ Succeeded \cap unsure = {}
    BY <2>1, <2>3, <2>4 DEF Succeeded, PastUpload, Took
  <2>6. /\ IsFiniteSet(Succeeded) /\ Cardinality(Succeeded) \in Nat
        /\ IsFiniteSet(unsure) /\ Cardinality(unsure) \in Nat
    BY SessionsAreFinite DEF Succeeded, Took
  <2> HIDE DEF unsure
  <2>7. Cardinality(Took) = Cardinality(Succeeded) + Cardinality(unsure) - Cardinality({})
    BY <2>5, <2>6, FS_Union
  <2>8. successUpdates + Cardinality(unsure) = Len(installs)
    BY <2>1, <2>6, <2>7, FS_EmptySet
  <2> QED
    BY <2>1, <2>2, <2>8 DEF unsure
<1> QED
  BY <1>1, Invariant, PTL

-----------------------------------------------------------------------------
(* The refinement.                                                         *)

\* A row moves, and its image is not taken.
LEMMA OutcomeStep ==
  ASSUME IndInv, NEW s \in Session, NEW p, pc' = [pc EXCEPT ![s] = p], UNCHANGED installs,
         \/ Outcome(pc[s]) = "waiting" /\ Outcome(p) \in {"waiting", "running"}
         \/ Outcome(pc[s]) = "running" /\ Outcome(p) \in {"running", "error"}
         \/ pc[s] = "loadDone" /\ Outcome(p) = "refused"
         \/ pc[s] = "updateDone" /\ rv[s] = "UPDATE_OK" /\ Outcome(p) = "updated"
  PROVE  [Row!Next]_(Row!vars)
<1> DEFINE out == [t \in Session |-> Outcome(pc[t])]
<1>1. TypeOK /\ Took' = Took
  BY DEF IndInv, Took
<1>2. out' = [out EXCEPT ![s] = Outcome(p)]
  BY <1>1 DEF TypeOK
<1>3. out[s] = Outcome(pc[s]) /\ out \in [Session -> {Outcome(pc[t]) : t \in Session}]
  OBVIOUS
<1>4. pc[s] = "loadDone" => s \notin Took
  BY <1>1, InstallsType DEF IndInv, InstallsInv, PastUpload, Took
<1>5. pc[s] = "updateDone" /\ rv[s] = "UPDATE_OK" => s \in Took
  BY <1>1, InstallsType DEF IndInv, SessionInv, SuccessInv, Took
<1>6. CASE Outcome(pc[s]) = "waiting" /\ Outcome(p) = "running"
  <2>1. Row!Begin(s)
    BY <1>1, <1>2, <1>3, <1>6 DEF Row!Begin
  <2> QED
    BY <2>1 DEF Row!Next
<1>7. CASE Outcome(p) = Outcome(pc[s])
  <2>1. out' = out
    BY <1>2, <1>3, <1>7
  <2> QED
    BY <1>1, <2>1 DEF Row!vars
<1>8. CASE \/ Outcome(pc[s]) = "running" /\ Outcome(p) = "error"
           \/ pc[s] = "loadDone" /\ Outcome(p) = "refused"
           \/ pc[s] = "updateDone" /\ rv[s] = "UPDATE_OK" /\ Outcome(p) = "updated"
  <2>1. out[s] = "running"
    BY <1>3, <1>8 DEF Outcome
  <2>2. /\ Outcome(p) \in Row!Outcome
        /\ Outcome(p) = "updated" => s \in Took
        /\ Outcome(p) = "refused" => s \notin Took
    BY <1>4, <1>5, <1>8 DEF Row!Outcome
  <2>3. Row!End(s)
    BY <1>1, <1>2, <2>1, <2>2 DEF Row!End
  <2> QED
    BY <2>3 DEF Row!Next
<1> QED
  BY <1>6, <1>7, <1>8

\* The image of a row is taken, while main waits or after it has given up.
LEMMA TakeStep ==
  ASSUME IndInv, NEW s \in Session, Install(s), pc[s] = "upload" \/ s \in late,
         \/ pc[s] = "upload" /\ pc' = [pc EXCEPT ![s] = "updateDone"]
         \/ UNCHANGED pc
  PROVE  [Row!Next]_(Row!vars)
<1> DEFINE out == [t \in Session |-> Outcome(pc[t])]
<1>1. s \notin Took /\ Took' = Took \cup {s}
  BY TookGrows
<1>2. out[s] \in {"running", "error"}
  BY DEF Outcome, IndInv, LateInv, LateSession
<1>3. out' = out
  BY DEF Outcome, IndInv, TypeOK
<1>4. Row!Take(s)
  BY <1>1, <1>2, <1>3 DEF Row!Take
<1> QED
  BY <1>4 DEF Row!Next

\* The rows of the command line program are updates as Update promises them
\* (UpdateTool.cpp:104-135), for any number of rows and devices.
THEOREM Refinement == ToolSpec => ImplementsUpdate
<1>1. ToolInit => Row!Init
  <2>1. ASSUME ToolInit PROVE Took = {} /\ \A s \in Session : pc[s] = "new"
    BY <2>1 DEF ToolInit, Init, Took
  <2> QED
    BY <2>1 DEF Row!Init, Outcome
<1>2. ToolInv /\ [ToolNext]_toolVars => [Row!Next]_(Row!vars)
  <2> SUFFICES ASSUME ToolInv, [ToolNext]_toolVars PROVE [Row!Next]_(Row!vars)
    OBVIOUS
  <2>1. IndInv
    BY DEF ToolInv
  <2>2. ASSUME NEW s \in Session,
               \/ LoadUpdateFactory(s) \/ NextUpdate(s)
               \/ Authenticated(s) \/ Loaded(s) \/ Updated(s)
        PROVE  [Row!Next]_(Row!vars)
    <3>1. PICK p : /\ pc' = [pc EXCEPT ![s] = p]
                   /\ \/ pc[s] = "new" /\ p = "listed"
                      \/ pc[s] = "listed" /\ p = "doAuth"
                      \/ pc[s] = "authDone" /\ p \in {"load", "failed"}
                      \/ pc[s] = "loadDone" /\ p \in {"mismatch", "failed", "doUpdate"}
                      \/ pc[s] = "updateDone" /\ p = "failed"
                      \/ pc[s] = "updateDone" /\ p = "updated" /\ rv[s] = "UPDATE_OK"
      BY <2>2 DEF LoadUpdateFactory, SetDest, NextUpdate, Goto, Authenticated, Loaded, Updated, To
    <3>2. UNCHANGED installs
      BY <2>2 DEF LoadUpdateFactory, SetDest, NextUpdate, Authenticated, Loaded, Updated, deviceVars
    <3>3. \/ Outcome(pc[s]) = "waiting" /\ Outcome(p) \in {"waiting", "running"}
          \/ Outcome(pc[s]) = "running" /\ Outcome(p) \in {"running", "error"}
          \/ pc[s] = "loadDone" /\ Outcome(p) = "refused"
          \/ pc[s] = "updateDone" /\ rv[s] = "UPDATE_OK" /\ Outcome(p) = "updated"
      BY <3>1 DEF Outcome
    <3> QED
      BY <2>1, <3>1, <3>2, <3>3, OutcomeStep
  <2>3. ASSUME NEW s \in Session, Call(s)
        PROVE  [Row!Next]_(Row!vars)
    <3>1. Method(s)
      BY <2>3 DEF Call
    <3>2. PICK p \in {"login", "authDone", "loadDone", "upload", "updateDone", "threw"} : RowMoves(s, p)
      BY <3>1, RowMethod
    <3>3. Outcome(pc[s]) = "running" /\ Outcome(p) \in {"running", "error"}
      BY <3>1, MethodMoves DEF Outcome
    <3>4. CASE UNCHANGED installs
      BY <2>1, <3>2, <3>3, <3>4, OutcomeStep DEF RowMoves
    <3>5. CASE pc[s] = "upload" /\ p = "updateDone" /\ Install(s)
      BY <2>1, <3>2, <3>5, TakeStep DEF RowMoves
    <3> QED
      BY <3>2, <3>4, <3>5 DEF RowMoves
  <2>4. CASE DeviceNext
    <3>1. ASSUME NEW d \in Device, Forget(d) PROVE UNCHANGED Row!vars
      BY <3>1 DEF Forget, Row!vars, Took
    <3>2. ASSUME NEW s \in Session, LateInstall(s) PROVE [Row!Next]_(Row!vars)
      BY <2>1, <3>2, TakeStep DEF LateInstall
    <3> QED
      BY <2>4, <3>1, <3>2 DEF DeviceNext
  <2>5. CASE Summary \/ UNCHANGED toolVars
    BY <2>5 DEF Summary, toolVars, vars, Row!vars, Took
  <2> QED
    BY <2>2, <2>3, <2>4, <2>5 DEF ToolNext, Exited
<1> QED
  BY <1>1, <1>2, Invariant, PTL DEF ToolSpec, ImplementsUpdate, Row!Spec
=============================================================================
