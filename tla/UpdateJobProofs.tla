-------------------------- MODULE UpdateJobProofs --------------------------
(***************************************************************************)
(* What the update jobs of any number of worker threads do to any number   *)
(* of devices.  The methods are in UpdateFactoryProofs; what is left are   *)
(* the steps of doJob between them.                                        *)
(***************************************************************************)
EXTENDS UpdateJob, UpdateFactoryProofs

\* A job moves on after doAuth, loadUpdateFile or doUpdate.
LEMMA JobStep ==
  ASSUME IndInv, NEW s \in Session,
         Connect(s) \/ Authenticated(s) \/ Loaded(s) \/ Updated(s)
  PROVE  IndInv'
<1>1. CASE Connect(s)
  BY <1>1, SetDestStep DEF Connect
<1>2. ASSUME pc[s] # "new" PROVE SessionInv(s, pc[s], uf[s], rv[s], readAt[s])
  BY <1>2 DEF IndInv
<1>3. CASE Authenticated(s)
  <2>1. PICK p \in {"load", "error"} : To(s, p)
    BY <1>3 DEF Authenticated
  <2>2. /\ pc[s] = "authDone" /\ "authDone" \notin PastUpload /\ p \in PC
        /\ UNCHANGED <<uf, rv, deviceVars, readAt>>
    BY <1>3 DEF Authenticated, PC, PastUpload
  <2>3. SessionInv(s, p, uf[s], rv[s], readAt[s])
    BY <1>2, <2>2 DEF SessionInv, SuccessInv
  <2> QED
    BY <2>1, <2>2, <2>3, LateIsPast, MoveStep
<1>4. CASE Loaded(s)
  <2>1. PICK p \in {"badimage", "error", "doUpdate"} :
          /\ To(s, p)
          /\ p = "doUpdate" => isEmcVersionLowerThen(uf[s].mapped_emc_version,
                                                     uf[s].mapped_firmware_version)
    BY <1>4 DEF Loaded
  <2>2. /\ pc[s] = "loadDone" /\ "loadDone" \notin PastUpload /\ p \in PC
        /\ UNCHANGED <<uf, rv, deviceVars, readAt>>
    BY <1>4 DEF Loaded, PC, PastUpload
  <2>3. SessionInv(s, p, uf[s], rv[s], readAt[s])
    BY <1>2, <2>1, <2>2 DEF SessionInv, SuccessInv
  <2> QED
    BY <2>1, <2>2, <2>3, LateIsPast, MoveStep
<1>5. CASE Updated(s)
  <2>1. PICK p \in {"updated", "error"} : To(s, p) /\ (p = "updated" <=> rv[s] = "UPDATE_OK")
    BY <1>5 DEF Updated
  <2>2. /\ pc[s] = "updateDone" /\ p \in PastUpload /\ p \in PC
        /\ UNCHANGED <<uf, rv, deviceVars, readAt>>
    BY <1>5 DEF Updated, PC, PastUpload
  <2>3. SessionInv(s, p, uf[s], rv[s], readAt[s])
    BY <1>2, <2>1, <2>2 DEF SessionInv, SuccessInv
  <2>4. s \in late => LateSession(s, p, uf[s], rv[s])
    BY <2>1, <2>2 DEF IndInv, LateInv, LateSession
  <2> QED
    BY <2>1, <2>2, <2>3, <2>4, MoveStep
<1> QED
  BY <1>1, <1>3, <1>4, <1>5

\* IndInv (UpdateFactoryProofs) is inductive: it holds in every reachable state.
THEOREM Invariant == Spec => []IndInv
<1>1. IndInv /\ [Next]_vars => IndInv'
  <2> SUFFICES ASSUME IndInv, [Next]_vars PROVE IndInv'
    OBVIOUS
  <2>1. ASSUME NEW s \in Session,
               Connect(s) \/ Method(s) \/ Authenticated(s) \/ Loaded(s) \/ Updated(s)
        PROVE  IndInv'
    BY <2>1, JobStep, MethodStep
  <2>2. CASE DeviceNext
    BY <2>2, DeviceNextStep
  <2>3. CASE AllEnded \/ UNCHANGED vars
    BY <2>3, StutterStep DEF AllEnded
  <2> QED
    BY <2>1, <2>2, <2>3 DEF Next
<1> QED
  BY <1>1, InitInv, PTL DEF Spec

-----------------------------------------------------------------------------
\* The members of every UpdateFactory, what its methods return and the
\* devices keep their types.
THEOREM TypeCorrect == Spec => []TypeOK
<1>1. IndInv => TypeOK
  BY InvImplies
<1> QED
  BY <1>1, Invariant, PTL

\* "Update succeeded" is reported (JobQueue.cpp:136-149) only after the device
\* of the job has got the image of the job.
THEOREM SuccessIsReal == Spec => []SuccessIsInstalled
<1>1. IndInv => SuccessIsInstalled
  BY InvImplies
<1> QED
  BY <1>1, Invariant, PTL

\* doUpdate never takes the first byte of an empty update_buffer
\* (UpdateFactory.cpp:252-255 and 295), although doJob looks at the version
\* before it looks at what loadUpdateFile returned.
THEOREM BufferLoaded == Spec => []BufferIsLoaded
<1>1. IndInv => BufferIsLoaded
  BY InvImplies
<1> QED
  BY <1>1, Invariant, PTL

\* Whatever the number of workers, an image that is not newer than what it
\* replaces is installed only by a job that another one has overtaken between
\* the GET that read the version and the POST (JobQueue.cpp:115).
THEOREM DowngradesAreRaces == Spec => []OnlyOvertakenDowngrade
<1>1. IndInv => OnlyOvertakenDowngrade
  BY InvImplies
<1> QED
  BY <1>1, Invariant, PTL

-----------------------------------------------------------------------------
(* The refinement.                                                         *)

\* A session moves, and its image is not taken.
LEMMA OutcomeStep ==
  ASSUME IndInv, NEW s \in Session, NEW p, pc' = [pc EXCEPT ![s] = p], UNCHANGED installs,
         \/ pc[s] = "new" /\ Outcome(p) = "running"
         \/ Outcome(pc[s]) = "running" /\ Outcome(p) = "running"
         \/ Outcome(pc[s]) = "running" /\ Outcome(p) = "error"
         \/ pc[s] = "loadDone" /\ Outcome(p) = "refused"
         \/ pc[s] = "updateDone" /\ rv[s] = "UPDATE_OK" /\ Outcome(p) = "updated"
  PROVE  [Job!Next]_(Job!vars)
<1> DEFINE out == [t \in Session |-> Outcome(pc[t])]
<1>1. TypeOK /\ Took' = Took
  BY DEF IndInv, Took
<1>2. out' = [out EXCEPT ![s] = Outcome(p)]
  BY <1>1 DEF TypeOK
<1>3. out[s] = Outcome(pc[s]) /\ out \in [Session -> {Outcome(pc[t]) : t \in Session}]
  OBVIOUS
<1>4. pc[s] = "loadDone" => s \notin Took
  BY <1>1, InstallsType DEF IndInv, InstallsInv, PastUpload, Took
<1>5. pc[s] = "updateDone" /\ rv[s] = "UPDATE_OK" => s \in Took
  BY <1>1, InstallsType DEF IndInv, SessionInv, SuccessInv, Took
<1>6. CASE pc[s] = "new" /\ Outcome(p) = "running"
  <2>1. Job!Begin(s)
    BY <1>1, <1>2, <1>3, <1>6 DEF Job!Begin, Outcome
  <2> QED
    BY <2>1 DEF Job!Next
<1>7. CASE Outcome(pc[s]) = "running" /\ Outcome(p) = "running"
  <2>1. out' = out
    BY <1>2, <1>3, <1>7
  <2> QED
    BY <1>1, <2>1 DEF Job!vars
<1>8. CASE \/ Outcome(pc[s]) = "running" /\ Outcome(p) = "error"
           \/ pc[s] = "loadDone" /\ Outcome(p) = "refused"
           \/ pc[s] = "updateDone" /\ rv[s] = "UPDATE_OK" /\ Outcome(p) = "updated"
  <2>1. out[s] = "running"
    BY <1>3, <1>8 DEF Outcome
  <2>2. /\ Outcome(p) \in Job!Outcome
        /\ Outcome(p) = "updated" => s \in Took
        /\ Outcome(p) = "refused" => s \notin Took
    BY <1>4, <1>5, <1>8 DEF Job!Outcome
  <2>3. Job!End(s)
    BY <1>1, <1>2, <2>1, <2>2 DEF Job!End
  <2> QED
    BY <2>3 DEF Job!Next
<1> QED
  BY <1>6, <1>7, <1>8

\* The image of a session is taken, while it waits or after it has given up.
LEMMA TakeStep ==
  ASSUME IndInv, NEW s \in Session, Install(s), pc[s] = "upload" \/ s \in late,
         \/ pc[s] = "upload" /\ pc' = [pc EXCEPT ![s] = "updateDone"]
         \/ UNCHANGED pc
  PROVE  [Job!Next]_(Job!vars)
<1> DEFINE out == [t \in Session |-> Outcome(pc[t])]
<1>1. s \notin Took /\ Took' = Took \cup {s}
  BY TookGrows
<1>2. out[s] \in {"running", "error"}
  BY DEF Outcome, IndInv, LateInv, LateSession
<1>3. out' = out
  BY DEF Outcome, IndInv, TypeOK
<1>4. Job!Take(s)
  BY <1>1, <1>2, <1>3 DEF Job!Take
<1> QED
  BY <1>4 DEF Job!Next

\* The jobs of the worker threads are updates as Update promises them
\* (JobQueue.cpp:87-150), for any number of threads and devices.
THEOREM Refinement == Spec => ImplementsUpdate
<1>1. Init => Job!Init
  <2>1. ASSUME Init PROVE Took = {} /\ \A s \in Session : pc[s] = "new"
    BY <2>1 DEF Init, Took
  <2> QED
    BY <2>1 DEF Job!Init, Outcome
<1>2. IndInv /\ [Next]_vars => [Job!Next]_(Job!vars)
  <2> SUFFICES ASSUME IndInv, [Next]_vars PROVE [Job!Next]_(Job!vars)
    OBVIOUS
  <2>1. ASSUME NEW s \in Session, Connect(s)
        PROVE  [Job!Next]_(Job!vars)
    <3>1. pc[s] = "new" /\ pc' = [pc EXCEPT ![s] = "doAuth"] /\ UNCHANGED installs
      BY <2>1 DEF Connect, SetDest, Goto, To, deviceVars
    <3>2. Outcome("doAuth") = "running"
      BY DEF Outcome
    <3> QED
      BY <3>1, <3>2, OutcomeStep
  <2>2. ASSUME NEW s \in Session, Authenticated(s) \/ Loaded(s) \/ Updated(s)
        PROVE  [Job!Next]_(Job!vars)
    <3>1. PICK p : /\ pc' = [pc EXCEPT ![s] = p]
                   /\ \/ pc[s] = "authDone" /\ p \in {"load", "error"}
                      \/ pc[s] = "loadDone" /\ p \in {"badimage", "error", "doUpdate"}
                      \/ pc[s] = "updateDone" /\ p = "error"
                      \/ pc[s] = "updateDone" /\ p = "updated" /\ rv[s] = "UPDATE_OK"
      BY <2>2 DEF Authenticated, Loaded, Updated, To
    <3>2. UNCHANGED installs
      BY <2>2 DEF Authenticated, Loaded, Updated, deviceVars
    <3>3. \/ Outcome(pc[s]) = "running" /\ Outcome(p) = "running"
          \/ Outcome(pc[s]) = "running" /\ Outcome(p) = "error"
          \/ pc[s] = "loadDone" /\ Outcome(p) = "refused"
          \/ pc[s] = "updateDone" /\ rv[s] = "UPDATE_OK" /\ Outcome(p) = "updated"
      BY <3>1 DEF Outcome
    <3> QED
      BY <3>1, <3>2, <3>3, OutcomeStep
  <2>3. ASSUME NEW s \in Session, Method(s)
        PROVE  [Job!Next]_(Job!vars)
    <3>1. PICK p \in {"login", "authDone", "loadDone", "upload", "updateDone", "threw"} :
            pc' = [pc EXCEPT ![s] = p]
      BY <2>3, MethodMoves
    <3>2. Outcome(pc[s]) = "running" /\ Outcome(p) \in {"running", "error"}
      BY <2>3, MethodMoves DEF Outcome
    <3>3. CASE UNCHANGED installs
      BY <3>1, <3>2, <3>3, OutcomeStep
    <3>4. CASE pc[s] = "upload" /\ Install(s) /\ pc' = [pc EXCEPT ![s] = "updateDone"]
      BY <3>4, TakeStep
    <3> QED
      BY <2>3, <3>3, <3>4, MethodMoves
  <2>4. CASE DeviceNext
    <3>1. ASSUME NEW d \in Device, Forget(d) PROVE UNCHANGED Job!vars
      BY <3>1 DEF Forget, Job!vars, Took
    <3>2. ASSUME NEW s \in Session, LateInstall(s) PROVE [Job!Next]_(Job!vars)
      BY <3>2, TakeStep DEF LateInstall
    <3> QED
      BY <2>4, <3>1, <3>2 DEF DeviceNext
  <2>5. CASE UNCHANGED vars
    BY <2>5 DEF vars, Job!vars, Took
  <2> QED
    BY <2>1, <2>2, <2>3, <2>4, <2>5 DEF Next, AllEnded
<1> QED
  BY <1>1, <1>2, Invariant, PTL DEF Spec, ImplementsUpdate, Job!Spec
=============================================================================
