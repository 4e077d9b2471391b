----------------------------- MODULE UpdateJob -----------------------------
(***************************************************************************)
(* The update jobs of the graphical program (case eID_THREAD_JOB of        *)
(* WorkerThread::doJob, JobQueue.cpp): the worker threads run them side by *)
(* side, each with an UpdateFactory of its own.                            *)
(***************************************************************************)
EXTENDS UpdateFactory

\* setDest, setPass; setUpdateFile follows before the file is loaded.
Connect(s) == \E file \in Image : SetDest(s, file, "doAuth")

\* if (rv != UPDATE_OK)
Authenticated(s) ==
  /\ pc[s] = "authDone"
  /\ \/ rv[s] = "UPDATE_OK" /\ To(s, "load")
     \/ rv[s] # "UPDATE_OK" /\ To(s, "error")
  /\ UNCHANGED <<uf, rv, deviceVars, readAt>>

\* Mutant: the versions are not compared.
LoadedAny(s) ==
  /\ pc[s] = "loadDone"
  /\ \/ uf[s].mapped_firmware_version = EMC_UNKNOWN /\ To(s, "badimage")
     \/ uf[s].mapped_firmware_version # EMC_UNKNOWN /\ To(s, "doUpdate")
  /\ UNCHANGED <<uf, rv, deviceVars, readAt>>

\* The version of the image is validated and compared, and only then the
\* result of loadUpdateFile is looked at.
Loaded(s) ==
  /\ pc[s] = "loadDone"
  /\ LET ver  == uf[s].mapped_emc_version
         fw   == uf[s].mapped_firmware_version
         fine == isEmcVersionLowerThen(ver, fw) /\ rv[s] = "UPDATE_OK"
     IN \/ fw = EMC_UNKNOWN /\ To(s, "badimage")
        \/ fw # EMC_UNKNOWN /\ ~fine /\ To(s, "error")
        \/ fw # EMC_UNKNOWN /\ fine /\ To(s, "doUpdate")
  /\ UNCHANGED <<uf, rv, deviceVars, readAt>>

\* Mutant: the result of doUpdate is not looked at.
UpdatedAny(s) ==
  /\ pc[s] = "updateDone"
  /\ To(s, "updated")
  /\ UNCHANGED <<uf, rv, deviceVars, readAt>>

\* MSGERR or MSGOK
Updated(s) ==
  /\ pc[s] = "updateDone"
  /\ \/ rv[s] = "UPDATE_OK" /\ To(s, "updated")
     \/ rv[s] # "UPDATE_OK" /\ To(s, "error")
  /\ UNCHANGED <<uf, rv, deviceVars, readAt>>

\* After an exception nothing is reported; the thread has ended (WorkThrows in
\* UpdateGUI).
Ended == {"updated", "error", "badimage", "threw"}

AllEnded == (\A s \in Session : pc[s] \in Ended) /\ UNCHANGED vars

Next ==
  \/ \E s \in Session : Connect(s) \/ Method(s) \/ Authenticated(s) \/ Loaded(s) \/ Updated(s)
  \/ DeviceNext
  \/ AllEnded

Spec == Init /\ [][Next]_vars

-----------------------------------------------------------------------------
\* What a job is for the main frame: an update with an outcome.  A job that
\* compares too high a version ends as an error like any other.
Outcome(p) ==
  CASE p = "new" -> "waiting"
    [] p = "badimage" -> "refused"
    [] p \in {"updated", "error"} -> p
    [] p = "threw" -> "error"
    [] OTHER -> "running"

\* Every job is an update as Update promises it (JobQueue.cpp:87-150): its
\* image is taken once at most, also when the answer is lost, a job reported as
\* updated has had its image taken, and the image of a job that was reported as
\* invalid (JobQueue.cpp:105) is never taken.
Job == INSTANCE Update WITH outcome <- [s \in Session |-> Outcome(pc[s])], taken <- Took

ImplementsUpdate == Job!Spec

=============================================================================
