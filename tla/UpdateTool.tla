----------------------------- MODULE UpdateTool -----------------------------
(***************************************************************************)
(* The command line program (main of UpdateTool.cpp): it builds its list   *)
(* of UpdateFactory objects from a CSV file or from a list of hosts, which *)
(* may name a device several times, and goes through it one by one.        *)
(***************************************************************************)
EXTENDS UpdateFactory

VARIABLES
  update_file,      \* the argument: one file for all devices
  totalUpdates,
  successUpdates,
  printed           \* has main printed its summary?

mainVars == <<update_file, totalUpdates, successUpdates>>
toolVars == <<vars, mainVars, printed>>

ToolInit ==
  /\ Init
  /\ update_file \in Image
  /\ totalUpdates = 0
  /\ successUpdates = 0
  /\ printed = FALSE

-----------------------------------------------------------------------------
\* The list is complete before the first update.
Listed == \A s \in Session : pc[s] # "new"

\* loadUpdateFactoriesFromCSV, loadUpdateFactoriesFromStr
LoadUpdateFactory(s) ==
  /\ SetDest(s, update_file, "listed")
  /\ UNCHANGED <<mainVars, printed>>

\* The next round of the loop.
Over == {"listed", "updated", "mismatch", "failed"}

NextUpdate(s) ==
  /\ Listed
  /\ \A t \in Session : pc[t] \in Over
  /\ Goto(s, "listed", "doAuth")
  /\ totalUpdates' = totalUpdates + 1
  /\ UNCHANGED <<uf, rv, deviceVars, readAt, update_file, successUpdates, printed>>

\* The calls of the methods.
Call(s) == Method(s) /\ UNCHANGED <<mainVars, printed>>

\* After doAuth.
Authenticated(s) ==
  /\ pc[s] = "authDone"
  /\ \/ rv[s] = "UPDATE_OK" /\ To(s, "load")
     \/ rv[s] # "UPDATE_OK" /\ To(s, "failed")
  /\ UNCHANGED <<uf, rv, deviceVars, readAt, mainVars, printed>>

\* Mutant: the comparison of the versions does not continue the loop.
LoadedAny(s) ==
  /\ pc[s] = "loadDone"
  /\ \/ rv[s] # "UPDATE_OK" /\ To(s, "failed")
     \/ rv[s] = "UPDATE_OK" /\ To(s, "doUpdate")
  /\ UNCHANGED <<uf, rv, deviceVars, readAt, mainVars, printed>>

\* After loadUpdateFile; unlike doJob main looks at its result first, and
\* takes a file of unknown version for a version mismatch.
Loaded(s) ==
  /\ pc[s] = "loadDone"
  /\ LET lower == isEmcVersionLowerThen(uf[s].mapped_emc_version,
                                        uf[s].mapped_firmware_version)
     IN \/ rv[s] # "UPDATE_OK" /\ To(s, "failed")
        \/ rv[s] = "UPDATE_OK" /\ ~lower /\ To(s, "mismatch")
        \/ rv[s] = "UPDATE_OK" /\ lower /\ To(s, "doUpdate")
  /\ UNCHANGED <<uf, rv, deviceVars, readAt, mainVars, printed>>

\* Mutant: the success is counted whatever doUpdate returns.
UpdatedAny(s) ==
  /\ pc[s] = "updateDone"
  /\ successUpdates' = successUpdates + 1
  /\ \/ rv[s] = "UPDATE_OK" /\ To(s, "updated")
     \/ rv[s] # "UPDATE_OK" /\ To(s, "failed")
  /\ UNCHANGED <<uf, rv, deviceVars, readAt, update_file, totalUpdates, printed>>

\* After doUpdate.
Updated(s) ==
  /\ pc[s] = "updateDone"
  /\ \/ rv[s] = "UPDATE_OK" /\ To(s, "updated") /\ successUpdates' = successUpdates + 1
     \/ rv[s] # "UPDATE_OK" /\ To(s, "failed") /\ UNCHANGED successUpdates
  /\ UNCHANGED <<uf, rv, deviceVars, readAt, update_file, totalUpdates, printed>>

\* The summary: totalUpdates, successUpdates and their difference.
Summary ==
  /\ \A s \in Session : pc[s] \in Over \ {"listed"}
  /\ ~printed
  /\ printed' = TRUE
  /\ UNCHANGED <<vars, mainVars>>

\* main has ended: at its end, or by an exception that it does not catch.
Exited ==
  /\ printed \/ \E s \in Session : pc[s] = "threw"
  /\ UNCHANGED toolVars

ToolNext ==
  \/ \E s \in Session :
       \/ LoadUpdateFactory(s)
       \/ NextUpdate(s)
       \/ Call(s)
       \/ Authenticated(s)
       \/ Loaded(s)
       \/ Updated(s)
  \/ DeviceNext /\ UNCHANGED <<mainVars, printed>>
  \/ Summary
  \/ Exited

ToolSpec == ToolInit /\ [][ToolNext]_toolVars

-----------------------------------------------------------------------------
ToolTypeOK ==
  /\ TypeOK
  /\ update_file \in Image
  /\ totalUpdates \in 0..Cardinality(Session)
  /\ successUpdates \in 0..Cardinality(Session)
  /\ printed \in BOOLEAN

\* The summary (UpdateTool.cpp:141-145) counts every row once and claims no
\* update that did not take place.  It may be short of one whose reply was
\* lost: each of those is a row that ended as failed.
SummaryIsHonest ==
  LET unsure == {s \in Took : pc[s] = "failed"}
  IN printed =>
       /\ totalUpdates = Cardinality(Session)
       /\ successUpdates + Cardinality(unsure) = Len(installs)

\* What a row is: an update with an outcome.  A row is running when its turn
\* has come.
Outcome(p) ==
  CASE p \in {"new", "listed"} -> "waiting"
    [] p = "mismatch" -> "refused"
    [] p \in {"failed", "threw"} -> "error"
    [] p = "updated" -> "updated"
    [] OTHER -> "running"

\* Every row is an update as Update promises it: its image is taken once at
\* most, also when the answer is lost, and the image of a row that main skips as
\* a mismatch (UpdateTool.cpp:116-121) is never taken.
Row == INSTANCE Update WITH outcome <- [s \in Session |-> Outcome(pc[s])], taken <- Took

ImplementsUpdate == Row!Spec

\* No row lowers the version of a device ("EnergyManager already updated to an
\* equal or higher firmware version", UpdateFactory.cpp:89).  A device gets the
\* version it has for a second time only if an answer was lost: one of the rows
\* that have updated it ended as failed.
OnlyLostRepeats ==
  \A i \in DOMAIN installs :
     LET e == installs[i]
     IN \/ isEmcVersionLowerThen(e.old, e.new)
        \/ /\ e.old = e.new
           /\ \E s \in Took : uf[s].dest = e.device /\ pc[s] = "failed"
=============================================================================
