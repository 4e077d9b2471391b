----------------------------- MODULE UpdateApp -----------------------------
(***************************************************************************)
(* The graphical program from start to end, and started again: it shows    *)
(* the license (class UpdateGUILicense) until that is accepted, and only   *)
(* then the main frame of UpdateGUI.  On Windows a file in the directory   *)
(* for temporary files keeps the acceptance for later runs.                *)
(*                                                                         *)
(* The file system is external: the directory may not be found, and the    *)
(* file may not be written.  The user or the system may end the program at *)
(* any time.                                                               *)
(***************************************************************************)
EXTENDS UpdateGUI

VARIABLES
  window,      \* the window of the program: "none" (it does not run),
               \* "license" or "frame"
  win32,       \* the build: for Windows or for a POSIX system
  file,        \* does the file utool_license_accepted exist?
  licensed     \* history: accepted in this run, or on Windows in any

licenseVars == <<win32, file, licensed>>
appVars == <<window, licenseVars, vars>>

\* The frame does not exist yet: UpdateGUI's variables have the values that the
\* constructor will give them.
AppInit ==
  /\ Init
  /\ window = "none"
  /\ win32 \in BOOLEAN
  /\ file = FALSE
  /\ licensed = FALSE

\* Mutant: a directory that is not found counts as an acceptance.
AcceptedUnlessMissing(path) == win32 /\ (path => file)

\* buildLicensePathWin finds the path or not.
isLicenseAlreadyAccepted(path) == win32 /\ path /\ file

OnInit ==
  /\ window = "none"
  /\ \E path \in BOOLEAN :
       window' = IF isLicenseAlreadyAccepted(path) THEN "frame" ELSE "license"
  /\ UNCHANGED <<licenseVars, vars>>

\* It writes the file on Windows, if it can.
setLicenseAccepted == file' \in {file, win32}

OnAccept ==
  /\ window = "license"
  /\ window' = "frame"
  /\ licensed' = TRUE
  /\ setLicenseAccepted
  /\ UNCHANGED <<win32, vars>>

\* OnDecline calls _exit; OnClose of the only window ends the program, too.
LeaveLicense ==
  /\ window = "license"
  /\ window' = "none"
  /\ UNCHANGED <<licenseVars, vars>>

RunFrame ==
  /\ window = "frame"
  /\ Next
  /\ UNCHANGED <<window, licenseVars>>

\* The main frame's program ends, by itself or at any time; another run finds
\* the file and nothing else.
EndRun ==
  /\ window = "frame"
  /\ window' = "none"
  /\ licensed' = (licensed /\ win32)
  /\ m_Jobs' = <<>> /\ submitted' = 0 /\ closing' = FALSE
  /\ m_busyWorker' = 0 /\ m_totalJobsDone' = 0
  /\ worker' \in [Worker -> IF StartMayFail THEN {"sleep", "failed"} ELSE {"sleep"}]
  /\ job' = [w \in Worker |-> NoJob]
  /\ fate' = [id \in 1..MaxJobs |-> "none"]
  /\ totalUpdates' = 0 /\ successUpdates' = 0
  /\ threads' = Worker /\ life' = "running"
  /\ gui' = "idle" /\ modal' = "none" /\ batch' = 0
  /\ pending' = <<>>
  /\ UNCHANGED <<win32, file>>

AppNext == OnInit \/ OnAccept \/ LeaveLicense \/ RunFrame \/ EndRun

AppSpec == AppInit /\ [][AppNext]_appVars

-----------------------------------------------------------------------------
\* No frame, and so no worker and no update, before the license is accepted: in
\* this run or, on Windows, in an earlier one, however those ended and whether
\* or not the file could be found and written (UpdateGUI.cpp:48-62 and 474-506).
FrameIsLicensed == window = "frame" => licensed
=============================================================================
