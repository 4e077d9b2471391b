------------------------------- MODULE Update -------------------------------
(***************************************************************************)
(* What an update promises whoever runs it, the worker threads (UpdateJob) *)
(* or the command line program (UpdateTool): its device takes the image    *)
(* once at most, a success means that it has, a refusal that it never      *)
(* will, and only after an error one cannot tell.  The Work of a thread in *)
(* UpdateGUI is an update from Begin to End.                               *)
(***************************************************************************)
CONSTANT Session    \* the updates

VARIABLES
  outcome,   \* of each update, or where it is
  taken      \* the updates whose image is on its device

vars == <<outcome, taken>>

Outcome == {"updated", "refused", "error"}

Init ==
  /\ outcome = [s \in Session |-> "waiting"]
  /\ taken = {}

Begin(s) ==
  /\ outcome[s] = "waiting"
  /\ outcome' = [outcome EXCEPT ![s] = "running"]
  /\ UNCHANGED taken

\* The device takes the image, perhaps after the update has been given up.
Take(s) ==
  /\ outcome[s] \in {"running", "error"}
  /\ s \notin taken
  /\ taken' = taken \cup {s}
  /\ UNCHANGED outcome

\* The update ends, and its outcome is final.
End(s) ==
  /\ outcome[s] = "running"
  /\ \E o \in Outcome :
       /\ o = "updated" => s \in taken
       /\ o = "refused" => s \notin taken
       /\ outcome' = [outcome EXCEPT ![s] = o]
  /\ UNCHANGED taken

Next == \E s \in Session : Begin(s) \/ Take(s) \/ End(s)

Spec == Init /\ [][Next]_vars
=============================================================================
