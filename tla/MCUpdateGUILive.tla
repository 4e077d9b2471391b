-------------------------- MODULE MCUpdateGUILive --------------------------
(* An instance of UpdateGUI for TLC, for what must happen in the end. *)
EXTENDS UpdateGUI

\* Bound: a user who may close the frame submits one JOB, and a user who submits
\* more does not close it.
VARIABLE closes

InBound ==
  IF closes THEN gui' = "submit" => submitted' + batch' = 1
            ELSE gui' # "closeStack"

LiveInit == Init /\ closes \in BOOLEAN

LiveNext == Next /\ InBound /\ UNCHANGED closes

MCLiveSpec == LiveInit /\ [][LiveNext]_<<vars, closes>> /\ Fairness
=============================================================================
