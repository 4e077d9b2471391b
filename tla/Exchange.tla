------------------------------ MODULE Exchange ------------------------------
(***************************************************************************)
(* What UpdateFactory takes a request for (UpdateFactory.cpp:366-385): the *)
(* device acts on it once or not at all, and the caller gets the device's  *)
(* reply or none.  A caller who gets none does not know whether the device *)
(* has acted, and it may act still; but a program that ends because of its *)
(* request ends before the device acts, and the device never will.         *)
(***************************************************************************)
EXTENDS Integers, SequencesExt

CONSTANTS NoAnswer,
          Success         \* the statuses that say that the device has acted

VARIABLES request,        \* "idle", "asked", "returned" or "killed"
          meant,          \* the reply: its status, Content-Length and body
          exact,          \* nothing but the end of the connection ends a read
          acted,          \* the device has done what it is asked for
          answer          \* what the caller gets

vars == <<request, meant, exact, acted, answer>>

Init ==
  /\ request = "idle"
  /\ acted = FALSE
  /\ answer = NoAnswer

Ask == request = "idle" /\ request' = "asked" /\ UNCHANGED <<meant, exact, acted, answer>>

Act == request \notin {"idle", "killed"} /\ ~acted /\ acted' = TRUE /\ UNCHANGED <<request, meant, exact, answer>>

\* A body without a length ends where the connection does.
IsBody(s) ==
  IF meant.length = 0 THEN IsPrefix(s, meant.body)
                      ELSE /\ meant.length <= Len(meant.body)
                           /\ s = SubSeq(meant.body, 1, meant.length)

\* When a pause inside a line ends a read, the line counts for two: then the
\* status may be missing (-1), and the body may be anything.
IsReply(a) ==
  /\ a.status \in Success => acted
  /\ \/ a.status = meant.status /\ IsBody(a.body)
     \/ ~exact /\ a.status \in {meant.status, -1}

Return ==
  /\ request = "asked"
  /\ request' = "returned"
  /\ answer' = NoAnswer \/ IsReply(answer')
  /\ UNCHANGED <<meant, exact, acted>>

Kill ==
  /\ request = "asked" /\ ~acted
  /\ request' = "killed"
  /\ UNCHANGED <<meant, exact, acted, answer>>

Next == Ask \/ Act \/ Return \/ Kill

Spec == Init /\ [][Next]_vars
=============================================================================
