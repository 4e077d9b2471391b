---------------------------- MODULE PriorityFifo ----------------------------
(***************************************************************************)
(* What the job queue promises its clients ("push a job with given        *)
(* priority class onto the FIFO", JobQueue.hpp:81; "a priority Queue",     *)
(* JobQueue.hpp:116): a job that is added waits until exactly one worker   *)
(* takes it, and a worker that takes a job takes the waiting job that      *)
(* comes first: the numerically smallest priority class, and inside one    *)
(* class the job that was added earliest.                                  *)
(*                                                                         *)
(* A job is a record [ticket, priority]: its number in the order of the    *)
(* AddJob calls, and its priority class.                                   *)
(***************************************************************************)
EXTENDS Naturals

CONSTANTS Worker,     \* the worker threads
          NoJob       \* what a worker holds that holds no job

VARIABLES waiting,    \* the jobs no worker has taken yet
          held,       \* the job each worker holds, or NoJob
          added       \* the number of jobs added so far

vars == <<waiting, held, added>>

\* enum JobPriority: eHIGHEST = 0, eHIGHER, eNORMAL = 2, ... eIDLE = 5
JobPriority == 0..5

Before(a, b) ==
  \/ a.priority < b.priority
  \/ a.priority = b.priority /\ a.ticket < b.ticket

First(e) == \A o \in waiting \ {e} : Before(e, o)

Init ==
  /\ waiting = {}
  /\ held = [w \in Worker |-> NoJob]
  /\ added = 0

Add(p) ==
  /\ added' = added + 1
  /\ waiting' = waiting \cup {[ticket |-> added + 1, priority |-> p]}
  /\ UNCHANGED held

Take(w) ==
  /\ held[w] = NoJob
  /\ \E e \in waiting :
        /\ First(e)
        /\ waiting' = waiting \ {e}
        /\ held' = [held EXCEPT ![w] = e]
  /\ UNCHANGED added

Finish(w) ==
  /\ held[w] # NoJob
  /\ held' = [held EXCEPT ![w] = NoJob]
  /\ UNCHANGED <<waiting, added>>

Next ==
  \/ \E p \in JobPriority : Add(p)
  \/ \E w \in Worker : Take(w) \/ Finish(w)

Spec == Init /\ [][Next]_vars
=============================================================================
