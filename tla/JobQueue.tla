------------------------------ MODULE JobQueue ------------------------------
(***************************************************************************)
(* class Queue (JobQueue.hpp, JobQueue.cpp) at the granularity of its      *)
(* shared-memory steps: a std::multimap protected by m_MutexQueue, and a   *)
(* semaphore m_QueueCount that counts its elements for the workers that    *)
(* sleep in Pop.                                                           *)
(*                                                                         *)
(* The GUI thread is the only caller of AddJob and Stacksize; the worker   *)
(* threads are the only callers of Pop.  What is inside a job plays no     *)
(* part here: a job is its number in the order of the AddJob calls         *)
(* (ticket) and its priority class.                                        *)
(***************************************************************************)
EXTENDS Integers, FiniteSets, SequencesExt

CONSTANTS Worker,     \* the worker threads
          GUI,        \* the GUI thread
          Nobody,     \* the owner of a free mutex
          NoJob,      \* the value of Job element before the copy
          Priority,   \* the priority classes in use
          MaxJobs     \* bound: AddJob calls per behaviour

ASSUME JobQueueAssumption ==
  /\ IsFiniteSet(Worker)
  /\ GUI \notin Worker
  /\ Nobody \notin Worker \cup {GUI}
  /\ Priority \subseteq 0..5
  /\ NoJob \notin [ticket : Nat, priority : 0..5]
  /\ MaxJobs \in Nat

VARIABLES
  m_Jobs,         \* the multimap, in iteration order
  m_QueueCount,   \* the value of the semaphore
  m_MutexQueue,   \* the thread that owns the mutex, or Nobody
  added,          \* the number of AddJob calls that have inserted
  gui,            \* where the GUI thread is in AddJob or Stacksize
  adding,         \* the priority argument of the AddJob call under way
  stacksize,      \* what Stacksize last returned, NoAnswer after an AddJob
  worker,         \* where each worker is in Pop
  element         \* each worker's local variable Job element

vars == <<m_Jobs, m_QueueCount, m_MutexQueue, added, gui, adding, stacksize,
          worker, element>>

guiVars    == <<gui, adding, stacksize, added>>
workerVars == <<worker, element>>

Entry    == [ticket : 1..MaxJobs, priority : Priority]
NoAnswer == -1

-----------------------------------------------------------------------------
(* The mutex.                                                              *)

\* Mutant: the mutex is not honoured.
NoLock(t) == m_MutexQueue' = t

LockQueue(t) ==
  /\ m_MutexQueue = Nobody
  /\ m_MutexQueue' = t

UnlockQueue(t) == m_MutexQueue' = Nobody

\* Mutant: a new job goes in front of the jobs of its own class.
InsertJobFirst(e) ==
  \E n \in 1..(Len(m_Jobs) + 1) :
    /\ \A i \in 1..(n-1) : m_Jobs[i].priority < e.priority
    /\ \A i \in n..Len(m_Jobs) : m_Jobs[i].priority >= e.priority
    /\ m_Jobs' = InsertAt(m_Jobs, n, e)

\* m_Jobs.insert(): std::multimap puts a new element behind all elements
\* whose key is not greater, in front of all whose key is greater.
InsertJob(e) ==
  \E n \in 1..(Len(m_Jobs) + 1) :
    /\ \A i \in 1..(n-1) : m_Jobs[i].priority <= e.priority
    /\ \A i \in n..Len(m_Jobs) : m_Jobs[i].priority > e.priority
    /\ m_Jobs' = InsertAt(m_Jobs, n, e)

-----------------------------------------------------------------------------
Init ==
  /\ m_Jobs = <<>>
  /\ m_QueueCount = 0
  /\ m_MutexQueue = Nobody
  /\ added = 0
  /\ gui = "idle"
  /\ adding \in Priority
  /\ stacksize = NoAnswer
  /\ worker = [w \in Worker |-> "wait"]
  /\ element = [w \in Worker |-> NoJob]

-----------------------------------------------------------------------------
(* AddJob: the wxMutexLocker holds the mutex from its construction to the  *)
(* end of the function, so the semaphore is posted before the unlock.      *)

AddJobLock(p) ==
  /\ gui = "idle"
  /\ added < MaxJobs
  /\ LockQueue(GUI)
  /\ gui' = "insert"
  /\ adding' = p
  /\ UNCHANGED <<m_Jobs, m_QueueCount, added, stacksize, workerVars>>

AddJobInsert ==
  /\ gui = "insert"
  /\ InsertJob([ticket |-> added + 1, priority |-> adding])
  /\ added' = added + 1
  /\ stacksize' = NoAnswer
  /\ gui' = "post"
  /\ UNCHANGED <<m_QueueCount, m_MutexQueue, adding, workerVars>>

\* Mutant: the semaphore is posted only if nobody could have been woken yet.
PostOnce ==
  /\ gui = "post"
  /\ m_QueueCount' = IF m_QueueCount = 0 THEN 1 ELSE m_QueueCount
  /\ gui' = "unlock"
  /\ UNCHANGED <<m_Jobs, m_MutexQueue, added, adding, stacksize, workerVars>>

AddJobPost ==
  /\ gui = "post"
  /\ m_QueueCount' = m_QueueCount + 1
  /\ gui' = "unlock"
  /\ UNCHANGED <<m_Jobs, m_MutexQueue, added, adding, stacksize, workerVars>>

AddJobUnlock ==
  /\ gui = "unlock"
  /\ UnlockQueue(GUI)
  /\ gui' = "idle"
  /\ UNCHANGED <<m_Jobs, m_QueueCount, added, adding, stacksize, workerVars>>

(* Stacksize, called from OnClose and OnThread.                            *)

StacksizeLock ==
  /\ gui = "idle"
  /\ LockQueue(GUI)
  /\ gui' = "size"
  /\ UNCHANGED <<m_Jobs, m_QueueCount, added, adding, stacksize, workerVars>>

\* Mutant: the semaphore is read instead of the multimap.
ReadCount ==
  /\ gui = "size"
  /\ stacksize' = m_QueueCount
  /\ gui' = "unlock"
  /\ UNCHANGED <<m_Jobs, m_QueueCount, m_MutexQueue, added, adding, workerVars>>

StacksizeRead ==
  /\ gui = "size"
  /\ stacksize' = Len(m_Jobs)
  /\ gui' = "unlock"
  /\ UNCHANGED <<m_Jobs, m_QueueCount, m_MutexQueue, added, adding, workerVars>>

-----------------------------------------------------------------------------
(* Pop.  Unlike AddJob it waits for the semaphore before it locks.         *)

\* Mutant: a worker that finds no count does not wait (TryWait).
TryWait(w) ==
  /\ worker[w] = "wait"
  /\ m_QueueCount' = m_QueueCount - 1
  /\ worker' = [worker EXCEPT ![w] = "lock"]
  /\ UNCHANGED <<m_Jobs, m_MutexQueue, guiVars, element>>

\* Mutant: the worker waits for the multimap to be filled, not for a count.
WaitForJobs(w) ==
  /\ worker[w] = "wait"
  /\ m_Jobs # <<>>
  /\ worker' = [worker EXCEPT ![w] = "lock"]
  /\ UNCHANGED <<m_Jobs, m_QueueCount, m_MutexQueue, guiVars, element>>

Wait(w) ==
  /\ worker[w] = "wait"
  /\ m_QueueCount > 0
  /\ m_QueueCount' = m_QueueCount - 1
  /\ worker' = [worker EXCEPT ![w] = "lock"]
  /\ UNCHANGED <<m_Jobs, m_MutexQueue, guiVars, element>>

Lock(w) ==
  /\ worker[w] = "lock"
  /\ LockQueue(w)
  /\ worker' = [worker EXCEPT ![w] = "copy"]
  /\ UNCHANGED <<m_Jobs, m_QueueCount, guiVars, element>>

\* element = (m_Jobs.begin())->second, undefined if the multimap is empty
Copy(w) ==
  /\ worker[w] = "copy"
  /\ element' = [element EXCEPT ![w] = Head(m_Jobs)]
  /\ worker' = [worker EXCEPT ![w] = "erase"]
  /\ UNCHANGED <<m_Jobs, m_QueueCount, m_MutexQueue, guiVars>>

\* m_Jobs.erase(m_Jobs.begin()), undefined if the multimap is empty
Erase(w) ==
  /\ worker[w] = "erase"
  /\ m_Jobs' = Tail(m_Jobs)
  /\ worker' = [worker EXCEPT ![w] = "unlock"]
  /\ UNCHANGED <<m_QueueCount, m_MutexQueue, guiVars, element>>

Unlock(w) ==
  /\ worker[w] = "unlock"
  /\ UnlockQueue(w)
  /\ worker' = [worker EXCEPT ![w] = "work"]
  /\ UNCHANGED <<m_Jobs, m_QueueCount, guiVars, element>>

\* doJob returns and doWork's loop calls it again: Job element is constructed
\* anew.
NextJob(w) ==
  /\ worker[w] = "work"
  /\ element' = [element EXCEPT ![w] = NoJob]
  /\ worker' = [worker EXCEPT ![w] = "wait"]
  /\ UNCHANGED <<m_Jobs, m_QueueCount, m_MutexQueue, guiVars>>

-----------------------------------------------------------------------------
GuiNext ==
  \/ \E p \in Priority : AddJobLock(p)
  \/ AddJobInsert
  \/ AddJobPost
  \/ AddJobUnlock
  \/ StacksizeLock
  \/ StacksizeRead

WorkerNext(w) ==
  \/ Wait(w)
  \/ Lock(w)
  \/ Copy(w)
  \/ Erase(w)
  \/ Unlock(w)
  \/ NextJob(w)

Next == GuiNext \/ \E w \in Worker : WorkerNext(w)

Spec == Init /\ [][Next]_vars

\* A thread that can run does run; a thread that wants the mutex gets it
\* although others take it in between.  Nothing makes the user submit jobs,
\* and nothing is assumed of NextJob: a job may take for ever.
Fairness ==
  /\ WF_vars(AddJobInsert)
  /\ WF_vars(AddJobPost)
  /\ WF_vars(AddJobUnlock)
  /\ WF_vars(StacksizeRead)
  /\ \A w \in Worker :
       /\ WF_vars(Wait(w))
       /\ SF_vars(Lock(w))
       /\ WF_vars(Copy(w) \/ Erase(w) \/ Unlock(w))

LiveSpec == Spec /\ Fairness

-----------------------------------------------------------------------------
GuiPC    == {"idle", "insert", "post", "unlock", "size"}
WorkerPC == {"wait", "lock", "copy", "erase", "unlock", "work"}

TypeOK ==
  /\ m_Jobs \in Seq(Entry)
  /\ m_QueueCount \in Nat
  /\ m_MutexQueue \in Worker \cup {GUI, Nobody}
  /\ added \in 0..MaxJobs
  /\ gui \in GuiPC
  /\ adding \in Priority
  /\ stacksize \in Nat \cup {NoAnswer}
  /\ worker \in [Worker -> WorkerPC]
  /\ element \in [Worker -> Entry \cup {NoJob}]

\* The workers that have been let through by the semaphore and have not yet
\* erased the job they were let through for.
Woken == {w \in Worker : worker[w] \in {"lock", "copy", "erase"}}

\* The job AddJob has inserted and not yet posted.
Unposted == IF gui = "post" THEN 1 ELSE 0

\* The semaphore counts the multimap, although neither is updated together
\* with the other: an element is inserted before it is posted (AddJob), and a
\* count is taken before an element is erased (Pop).
TokensMatchJobs == m_QueueCount + Cardinality(Woken) + Unposted = Len(m_Jobs)

\* Pop never dereferences or erases begin() of an empty multimap
\* (JobQueue.cpp:17-18), however many workers compete for the jobs.
BeginIsValid ==
  \A w \in Worker : worker[w] \in {"copy", "erase"} => m_Jobs # <<>>

\* Pop calls begin() twice: the job it erases is the job it copied, so no job
\* is lost and none is run by two workers (JobQueue.cpp:17-18).
EraseTakesCopied ==
  \A w \in Worker :
     worker[w] = "erase" => m_Jobs # <<>> /\ element[w] = Head(m_Jobs)

\* The size the GUI thread has read may be out of date as soon as Stacksize
\* has released the mutex, but only in one direction: until the GUI thread
\* adds a job itself, the queue is not longer than the answer.  OnClose and
\* OnThread rely on it when they act on an empty queue (UpdateGUI.cpp:188 and
\* 398).
SizeIsUpperBound == stacksize # NoAnswer => Len(m_Jobs) <= stacksize

-----------------------------------------------------------------------------
\* The queue implements the abstract one: a worker takes a job when it erases
\* it, and always the first in the order of priority and submission.
Taken(w) == worker[w] \in {"unlock", "work"}

Fifo == INSTANCE PriorityFifo WITH
          waiting <- ToSet(m_Jobs),
          held <- [w \in Worker |-> IF Taken(w) THEN element[w] ELSE NoJob]

ImplementsFifo == Fifo!Spec

\* No wakeup is lost: a job of the highest class in the queue is taken as
\* soon as workers keep coming back.  A worker that works for ever on its
\* job excuses the queue only if all workers do.
Busy == \A w \in Worker : worker[w] = "work"

HighestTaken ==
  \A t \in 1..MaxJobs :
     (\E i \in DOMAIN m_Jobs : m_Jobs[i].ticket = t /\ m_Jobs[i].priority = 0)
       ~> (Busy \/ \A i \in DOMAIN m_Jobs : m_Jobs[i].ticket # t)
=============================================================================
