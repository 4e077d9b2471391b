--------------------------- MODULE JobQueueProofs ---------------------------
(***************************************************************************)
(* Theorems about JobQueue, for every number of workers, every set of      *)
(* priority classes and every number of jobs.                              *)
(***************************************************************************)
EXTENDS JobQueue, SequenceLemmas, FiniteSetTheorems, TLAPS

-----------------------------------------------------------------------------
(* The inductive invariants.                                               *)

\* The owner of the mutex is the thread that is between Lock and Unlock.
MutexOwner ==
  /\ gui \in {"insert", "post", "unlock", "size"} <=> m_MutexQueue = GUI
  /\ \A w \in Worker :
       worker[w] \in {"copy", "erase", "unlock"} <=> m_MutexQueue = w

\* As many jobs as tokens, with what BeginIsValid and SizeIsUpperBound rest on.
IndInv ==
  /\ TypeOK
  /\ MutexOwner
  /\ TokensMatchJobs
  /\ EraseTakesCopied
  /\ SizeIsUpperBound
  /\ gui = "insert" => added < MaxJobs

\* What the refinement proof needs besides IndInv: the multimap is sorted by
\* priority, and by submission inside a priority.
OrderInv ==
  /\ \A i, j \in 1..Len(m_Jobs) : i < j => Fifo!Before(m_Jobs[i], m_Jobs[j])
  /\ \A i \in 1..Len(m_Jobs) : m_Jobs[i].ticket <= added
  /\ \A w \in Worker :
       worker[w] \in {"erase", "unlock", "work"} => element[w] # NoJob

-----------------------------------------------------------------------------
(* The invariant.                                                          *)

LEMMA EntryIsJob == Entry \subseteq [ticket : Nat, priority : 0..5] /\ NoJob \notin Entry
<1>1. ASSUME NEW e \in Entry PROVE e \in [ticket : Nat, priority : 0..5]
  <2>1. /\ e = [ticket |-> e.ticket, priority |-> e.priority]
        /\ e.ticket \in 1..MaxJobs /\ e.priority \in Priority
    BY DEF Entry
  <2>2. e.ticket \in Nat /\ e.priority \in 0..5
    BY <2>1, JobQueueAssumption
  <2> QED
    BY <2>1, <2>2
<1> QED
  BY <1>1, JobQueueAssumption

LEMMA WokenFinite == IsFiniteSet(Woken) /\ Cardinality(Woken) \in Nat
BY JobQueueAssumption, FS_Subset, FS_CardinalityType DEF Woken

\* A worker that is between Wait and Erase sees a queue that is not empty.
LEMMA WokenSeesJob ==
  ASSUME TypeOK, TokensMatchJobs, NEW w \in Worker,
         worker[w] \in {"lock", "copy", "erase"}
  PROVE  m_Jobs # <<>>
<1>1. w \in Woken
  BY DEF Woken
<1>2. Cardinality(Woken) # 0
  BY <1>1, WokenFinite, FS_EmptySet
<1>3. Len(m_Jobs) > 0
  BY <1>2, WokenFinite DEF TypeOK, TokensMatchJobs, Unposted
<1> QED
  BY <1>3

\* What InsertJob does to the queue.
LEMMA InsertJobProperties ==
  ASSUME TypeOK, NEW e \in Entry, InsertJob(e)
  PROVE  m_Jobs' \in Seq(Entry) /\ Len(m_Jobs') = Len(m_Jobs) + 1
<1>1. PICK n \in 1..(Len(m_Jobs) + 1) : m_Jobs' = InsertAt(m_Jobs, n, e)
  BY DEF InsertJob
<1>2. m_Jobs \in Seq(Entry)
  BY DEF TypeOK
<1> QED
  BY <1>1, <1>2, InsertAtProperties

LEMMA IndInvInit == Init => IndInv
<1> SUFFICES ASSUME Init PROVE IndInv
  OBVIOUS
<1>1. Woken = {}
  BY DEF Init, Woken
<1>2. Cardinality(Woken) = 0
  BY <1>1, FS_EmptySet
<1>3. m_Jobs \in Seq(Entry) /\ Len(m_Jobs) = 0
  BY DEF Init
<1> QED
  BY <1>2, <1>3, JobQueueAssumption
     DEF Init, IndInv, TypeOK, MutexOwner, TokensMatchJobs, Unposted,
         EraseTakesCopied, SizeIsUpperBound, NoAnswer, GuiPC, WorkerPC

\* Every step of the GUI thread preserves the invariant.
LEMMA IndInvGui == IndInv /\ GuiNext => IndInv'
<1> SUFFICES ASSUME IndInv, GuiNext PROVE IndInv'
  OBVIOUS
<1> USE DEF IndInv
<1>t. m_Jobs \in Seq(Entry) /\ Len(m_Jobs) \in Nat
  BY DEF TypeOK
<1>a. GUI \notin Worker /\ Nobody \notin Worker /\ GUI # Nobody /\ MaxJobs \in Nat
  BY JobQueueAssumption
<1>c. Cardinality(Woken) \in Nat
  BY WokenFinite
<1>1. ASSUME NEW p \in Priority, AddJobLock(p) PROVE IndInv'
  <2> USE <1>1 DEF AddJobLock, LockQueue, workerVars
  <2>1. TypeOK'
    BY DEF TypeOK, GuiPC
  <2>2. MutexOwner'
    BY <1>a DEF TypeOK, MutexOwner
  <2>3. TokensMatchJobs'
    BY DEF TokensMatchJobs, Woken, Unposted
  <2> QED
    BY <2>1, <2>2, <2>3 DEF EraseTakesCopied, SizeIsUpperBound
<1>2. ASSUME AddJobInsert PROVE IndInv'
  <2> USE <1>2 DEF AddJobInsert, workerVars
  <2> DEFINE e == [ticket |-> added + 1, priority |-> adding]
  <2>1. e \in Entry
    BY <1>a DEF TypeOK, Entry
  <2>2. m_Jobs' \in Seq(Entry) /\ Len(m_Jobs') = Len(m_Jobs) + 1
    BY <2>1, InsertJobProperties
  <2>3. \A w \in Worker : worker[w] \notin {"copy", "erase"}
    BY <1>a DEF MutexOwner
  <2>4. TypeOK'
    BY <1>a, <2>2 DEF TypeOK, GuiPC
  <2>5. MutexOwner'
    BY DEF MutexOwner
  <2>6. TokensMatchJobs'
    BY <1>t, <1>c, <2>2 DEF TypeOK, TokensMatchJobs, Woken, Unposted
  <2>7. EraseTakesCopied'
    BY <2>3 DEF EraseTakesCopied
  <2> QED
    BY <2>4, <2>5, <2>6, <2>7 DEF SizeIsUpperBound
<1>3. ASSUME AddJobPost PROVE IndInv'
  <2> USE <1>3 DEF AddJobPost, workerVars
  <2>1. TypeOK'
    BY DEF TypeOK, GuiPC
  <2>2. MutexOwner'
    BY DEF MutexOwner
  <2>3. TokensMatchJobs'
    BY <1>t, <1>c DEF TypeOK, TokensMatchJobs, Woken, Unposted
  <2> QED
    BY <2>1, <2>2, <2>3 DEF EraseTakesCopied, SizeIsUpperBound
<1>4. ASSUME AddJobUnlock PROVE IndInv'
  <2> USE <1>4 DEF AddJobUnlock, UnlockQueue, workerVars
  <2>1. TypeOK'
    BY DEF TypeOK, GuiPC
  <2>2. MutexOwner'
    BY <1>a DEF MutexOwner
  <2>3. TokensMatchJobs'
    BY DEF TokensMatchJobs, Woken, Unposted
  <2> QED
    BY <2>1, <2>2, <2>3 DEF EraseTakesCopied, SizeIsUpperBound
<1>5. ASSUME StacksizeLock PROVE IndInv'
  <2> USE <1>5 DEF StacksizeLock, LockQueue, workerVars
  <2>1. TypeOK'
    BY DEF TypeOK, GuiPC
  <2>2. MutexOwner'
    BY <1>a DEF TypeOK, MutexOwner
  <2>3. TokensMatchJobs'
    BY DEF TokensMatchJobs, Woken, Unposted
  <2> QED
    BY <2>1, <2>2, <2>3 DEF EraseTakesCopied, SizeIsUpperBound
<1>6. ASSUME StacksizeRead PROVE IndInv'
  <2> USE <1>6 DEF StacksizeRead, workerVars
  <2>1. TypeOK'
    BY <1>t DEF TypeOK, GuiPC
  <2>2. MutexOwner'
    BY DEF MutexOwner
  <2>3. TokensMatchJobs'
    BY DEF TokensMatchJobs, Woken, Unposted
  <2> QED
    BY <1>t, <2>1, <2>2, <2>3 DEF EraseTakesCopied, SizeIsUpperBound
<1> QED
  BY <1>1, <1>2, <1>3, <1>4, <1>5, <1>6 DEF GuiNext

\* Every step of a worker preserves the invariant.
LEMMA IndInvWorker ==
  ASSUME IndInv, NEW w \in Worker, WorkerNext(w)
  PROVE  IndInv'
<1> USE DEF IndInv
<1>t. m_Jobs \in Seq(Entry) /\ Len(m_Jobs) \in Nat
  BY DEF TypeOK
<1>a. GUI \notin Worker /\ Nobody \notin Worker /\ GUI # Nobody /\ MaxJobs \in Nat
  BY JobQueueAssumption
<1>c. IsFiniteSet(Woken) /\ Cardinality(Woken) \in Nat
  BY WokenFinite
<1>1. ASSUME Wait(w) PROVE IndInv'
  <2> USE <1>1 DEF Wait, guiVars
  <2>1. TypeOK'
    BY DEF TypeOK, WorkerPC
  <2>2. MutexOwner'
    BY <1>a DEF TypeOK, MutexOwner
  <2>3. w \notin Woken /\ Woken' = Woken \cup {w}
    BY DEF TypeOK, Woken
  <2>4. Cardinality(Woken') = Cardinality(Woken) + 1
    BY <1>c, <2>3, FS_AddElement
  <2>5. TokensMatchJobs'
    BY <1>t, <1>c, <2>4 DEF TypeOK, TokensMatchJobs, Unposted
  <2>6. EraseTakesCopied'
    BY DEF TypeOK, EraseTakesCopied
  <2> QED
    BY <2>1, <2>2, <2>5, <2>6 DEF SizeIsUpperBound
<1>2. ASSUME Lock(w) PROVE IndInv'
  <2> USE <1>2 DEF Lock, LockQueue, guiVars
  <2>1. TypeOK'
    BY DEF TypeOK, WorkerPC
  <2>2. MutexOwner'
    BY <1>a DEF TypeOK, MutexOwner
  <2>3. Woken' = Woken
    BY DEF TypeOK, Woken
  <2>4. TokensMatchJobs'
    BY <2>3 DEF TokensMatchJobs, Unposted
  <2>5. EraseTakesCopied'
    BY DEF TypeOK, EraseTakesCopied
  <2> QED
    BY <2>1, <2>2, <2>4, <2>5 DEF SizeIsUpperBound
<1>3. ASSUME Copy(w) PROVE IndInv'
  <2> USE <1>3 DEF Copy, guiVars
  <2>1. m_Jobs # <<>>
    BY WokenSeesJob
  <2>2. Head(m_Jobs) \in Entry
    BY <1>t, <2>1, HeadTailProperties
  <2>3. TypeOK'
    BY <2>2 DEF TypeOK, WorkerPC
  <2>4. MutexOwner'
    BY DEF TypeOK, MutexOwner
  <2>5. Woken' = Woken
    BY DEF TypeOK, Woken
  <2>6. TokensMatchJobs'
    BY <2>5 DEF TokensMatchJobs, Unposted
  <2>7. EraseTakesCopied'
    BY <2>1 DEF TypeOK, EraseTakesCopied
  <2> QED
    BY <2>3, <2>4, <2>6, <2>7 DEF SizeIsUpperBound
<1>4. ASSUME Erase(w) PROVE IndInv'
  <2> USE <1>4 DEF Erase, guiVars
  <2>1. m_Jobs # <<>>
    BY WokenSeesJob
  <2>2. m_Jobs' \in Seq(Entry) /\ Len(m_Jobs') = Len(m_Jobs) - 1
    BY <1>t, <2>1, HeadTailProperties
  <2>3. TypeOK'
    BY <2>2 DEF TypeOK, WorkerPC
  <2>4. MutexOwner'
    BY DEF TypeOK, MutexOwner
  <2>5. w \in Woken /\ Woken' = Woken \ {w}
    BY DEF TypeOK, Woken
  <2>6. Cardinality(Woken') = Cardinality(Woken) - 1
    BY <1>c, <2>5, FS_RemoveElement
  <2>7. TokensMatchJobs'
    BY <1>t, <1>c, <2>2, <2>6 DEF TypeOK, TokensMatchJobs, Unposted
  <2>8. \A v \in Worker : worker'[v] # "erase"
    <3>1. m_MutexQueue = w
      BY DEF MutexOwner
    <3> QED
      BY <3>1 DEF TypeOK, MutexOwner
  <2>9. SizeIsUpperBound'
    BY <1>t, <2>2 DEF TypeOK, SizeIsUpperBound
  <2> QED
    BY <2>3, <2>4, <2>7, <2>8, <2>9 DEF EraseTakesCopied
<1>5. ASSUME Unlock(w) PROVE IndInv'
  <2> USE <1>5 DEF Unlock, UnlockQueue, guiVars
  <2>1. TypeOK'
    BY DEF TypeOK, WorkerPC
  <2>2. MutexOwner'
    BY <1>a DEF TypeOK, MutexOwner
  <2>3. Woken' = Woken
    BY DEF TypeOK, Woken
  <2>4. TokensMatchJobs'
    BY <2>3 DEF TokensMatchJobs, Unposted
  <2>5. EraseTakesCopied'
    BY DEF TypeOK, EraseTakesCopied
  <2> QED
    BY <2>1, <2>2, <2>4, <2>5 DEF SizeIsUpperBound
<1>6. ASSUME NextJob(w) PROVE IndInv'
  <2> USE <1>6 DEF NextJob, guiVars
  <2>1. TypeOK'
    BY DEF TypeOK, WorkerPC
  <2>2. MutexOwner'
    BY DEF TypeOK, MutexOwner
  <2>3. Woken' = Woken
    BY DEF TypeOK, Woken
  <2>4. TokensMatchJobs'
    BY <2>3 DEF TokensMatchJobs, Unposted
  <2>5. EraseTakesCopied'
    BY DEF TypeOK, EraseTakesCopied
  <2> QED
    BY <2>1, <2>2, <2>4, <2>5 DEF SizeIsUpperBound
<1> QED
  BY <1>1, <1>2, <1>3, <1>4, <1>5, <1>6 DEF WorkerNext

LEMMA IndInvStep == IndInv /\ [Next]_vars => IndInv'
<1> SUFFICES ASSUME IndInv, [Next]_vars PROVE IndInv'
  OBVIOUS
<1>1. CASE GuiNext
  BY <1>1, IndInvGui
<1>2. CASE \E w \in Worker : WorkerNext(w)
  BY <1>2, IndInvWorker
<1>3. CASE UNCHANGED vars
  BY <1>3 DEF vars, IndInv, TypeOK, MutexOwner, TokensMatchJobs, Woken,
              Unposted, EraseTakesCopied, SizeIsUpperBound
<1> QED
  BY <1>1, <1>2, <1>3 DEF Next

THEOREM Invariance == Spec => []IndInv
BY IndInvInit, IndInvStep, PTL DEF Spec

\* Every variable stays in its range; in particular the semaphore never goes
\* below zero.
THEOREM TypeCorrect == Spec => []TypeOK
BY Invariance, PTL DEF IndInv

\* The semaphore and the multimap agree (JobQueue.cpp:7-9 and 15-18).
THEOREM TokensMatch == Spec => []TokensMatchJobs
BY Invariance, PTL DEF IndInv

\* Pop never touches begin() of an empty multimap (JobQueue.cpp:17-18).
THEOREM BeginValid == Spec => []BeginIsValid
<1>1. IndInv => BeginIsValid
  BY WokenSeesJob DEF IndInv, BeginIsValid
<1> QED
  BY <1>1, Invariance, PTL

\* The job that Pop erases is the job that it returns (JobQueue.cpp:17-18).
THEOREM ErasesWhatItCopied == Spec => []EraseTakesCopied
BY Invariance, PTL DEF IndInv

\* Between two AddJob calls of the GUI thread the queue never grows beyond
\* what Stacksize answered (UpdateGUI.cpp:188 and 398).
THEOREM SizeUpperBound == Spec => []SizeIsUpperBound
BY Invariance, PTL DEF IndInv

-----------------------------------------------------------------------------
(* The queue implements PriorityFifo.                                      *)

\* Inserting behind all jobs of the same or a smaller priority keeps the
\* multimap sorted.
LEMMA InsertKeepsOrder ==
  ASSUME IndInv, OrderInv, NEW e \in Entry, e.ticket = added + 1,
         added' = added + 1, InsertJob(e)
  PROVE  /\ \A i, j \in 1..Len(m_Jobs') : i < j => Fifo!Before(m_Jobs'[i], m_Jobs'[j])
         /\ \A i \in 1..Len(m_Jobs') : m_Jobs'[i].ticket <= added'
         /\ ToSet(m_Jobs') = ToSet(m_Jobs) \cup {e}
<1>t. /\ m_Jobs \in Seq(Entry) /\ Len(m_Jobs) \in Nat
      /\ added \in Int
      /\ \A i \in 1..Len(m_Jobs) :
           m_Jobs[i] \in Entry /\ m_Jobs[i].ticket \in Int /\ m_Jobs[i].priority \in Int
      /\ e.priority \in Int
  <2>1. \A d \in Entry : d.ticket \in Int /\ d.priority \in Int
    BY EntryIsJob
  <2> QED
    BY <2>1 DEF IndInv, TypeOK
<1>0. m_Jobs \in Seq(Entry)
  BY <1>t
<1>1. PICK n \in 1..(Len(m_Jobs) + 1) :
        /\ \A i \in 1..(n-1) : m_Jobs[i].priority <= e.priority
        /\ \A i \in n..Len(m_Jobs) : m_Jobs[i].priority > e.priority
        /\ m_Jobs' = InsertAt(m_Jobs, n, e)
  BY DEF InsertJob
<1>2. /\ m_Jobs' \in Seq(Entry)
      /\ Len(m_Jobs') = Len(m_Jobs) + 1
      /\ \A i \in 1..(n - 1) : m_Jobs'[i] = m_Jobs[i]
      /\ m_Jobs'[n] = e
      /\ \A k \in n..Len(m_Jobs) : \A i \in Int : i = k + 1 => m_Jobs'[i] = m_Jobs[k]
  <2>1. InsertAt(m_Jobs, n, e) \in Seq(Entry)
    BY <1>0, InsertAtProperties
  <2>5. Len(InsertAt(m_Jobs, n, e)) = Len(m_Jobs) + 1
    BY <1>0, InsertAtProperties
  <2>2. InsertAt(m_Jobs, n, e)[n] = e
    BY <1>0, InsertAtProperties
  <2>3. \A i \in 1..(n - 1) : InsertAt(m_Jobs, n, e)[i] = m_Jobs[i]
    BY <1>0, InsertAtProperties
  <2>4. ASSUME NEW k \in n..Len(m_Jobs), NEW i \in Int, i = k + 1
        PROVE  InsertAt(m_Jobs, n, e)[i] = m_Jobs[k]
    BY <1>0, <2>4, InsertAtProperties
  <2> QED
    BY <1>1, <2>1, <2>2, <2>3, <2>4, <2>5
<1>b. ASSUME NEW i \in (n + 1)..Len(m_Jobs')
      PROVE  m_Jobs'[i] = m_Jobs[i - 1] /\ i - 1 \in n..Len(m_Jobs) /\ i - 1 \in 1..Len(m_Jobs)
  <2>1. i - 1 \in n..Len(m_Jobs) /\ i - 1 \in 1..Len(m_Jobs) /\ i \in Int /\ i = (i - 1) + 1
    BY <1>t, <1>2
  <2> QED
    BY <1>2, <2>1
<1>3. ASSUME NEW i \in 1..Len(m_Jobs'), NEW j \in 1..Len(m_Jobs'), i < j
      PROVE  Fifo!Before(m_Jobs'[i], m_Jobs'[j])
  <2>1. CASE j < n
    <3>1. /\ m_Jobs'[i] = m_Jobs[i] /\ m_Jobs'[j] = m_Jobs[j]
          /\ i \in 1..Len(m_Jobs) /\ j \in 1..Len(m_Jobs)
      BY <1>t, <1>2, <1>3, <2>1
    <3> QED
      BY <1>3, <3>1 DEF OrderInv
  <2>2. CASE j = n
    <3>1. m_Jobs'[i] = m_Jobs[i] /\ m_Jobs'[j] = e /\ i \in 1..(n-1)
      BY <1>t, <1>2, <1>3, <2>2
    <3>2. m_Jobs[i].priority <= e.priority /\ m_Jobs[i].ticket < e.ticket
      BY <1>1, <1>t, <3>1 DEF OrderInv
    <3> QED
      BY <1>t, <3>1, <3>2 DEF Fifo!Before
  <2>3. CASE j > n /\ i = n
    <3>1. m_Jobs'[i] = e /\ m_Jobs'[j] = m_Jobs[j - 1] /\ j - 1 \in n..Len(m_Jobs)
      <4>1. j \in (n + 1)..Len(m_Jobs')
        BY <1>t, <1>2, <2>3
      <4> QED
        BY <1>2, <1>b, <2>3, <4>1
    <3>2. m_Jobs[j - 1].priority > e.priority
      BY <1>1, <3>1
    <3> QED
      BY <1>t, <3>1, <3>2 DEF Fifo!Before
  <2>4. CASE j > n /\ i < n
    <3>1. /\ m_Jobs'[i] = m_Jobs[i] /\ m_Jobs'[j] = m_Jobs[j - 1]
          /\ i \in 1..Len(m_Jobs) /\ j - 1 \in 1..Len(m_Jobs) /\ i < j - 1
      <4>1. j \in (n + 1)..Len(m_Jobs') /\ i \in 1..(n - 1) /\ i \in 1..Len(m_Jobs) /\ i < j - 1
        BY <1>t, <1>2, <2>4
      <4> QED
        BY <1>2, <1>b, <4>1
    <3> QED
      BY <3>1 DEF OrderInv
  <2>5. CASE j > n /\ i > n
    <3>1. /\ m_Jobs'[i] = m_Jobs[i - 1] /\ m_Jobs'[j] = m_Jobs[j - 1]
          /\ i - 1 \in 1..Len(m_Jobs) /\ j - 1 \in 1..Len(m_Jobs) /\ i - 1 < j - 1
      <4>1. j \in (n + 1)..Len(m_Jobs') /\ i \in (n + 1)..Len(m_Jobs') /\ i - 1 < j - 1
        BY <1>t, <1>2, <1>3, <2>5
      <4> QED
        BY <1>b, <4>1
    <3> QED
      BY <3>1 DEF OrderInv
  <2> QED
    BY <1>t, <1>2, <2>1, <2>2, <2>3, <2>4, <2>5
<1>4. ASSUME NEW i \in 1..Len(m_Jobs') PROVE m_Jobs'[i].ticket <= added'
  <2>1. CASE i < n
    <3>1. m_Jobs'[i] = m_Jobs[i] /\ i \in 1..Len(m_Jobs)
      BY <1>t, <1>2, <2>1
    <3> QED
      BY <1>t, <3>1 DEF OrderInv
  <2>2. CASE i = n
    BY <1>t, <1>2, <2>2
  <2>3. CASE i > n
    <3>1. m_Jobs'[i] = m_Jobs[i - 1] /\ i - 1 \in 1..Len(m_Jobs)
      <4>1. i \in (n + 1)..Len(m_Jobs')
        BY <1>t, <1>2, <2>3
      <4> QED
        BY <1>b, <4>1
    <3> QED
      BY <1>t, <3>1 DEF OrderInv
  <2> QED
    BY <1>t, <1>2, <2>1, <2>2, <2>3
<1>5. ToSet(m_Jobs') = ToSet(m_Jobs) \cup {e}
  <2>1. ToSet(InsertAt(m_Jobs, n, e)) = ToSet(m_Jobs) \cup {e}
    BY <1>0, InsertAtElements
  <2> QED
    BY <1>1, <2>1
<1> QED
  BY <1>3, <1>4, <1>5

LEMMA OrderInvStep == IndInv /\ OrderInv /\ [Next]_vars => OrderInv'
<1> SUFFICES ASSUME IndInv, OrderInv, [Next]_vars PROVE OrderInv'
  OBVIOUS
<1>t. m_Jobs \in Seq(Entry) /\ Len(m_Jobs) \in Nat /\ worker \in [Worker -> WorkerPC]
      /\ element \in [Worker -> Entry \cup {NoJob}] /\ added \in Nat
  BY DEF IndInv, TypeOK
<1>1. CASE AddJobInsert
  <2> DEFINE e == [ticket |-> added + 1, priority |-> adding]
  <2>1. e \in Entry /\ e.ticket = added + 1
    BY <1>1, JobQueueAssumption DEF AddJobInsert, IndInv, TypeOK, Entry
  <2>2. InsertJob(e) /\ added' = added + 1 /\ UNCHANGED workerVars
    BY <1>1 DEF AddJobInsert
  <2> HIDE DEF e
  <2>3. /\ \A i, j \in 1..Len(m_Jobs') : i < j => Fifo!Before(m_Jobs'[i], m_Jobs'[j])
        /\ \A i \in 1..Len(m_Jobs') : m_Jobs'[i].ticket <= added'
    BY <2>1, <2>2, InsertKeepsOrder
  <2> QED
    BY <2>2, <2>3 DEF OrderInv, workerVars
<1>2. ASSUME NEW w \in Worker, Copy(w) PROVE OrderInv'
  <2>1. m_Jobs # <<>>
    BY <1>2, WokenSeesJob DEF Copy, IndInv
  <2>2. Head(m_Jobs) \in Entry
    BY <1>t, <2>1, HeadTailProperties
  <2>3. Head(m_Jobs) # NoJob
    BY <2>2, EntryIsJob
  <2> QED
    BY <1>t, <1>2, <2>3 DEF Copy, OrderInv, guiVars
<1>3. ASSUME NEW w \in Worker, Erase(w) PROVE OrderInv'
  <2>1. m_Jobs # <<>>
    BY <1>3, WokenSeesJob DEF Erase, IndInv
  <2>2. /\ Len(m_Jobs') = Len(m_Jobs) - 1
        /\ \A i \in 1..Len(m_Jobs') : m_Jobs'[i] = m_Jobs[i + 1]
    BY <1>t, <1>3, <2>1, HeadTailProperties DEF Erase
  <2>3. ASSUME NEW i \in 1..Len(m_Jobs')
        PROVE  i + 1 \in 1..Len(m_Jobs) /\ m_Jobs'[i] = m_Jobs[i + 1] /\ i \in Int
    BY <1>t, <2>2
  <2>4. ASSUME NEW i \in 1..Len(m_Jobs'), NEW j \in 1..Len(m_Jobs'), i < j
        PROVE  Fifo!Before(m_Jobs'[i], m_Jobs'[j])
    <3>1. i + 1 < j + 1
      BY <2>3, <2>4
    <3> QED
      BY <2>3, <3>1 DEF OrderInv
  <2>5. ASSUME NEW i \in 1..Len(m_Jobs') PROVE m_Jobs'[i].ticket <= added'
    BY <1>3, <2>3 DEF OrderInv, Erase, guiVars
  <2>6. \A v \in Worker :
          worker'[v] \in {"erase", "unlock", "work"} => element'[v] # NoJob
    BY <1>t, <1>3 DEF Erase, OrderInv
  <2> QED
    BY <2>4, <2>5, <2>6 DEF OrderInv
<1>4. CASE \E p \in Priority : AddJobLock(p)
  BY <1>4 DEF AddJobLock, OrderInv, workerVars
<1>5. CASE AddJobPost \/ AddJobUnlock \/ StacksizeLock \/ StacksizeRead
  BY <1>5 DEF AddJobPost, AddJobUnlock, StacksizeLock, StacksizeRead, OrderInv, workerVars
<1>6. ASSUME NEW w \in Worker, Wait(w) \/ Lock(w) \/ Unlock(w) \/ NextJob(w)
      PROVE  OrderInv'
  BY <1>t, <1>6 DEF Wait, Lock, Unlock, NextJob, OrderInv, guiVars
<1>7. CASE UNCHANGED vars
  BY <1>7 DEF vars, OrderInv
<1> QED
  BY <1>1, <1>2, <1>3, <1>4, <1>5, <1>6, <1>7 DEF Next, GuiNext, WorkerNext

LEMMA RefineInit == Init => Fifo!Init
BY DEF Init, Fifo!Init, Taken, ToSet

\* Erasing takes the first waiting job.
LEMMA EraseTakes ==
  ASSUME IndInv, OrderInv, NEW w \in Worker, Erase(w)
  PROVE  Fifo!Take(w)
<1>t. m_Jobs \in Seq(Entry) /\ Len(m_Jobs) \in Nat /\ worker \in [Worker -> WorkerPC]
      /\ element \in [Worker -> Entry \cup {NoJob}]
  BY DEF IndInv, TypeOK
<1>1. m_Jobs # <<>> /\ element[w] = Head(m_Jobs)
  BY DEF Erase, IndInv, EraseTakesCopied
<1>2. Head(m_Jobs) = m_Jobs[1] /\ Len(m_Jobs) > 0
  BY <1>1, <1>t
<1>3. /\ m_Jobs' \in Seq(Entry)
      /\ Len(m_Jobs') = Len(m_Jobs) - 1
      /\ \A i \in 1..Len(m_Jobs') : m_Jobs'[i] = m_Jobs[i + 1]
  BY <1>t, <1>1, HeadTailProperties DEF Erase
<1> DEFINE e == m_Jobs[1]
<1>4. ASSUME NEW i \in 2..Len(m_Jobs) PROVE Fifo!Before(e, m_Jobs[i]) /\ m_Jobs[i] # e
  <2>1. Fifo!Before(e, m_Jobs[i])
    BY <1>t, <1>2 DEF OrderInv
  <2>2. e \in Entry
    BY <1>t, <1>2
  <2>3. ~ Fifo!Before(e, e)
    <3>1. e.ticket \in Int /\ e.priority \in Int
      BY <2>2, EntryIsJob
    <3> QED
      BY <3>1 DEF Fifo!Before
  <2> QED
    BY <2>1, <2>3
<1>5. e \in ToSet(m_Jobs)
  BY <1>t, <1>2 DEF ToSet
<1>6. Fifo!First(e)
  <2>1. ASSUME NEW o \in ToSet(m_Jobs) \ {e} PROVE Fifo!Before(e, o)
    <3>1. PICK i \in 1..Len(m_Jobs) : o = m_Jobs[i]
      BY <1>t DEF ToSet
    <3>2. i \in 2..Len(m_Jobs)
      BY <3>1, <1>t
    <3> QED
      BY <1>4, <3>1, <3>2
  <2> QED
    BY <2>1 DEF Fifo!First
<1>7. ToSet(m_Jobs') = ToSet(m_Jobs) \ {e}
  <2>1. ASSUME NEW i \in 1..Len(m_Jobs') PROVE m_Jobs'[i] \in ToSet(m_Jobs) \ {e}
    <3>1. i + 1 \in 2..Len(m_Jobs) /\ i + 1 \in DOMAIN m_Jobs /\ m_Jobs'[i] = m_Jobs[i + 1]
      BY <1>t, <1>3
    <3> QED
      BY <1>4, <3>1 DEF ToSet
  <2>2. ASSUME NEW i \in 2..Len(m_Jobs) PROVE m_Jobs[i] \in ToSet(m_Jobs')
    <3>1. i - 1 \in DOMAIN m_Jobs' /\ m_Jobs'[i - 1] = m_Jobs[i]
      BY <1>t, <1>3
    <3> QED
      BY <3>1 DEF ToSet
  <2>3. \A i \in DOMAIN m_Jobs : m_Jobs[i] # e => i \in 2..Len(m_Jobs)
    BY <1>t
  <2>4. DOMAIN m_Jobs' = 1..Len(m_Jobs')
    BY <1>3
  <2> QED
    BY <2>1, <2>2, <2>3, <2>4 DEF ToSet
<1>8. [v \in Worker |-> IF Taken(v) THEN element[v] ELSE NoJob]' =
        [[v \in Worker |-> IF Taken(v) THEN element[v] ELSE NoJob] EXCEPT ![w] = e]
  BY <1>t, <1>1, <1>2 DEF Erase, Taken
<1>9. ~ Taken(w) /\ UNCHANGED added
  BY DEF Erase, Taken, guiVars
<1> QED
  BY <1>5, <1>6, <1>7, <1>8, <1>9 DEF Fifo!Take

LEMMA RefineStep == IndInv /\ OrderInv /\ [Next]_vars => [Fifo!Next]_(Fifo!vars)
<1> SUFFICES ASSUME IndInv, OrderInv, [Next]_vars PROVE [Fifo!Next]_(Fifo!vars)
  OBVIOUS
<1> DEFINE held == [v \in Worker |-> IF Taken(v) THEN element[v] ELSE NoJob]
<1>t. worker \in [Worker -> WorkerPC] /\ element \in [Worker -> Entry \cup {NoJob}]
  BY DEF IndInv, TypeOK
<1>s. UNCHANGED <<m_Jobs, held, added>> => UNCHANGED Fifo!vars
  BY DEF Fifo!vars
<1>1. CASE AddJobInsert
  <2> DEFINE e == [ticket |-> added + 1, priority |-> adding]
  <2>1. e \in Entry /\ e.ticket = added + 1 /\ adding \in Fifo!JobPriority
    BY <1>1, JobQueueAssumption DEF AddJobInsert, IndInv, TypeOK, Entry, Fifo!JobPriority
  <2>2. InsertJob(e) /\ added' = added + 1 /\ UNCHANGED workerVars
    BY <1>1 DEF AddJobInsert
  <2>3. ToSet(m_Jobs') = ToSet(m_Jobs) \cup {e}
    <3> HIDE DEF e
    <3> QED
      BY <2>1, <2>2, InsertKeepsOrder
  <2>4. UNCHANGED held
    BY <2>2 DEF workerVars, Taken
  <2>5. Fifo!Add(adding)
    BY <2>2, <2>3, <2>4 DEF Fifo!Add
  <2> QED
    BY <2>1, <2>5 DEF Fifo!Next
<1>2. ASSUME NEW w \in Worker, Erase(w) PROVE Fifo!Next
  BY <1>2, EraseTakes DEF Fifo!Next
<1>3. ASSUME NEW w \in Worker, NextJob(w) PROVE Fifo!Next
  <2>1. Taken(w) /\ element[w] # NoJob
    BY <1>3 DEF NextJob, OrderInv, Taken
  <2>2. held' = [held EXCEPT ![w] = NoJob]
    BY <1>t, <1>3 DEF NextJob, Taken
  <2>3. Fifo!Finish(w)
    BY <1>3, <2>1, <2>2 DEF NextJob, Fifo!Finish, guiVars
  <2> QED
    BY <2>3 DEF Fifo!Next
<1>4. CASE \/ \E p \in Priority : AddJobLock(p)
           \/ AddJobPost \/ AddJobUnlock \/ StacksizeLock \/ StacksizeRead
  <2>1. UNCHANGED <<m_Jobs, added, worker, element>>
    BY <1>4 DEF AddJobLock, AddJobPost, AddJobUnlock, StacksizeLock, StacksizeRead, workerVars
  <2> QED
    BY <2>1, <1>s DEF Taken
<1>5. ASSUME NEW w \in Worker, Wait(w) \/ Lock(w) \/ Copy(w) \/ Unlock(w)
      PROVE  UNCHANGED <<m_Jobs, held, added>>
  <2>1. UNCHANGED <<m_Jobs, added>>
    BY <1>5 DEF Wait, Lock, Copy, Unlock, guiVars
  <2>2. ASSUME NEW v \in Worker
        PROVE  (IF Taken(v) THEN element[v] ELSE NoJob)' = IF Taken(v) THEN element[v] ELSE NoJob
    BY <1>t, <1>5 DEF Wait, Lock, Copy, Unlock, Taken
  <2> QED
    BY <2>1, <2>2
<1>6. CASE UNCHANGED vars
  BY <1>6, <1>s DEF vars, Taken
<1> QED
  BY <1>1, <1>2, <1>3, <1>4, <1>5, <1>6, <1>s DEF Next, GuiNext, WorkerNext

\* Pop hands out the jobs in the order of priority and submission, each to one
\* worker (JobQueue.cpp:5-21).
THEOREM Refinement == Spec => ImplementsFifo
<1>1. Init => OrderInv
  BY DEF Init, OrderInv
<1>2. Spec => []OrderInv
  BY <1>1, OrderInvStep, Invariance, PTL DEF Spec
<1> QED
  BY <1>2, Invariance, RefineInit, RefineStep, PTL DEF Spec, ImplementsFifo, Fifo!Spec
=============================================================================
