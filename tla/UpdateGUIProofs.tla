--------------------------- MODULE UpdateGUIProofs ---------------------------
(***************************************************************************)
(* Theorems about UpdateGUI, for every number of worker threads, every     *)
(* number of jobs and every width of size_t, and whether or not threads    *)
(* fail to start or die of an exception.                                   *)
(***************************************************************************)
EXTENDS UpdateApp, SequenceLemmas, FiniteSetTheorems, TLAPS

-----------------------------------------------------------------------------
(* The inductive invariants.                                               *)

\* EXIT is the last event a worker posts; a thread leaves the list only when it
\* is handled.
EventOrder ==
  /\ \A i \in 1..Len(pending) :
       /\ pending[i].id \in threads
       /\ pending[i].cmd = "EXIT" =>
            /\ worker[pending[i].id] = "stopped"
            /\ \A k \in (i+1)..Len(pending) : pending[k].id # pending[i].id
  /\ \A w \in Worker \ threads : worker[w] = "stopped"

\* An EXIT job, wherever it has got to, comes from OnClose.
ExitsFromClose ==
  /\ \A j \in ToSet(m_Jobs) : j.cmd = "EXIT" => closing
  /\ \A w \in Worker :
       /\ worker[w] = "popped" => job[w] \in JobSet /\ (job[w].cmd = "EXIT" => closing)
       /\ worker[w] = "work" => job[w] \in JobSet /\ job[w].cmd = "JOB"
       /\ worker[w] \in {"exit", "exitReport", "stopped"} => closing

IndInv ==
  /\ TypeOK
  /\ EventOrder
  /\ ExitsFromClose
  /\ BusyWorkerIsExact
  /\ gui = "submit" => batch > 0 /\ submitted + batch <= MaxJobs
  /\ gui \in {"closeStack", "closeBusy"} => threads # {}
  /\ gui = "closeAdd" => batch > 0
  /\ life = "destroyed" => threads = {}

\* What CountsAllButErrors rests on: each JOB is in one place, the queue or the
\* hands of one worker, until it ends, and it ends once.
Holds(w) == worker[w] \in {"popped", "work"} /\ job[w].cmd = "JOB"
Unfinished(id) == id <= submitted /\ fate[id] = "none"
HandlingJobDone ==
  gui \in {"checkStack", "checkBusy", "checkTotal", "reset", "resetAnnounce", "announce"}

JobsAreDistinct ==
  /\ \A i \in DOMAIN m_Jobs :
       m_Jobs[i].cmd = "JOB" =>
          /\ Unfinished(m_Jobs[i].jobid)
          /\ \A k \in DOMAIN m_Jobs \ {i} : m_Jobs[k] # m_Jobs[i]
          /\ \A w \in Worker : Holds(w) => job[w] # m_Jobs[i]
  /\ \A w \in Worker :
       Holds(w) => /\ Unfinished(job[w].jobid)
                   /\ \A v \in Worker \ {w} : Holds(v) => job[v] # job[w]
  /\ \A id \in 1..MaxJobs : id > submitted => fate[id] = "none"

\* Before the first JOB nothing is done, and so the reset of Announce makes
\* totalUpdates different from submitted for good.
DoneNeedsJob ==
  submitted = 0 =>
     /\ ~HandlingJobDone
     /\ \A i \in DOMAIN pending : pending[i].cmd # "JOB_DONE"
     /\ Reporting = {}

\* Two numbers that agree but for the rounds of a size_t.
SameBut(a, b) == \E k \in Int : a = b + k * SizeMod

CountInv ==
  /\ JobsAreDistinct
  /\ DoneNeedsJob
  /\ totalUpdates = submitted => SameBut(Tally, Ended({"updated", "badimage"}))

\* What NoJobStartsAfterClose rests on: the workers that may still come to Pop
\* are not more than the EXIT jobs at the front of the queue and those that
\* OnClose has yet to add.  While it adds them there is nothing else in the
\* queue, which it has found empty.
Waiting ==
  {w \in Worker : \/ worker[w] \in {"sleep", "pop", "work", "done", "dec"}
                  \/ worker[w] = "popped" /\ job[w].cmd = "JOB"}
ExitsDue == Cardinality(Waiting) - (IF gui = "closeAdd" THEN batch ELSE 0)

CloseInv ==
  /\ closing \/ gui = "closeAdd" =>
       \A i \in 1..ExitsDue : i <= Len(m_Jobs) /\ m_Jobs[i].cmd = "EXIT"
  /\ gui = "closeBusy" => m_Jobs = <<>>
  /\ gui = "closeAdd" => \A j \in ToSet(m_Jobs) : j.cmd = "EXIT"

\* UpdateApp.  The invariant of the frame holds in every run, and the file is a
\* witness of an acceptance.
FrameInv == IndInv /\ CloseInv /\ CountInv

AppInv ==
  /\ FrameInv
  /\ FrameIsLicensed
  /\ file => win32 /\ licensed

LEMMA ModRange == \A n \in Int : n % SizeMod \in 0..(SizeMod - 1)
BY UpdateGUIAssumption

LEMMA ExitJobType == ExitJob \in JobSet /\ ExitJob.cmd = "EXIT"
BY DEF ExitJob, JobSet

LEMMA JobFields ==
  ASSUME NEW j \in JobSet
  PROVE  /\ j # NoJob
         /\ j.cmd \in {"EXIT", "JOB"}
         /\ j.cmd = "JOB" => j.jobid \in 1..MaxJobs
BY NoJobAssumption DEF JobSet, ExitJob, UpdateJob

LEMMA BusyFinite == IsFiniteSet(Busy) /\ Cardinality(Busy) \in Nat
BY UpdateGUIAssumption, FS_Subset, FS_CardinalityType DEF Busy

\* What AddJob does to the queue.
LEMMA AddJobProperties ==
  ASSUME TypeOK, NEW j \in JobSet, AddJob(j)
  PROVE  m_Jobs' \in Seq(JobSet) /\ ToSet(m_Jobs') = ToSet(m_Jobs) \cup {j}
<1>1. PICK n \in 1..(Len(m_Jobs) + 1) : m_Jobs' = InsertAt(m_Jobs, n, j)
  BY DEF AddJob
<1>2. m_Jobs \in Seq(JobSet)
  BY DEF TypeOK
<1>3. InsertAt(m_Jobs, n, j) \in Seq(JobSet)
  BY <1>2, InsertAtProperties
<1>4. ToSet(InsertAt(m_Jobs, n, j)) = ToSet(m_Jobs) \cup {j}
  BY <1>2, InsertAtElements
<1> QED
  BY <1>1, <1>3, <1>4

\* A worker that has not ended may post; EXIT may only be its last event.
LEMMA ReportKeepsOrder ==
  ASSUME TypeOK, EventOrder, NEW w \in Worker, NEW to, NEW cmd \in EventCmd,
         worker[w] # "stopped",
         cmd = "EXIT" => to = "stopped",
         worker' = [worker EXCEPT ![w] = to],
         Report(cmd, w),
         threads' = threads
  PROVE  EventOrder' /\ pending' \in Seq(Event)
<1> DEFINE e == [cmd |-> cmd, id |-> w]
<1>1. /\ pending \in Seq(Event) /\ Len(pending) \in Nat /\ e \in Event
      /\ worker \in [Worker -> WorkerPC]
      /\ \A i \in 1..Len(pending) : pending[i] \in Event /\ pending[i].id \in Worker
  <2>1. e \in Event
    BY DEF Event
  <2>2. pending \in Seq(Event) /\ worker \in [Worker -> WorkerPC]
    BY DEF TypeOK
  <2>3. \A i \in 1..Len(pending) : pending[i] \in Event
    BY <2>2
  <2>4. \A d \in Event : d.id \in Worker
    BY DEF Event
  <2> QED
    BY <2>1, <2>2, <2>3, <2>4
<1>2. /\ pending' \in Seq(Event)
      /\ Len(pending') = Len(pending) + 1
      /\ \A i \in 1..Len(pending) : pending'[i] = pending[i]
      /\ pending'[Len(pending) + 1] = e
  BY <1>1, AppendProperties DEF Report
<1>3. w \in threads
  BY DEF EventOrder
<1>4. ASSUME NEW i \in 1..Len(pending')
      PROVE  /\ pending'[i].id \in threads
             /\ pending'[i].cmd = "EXIT" =>
                  /\ worker'[pending'[i].id] = "stopped"
                  /\ \A k \in (i+1)..Len(pending') : pending'[k].id # pending'[i].id
  <2>1. CASE i = Len(pending) + 1
    <3>1. pending'[i] = e /\ (i+1)..Len(pending') = {}
      BY <1>1, <1>2, <2>1
    <3> QED
      BY <1>1, <1>3, <3>1
  <2>2. CASE i \in 1..Len(pending)
    <3>1. pending'[i] = pending[i] /\ pending[i].id \in threads
      BY <1>2, <2>2 DEF EventOrder
    <3>2. ASSUME pending[i].cmd = "EXIT"
          PROVE  /\ worker'[pending[i].id] = "stopped"
                 /\ \A k \in (i+1)..Len(pending') : pending'[k].id # pending[i].id
      <4>1. worker[pending[i].id] = "stopped" /\ pending[i].id # w
        BY <2>2, <3>2 DEF EventOrder
      <4>2. ASSUME NEW k \in (i+1)..Len(pending') PROVE pending'[k].id # pending[i].id
        <5>1. CASE k = Len(pending) + 1
          BY <1>2, <4>1, <5>1
        <5>2. CASE k \in (i+1)..Len(pending)
          <6>1. pending'[k] = pending[k]
            BY <1>1, <1>2, <2>2, <5>2
          <6> QED
            BY <2>2, <3>2, <5>2, <6>1 DEF EventOrder
        <5> QED
          BY <1>1, <1>2, <2>2, <5>1, <5>2
      <4> QED
        BY <1>1, <2>2, <4>1, <4>2
    <3> QED
      BY <3>1, <3>2
  <2> QED
    BY <1>1, <1>2, <2>1, <2>2
<1>5. \A v \in Worker \ threads : worker'[v] = "stopped"
  BY <1>1, <1>3 DEF EventOrder
<1> QED
  BY <1>2, <1>4, <1>5 DEF EventOrder

\* Handling the first event keeps the rest in order; the thread that leaves
\* the list has no event left.
LEMMA HandlingKeepsOrder ==
  ASSUME TypeOK, EventOrder, pending # <<>>, pending' = Tail(pending),
         worker' = worker,
         \/ threads' = threads
         \/ Head(pending).cmd = "EXIT" /\ threads' = threads \ {Head(pending).id}
  PROVE  EventOrder' /\ pending' \in Seq(Event)
<1>1. /\ pending \in Seq(Event) /\ Len(pending) \in Nat /\ Len(pending) > 0
      /\ Head(pending) = pending[1]
  BY DEF TypeOK
<1>2. /\ pending' \in Seq(Event)
      /\ Len(pending') = Len(pending) - 1
      /\ \A i \in 1..Len(pending') : pending'[i] = pending[i + 1]
  BY <1>1, HeadTailProperties
<1>3. ASSUME NEW i \in 1..Len(pending')
      PROVE  i + 1 \in 2..Len(pending) /\ i + 1 \in 1..Len(pending) /\ pending'[i] = pending[i + 1]
  BY <1>1, <1>2
<1>4. ASSUME NEW i \in 1..Len(pending')
      PROVE  /\ pending'[i].id \in threads'
             /\ pending'[i].cmd = "EXIT" =>
                  /\ worker'[pending'[i].id] = "stopped"
                  /\ \A k \in (i+1)..Len(pending') : pending'[k].id # pending'[i].id
  <2>1. pending'[i].id \in threads'
    <3>1. pending[i + 1].id \in threads
      BY <1>3 DEF EventOrder
    <3>2. Head(pending).cmd = "EXIT" => pending[i + 1].id # Head(pending).id
      BY <1>1, <1>3 DEF EventOrder
    <3> QED
      BY <1>3, <3>1, <3>2
  <2>2. ASSUME pending'[i].cmd = "EXIT", NEW k \in (i+1)..Len(pending')
        PROVE  pending'[k].id # pending'[i].id
    <3>1. k + 1 \in ((i+1)+1)..Len(pending) /\ k \in 1..Len(pending')
      BY <1>1, <1>2, <1>3
    <3> QED
      BY <1>3, <2>2, <3>1 DEF EventOrder
  <2>3. pending'[i].cmd = "EXIT" => worker'[pending'[i].id] = "stopped"
    BY <1>3 DEF EventOrder
  <2> QED
    BY <2>1, <2>2, <2>3
<1>5. \A v \in Worker \ threads' : worker'[v] = "stopped"
  <2>1. Head(pending).cmd = "EXIT" => worker[Head(pending).id] = "stopped"
    BY <1>1 DEF EventOrder
  <2> QED
    BY <2>1 DEF EventOrder
<1> QED
  BY <1>2, <1>4, <1>5 DEF EventOrder

-----------------------------------------------------------------------------
(* The invariant.                                                          *)

LEMMA IndInvInit == Init => IndInv
<1> SUFFICES ASSUME Init PROVE IndInv
  OBVIOUS
<1>1. TypeOK
  <2>1. worker \in [Worker -> WorkerPC]
    BY DEF Init, WorkerPC
  <2>2. fate \in [1..MaxJobs -> Outcome \cup {"threw", "none"}] /\ job \in [Worker -> JobSet \cup {NoJob}]
    BY DEF Init
  <2>3. /\ m_Jobs \in Seq(JobSet) /\ pending \in Seq(Event) /\ 0 \in 0..(SizeMod - 1)
        /\ submitted \in 0..MaxJobs
    BY UpdateGUIAssumption DEF Init
  <2> QED
    BY <2>1, <2>2, <2>3 DEF Init, TypeOK, GuiPC
<1>2. Busy = {} /\ Cardinality({}) = 0
  BY FS_EmptySet DEF Init, Busy
<1>3. ToSet(m_Jobs) = {} /\ Len(pending) = 0
  BY DEF Init, ToSet
<1>4. EventOrder
  BY <1>3 DEF Init, EventOrder
<1>5. ExitsFromClose
  BY <1>3 DEF Init, ExitsFromClose
<1> QED
  BY <1>1, <1>2, <1>4, <1>5 DEF Init, IndInv, BusyWorkerIsExact

BusyPC == {"exit", "work", "died", "done", "dec"}

\* The set of busy workers after a worker has gone from one place to another.
LEMMA BusyStep ==
  ASSUME TypeOK, NEW w \in Worker, NEW from, NEW to, Step(w, from, to)
  PROVE  /\ worker[w] = from
         /\ worker' = [worker EXCEPT ![w] = to]
         /\ worker'[w] = to
         /\ \A v \in Worker \ {w} : worker'[v] = worker[v]
         /\ from \in BusyPC /\ to \in BusyPC
              => Busy' = Busy
         /\ from \notin BusyPC /\ to \notin BusyPC
              => Busy' = Busy
         /\ from \notin BusyPC /\ to \in BusyPC
              => Cardinality(Busy') = Cardinality(Busy) + 1
         /\ from \in BusyPC /\ to \notin BusyPC
              => Cardinality(Busy') = Cardinality(Busy) - 1 /\ Cardinality(Busy) > 0
<1>1. worker \in [Worker -> WorkerPC] /\ worker' = [worker EXCEPT ![w] = to] /\ worker[w] = from
  BY DEF TypeOK, Step
<1>2. worker'[w] = to /\ \A v \in Worker \ {w} : worker'[v] = worker[v]
  BY <1>1
<1>3. from \in BusyPC <=> w \in Busy
  BY <1>1 DEF Busy, BusyPC
<1>4. Busy' = IF to \in BusyPC THEN Busy \cup {w} ELSE Busy \ {w}
  BY <1>2 DEF Busy, BusyPC
<1>5. w \notin Busy => Cardinality(Busy \cup {w}) = Cardinality(Busy) + 1
  BY BusyFinite, FS_AddElement
<1>6. w \in Busy => Cardinality(Busy \ {w}) = Cardinality(Busy) - 1
  BY BusyFinite, FS_RemoveElement
<1>7. w \in Busy => Cardinality(Busy) > 0
  BY BusyFinite, FS_EmptySet
<1> QED
  BY <1>1, <1>2, <1>3, <1>4, <1>5, <1>6, <1>7

\* Every step of a worker preserves the invariant.
LEMMA IndInvWorker ==
  ASSUME IndInv, NEW w \in Worker, WorkerNext(w)
  PROVE  IndInv'
<1> USE DEF IndInv
<1>t. /\ worker \in [Worker -> WorkerPC] /\ job \in [Worker -> JobSet \cup {NoJob}]
      /\ m_Jobs \in Seq(JobSet) /\ Len(m_Jobs) \in Nat
      /\ m_busyWorker \in Nat /\ m_totalJobsDone \in Nat
      /\ fate \in [1..MaxJobs -> Outcome \cup {"threw", "none"}]
  BY DEF TypeOK
<1>b. Cardinality(Busy) \in Nat /\ m_busyWorker = Cardinality(Busy)
  BY BusyFinite DEF BusyWorkerIsExact
<1>1. ASSUME Start(w) PROVE IndInv'
  <2> USE <1>1 DEF Start, queueVars, counterVars, statVars, frameVars, handlerVars
  <2>1. EventOrder' /\ pending' \in Seq(Event)
    BY ReportKeepsOrder DEF Step, EventCmd
  <2>2. TypeOK'
    BY <1>t, <2>1 DEF TypeOK, Step, WorkerPC
  <2>3. ExitsFromClose'
    BY <1>t DEF ExitsFromClose, Step
  <2>4. BusyWorkerIsExact'
    BY <1>b, BusyStep DEF BusyWorkerIsExact, BusyPC
  <2> QED
    BY <2>1, <2>2, <2>3, <2>4
<1>2. ASSUME Pop(w) PROVE IndInv'
  <2> USE <1>2 DEF Pop, counterVars, statVars, frameVars, handlerVars
  <2>1. /\ Head(m_Jobs) \in ToSet(m_Jobs) /\ Head(m_Jobs) \in JobSet
        /\ Tail(m_Jobs) \in Seq(JobSet) /\ ToSet(Tail(m_Jobs)) \subseteq ToSet(m_Jobs)
    BY <1>t, HeadTailElements
  <2>2. TypeOK'
    BY <1>t, <2>1 DEF TypeOK, Step, WorkerPC
  <2>3. EventOrder'
    BY <1>t DEF EventOrder, Step
  <2>4. \A j \in ToSet(m_Jobs') : j.cmd = "EXIT" => closing'
    BY <2>1 DEF ExitsFromClose
  <2>5. ExitsFromClose'
    BY <1>t, <2>1, <2>4 DEF ExitsFromClose, Step
  <2>6. BusyWorkerIsExact'
    BY <1>b, BusyStep DEF BusyWorkerIsExact, BusyPC
  <2> QED
    BY <2>2, <2>3, <2>5, <2>6
<1>3. ASSUME IncBusy(w) PROVE IndInv'
  <2> USE <1>3 DEF IncBusy, incBusyWorker, queueVars, statVars, frameVars, handlerVars
  <2>1. TypeOK'
    BY <1>t DEF TypeOK, Step, WorkerPC
  <2>2. EventOrder'
    BY <1>t DEF EventOrder, Step
  <2>3. job[w] \in JobSet /\ job[w].cmd \in {"EXIT", "JOB"}
    BY JobFields DEF ExitsFromClose, Step
  <2>4. ExitsFromClose'
    BY <1>t, <2>3 DEF ExitsFromClose, Step
  <2>5. BusyWorkerIsExact'
    BY <1>b, BusyStep DEF BusyWorkerIsExact, BusyPC
  <2> QED
    BY <2>1, <2>2, <2>4, <2>5
<1>4. ASSUME ExitDec(w) PROVE IndInv'
  <2> USE <1>4 DEF ExitDec, decBusyWorker, queueVars, statVars, frameVars, handlerVars
  <2>1. TypeOK'
    BY <1>t DEF TypeOK, Step, WorkerPC
  <2>2. EventOrder'
    BY <1>t DEF EventOrder, Step
  <2>3. ExitsFromClose'
    BY <1>t DEF ExitsFromClose, Step
  <2>4. BusyWorkerIsExact'
    BY <1>b, BusyStep DEF BusyWorkerIsExact, BusyPC
  <2> QED
    BY <2>1, <2>2, <2>3, <2>4
<1>5. ASSUME ExitReport(w) PROVE IndInv'
  <2> USE <1>5 DEF ExitReport, queueVars, counterVars, statVars, frameVars, handlerVars
  <2>1. EventOrder' /\ pending' \in Seq(Event)
    BY ReportKeepsOrder DEF Step, EventCmd
  <2>2. TypeOK'
    BY <1>t, <2>1 DEF TypeOK, Step, WorkerPC
  <2>3. ExitsFromClose'
    BY <1>t DEF ExitsFromClose, Step
  <2>4. BusyWorkerIsExact'
    BY <1>b, BusyStep DEF BusyWorkerIsExact, BusyPC
  <2> QED
    BY <2>1, <2>2, <2>3, <2>4
<1>6. ASSUME Work(w) PROVE IndInv'
  <2> USE <1>6 DEF Work, queueVars, counterVars, statVars, frameVars, handlerVars
  <2>1. PICK o \in Outcome : /\ Report(OutcomeEvent[o], w)
                             /\ fate' = [fate EXCEPT ![job[w].jobid] = o]
    OBVIOUS
  <2>2. OutcomeEvent[o] \in EventCmd /\ OutcomeEvent[o] # "EXIT"
    BY DEF Outcome, OutcomeEvent, EventCmd
  <2>3. EventOrder' /\ pending' \in Seq(Event)
    BY <2>1, <2>2, ReportKeepsOrder DEF Step
  <2>4. fate' \in [1..MaxJobs -> Outcome \cup {"threw", "none"}]
    BY <1>t, <2>1
  <2>5. TypeOK'
    BY <1>t, <2>3, <2>4 DEF TypeOK, Step, WorkerPC
  <2>6. ExitsFromClose'
    BY <1>t DEF ExitsFromClose, Step
  <2>7. BusyWorkerIsExact'
    BY <1>b, BusyStep DEF BusyWorkerIsExact, BusyPC
  <2> QED
    BY <2>3, <2>5, <2>6, <2>7
<1>7. ASSUME ReportDone(w) PROVE IndInv'
  <2> USE <1>7 DEF ReportDone, queueVars, counterVars, statVars, frameVars, handlerVars
  <2>1. EventOrder' /\ pending' \in Seq(Event)
    BY ReportKeepsOrder DEF Step, EventCmd
  <2>2. TypeOK'
    BY <1>t, <2>1 DEF TypeOK, Step, WorkerPC
  <2>3. ExitsFromClose'
    BY <1>t DEF ExitsFromClose, Step
  <2>4. BusyWorkerIsExact'
    BY <1>b, BusyStep DEF BusyWorkerIsExact, BusyPC
  <2> QED
    BY <2>1, <2>2, <2>3, <2>4
<1>8. ASSUME DecBusy(w) PROVE IndInv'
  <2> USE <1>8 DEF DecBusy, decBusyWorker, queueVars, statVars, frameVars, handlerVars
  <2>1. TypeOK'
    BY <1>t DEF TypeOK, Step, WorkerPC
  <2>2. EventOrder'
    BY <1>t DEF EventOrder, Step
  <2>3. ExitsFromClose'
    BY <1>t DEF ExitsFromClose, Step
  <2>4. BusyWorkerIsExact'
    BY <1>b, BusyStep DEF BusyWorkerIsExact, BusyPC
  <2> QED
    BY <2>1, <2>2, <2>3, <2>4
<1>9. ASSUME WorkThrows(w) PROVE IndInv'
  <2> USE <1>9 DEF WorkThrows, queueVars, counterVars, statVars, handlerVars
  <2>1. fate' \in [1..MaxJobs -> Outcome \cup {"threw", "none"}]
    BY <1>t
  <2>2. TypeOK'
    BY <1>t, <2>1 DEF TypeOK, Step, WorkerPC
  <2>3. EventOrder'
    BY <1>t DEF EventOrder, Step
  <2>4. ExitsFromClose'
    BY <1>t DEF ExitsFromClose, Step
  <2>5. BusyWorkerIsExact'
    BY <1>b, BusyStep DEF BusyWorkerIsExact, BusyPC
  <2> QED
    BY <2>2, <2>3, <2>4, <2>5
<1> QED
  BY <1>1, <1>2, <1>3, <1>4, <1>5, <1>6, <1>7, <1>8, <1>9 DEF WorkerNext

\* Every event handled in OnThread preserves the invariant.
LEMMA IndInvOnThread == IndInv /\ OnThread => IndInv'
<1> SUFFICES ASSUME IndInv, OnThread PROVE IndInv'
  OBVIOUS
<1> USE DEF IndInv
<1>t. successUpdates \in Int /\ totalUpdates \in Int
  BY UpdateGUIAssumption DEF TypeOK
<1>1. ASSUME OnThreadMsg \/ OnThreadMsgErr \/ OnThreadJobDone PROVE IndInv'
  <2> USE <1>1 DEF OnThreadMsg, OnThreadMsgErr, OnThreadJobDone, FirstEvent
  <2>1. /\ pending # <<>> /\ pending' = Tail(pending) /\ UNCHANGED <<worker, threads>>
        /\ UNCHANGED <<job, fate, m_Jobs, submitted, closing, m_busyWorker, m_totalJobsDone>>
        /\ UNCHANGED <<life, totalUpdates, modal, batch>>
        /\ gui' = "checkStack" \/ gui' = gui
        /\ successUpdates' \in {successUpdates, (successUpdates - 1) % SizeMod,
                               (successUpdates + 1) % SizeMod}
    BY DEF workerVars, frameVars, queueVars, counterVars, statVars, handlerVars
  <2>2. EventOrder' /\ pending' \in Seq(Event)
    BY <2>1, HandlingKeepsOrder
  <2>3. successUpdates' \in 0..(SizeMod - 1)
    <3>1. /\ (successUpdates - 1) % SizeMod \in 0..(SizeMod - 1)
          /\ (successUpdates + 1) % SizeMod \in 0..(SizeMod - 1)
      <4>1. successUpdates - 1 \in Int /\ successUpdates + 1 \in Int
        BY <1>t
      <4> QED
        BY <4>1, ModRange, Zenon
    <3> QED
      BY <2>1, <3>1 DEF TypeOK
  <2>4. TypeOK'
    BY <2>1, <2>2, <2>3 DEF TypeOK, GuiPC
  <2>5. ExitsFromClose' /\ BusyWorkerIsExact'
    BY <2>1 DEF ExitsFromClose, BusyWorkerIsExact, Busy
  <2> QED
    BY <2>1, <2>2, <2>4, <2>5
<1>2. ASSUME OnThreadExit PROVE IndInv'
  <2> USE <1>2 DEF OnThreadExit, FirstEvent, workerVars, queueVars, counterVars, statVars, handlerVars
  <2>1. EventOrder' /\ pending' \in Seq(Event)
    BY HandlingKeepsOrder
  <2>2. TypeOK'
    BY <2>1 DEF TypeOK
  <2>3. ExitsFromClose' /\ BusyWorkerIsExact'
    BY DEF ExitsFromClose, BusyWorkerIsExact, Busy
  <2>4. life' = "destroyed" => threads' = {}
    OBVIOUS
  <2> QED
    BY <2>1, <2>2, <2>3, <2>4
<1> QED
  BY <1>1, <1>2 DEF OnThread

\* A step that leaves the workers, their events, the queue and its counters
\* alone, and the list of threads.
LEMMA FrameStep ==
  ASSUME IndInv,
         UNCHANGED <<m_Jobs, closing, m_busyWorker, worker, job, pending, threads>>,
         TypeOK'
  PROVE  EventOrder' /\ ExitsFromClose' /\ BusyWorkerIsExact'
BY DEF IndInv, EventOrder, ExitsFromClose, BusyWorkerIsExact, Busy

\* So does every step of a handler ...
LEMMA IndInvHandler == IndInv /\ Handler => IndInv'
<1> SUFFICES ASSUME IndInv, Handler PROVE IndInv'
  OBVIOUS
<1> USE DEF IndInv, Goto
<1>1. ASSUME CheckStack \/ CheckBusy \/ CheckTotal PROVE IndInv'
  <2>1. /\ UNCHANGED <<queueVars, counterVars, workerVars, statVars, frameVars, modal, batch, pending>>
        /\ gui' \in {"idle", "checkBusy", "checkTotal", "reset", "resetAnnounce"}
    BY <1>1 DEF CheckStack, CheckBusy, CheckTotal
  <2>2. TypeOK'
    BY <2>1 DEF TypeOK, GuiPC, queueVars, counterVars, workerVars, statVars, frameVars
  <2> QED
    BY <2>1, <2>2, FrameStep DEF queueVars, counterVars, workerVars, frameVars
<1>2. ASSUME Reset PROVE IndInv'
  <2> USE <1>2 DEF Reset, queueVars, workerVars, statVars, frameVars
  <2>1. TypeOK'
    BY DEF TypeOK, GuiPC
  <2> QED
    BY <2>1, FrameStep
<1>3. ASSUME Announce PROVE IndInv'
  <2> USE <1>3 DEF Announce, queueVars, counterVars, workerVars, frameVars
  <2>1. TypeOK'
    BY UpdateGUIAssumption DEF TypeOK, GuiPC
  <2> QED
    BY <2>1, FrameStep
<1>4. ASSUME SubmitJob PROVE IndInv'
  <2> USE <1>4 DEF SubmitJob, counterVars, workerVars, frameVars
  <2> DEFINE j == UpdateJob(submitted + 1)
  <2>1. submitted + 1 \in 1..MaxJobs /\ submitted \in Nat /\ batch \in Nat
    BY UpdateGUIAssumption DEF TypeOK
  <2>2. j \in JobSet /\ j.cmd # "EXIT"
    BY <2>1 DEF JobSet, UpdateJob
  <2>3. m_Jobs' \in Seq(JobSet) /\ ToSet(m_Jobs') = ToSet(m_Jobs) \cup {j}
    BY <2>2, AddJobProperties
  <2>4. totalUpdates' \in 0..(SizeMod - 1)
    <3>1. totalUpdates + 1 \in Int
      BY UpdateGUIAssumption DEF TypeOK
    <3> QED
      BY <3>1, ModRange
  <2>5. batch' \in Nat /\ (gui' = "submit" => batch' > 0 /\ submitted' + batch' <= MaxJobs)
    BY <2>1
  <2>6. TypeOK'
    BY <2>1, <2>3, <2>4, <2>5 DEF TypeOK, GuiPC
  <2>7. ExitsFromClose'
    <3>1. \A i \in ToSet(m_Jobs') : i.cmd = "EXIT" => closing
      BY <2>2, <2>3 DEF ExitsFromClose
    <3> QED
      BY <3>1 DEF ExitsFromClose
  <2>8. EventOrder' /\ BusyWorkerIsExact'
    BY DEF EventOrder, BusyWorkerIsExact, Busy
  <2> QED
    BY <2>5, <2>6, <2>7, <2>8
<1>5. ASSUME CloseStack \/ CloseBusy PROVE IndInv'
  <2>1. IsFiniteSet(threads) /\ Cardinality(threads) \in Nat
    BY UpdateGUIAssumption, FS_Subset, FS_CardinalityType DEF TypeOK
  <2>2. /\ UNCHANGED <<queueVars, counterVars, workerVars, statVars, frameVars, pending>>
        /\ gui' \in {"idle", "closeBusy", "closeAdd"}
        /\ modal' \in {modal, "quit"}
        /\ batch' \in {batch, Cardinality(threads)}
        /\ gui' = "closeAdd" => batch' = Cardinality(threads)
    BY <1>5 DEF CloseStack, CloseBusy, AskUser, TellThreads
  <2>3. TypeOK'
    BY <2>1, <2>2 DEF TypeOK, GuiPC, queueVars, counterVars, workerVars, statVars, frameVars
  <2>4. gui' = "closeAdd" => threads # {}
    BY <1>5 DEF CloseStack, CloseBusy, AskUser
  <2>5. gui' = "closeAdd" => batch' > 0
    BY <2>1, <2>2, <2>4, FS_EmptySet
  <2>6. EventOrder' /\ ExitsFromClose' /\ BusyWorkerIsExact'
    BY <2>2, <2>3, FrameStep DEF queueVars, counterVars, workerVars, frameVars
  <2>7. gui' = "closeBusy" => threads # {}
    BY <1>5 DEF CloseStack, CloseBusy, AskUser, TellThreads
  <2> QED
    BY <2>2, <2>3, <2>5, <2>6, <2>7 DEF frameVars
<1>6. ASSUME CloseAdd PROVE IndInv'
  <2> USE <1>6 DEF CloseAdd, counterVars, workerVars, statVars, frameVars
  <2>1. /\ m_Jobs' \in Seq(JobSet)
        /\ closing' = TRUE
    BY ExitJobType, AddJobProperties
  <2>2. batch' \in Nat /\ (gui' = "closeAdd" => batch' > 0)
    BY DEF TypeOK
  <2>3. TypeOK'
    BY <2>1, <2>2 DEF TypeOK, GuiPC
  <2>4. EventOrder' /\ BusyWorkerIsExact' /\ ExitsFromClose'
    BY <2>1 DEF EventOrder, BusyWorkerIsExact, Busy, ExitsFromClose
  <2> QED
    BY <2>2, <2>3, <2>4
<1> QED
  BY <1>1, <1>2, <1>3, <1>4, <1>5, <1>6 DEF Handler

\* ... and everything the user does.
LEMMA IndInvUser == IndInv /\ User => IndInv'
<1> SUFFICES ASSUME IndInv, User PROVE IndInv'
  OBVIOUS
<1> USE DEF IndInv
<1>1. /\ UNCHANGED <<queueVars, counterVars, workerVars, statVars, threads, pending>>
      /\ life' \in {life, "exited"}
      /\ modal' \in {modal, "none", "csv", "file"}
      /\ \/ gui' = "idle" /\ batch' \in Nat
         \/ gui' = "closeStack" /\ batch' \in Nat /\ threads # {}
         \/ gui' = "submit" /\ batch' \in Nat /\ batch' > 0 /\ submitted + batch' <= MaxJobs
  BY UpdateGUIAssumption
     DEF TypeOK, User, OnUpdate, OnImportCSV, CsvDialog, OnUpdateFile, FileDialog,
         OnClose, DialogQuit, DialogDontQuit, UserTurn, Submit, frameVars
<1>2. TypeOK'
  BY <1>1 DEF TypeOK, GuiPC, queueVars, counterVars, workerVars, statVars
<1>3. EventOrder' /\ ExitsFromClose' /\ BusyWorkerIsExact'
  BY <1>1, <1>2, FrameStep DEF queueVars, counterVars, workerVars
<1> QED
  BY <1>1, <1>2, <1>3 DEF queueVars

LEMMA IndInvStep == IndInv /\ [Next]_vars => IndInv'
<1> SUFFICES ASSUME IndInv, [Next]_vars PROVE IndInv'
  OBVIOUS
<1>1. CASE OnThread
  BY <1>1, IndInvOnThread
<1>2. CASE Handler
  BY <1>2, IndInvHandler
<1>3. CASE User
  BY <1>3, IndInvUser
<1>4. CASE \E w \in Worker : WorkerNext(w)
  BY <1>4, IndInvWorker
<1>5. CASE UNCHANGED vars
  <2>1. TypeOK'
    BY <1>5 DEF IndInv, TypeOK, vars, queueVars, counterVars, workerVars, statVars,
                frameVars, handlerVars
  <2>2. EventOrder' /\ ExitsFromClose' /\ BusyWorkerIsExact'
    BY <1>5, <2>1, FrameStep DEF vars, queueVars, counterVars, workerVars, frameVars
  <2> QED
    BY <1>5, <2>1, <2>2 DEF IndInv, vars, queueVars, frameVars, handlerVars
<1> QED
  BY <1>1, <1>2, <1>3, <1>4, <1>5 DEF Next, Rest

THEOREM Invariance == Spec => []IndInv
BY IndInvInit, IndInvStep, PTL DEF Spec

\* Every variable stays in its range.
THEOREM TypeCorrect == Spec => []TypeOK
BY Invariance, PTL DEF IndInv

\* calcJobTimingsAvgTotEst never divides by zero (UpdateGUI.cpp:360): a
\* thread leaves the list threads only after all its events.
THEOREM NoDivisionByZero == Spec => []JobDoneFindsThreads
<1>1. IndInv => JobDoneFindsThreads
  <2>1. TypeOK => DOMAIN pending = 1..Len(pending)
    BY DEF TypeOK
  <2> QED
    BY <2>1 DEF IndInv, EventOrder, JobDoneFindsThreads
<1> QED
  BY <1>1, Invariance, PTL

\* What the comment at UpdateGUI.cpp:408 says of the EXIT event.
THEOREM ExitOnce == Spec => []ExitOncePerThread
<1>1. IndInv => ExitOncePerThread
  <2> SUFFICES ASSUME IndInv, NEW i \in DOMAIN pending, pending[i].cmd = "EXIT"
               PROVE  /\ pending[i].id \in threads
                      /\ closing
                      /\ \A k \in DOMAIN pending \ {i} : pending[k] # pending[i]
    BY DEF ExitOncePerThread
  <2>1. /\ DOMAIN pending = 1..Len(pending) /\ Len(pending) \in Nat
        /\ pending[i] \in Event /\ pending[i].id \in Worker
    <3>1. \A d \in Event : d.id \in Worker
      BY DEF Event
    <3> QED
      BY <3>1 DEF IndInv, TypeOK
  <2>2. pending[i].id \in threads /\ worker[pending[i].id] = "stopped"
    BY <2>1 DEF IndInv, EventOrder
  <2>3. closing
    BY <2>1, <2>2 DEF IndInv, ExitsFromClose
  <2>4. ASSUME NEW k \in DOMAIN pending \ {i}, pending[k] = pending[i] PROVE FALSE
    <3>1. CASE k < i
      <4>1. i \in (k+1)..Len(pending) /\ k \in 1..Len(pending)
        BY <2>1, <3>1
      <4> QED
        BY <2>4, <4>1 DEF IndInv, EventOrder
    <3>2. CASE i < k
      <4>1. k \in (i+1)..Len(pending) /\ i \in 1..Len(pending)
        BY <2>1, <3>2
      <4> QED
        BY <2>4, <4>1 DEF IndInv, EventOrder
    <3> QED
      BY <2>1, <3>1, <3>2
  <2> QED
    BY <2>2, <2>3, <2>4
<1> QED
  BY <1>1, Invariance, PTL

\* m_busyWorker counts the workers that are on a job.
THEOREM BusyExact == Spec => []BusyWorkerIsExact
BY Invariance, PTL DEF IndInv

\* Nobody is left to use the frame when OnClose destroys it.
THEOREM DestroyedAfterWorkers == Spec => []DestroyedLast
<1>1. IndInv => DestroyedLast
  <2> SUFFICES ASSUME IndInv, threads = {}
               PROVE  pending = <<>> /\ \A w \in Worker : worker[w] = "stopped"
    BY DEF IndInv, DestroyedLast
  <2>1. \A w \in Worker : worker[w] = "stopped"
    BY DEF IndInv, EventOrder
  <2>2. Len(pending) = 0
    <3>1. 1 \notin 1..Len(pending)
      BY DEF IndInv, EventOrder
    <3> QED
      BY <3>1 DEF IndInv, TypeOK
  <2>3. pending = <<>>
    BY <2>2 DEF IndInv, TypeOK
  <2> QED
    BY <2>1, <2>3
<1> QED
  BY <1>1, Invariance, PTL

-----------------------------------------------------------------------------
(* Closing: no worker takes a JOB once the EXIT jobs are there.            *)

LEMMA WaitingFinite ==
  /\ IsFiniteSet(Waiting) /\ Cardinality(Waiting) \in Nat
  /\ IsFiniteSet(Waiting') /\ Cardinality(Waiting') \in Nat
<1>1. \A S \in SUBSET Worker : IsFiniteSet(S) /\ Cardinality(S) \in Nat
  BY UpdateGUIAssumption, FS_Subset, FS_CardinalityType
<1>2. Waiting \subseteq Worker /\ Waiting' \subseteq Worker
  BY DEF Waiting
<1> QED
  BY <1>1, <1>2, Zenon

LEMMA JobPriority ==
  ASSUME NEW j \in JobSet
  PROVE  /\ j.cmd = "EXIT" <=> j = ExitJob
         /\ j.cmd = "EXIT" => j.priority = 0
         /\ j.cmd # "EXIT" => j.priority = 2
         /\ j.priority \in 0..2
BY DEF JobSet, ExitJob, UpdateJob, eHIGHEST, eNORMAL

\* AddJob leaves the EXIT jobs at the front where they are, and puts an EXIT
\* job right behind them.
LEMMA AddJobKeepsFront ==
  ASSUME TypeOK, NEW j \in JobSet, AddJob(j), NEW k \in Int,
         \A i \in 1..k : i <= Len(m_Jobs) /\ m_Jobs[i].cmd = "EXIT",
         NEW d \in {0, 1}, d = 1 => j.cmd = "EXIT",
         NEW i \in 1..(k + d)
  PROVE  i <= Len(m_Jobs') /\ m_Jobs'[i].cmd = "EXIT"
<1>1. PICK n \in 1..(Len(m_Jobs) + 1) :
        /\ \A l \in 1..(n-1) : m_Jobs[l].priority <= j.priority
        /\ \A l \in n..Len(m_Jobs) : m_Jobs[l].priority > j.priority
        /\ m_Jobs' = InsertAt(m_Jobs, n, j)
  BY DEF AddJob
<1>2. /\ m_Jobs \in Seq(JobSet) /\ Len(m_Jobs) \in Nat
      /\ \A l \in 1..Len(m_Jobs) : m_Jobs[l] \in JobSet
  BY DEF TypeOK
<1>3. /\ Len(m_Jobs') = Len(m_Jobs) + 1
      /\ \A l \in 1..(n - 1) : m_Jobs'[l] = m_Jobs[l]
      /\ m_Jobs'[n] = j
  BY <1>1, <1>2, InsertAtProperties
<1>4. ASSUME NEW l \in 1..k PROVE l < n
  <2>1. l \in 1..Len(m_Jobs) /\ m_Jobs[l].priority = 0 /\ m_Jobs[l] \in JobSet
    BY <1>2, JobPriority
  <2>2. j.priority \in 0..2
    BY JobPriority
  <2> QED
    BY <1>1, <1>2, <2>1, <2>2
<1>5. CASE i \in 1..k
  BY <1>2, <1>3, <1>4, <1>5
<1>6. CASE i \notin 1..k
  <2>1. d = 1 /\ i = k + 1 /\ j.cmd = "EXIT" /\ j.priority = 0
    BY <1>6, JobPriority
  <2>2. i - 1 \in 0..Len(m_Jobs) /\ i <= Len(m_Jobs')
    <3>1. CASE k = 0
      BY <1>2, <1>3, <2>1, <3>1
    <3>2. CASE k > 0
      BY <1>2, <1>3, <2>1, <3>2
    <3> QED
      BY <2>1, <3>1, <3>2
  <2>3. CASE i = n
    BY <1>3, <2>1, <2>2, <2>3
  <2>4. CASE i < n
    <3>1. i \in 1..(n-1) /\ i \in 1..Len(m_Jobs)
      BY <1>1, <1>2, <2>2, <2>4
    <3>2. m_Jobs[i].priority <= 0 /\ m_Jobs[i] \in JobSet
      BY <1>1, <1>2, <2>1, <3>1
    <3>3. m_Jobs[i].cmd = "EXIT"
      BY <3>2, JobPriority
    <3> QED
      BY <1>3, <2>2, <3>1, <3>3
  <2>5. CASE i > n
    <3>1. n \in 1..k
      BY <2>1, <2>5
    <3> QED
      BY <1>1, <1>4, <3>1
  <2> QED
    BY <1>1, <2>3, <2>4, <2>5
<1> QED
  BY <1>5, <1>6

\* The front shifts when a job is taken.
LEMMA TailKeepsFront ==
  ASSUME TypeOK, m_Jobs # <<>>, m_Jobs' = Tail(m_Jobs), NEW k \in Int,
         \A i \in 1..k : i <= Len(m_Jobs) /\ m_Jobs[i].cmd = "EXIT",
         NEW i \in 1..(k - 1)
  PROVE  i <= Len(m_Jobs') /\ m_Jobs'[i].cmd = "EXIT"
<1>1. /\ m_Jobs \in Seq(JobSet) /\ Len(m_Jobs) \in Nat
      /\ Len(m_Jobs') = Len(m_Jobs) - 1
      /\ \A l \in 1..Len(m_Jobs') : m_Jobs'[l] = m_Jobs[l + 1]
  BY HeadTailProperties DEF TypeOK
<1>2. i + 1 \in 1..k /\ i \in 1..(i+1)
  OBVIOUS
<1> QED
  BY <1>1, <1>2

\* The steps that leave the queue, the workers that wait and the thread's place
\* in OnClose alone.
LEMMA CloseFrame ==
  ASSUME CloseInv, batch \in Nat, batch' \in Nat, UNCHANGED <<m_Jobs, closing>>,
         Cardinality(Waiting') <= Cardinality(Waiting),
         \/ UNCHANGED <<gui, batch>>
         \/ gui' \notin {"closeBusy", "closeAdd"} /\ gui # "closeAdd"
  PROVE  CloseInv'
<1>1. ExitsDue' <= ExitsDue /\ (gui' = "closeAdd" => gui = "closeAdd") /\ ExitsDue \in Int /\ ExitsDue' \in Int
  BY WaitingFinite DEF ExitsDue
<1>2. ASSUME closing' \/ gui' = "closeAdd", NEW i \in 1..ExitsDue'
      PROVE  i <= Len(m_Jobs') /\ m_Jobs'[i].cmd = "EXIT"
  BY <1>1, <1>2 DEF CloseInv
<1> QED
  BY <1>1, <1>2 DEF CloseInv

\* Which steps of a worker change the workers that wait.
LEMMA WaitingStep ==
  ASSUME TypeOK, NEW w \in Worker, NEW from, NEW to, Step(w, from, to),
         \A v \in Worker \ {w} : job'[v] = job[v]
  PROVE  /\ w \notin Waiting' => Waiting' = Waiting \ {w}
         /\ w \in Waiting => Cardinality(Waiting') <= Cardinality(Waiting)
         /\ w \in Waiting /\ w \notin Waiting'
              => Cardinality(Waiting') = Cardinality(Waiting) - 1
         /\ w \notin Waiting /\ w \notin Waiting' => Waiting' = Waiting
         /\ w \in Waiting /\ w \in Waiting' => Waiting' = Waiting
<1>1. worker \in [Worker -> WorkerPC] /\ worker' = [worker EXCEPT ![w] = to]
  BY DEF TypeOK, Step
<1>2. \A v \in Worker \ {w} : v \in Waiting' <=> v \in Waiting
  BY <1>1 DEF Waiting
<1>3. Waiting \subseteq Worker /\ Waiting' \subseteq Worker
  BY DEF Waiting
<1>4. w \in Waiting => Cardinality(Waiting \ {w}) = Cardinality(Waiting) - 1
  BY WaitingFinite, FS_RemoveElement
<1>5. /\ w \notin Waiting' => Waiting' = Waiting \ {w}
      /\ w \in Waiting /\ w \in Waiting' => Waiting' = Waiting
  BY <1>2, <1>3
<1>6. w \in Waiting /\ w \notin Waiting' => Cardinality(Waiting') = Cardinality(Waiting) - 1
  BY <1>4, <1>5
<1> QED
  BY <1>5, <1>6, WaitingFinite

\* Every step of a worker keeps the EXIT jobs ahead.
LEMMA CloseInvWorker ==
  ASSUME IndInv, CloseInv, NEW w \in Worker, WorkerNext(w)
  PROVE  CloseInv'
<1> USE DEF IndInv
<1>t. /\ worker \in [Worker -> WorkerPC] /\ job \in [Worker -> JobSet \cup {NoJob}]
      /\ m_Jobs \in Seq(JobSet) /\ Len(m_Jobs) \in Nat /\ batch \in Nat
  BY DEF TypeOK
<1>1. CASE Pop(w)
  <2> USE <1>1 DEF Pop, handlerVars
  <2>1. /\ Step(w, "pop", "popped") /\ w \in Waiting /\ worker'[w] = "popped" /\ job'[w] = Head(m_Jobs)
        /\ \A v \in Worker \ {w} : job'[v] = job[v]
    BY <1>t DEF Step, Waiting
  <2>2. /\ Head(m_Jobs) = m_Jobs[1] /\ m_Jobs[1] \in JobSet /\ 1 \in 1..Len(m_Jobs)
        /\ ToSet(m_Jobs') \subseteq ToSet(m_Jobs) /\ gui # "closeBusy"
    <3>1. gui # "closeBusy"
      BY DEF CloseInv
    <3>2. Len(m_Jobs) > 0
      BY <1>t
    <3> QED
      BY <1>t, <3>1, <3>2, HeadTailElements
  <2>3. /\ ExitsDue \in Int /\ ExitsDue' \in Int
        /\ gui' = gui /\ closing' = closing /\ batch' = batch
    BY <1>t, WaitingFinite DEF ExitsDue
  <2>4. ASSUME closing' \/ gui' = "closeAdd", NEW i \in 1..ExitsDue'
        PROVE  i <= Len(m_Jobs') /\ m_Jobs'[i].cmd = "EXIT"
    <3>1. \A l \in 1..ExitsDue : l <= Len(m_Jobs) /\ m_Jobs[l].cmd = "EXIT"
      BY <2>3, <2>4 DEF CloseInv
    <3>2. CASE m_Jobs[1].cmd = "EXIT"
      <4>1. w \notin Waiting'
        BY <2>1, <2>2, <3>2 DEF Waiting
      <4>2. Cardinality(Waiting') = Cardinality(Waiting) - 1
        BY <2>1, <4>1, WaitingStep
      <4>3. ExitsDue' = ExitsDue - 1
        BY <1>t, <2>3, <4>2, WaitingFinite DEF ExitsDue
      <4>4. i \in 1..(ExitsDue - 1)
        BY <4>3
      <4> QED
        BY <2>3, <3>1, <4>4, TailKeepsFront
    <3>3. CASE m_Jobs[1].cmd # "EXIT"
      <4>1. Cardinality(Waiting') <= Cardinality(Waiting)
        BY <2>1, WaitingStep
      <4>2. ExitsDue' <= ExitsDue
        BY <1>t, <2>3, <4>1, WaitingFinite DEF ExitsDue
      <4>3. 1 \in 1..ExitsDue
        BY <2>3, <4>2
      <4> QED
        BY <3>1, <3>3, <4>3
    <3> QED
      BY <3>2, <3>3
  <2> QED
    BY <2>2, <2>3, <2>4 DEF CloseInv
<1>2. CASE ~Pop(w)
  <2>1. /\ UNCHANGED <<m_Jobs, closing, gui, batch>>
        /\ \A v \in Worker \ {w} : job'[v] = job[v]
    BY <1>2, <1>t DEF WorkerNext, Start, IncBusy, ExitDec, ExitReport, Work, WorkThrows, ReportDone,
                DecBusy, queueVars, handlerVars
  <2> DEFINE Moves == \E from, to \in WorkerPC :
                        Step(w, from, to) /\ (w \in Waiting' => w \in Waiting)
  <2>2. Moves
    <3>1. ASSUME Start(w) \/ ReportDone(w) \/ DecBusy(w) \/ Work(w) PROVE Moves
      <4>1. \E from \in {"sleep", "done", "dec", "work"}, to \in {"pop", "dec", "done"} : Step(w, from, to)
        BY <3>1 DEF Start, ReportDone, DecBusy, Work
      <4> QED
        BY <4>1, <1>t DEF Step, Waiting, WorkerPC
    <3>2. ASSUME ExitDec(w) \/ ExitReport(w) \/ WorkThrows(w) PROVE Moves
      <4>1. \E from \in {"exit", "exitReport", "work"}, to \in {"exitReport", "stopped", "died"} : Step(w, from, to)
        BY <3>2 DEF ExitDec, ExitReport, WorkThrows
      <4> QED
        BY <4>1, <1>t DEF Step, Waiting, WorkerPC
    <3>3. ASSUME IncBusy(w) PROVE Moves
      <4>1. job[w] \in JobSet /\ job[w].cmd \in {"EXIT", "JOB"} /\ worker[w] = "popped"
        BY <3>3, JobFields DEF ExitsFromClose, Step, IncBusy
      <4>2. Step(w, "popped", IF job[w].cmd = "EXIT" THEN "exit" ELSE "work")
        BY <3>3 DEF IncBusy
      <4> QED
        BY <4>1, <4>2, <1>t DEF Step, Waiting, WorkerPC
    <3> QED
      BY <1>2, <3>1, <3>2, <3>3 DEF WorkerNext
  <2>3. Cardinality(Waiting') <= Cardinality(Waiting)
    <3>1. w \in Waiting \/ (w \notin Waiting /\ w \notin Waiting')
      BY <2>2
    <3> QED
      BY <2>1, <2>2, <3>1, WaitingStep, WaitingFinite
  <2> QED
    BY <1>t, <2>1, <2>3, CloseFrame
<1> QED
  BY <1>1, <1>2

\* A thread that waits is in the list: it has not sent EXIT.
LEMMA WaitingThreads ==
  ASSUME IndInv
  PROVE  /\ Cardinality(threads) \in Nat
         /\ Cardinality(Waiting) <= Cardinality(threads)
<1>1. \A w \in Worker \ threads : worker[w] = "stopped"
  BY DEF IndInv, EventOrder
<1>2. Waiting \subseteq threads /\ threads \subseteq Worker
  BY <1>1 DEF Waiting, IndInv, TypeOK
<1>3. IsFiniteSet(threads)
  BY <1>2, UpdateGUIAssumption, FS_Subset
<1> QED
  BY <1>2, <1>3, FS_Subset, FS_CardinalityType

LEMMA CloseInvHandler ==
  ASSUME IndInv, CloseInv, Handler
  PROVE  CloseInv'
<1>t. TypeOK /\ m_Jobs \in Seq(JobSet) /\ Len(m_Jobs) \in Nat /\ batch \in Nat
  BY DEF IndInv, TypeOK
<1>w. UNCHANGED <<worker, job>> /\ Waiting' = Waiting /\ ExitsDue \in Int /\ Cardinality(Waiting) \in Nat
  <2>1. UNCHANGED <<worker, job>>
    BY DEF Handler, CheckStack, CheckBusy, CheckTotal, Reset, Announce, SubmitJob, CloseStack,
           CloseBusy, CloseAdd, workerVars
  <2> QED
    BY <1>t, <2>1, WaitingFinite DEF Waiting, ExitsDue
<1>1. CASE CheckStack \/ CheckBusy \/ CheckTotal \/ Reset \/ Announce
  <2>1. /\ UNCHANGED <<m_Jobs, closing, batch>>
        /\ gui' \notin {"closeBusy", "closeAdd"} /\ gui # "closeAdd"
    BY <1>1 DEF CheckStack, CheckBusy, CheckTotal, Reset, Announce, Goto, queueVars
  <2> QED
    BY <1>t, <1>w, <2>1, CloseFrame
<1>2. CASE SubmitJob
  <2> USE <1>2 DEF SubmitJob
  <2> DEFINE j == UpdateJob(submitted + 1)
  <2>1. j \in JobSet
    <3>1. submitted + 1 \in 1..MaxJobs
      BY UpdateGUIAssumption DEF IndInv, TypeOK
    <3> QED
      BY <3>1 DEF JobSet
  <2>2. AddJob(j) /\ closing' = closing /\ gui' \notin {"closeBusy", "closeAdd"} /\ gui = "submit"
    OBVIOUS
  <2> HIDE DEF j
  <2>3. ExitsDue' = ExitsDue
    BY <1>w, <2>2 DEF ExitsDue
  <2>4. ASSUME closing', NEW i \in 1..ExitsDue'
        PROVE  i <= Len(m_Jobs') /\ m_Jobs'[i].cmd = "EXIT"
    <3>1. \A l \in 1..ExitsDue : l <= Len(m_Jobs) /\ m_Jobs[l].cmd = "EXIT"
      BY <2>2, <2>4 DEF CloseInv
    <3>2. i \in 1..(ExitsDue + 0)
      BY <1>w, <2>3
    <3> QED
      BY <1>t, <1>w, <2>1, <2>2, <3>1, <3>2, AddJobKeepsFront
  <2> QED
    BY <2>2, <2>4 DEF CloseInv
<1>3. CASE CloseStack
  <2>1. UNCHANGED <<m_Jobs, closing>> /\ gui = "closeStack"
    BY <1>3 DEF CloseStack, queueVars
  <2>2. \/ gui' = "idle" /\ batch' = batch
        \/ gui' = "closeBusy" /\ batch' = batch /\ m_Jobs = <<>>
    BY <1>3 DEF CloseStack, AskUser
  <2>3. ExitsDue' = ExitsDue
    BY <1>w, <2>1, <2>2 DEF ExitsDue
  <2> QED
    BY <2>1, <2>2, <2>3 DEF CloseInv
<1>4. CASE CloseBusy
  <2>1. UNCHANGED <<m_Jobs, closing>> /\ gui = "closeBusy" /\ m_Jobs = <<>>
    BY <1>4 DEF CloseBusy, queueVars, CloseInv
  <2>2. CASE gui' = "idle" /\ batch' = batch
    BY <1>t, <1>w, <2>1, <2>2, CloseFrame
  <2>3. CASE gui' = "closeAdd" /\ batch' = Cardinality(threads)
    <3>1. ExitsDue' <= 0 /\ ExitsDue' \in Int
      BY <1>w, <2>3, WaitingThreads DEF ExitsDue
    <3>2. 1..ExitsDue' = {} /\ ToSet(m_Jobs') = {}
      BY <2>1, <3>1 DEF ToSet
    <3> QED
      BY <2>1, <2>3, <3>2 DEF CloseInv
  <2> QED
    BY <1>4, <2>2, <2>3 DEF CloseBusy, AskUser, TellThreads
<1>5. CASE CloseAdd
  <2> USE <1>5 DEF CloseAdd
  <2>1. /\ AddJob(ExitJob) /\ gui = "closeAdd" /\ batch' = batch - 1 /\ gui' # "closeBusy"
        /\ gui' = IF batch = 1 THEN "idle" ELSE "closeAdd"
    OBVIOUS
  <2>2. ExitsDue' = ExitsDue + 1
    <3>1. CASE batch = 1
      BY <1>w, <2>1, <3>1 DEF ExitsDue
    <3>2. CASE batch # 1
      BY <1>t, <1>w, <2>1, <3>2 DEF ExitsDue
    <3> QED
      BY <3>1, <3>2
  <2>3. ASSUME NEW i \in 1..ExitsDue'
        PROVE  i <= Len(m_Jobs') /\ m_Jobs'[i].cmd = "EXIT"
    <3>1. \A l \in 1..ExitsDue : l <= Len(m_Jobs) /\ m_Jobs[l].cmd = "EXIT"
      BY <2>1 DEF CloseInv
    <3>2. i \in 1..(ExitsDue + 1)
      BY <2>2
    <3> QED
      BY <1>t, <1>w, <2>1, <3>1, <3>2, ExitJobType, AddJobKeepsFront
  <2>4. \A j \in ToSet(m_Jobs') : j.cmd = "EXIT"
    <3>1. ToSet(m_Jobs') = ToSet(m_Jobs) \cup {ExitJob}
      BY <1>t, <2>1, ExitJobType, AddJobProperties
    <3> QED
      BY <2>1, <3>1, ExitJobType DEF CloseInv
  <2> QED
    BY <2>1, <2>3, <2>4 DEF CloseInv
<1> QED
  BY <1>1, <1>2, <1>3, <1>4, <1>5 DEF Handler

LEMMA CloseInvStep == IndInv /\ IndInv' /\ CloseInv /\ [Next]_vars => CloseInv'
<1> SUFFICES ASSUME IndInv, IndInv', CloseInv, [Next]_vars PROVE CloseInv'
  OBVIOUS
<1>t. batch \in Nat /\ batch' \in Nat /\ Cardinality(Waiting) \in Nat
  BY WaitingFinite DEF IndInv, TypeOK
<1>1. CASE OnThread \/ User \/ UNCHANGED vars
  <2>1. /\ UNCHANGED <<m_Jobs, closing, worker, job>>
        /\ \/ UNCHANGED <<gui, batch>>
           \/ gui' \notin {"closeBusy", "closeAdd"} /\ gui # "closeAdd"
    BY <1>1
       DEF OnThread, OnThreadMsg, OnThreadMsgErr, OnThreadJobDone, OnThreadExit, FirstEvent,
           User, OnUpdate, OnImportCSV, CsvDialog, OnUpdateFile, FileDialog, OnClose, DialogQuit,
           DialogDontQuit, UserTurn, Submit, vars, queueVars, workerVars, handlerVars
  <2>2. Waiting' = Waiting
    BY <2>1 DEF Waiting
  <2> QED
    BY <1>t, <2>1, <2>2, CloseFrame
<1>2. CASE Handler
  BY <1>2, CloseInvHandler
<1>3. CASE \E w \in Worker : WorkerNext(w)
  BY <1>3, CloseInvWorker
<1> QED
  BY <1>1, <1>2, <1>3 DEF Next, Rest

THEOREM ExitsGoFirst == Spec => []CloseInv
<1>1. Init => CloseInv
  BY DEF Init, CloseInv
<1> QED
  BY <1>1, CloseInvStep, Invariance, PTL DEF Spec

Takes == closing => \A w \in Worker : worker[w] = "pop" /\ worker'[w] = "popped"
                      => job'[w] = ExitJob

\* A job that is taken once closing has begun is EXIT.
LEMMA TakesExit == IndInv /\ CloseInv /\ [Next]_vars => Takes
<1> SUFFICES ASSUME IndInv, CloseInv, [Next]_vars, closing,
                    NEW w \in Worker, worker[w] = "pop", worker'[w] = "popped"
             PROVE  job'[w] = ExitJob
  BY DEF Takes
<1>t. worker \in [Worker -> WorkerPC] /\ job \in [Worker -> JobSet \cup {NoJob}]
      /\ m_Jobs \in Seq(JobSet) /\ Len(m_Jobs) \in Nat /\ batch \in Nat
  BY DEF IndInv, TypeOK
<1>1. Pop(w)
  <2>1. worker' # worker
    BY DEF Takes
  <2>2. PICK v \in Worker : WorkerNext(v)
    BY <2>1
       DEF Next, Rest, OnThread, OnThreadMsg, OnThreadMsgErr, OnThreadJobDone, OnThreadExit,
           Handler, CheckStack, CheckBusy, CheckTotal, Reset, Announce, SubmitJob, CloseStack,
           CloseBusy, CloseAdd, User, OnUpdate, OnImportCSV, CsvDialog, OnUpdateFile,
           FileDialog, OnClose, DialogQuit, DialogDontQuit, vars, workerVars
  <2>3. \E from, to : Step(v, from, to)
    BY <2>2 DEF WorkerNext, Start, Pop, IncBusy, ExitDec, ExitReport, Work, WorkThrows,
                ReportDone, DecBusy
  <2>4. v = w
    BY <1>t, <2>3 DEF Step
  <2> QED
    BY <1>t, <2>2, <2>4
       DEF WorkerNext, Start, IncBusy, ExitDec, ExitReport, Work, WorkThrows, ReportDone,
           DecBusy, Step
<1>2. m_Jobs # <<>> /\ job'[w] = m_Jobs[1] /\ 1 \in 1..Len(m_Jobs) /\ m_Jobs[1] \in JobSet
  <2>1. m_Jobs # <<>> /\ job'[w] = Head(m_Jobs)
    BY <1>t, <1>1 DEF Pop
  <2> QED
    BY <1>t, <2>1
<1>3. m_Jobs[1].cmd = "EXIT"
  <2>1. CASE gui = "closeAdd"
    <3>1. m_Jobs[1] \in ToSet(m_Jobs)
      BY <1>t, <1>2 DEF ToSet
    <3> QED
      BY <2>1, <3>1 DEF CloseInv
  <2>2. CASE gui # "closeAdd"
    <3>1. w \in Waiting
      BY DEF Waiting
    <3>2. Cardinality(Waiting) > 0
      BY <3>1, WaitingFinite, FS_EmptySet
    <3>3. 1 \in 1..ExitsDue
      BY <2>2, <3>2, WaitingFinite DEF ExitsDue
    <3> QED
      BY <3>3 DEF CloseInv
  <2> QED
    BY <2>1, <2>2
<1> QED
  BY <1>2, <1>3, JobPriority

\* After OnClose has begun to stop the threads no worker takes a JOB, also not
\* one that is submitted later (UpdateGUI.cpp:203-205): for any number of
\* threads, some of which may not have started or have died.
THEOREM NoJobAfterClose == Spec => NoJobStartsAfterClose
<1>1. Spec => [][Takes]_vars
  BY TakesExit, Invariance, ExitsGoFirst, PTL DEF Spec
<1> QED
  BY <1>1 DEF NoJobStartsAfterClose, Takes

-----------------------------------------------------------------------------
(* Counting: what the summary is made of.                                  *)

LEMMA ModOfSum ==
  \A n \in 0..(SizeMod - 1), k \in Int : (n + k * SizeMod) % SizeMod = n
BY UpdateGUIAssumption, Z3

\* A size_t that is reduced differs by rounds only.
LEMMA ModKeepsRounds ==
  ASSUME NEW n \in Int, NEW a \in Int, NEW e \in Int, SameBut(n + a, e)
  PROVE  SameBut((n % SizeMod) + a, e)
<1>1. PICK k \in Int : n + a = e + k * SizeMod
  BY DEF SameBut
<1> DEFINE q == n \div SizeMod
<1>2. q \in Int /\ n % SizeMod \in Int /\ SizeMod \in Int
  BY UpdateGUIAssumption
<1>3. n = (n % SizeMod) + q * SizeMod
  BY UpdateGUIAssumption
<1> HIDE DEF q
<1>4. k - q \in Int
  BY <1>2
<1>5. (k - q) * SizeMod = k * SizeMod - q * SizeMod /\ k * SizeMod \in Int /\ q * SizeMod \in Int
  BY <1>2
<1>6. (n % SizeMod) + a = e + (k - q) * SizeMod
  BY <1>1, <1>2, <1>3, <1>5
<1> QED
  BY <1>4, <1>6 DEF SameBut

\* The events of one kind among those under way.
Of(s, cmd) == {i \in DOMAIN s : s[i].cmd = cmd}

LEMMA OfFinite ==
  ASSUME NEW s \in Seq(Event), NEW cmd
  PROVE  IsFiniteSet(Of(s, cmd)) /\ Cardinality(Of(s, cmd)) \in Nat
<1>1. Len(s) \in Nat /\ Of(s, cmd) \subseteq 1..Len(s)
  BY DEF Of
<1>2. IsFiniteSet(1..Len(s))
  BY <1>1, FS_Interval
<1> QED
  BY <1>1, <1>2, FS_Subset, FS_CardinalityType

LEMMA OfAppend ==
  ASSUME NEW s \in Seq(Event), NEW e \in Event, NEW cmd
  PROVE  Cardinality(Of(Append(s, e), cmd))
           = Cardinality(Of(s, cmd)) + (IF e.cmd = cmd THEN 1 ELSE 0)
<1> DEFINE r == Append(s, e)
<1>1. /\ Len(s) \in Nat /\ DOMAIN s = 1..Len(s) /\ DOMAIN r = 1..(Len(s) + 1)
      /\ \A i \in 1..Len(s) : r[i] = s[i]
      /\ r[Len(s) + 1] = e
  BY AppendProperties
<1> HIDE DEF r
<1>2. Len(s) + 1 \notin Of(s, cmd)
  BY <1>1 DEF Of
<1>3. Of(r, cmd) = IF e.cmd = cmd THEN Of(s, cmd) \cup {Len(s) + 1} ELSE Of(s, cmd)
  <2>1. \A i \in 1..Len(s) : i \in Of(r, cmd) <=> i \in Of(s, cmd)
    BY <1>1 DEF Of
  <2>2. Len(s) + 1 \in Of(r, cmd) <=> e.cmd = cmd
    BY <1>1 DEF Of
  <2>3. Of(r, cmd) \subseteq 1..(Len(s) + 1) /\ Of(s, cmd) \subseteq 1..Len(s)
    BY <1>1 DEF Of
  <2>4. 1..(Len(s) + 1) = 1..Len(s) \cup {Len(s) + 1}
    BY <1>1
  <2>5. \A i \in 1..(Len(s) + 1) : i = Len(s) + 1 \/ i \in 1..Len(s)
    BY <1>1
  <2>6. CASE e.cmd = cmd
    BY <2>1, <2>2, <2>3, <2>5, <2>6, <2>4
  <2>7. CASE e.cmd # cmd
    <3>1. \A i : i \in Of(r, cmd) => i \in Of(s, cmd)
      BY <2>1, <2>2, <2>3, <2>5, <2>7
    <3>2. Of(s, cmd) \subseteq Of(r, cmd)
      BY <2>1, <2>3
    <3> QED
      BY <2>7, <3>1, <3>2
  <2> QED
    BY <2>6, <2>7
<1>4. Cardinality(Of(s, cmd) \cup {Len(s) + 1}) = Cardinality(Of(s, cmd)) + 1
  BY <1>2, OfFinite, FS_AddElement
<1>5. Cardinality(Of(r, cmd)) = Cardinality(Of(s, cmd)) + (IF e.cmd = cmd THEN 1 ELSE 0)
  BY <1>3, <1>4, OfFinite
<1> QED
  BY <1>5 DEF r

LEMMA OfTail ==
  ASSUME NEW s \in Seq(Event), s # <<>>, NEW cmd
  PROVE  Cardinality(Of(Tail(s), cmd))
           = Cardinality(Of(s, cmd)) - (IF Head(s).cmd = cmd THEN 1 ELSE 0)
<1> DEFINE r == Tail(s)
<1>1. /\ Len(s) \in Nat /\ Len(s) > 0 /\ DOMAIN s = 1..Len(s) /\ Head(s) = s[1]
      /\ r \in Seq(Event) /\ DOMAIN r = 1..(Len(s) - 1)
      /\ \A i \in 1..(Len(s) - 1) : r[i] = s[i + 1]
  BY HeadTailProperties
<1> HIDE DEF r
<1> DEFINE rest == Of(s, cmd) \ {1}
           f == [i \in Of(r, cmd) |-> i + 1]
<1>2. IsFiniteSet(rest) /\ IsFiniteSet(Of(r, cmd))
  BY <1>1, OfFinite, FS_RemoveElement
<1>3. Of(r, cmd) \subseteq 1..(Len(s) - 1) /\ rest \subseteq 2..Len(s)
  BY <1>1 DEF Of
<1>4. \A i \in 1..(Len(s) - 1) : i \in Of(r, cmd) <=> i + 1 \in rest
  BY <1>1 DEF Of
<1>5. f \in Bijection(Of(r, cmd), rest)
  <2>1. f \in [Of(r, cmd) -> rest]
    BY <1>3, <1>4
  <2>2. \A i, k \in Of(r, cmd) : f[i] = f[k] => i = k
    BY <1>1, <1>3
  <2>3. \A k \in rest : \E i \in Of(r, cmd) : f[i] = k
    <3> TAKE k \in rest
    <3>1. k - 1 \in 1..(Len(s) - 1) /\ (k - 1) + 1 = k
      BY <1>1, <1>3
    <3>2. k - 1 \in Of(r, cmd)
      BY <1>4, <3>1
    <3> QED
      BY <3>1, <3>2
  <2> QED
    BY <2>1, <2>2, <2>3 DEF Bijection, Injection, Surjection, IsInjective
<1>6. Cardinality(rest) = Cardinality(Of(r, cmd))
  BY <1>2, <1>5, FS_Bijection DEF ExistsBijection
<1>7. 1 \in Of(s, cmd) <=> Head(s).cmd = cmd
  BY <1>1 DEF Of
<1>8. 1 \in Of(s, cmd) => Cardinality(rest) = Cardinality(Of(s, cmd)) - 1
  BY OfFinite, FS_RemoveElement
<1>9. 1 \notin Of(s, cmd) => rest = Of(s, cmd)
  OBVIOUS
<1>10. Cardinality(Of(s, cmd)) \in Nat /\ Cardinality(Of(r, cmd)) \in Nat
  BY <1>1, OfFinite
<1> HIDE DEF rest, f
<1>11. Cardinality(Of(r, cmd)) = Cardinality(Of(s, cmd)) - (IF Head(s).cmd = cmd THEN 1 ELSE 0)
  BY <1>6, <1>7, <1>8, <1>9, <1>10
<1> QED
  BY <1>11 DEF r

\* A JOB is known by its id.
LEMMA JobById ==
  ASSUME NEW j \in JobSet, NEW k \in JobSet, j.cmd = "JOB", k.cmd = "JOB", j # k
  PROVE  j.jobid # k.jobid /\ j.jobid \in 1..MaxJobs /\ k.jobid \in 1..MaxJobs
BY DEF JobSet, ExitJob, UpdateJob

\* What AddJob does to the places of the queue.
LEMMA AddJobPlaces ==
  ASSUME TypeOK, NEW j \in JobSet, AddJob(j)
  PROVE  \E n \in 1..(Len(m_Jobs) + 1), f \in [1..(Len(m_Jobs) + 1) -> Nat] :
           /\ DOMAIN m_Jobs' = 1..(Len(m_Jobs) + 1)
           /\ m_Jobs'[n] = j
           /\ \A i \in DOMAIN m_Jobs' \ {n} : f[i] \in DOMAIN m_Jobs /\ m_Jobs'[i] = m_Jobs[f[i]]
           /\ \A i, k \in DOMAIN m_Jobs' \ {n} : f[i] = f[k] => i = k
<1>1. PICK n \in 1..(Len(m_Jobs) + 1) : m_Jobs' = InsertAt(m_Jobs, n, j)
  BY DEF AddJob
<1>2. m_Jobs \in Seq(JobSet) /\ Len(m_Jobs) \in Nat /\ DOMAIN m_Jobs = 1..Len(m_Jobs)
  BY DEF TypeOK
<1>3. /\ m_Jobs' \in Seq(JobSet) /\ Len(m_Jobs') = Len(m_Jobs) + 1
      /\ \A l \in 1..(n - 1) : m_Jobs'[l] = m_Jobs[l]
      /\ m_Jobs'[n] = j
      /\ \A l \in n..Len(m_Jobs) : \A i \in Int : i = l + 1 => m_Jobs'[i] = m_Jobs[l]
  <2>1. InsertAt(m_Jobs, n, j) \in Seq(JobSet)
    BY <1>2, InsertAtProperties
  <2>2. Len(InsertAt(m_Jobs, n, j)) = Len(m_Jobs) + 1
    BY <1>2, InsertAtProperties
  <2>3. InsertAt(m_Jobs, n, j)[n] = j
    BY <1>2, InsertAtProperties
  <2>4. \A l \in 1..(n - 1) : InsertAt(m_Jobs, n, j)[l] = m_Jobs[l]
    BY <1>2, InsertAtProperties
  <2>5. ASSUME NEW l \in n..Len(m_Jobs), NEW i \in Int, i = l + 1
        PROVE  InsertAt(m_Jobs, n, j)[i] = m_Jobs[l]
    BY <1>2, <2>5, InsertAtProperties
  <2> QED
    BY <1>1, <2>1, <2>2, <2>3, <2>4, <2>5
<1>4. DOMAIN m_Jobs' = 1..(Len(m_Jobs) + 1)
  BY <1>2, <1>3
<1> DEFINE f == [i \in 1..(Len(m_Jobs) + 1) |-> IF i < n THEN i ELSE i - 1]
<1>5. f \in [1..(Len(m_Jobs) + 1) -> Nat] /\ \A i \in 1..(Len(m_Jobs) + 1) : f[i] = IF i < n THEN i ELSE i - 1
  BY <1>2
<1> HIDE DEF f
<1>6. ASSUME NEW i \in DOMAIN m_Jobs' \ {n}
      PROVE  f[i] \in DOMAIN m_Jobs /\ m_Jobs'[i] = m_Jobs[f[i]]
  <2>1. CASE i < n
    BY <1>1, <1>2, <1>3, <1>4, <1>5, <2>1
  <2>2. CASE i > n
    <3>1. i - 1 \in n..Len(m_Jobs) /\ i \in Int /\ i = (i - 1) + 1 /\ f[i] = i - 1
      BY <1>1, <1>2, <1>4, <1>5, <2>2
    <3> QED
      BY <1>1, <1>2, <1>3, <3>1
  <2> QED
    BY <1>1, <1>4, <2>1, <2>2
<1>7. \A i, k \in DOMAIN m_Jobs' \ {n} : f[i] = f[k] => i = k
  BY <1>1, <1>2, <1>4, <1>5
<1> QED
  BY <1>1, <1>3, <1>4, <1>5, <1>6, <1>7

\* A JOB that is added is a new one; nothing else changes.
LEMMA DistinctAdd ==
  ASSUME IndInv, JobsAreDistinct, UNCHANGED <<worker, job, fate>>,
         \/ AddJob(ExitJob) /\ submitted' = submitted
         \/ AddJob(UpdateJob(submitted + 1)) /\ submitted' = submitted + 1 /\ submitted < MaxJobs
  PROVE  JobsAreDistinct'
<1>1. PICK j \in JobSet :
        /\ AddJob(j)
        /\ \/ j.cmd = "EXIT" /\ submitted' = submitted
           \/ j.cmd = "JOB" /\ j.jobid = submitted + 1 /\ submitted' = submitted + 1 /\ submitted < MaxJobs
  <2>1. submitted < MaxJobs => submitted + 1 \in 1..MaxJobs
    BY UpdateGUIAssumption DEF IndInv, TypeOK
  <2>2. submitted < MaxJobs => UpdateJob(submitted + 1) \in JobSet
    BY <2>1 DEF JobSet
  <2>3. UpdateJob(submitted + 1).cmd = "JOB" /\ UpdateJob(submitted + 1).jobid = submitted + 1
    BY DEF UpdateJob
  <2> QED
    BY <2>2, <2>3, ExitJobType
<1>2. PICK n \in 1..(Len(m_Jobs) + 1), f \in [1..(Len(m_Jobs) + 1) -> Nat] :
        /\ DOMAIN m_Jobs' = 1..(Len(m_Jobs) + 1)
        /\ m_Jobs'[n] = j
        /\ \A i \in DOMAIN m_Jobs' \ {n} : f[i] \in DOMAIN m_Jobs /\ m_Jobs'[i] = m_Jobs[f[i]]
        /\ \A i, k \in DOMAIN m_Jobs' \ {n} : f[i] = f[k] => i = k
  BY <1>1, AddJobPlaces DEF IndInv
<1>3. /\ submitted \in Nat /\ submitted <= submitted' /\ submitted' \in Nat
      /\ \A i \in DOMAIN m_Jobs : m_Jobs[i] \in JobSet
      /\ fate \in [1..MaxJobs -> Outcome \cup {"threw", "none"}]
      /\ \A w \in Worker : Holds(w) => job[w] \in JobSet
      /\ MaxJobs \in Nat
  BY <1>1, UpdateGUIAssumption DEF IndInv, TypeOK, ExitsFromClose, Holds
<1>4. ASSUME NEW k \in JobSet, k.cmd = "JOB", Unfinished(k.jobid)
      PROVE  Unfinished(k.jobid)' /\ k # j
  <2>1. k.jobid \in 1..MaxJobs
    BY <1>4, JobFields
  <2> QED
    BY <1>1, <1>3, <1>4, <2>1 DEF Unfinished
<1>5. ASSUME j.cmd = "JOB" PROVE Unfinished(j.jobid)'
  <2>1. j.jobid \in 1..MaxJobs /\ j.jobid > submitted /\ j.jobid = submitted'
    BY <1>1, <1>3, <1>5, JobFields
  <2> QED
    BY <1>3, <2>1 DEF Unfinished, JobsAreDistinct
<1>6. \A w \in Worker : Holds(w)' <=> Holds(w)
  BY DEF Holds
<1>7. ASSUME NEW i \in DOMAIN m_Jobs', m_Jobs'[i].cmd = "JOB"
      PROVE  /\ m_Jobs'[i].jobid <= submitted' /\ fate'[m_Jobs'[i].jobid] = "none"
             /\ \A k \in DOMAIN m_Jobs' \ {i} : m_Jobs'[k] # m_Jobs'[i]
             /\ \A w \in Worker : Holds(w) => job[w] # m_Jobs'[i]
  <2>1. CASE i = n
    <3>1. \A k \in DOMAIN m_Jobs' \ {n} : m_Jobs'[k] # j
      <4>1. ASSUME NEW k \in DOMAIN m_Jobs' \ {n}, m_Jobs'[k] = j PROVE FALSE
        <5>1. f[k] \in DOMAIN m_Jobs /\ m_Jobs[f[k]] = j /\ j.cmd = "JOB"
          BY <1>2, <1>7, <2>1, <4>1
        <5> QED
          BY <1>4, <5>1 DEF JobsAreDistinct
      <4> QED
        BY <4>1
    <3>2. \A w \in Worker : Holds(w) => job[w] # j
      BY <1>3, <1>4 DEF JobsAreDistinct, Holds
    <3> QED
      BY <1>2, <1>5, <1>7, <2>1, <3>1, <3>2 DEF Unfinished
  <2>2. CASE i # n
    <3>1. f[i] \in DOMAIN m_Jobs /\ m_Jobs'[i] = m_Jobs[f[i]] /\ m_Jobs[f[i]] \in JobSet
      BY <1>2, <1>3, <2>2
    <3>2. /\ Unfinished(m_Jobs[f[i]].jobid)
          /\ \A k \in DOMAIN m_Jobs \ {f[i]} : m_Jobs[k] # m_Jobs[f[i]]
          /\ \A w \in Worker : Holds(w) => job[w] # m_Jobs[f[i]]
      BY <1>7, <3>1 DEF JobsAreDistinct
    <3>3. ASSUME NEW k \in DOMAIN m_Jobs' \ {i} PROVE m_Jobs'[k] # m_Jobs'[i]
      <4>1. CASE k = n
        BY <1>2, <1>4, <1>7, <3>1, <3>2, <4>1
      <4>2. CASE k # n
        <5>1. f[k] \in DOMAIN m_Jobs /\ m_Jobs'[k] = m_Jobs[f[k]] /\ f[k] # f[i]
          BY <1>2, <2>2, <4>2
        <5> QED
          BY <3>1, <3>2, <5>1
      <4> QED
        BY <4>1, <4>2
    <3> QED
      BY <1>4, <1>7, <3>1, <3>2, <3>3 DEF Unfinished
  <2> QED
    BY <2>1, <2>2
<1>8. ASSUME NEW w \in Worker, Holds(w) PROVE Unfinished(job[w].jobid)'
  BY <1>3, <1>4, <1>8 DEF JobsAreDistinct, Holds
<1>9. \A id \in 1..MaxJobs : id > submitted' => fate[id] = "none"
  BY <1>3 DEF JobsAreDistinct
<1> QED
  BY <1>6, <1>7, <1>8, <1>9 DEF JobsAreDistinct, Unfinished

\* The steps of a worker keep the JOBs apart: Pop hands one over, an update
\* ends one.
LEMMA DistinctWorker ==
  ASSUME IndInv, JobsAreDistinct, NEW w \in Worker, WorkerNext(w)
  PROVE  JobsAreDistinct'
<1> USE DEF IndInv
<1>t. /\ worker \in [Worker -> WorkerPC] /\ job \in [Worker -> JobSet \cup {NoJob}]
      /\ m_Jobs \in Seq(JobSet) /\ Len(m_Jobs) \in Nat /\ DOMAIN m_Jobs = 1..Len(m_Jobs)
      /\ fate \in [1..MaxJobs -> Outcome \cup {"threw", "none"}] /\ submitted \in Nat
      /\ \A v \in Worker : Holds(v) => job[v] \in JobSet /\ job[v].jobid \in 1..MaxJobs
  BY JobFields DEF TypeOK, Holds, ExitsFromClose
<1>1. CASE Pop(w)
  <2> USE <1>1 DEF Pop
  <2>1. /\ Step(w, "pop", "popped")
        /\ job' = [job EXCEPT ![w] = m_Jobs[1]]
        /\ 1 \in DOMAIN m_Jobs /\ m_Jobs[1] \in JobSet
        /\ DOMAIN m_Jobs' = 1..(Len(m_Jobs) - 1)
        /\ \A i \in DOMAIN m_Jobs' : m_Jobs'[i] = m_Jobs[i + 1] /\ i + 1 \in DOMAIN m_Jobs \ {1}
        /\ UNCHANGED <<submitted, fate>>
    <3>1. /\ Len(m_Jobs) > 0 /\ Head(m_Jobs) = m_Jobs[1]
          /\ Len(Tail(m_Jobs)) = Len(m_Jobs) - 1 /\ Tail(m_Jobs) \in Seq(JobSet)
          /\ \A i \in 1..(Len(m_Jobs) - 1) : Tail(m_Jobs)[i] = m_Jobs[i + 1]
      BY <1>t, HeadTailProperties
    <3>2. DOMAIN Tail(m_Jobs) = 1..(Len(m_Jobs) - 1)
      BY <1>t, <3>1
    <3> QED
      BY <1>t, <3>1, <3>2
  <2>2. /\ \A v \in Worker \ {w} : (Holds(v)' <=> Holds(v)) /\ job'[v] = job[v]
        /\ Holds(w)' <=> m_Jobs[1].cmd = "JOB"
        /\ job'[w] = m_Jobs[1]
        /\ ~Holds(w)
    BY <1>t, <2>1 DEF Step, Holds
  <2>3. \A id : Unfinished(id)' <=> Unfinished(id)
    BY <2>1 DEF Unfinished
  <2>4. ASSUME NEW i \in DOMAIN m_Jobs', m_Jobs'[i].cmd = "JOB"
        PROVE  /\ m_Jobs'[i].jobid <= submitted' /\ fate'[m_Jobs'[i].jobid] = "none"
               /\ \A k \in DOMAIN m_Jobs' \ {i} : m_Jobs'[k] # m_Jobs'[i]
               /\ \A v \in Worker : Holds(v)' => job'[v] # m_Jobs'[i]
    <3>1. m_Jobs'[i] = m_Jobs[i + 1] /\ i + 1 \in DOMAIN m_Jobs /\ i + 1 # 1
      BY <2>1
    <3>2. /\ Unfinished(m_Jobs[i + 1].jobid)
          /\ \A k \in DOMAIN m_Jobs \ {i + 1} : m_Jobs[k] # m_Jobs[i + 1]
          /\ \A v \in Worker : Holds(v) => job[v] # m_Jobs[i + 1]
      BY <2>4, <3>1 DEF JobsAreDistinct
    <3>3. ASSUME NEW k \in DOMAIN m_Jobs' \ {i} PROVE m_Jobs'[k] # m_Jobs'[i]
      <4>1. m_Jobs'[k] = m_Jobs[k + 1] /\ k + 1 \in DOMAIN m_Jobs /\ k + 1 # i + 1
        BY <1>t, <2>1
      <4> QED
        BY <3>1, <3>2, <4>1
    <3>4. ASSUME NEW v \in Worker, Holds(v)' PROVE job'[v] # m_Jobs'[i]
      BY <2>1, <2>2, <3>1, <3>2, <3>4
    <3> QED
      BY <2>1, <3>1, <3>2, <3>3, <3>4 DEF Unfinished
  <2>5. ASSUME NEW v \in Worker, Holds(v)'
        PROVE  /\ job'[v].jobid <= submitted' /\ fate'[job'[v].jobid] = "none"
               /\ \A u \in Worker \ {v} : Holds(u)' => job'[u] # job'[v]
    <3>1. CASE v = w
      <4>1. /\ Unfinished(m_Jobs[1].jobid)
            /\ \A u \in Worker : Holds(u) => job[u] # m_Jobs[1]
        BY <2>1, <2>2, <2>5, <3>1 DEF JobsAreDistinct
      <4> QED
        BY <2>1, <2>2, <3>1, <4>1 DEF Unfinished
    <3>2. CASE v # w
      <4>1. /\ Holds(v) /\ job'[v] = job[v] /\ Unfinished(job[v].jobid)
            /\ \A u \in Worker \ {v} : Holds(u) => job[u] # job[v]
        BY <2>2, <2>5, <3>2 DEF JobsAreDistinct
      <4>2. m_Jobs[1].cmd = "JOB" => job[v] # m_Jobs[1]
        BY <2>1, <4>1 DEF JobsAreDistinct
      <4>3. ASSUME NEW u \in Worker \ {v}, Holds(u)' PROVE job'[u] # job'[v]
        BY <2>2, <4>1, <4>2, <4>3
      <4> QED
        BY <2>1, <4>1, <4>3 DEF Unfinished
    <3> QED
      BY <3>1, <3>2
  <2> QED
    BY <2>1, <2>4, <2>5 DEF JobsAreDistinct, Unfinished
<1>2. CASE Work(w) \/ WorkThrows(w)
  <2>1. PICK o \in Outcome \cup {"threw"} : fate' = [fate EXCEPT ![job[w].jobid] = o]
    BY <1>2 DEF Work, WorkThrows
  <2>2. /\ UNCHANGED <<m_Jobs, submitted, job>>
        /\ worker[w] = "work" /\ \E to \in {"done", "died"} : Step(w, "work", to)
    BY <1>2 DEF Work, WorkThrows, queueVars, Step
  <2>3. Holds(w) /\ job[w] \in JobSet /\ job[w].cmd = "JOB"
    BY <1>t, <2>2 DEF Holds, ExitsFromClose
  <2>4. ~Holds(w)' /\ \A v \in Worker \ {w} : Holds(v)' <=> Holds(v)
    BY <1>t, <2>2 DEF Step, Holds
  <2>5. ASSUME NEW k \in JobSet, k.cmd = "JOB", k # job[w], Unfinished(k.jobid)
        PROVE  k.jobid <= submitted' /\ fate'[k.jobid] = "none"
    <3>1. k.jobid # job[w].jobid /\ k.jobid \in 1..MaxJobs
      BY <2>3, <2>5, JobById
    <3> QED
      BY <1>t, <2>1, <2>2, <2>5, <3>1 DEF Unfinished
  <2>6. ASSUME NEW i \in DOMAIN m_Jobs, m_Jobs[i].cmd = "JOB"
        PROVE  m_Jobs[i].jobid <= submitted' /\ fate'[m_Jobs[i].jobid] = "none"
    <3>1. m_Jobs[i] \in JobSet
      BY <1>t
    <3> QED
      BY <2>3, <2>5, <2>6, <3>1 DEF JobsAreDistinct
  <2>7. ASSUME NEW v \in Worker, Holds(v)'
        PROVE  job[v].jobid <= submitted' /\ fate'[job[v].jobid] = "none"
    <3>1. v # w /\ Holds(v) /\ job[v] \in JobSet /\ job[v].cmd = "JOB" /\ job[v] # job[w]
      BY <1>t, <2>3, <2>4, <2>7 DEF JobsAreDistinct, Holds
    <3> QED
      BY <2>5, <3>1, <2>7 DEF JobsAreDistinct
  <2>8. \A id \in 1..MaxJobs : id > submitted => fate'[id] = "none"
    <3>1. ~(job[w].jobid > submitted)
      BY <1>t, <2>3 DEF JobsAreDistinct, Unfinished
    <3> QED
      BY <1>t, <2>1, <3>1 DEF JobsAreDistinct
  <2> QED
    BY <2>2, <2>4, <2>6, <2>7, <2>8 DEF JobsAreDistinct, Unfinished
<1>3. CASE ~Pop(w) /\ ~Work(w) /\ ~WorkThrows(w)
  <2>1. /\ UNCHANGED <<m_Jobs, submitted, fate>>
        /\ \A v \in Worker \ {w} : job'[v] = job[v] /\ worker'[v] = worker[v]
        /\ Holds(w)' => Holds(w) /\ job'[w] = job[w]
    BY <1>3, <1>t
       DEF WorkerNext, Start, IncBusy, ExitDec, ExitReport, ReportDone, DecBusy, Step, Holds,
           queueVars
  <2>2. \A v \in Worker : Holds(v)' => Holds(v) /\ job'[v] = job[v]
    BY <2>1 DEF Holds
  <2> QED
    BY <2>1, <2>2 DEF JobsAreDistinct, Unfinished
<1> QED
  BY <1>1, <1>2, <1>3

\* The first event goes, a new one comes last.
LEMMA PendingSteps ==
  ASSUME TypeOK, NEW c
  PROVE  /\ Pending(c) \in Nat
         /\ \A w \in Worker, cmd \in EventCmd :
              Report(cmd, w) => Pending(c)' = Pending(c) + (IF cmd = c THEN 1 ELSE 0)
         /\ pending # <<>> /\ pending' = Tail(pending)
              => Pending(c)' = Pending(c) - (IF Head(pending).cmd = c THEN 1 ELSE 0)
         /\ pending' = pending => Pending(c)' = Pending(c)
<1>1. pending \in Seq(Event) /\ Pending(c) = Cardinality(Of(pending, c))
      /\ Pending(c)' = Cardinality(Of(pending', c))
  BY DEF TypeOK, Pending, Of
<1>2. Pending(c) \in Nat
  BY <1>1, OfFinite
<1>3. ASSUME NEW w \in Worker, NEW cmd \in EventCmd, Report(cmd, w)
      PROVE  Pending(c)' = Pending(c) + (IF cmd = c THEN 1 ELSE 0)
  <2> DEFINE e == [cmd |-> cmd, id |-> w]
  <2>1. e \in Event /\ e.cmd = cmd /\ pending' = Append(pending, e)
    BY <1>3 DEF Event, Report
  <2> HIDE DEF e
  <2>2. Cardinality(Of(Append(pending, e), c)) = Cardinality(Of(pending, c)) + (IF e.cmd = c THEN 1 ELSE 0)
    BY <1>1, <2>1, OfAppend
  <2> QED
    BY <1>1, <2>1, <2>2
<1>4. ASSUME pending # <<>>, pending' = Tail(pending)
      PROVE  Pending(c)' = Pending(c) - (IF Head(pending).cmd = c THEN 1 ELSE 0)
  BY <1>1, <1>4, OfTail
<1> QED
  BY <1>1, <1>2, <1>3, <1>4

LEMMA ReportingStep ==
  ASSUME TypeOK
  PROVE  /\ Cardinality(Reporting) \in Nat
         /\ worker' = worker => Reporting' = Reporting
         /\ \A w \in Worker : \A from, to \in WorkerPC :
              Step(w, from, to) =>
                 /\ from # "done" /\ to # "done" => Reporting' = Reporting
                 /\ from # "done" /\ to = "done" => Cardinality(Reporting') = Cardinality(Reporting) + 1
                 /\ from = "done" /\ to # "done" => Cardinality(Reporting') = Cardinality(Reporting) - 1
<1>1. IsFiniteSet(Reporting) /\ Cardinality(Reporting) \in Nat
  BY UpdateGUIAssumption, FS_Subset, FS_CardinalityType DEF Reporting
<1>2. worker' = worker => Reporting' = Reporting
  BY DEF Reporting
<1>3. ASSUME NEW w \in Worker, NEW from \in WorkerPC, NEW to \in WorkerPC, Step(w, from, to)
      PROVE  /\ from # "done" /\ to # "done" => Reporting' = Reporting
             /\ from # "done" /\ to = "done" => Cardinality(Reporting') = Cardinality(Reporting) + 1
             /\ from = "done" /\ to # "done" => Cardinality(Reporting') = Cardinality(Reporting) - 1
  <2>1. worker \in [Worker -> WorkerPC] /\ worker' = [worker EXCEPT ![w] = to] /\ worker[w] = from
    BY <1>3 DEF TypeOK, Step
  <2>2. Reporting' = IF to = "done" THEN Reporting \cup {w} ELSE Reporting \ {w}
    BY <2>1 DEF Reporting
  <2>3. w \in Reporting <=> from = "done"
    BY <2>1 DEF Reporting
  <2>4. w \notin Reporting => Cardinality(Reporting \cup {w}) = Cardinality(Reporting) + 1
    BY <1>1, FS_AddElement
  <2>5. w \in Reporting => Cardinality(Reporting \ {w}) = Cardinality(Reporting) - 1
    BY <1>1, FS_RemoveElement
  <2> QED
    BY <2>2, <2>3, <2>4, <2>5
<1> QED
  BY <1>1, <1>2, <1>3

Good == {"updated", "badimage"}

\* A job that ends well or with a bad image counts once.
LEMMA EndedStep ==
  ASSUME TypeOK
  PROVE  /\ Ended(Good) \in Nat
         /\ fate' = fate => Ended(Good)' = Ended(Good)
         /\ \A id \in 1..MaxJobs, o \in Outcome \cup {"threw"} :
              fate[id] = "none" /\ fate' = [fate EXCEPT ![id] = o]
                => Ended(Good)' = Ended(Good) + (IF o \in Good THEN 1 ELSE 0)
<1> DEFINE S == {id \in 1..MaxJobs : fate[id] \in Good}
<1>1. IsFiniteSet(1..MaxJobs)
  BY UpdateGUIAssumption, FS_Interval
<1>2. IsFiniteSet(S) /\ Cardinality(S) \in Nat /\ Ended(Good) = Cardinality(S) /\ Ended(Good)' = Cardinality(S')
  BY <1>1, FS_Subset, FS_CardinalityType DEF Ended, Good
<1>3. ASSUME NEW id \in 1..MaxJobs, NEW o \in Outcome \cup {"threw"},
             fate[id] = "none", fate' = [fate EXCEPT ![id] = o]
      PROVE  Ended(Good)' = Ended(Good) + (IF o \in Good THEN 1 ELSE 0)
  <2>1. id \notin S /\ S' = IF o \in Good THEN S \cup {id} ELSE S
    BY <1>3 DEF TypeOK, Good
  <2>2. Cardinality(S \cup {id}) = Cardinality(S) + 1
    BY <1>2, <2>1, FS_AddElement
  <2> HIDE DEF S
  <2> QED
    BY <1>2, <2>1, <2>2
<1>4. fate' = fate => Ended(Good)' = Ended(Good)
  BY DEF Ended
<1> QED
  BY <1>2, <1>3, <1>4

\* Nothing is done before the first JOB is submitted.
LEMMA DoneNeedsJobStep ==
  ASSUME IndInv, JobsAreDistinct, DoneNeedsJob, [Next]_vars
  PROVE  DoneNeedsJob'
<1>t. /\ TypeOK /\ submitted \in Nat /\ batch \in Nat
      /\ pending \in Seq(Event) /\ Len(pending) \in Nat /\ DOMAIN pending = 1..Len(pending)
  BY DEF IndInv, TypeOK
<1>1. submitted' \in {submitted, submitted + 1}
  BY DEF Next, Rest, OnThread, OnThreadMsg, OnThreadMsgErr, OnThreadJobDone, OnThreadExit,
         Handler, CheckStack, CheckBusy, CheckTotal, Reset, Announce, SubmitJob, CloseStack,
         CloseBusy, CloseAdd, User, OnUpdate, OnImportCSV, CsvDialog, OnUpdateFile,
         FileDialog, OnClose, DialogQuit, DialogDontQuit, vars, queueVars, WorkerNext, Start, Pop,
         IncBusy, ExitDec, ExitReport, Work, WorkThrows, ReportDone, DecBusy
<1> SUFFICES ASSUME submitted' = 0
             PROVE  /\ ~HandlingJobDone'
                    /\ \A i \in DOMAIN pending' : pending'[i].cmd # "JOB_DONE"
                    /\ Reporting' = {}
  BY DEF DoneNeedsJob
<1>2. /\ submitted = 0
      /\ ~HandlingJobDone
      /\ \A i \in DOMAIN pending : pending[i].cmd # "JOB_DONE"
      /\ Reporting = {}
  BY <1>t, <1>1 DEF DoneNeedsJob
<1>3. \A w \in Worker : worker[w] # "done" /\ worker[w] # "work"
  <2>1. ASSUME NEW w \in Worker, worker[w] = "work" PROVE FALSE
    <3>1. Holds(w) /\ job[w].jobid \in 1..MaxJobs
      BY <2>1, JobFields DEF IndInv, ExitsFromClose, Holds
    <3> QED
      BY <1>2, <3>1 DEF JobsAreDistinct, Unfinished
  <2> QED
    BY <1>2, <2>1 DEF Reporting
<1>4. CASE \E w \in Worker : WorkerNext(w)
  <2>1. PICK w \in Worker : WorkerNext(w)
    BY <1>4
  <2>2. ~Work(w) /\ ~WorkThrows(w) /\ ~ReportDone(w)
    BY <1>3 DEF Work, WorkThrows, ReportDone, Step
  <2>3. \/ pending' = pending
        \/ \E cmd \in EventCmd \ {"JOB_DONE"} : Report(cmd, w)
    BY <2>1, <2>2 DEF WorkerNext, Start, Pop, IncBusy, ExitDec, ExitReport, DecBusy, EventCmd
  <2>4. \A v \in Worker : worker'[v] # "done"
    BY <1>3, <2>1, <2>2 DEF WorkerNext, Start, Pop, IncBusy, ExitDec, ExitReport, DecBusy, Step,
                            IndInv, TypeOK
  <2>5. gui' = gui
    BY <2>1, <2>2 DEF WorkerNext, Start, Pop, IncBusy, ExitDec, ExitReport, DecBusy, handlerVars
  <2>6. \A i \in DOMAIN pending' : pending'[i].cmd # "JOB_DONE"
    <3>1. ASSUME NEW cmd \in EventCmd \ {"JOB_DONE"}, Report(cmd, w),
                 NEW i \in DOMAIN pending'
          PROVE  pending'[i].cmd # "JOB_DONE"
      <4>1. [cmd |-> cmd, id |-> w] \in Event
        BY DEF Event
      <4>2. /\ DOMAIN pending' = 1..(Len(pending) + 1)
            /\ \A k \in 1..Len(pending) : pending'[k] = pending[k]
            /\ pending'[Len(pending) + 1] = [cmd |-> cmd, id |-> w]
        BY <1>t, <3>1, <4>1, AppendProperties DEF Report
      <4> QED
        BY <1>t, <1>2, <3>1, <4>2
    <3> QED
      BY <1>2, <2>3, <3>1
  <2> QED
    BY <1>2, <2>4, <2>5, <2>6 DEF HandlingJobDone, Reporting
<1>5. CASE OnThread
  <2>1. Head(pending).cmd # "JOB_DONE" /\ pending # <<>> /\ pending' = Tail(pending)
    BY <1>t, <1>2, <1>5 DEF OnThread, OnThreadMsg, OnThreadMsgErr, OnThreadJobDone, OnThreadExit, FirstEvent
  <2>2. UNCHANGED <<worker, gui>>
    BY <1>5, <2>1 DEF OnThread, OnThreadMsg, OnThreadMsgErr, OnThreadJobDone, OnThreadExit, FirstEvent,
                      workerVars, handlerVars
  <2>3. \A i \in DOMAIN pending' : pending'[i].cmd # "JOB_DONE"
    <3>1. /\ DOMAIN pending' = 1..(Len(pending) - 1)
          /\ \A i \in 1..(Len(pending) - 1) : pending'[i] = pending[i + 1]
      BY <1>t, <2>1, HeadTailProperties
    <3> QED
      BY <1>t, <1>2, <3>1
  <2> QED
    BY <1>2, <2>2, <2>3 DEF HandlingJobDone, Reporting
<1>6. CASE Handler \/ User \/ UNCHANGED vars
  <2>1. UNCHANGED <<worker, pending>> /\ (HandlingJobDone' => HandlingJobDone)
    BY <1>6
       DEF Handler, CheckStack, CheckBusy, CheckTotal, Reset, Announce, SubmitJob, CloseStack,
           CloseBusy, CloseAdd, Goto, AskUser, TellThreads, User, OnUpdate, OnImportCSV, CsvDialog,
           OnUpdateFile, FileDialog, OnClose, DialogQuit, DialogDontQuit, UserTurn, Submit, vars,
           workerVars, handlerVars, HandlingJobDone
  <2> QED
    BY <1>2, <2>1 DEF Reporting
<1> QED
  BY <1>4, <1>5, <1>6 DEF Next, Rest

\* What the steps of a worker do to the tally.
LEMMA TallyWorker ==
  ASSUME IndInv, JobsAreDistinct, NEW w \in Worker, WorkerNext(w)
  PROVE  /\ UNCHANGED <<submitted, totalUpdates>>
         /\ Tally' - Tally = Ended(Good)' - Ended(Good)
<1>t. TypeOK /\ successUpdates \in Int
  BY UpdateGUIAssumption DEF IndInv, TypeOK
<1>0. /\ UNCHANGED <<submitted, totalUpdates, successUpdates>>
      /\ Tally = successUpdates + Pending("JOB_DONE") - Pending("MSGERR") + Cardinality(Reporting)
      /\ Tally' = successUpdates + Pending("JOB_DONE")' - Pending("MSGERR")' + Cardinality(Reporting')
      /\ Pending("JOB_DONE") \in Nat /\ Pending("MSGERR") \in Nat /\ Cardinality(Reporting) \in Nat
      /\ Ended(Good) \in Nat
  <2>1. UNCHANGED <<submitted, totalUpdates, successUpdates>>
    BY DEF WorkerNext, Start, Pop, IncBusy, ExitDec, ExitReport, Work, WorkThrows, ReportDone, DecBusy,
           queueVars, statVars
  <2>2. Pending("JOB_DONE") \in Nat /\ Pending("MSGERR") \in Nat
    BY <1>t, PendingSteps
  <2> QED
    BY <1>t, <2>1, <2>2, ReportingStep, EndedStep DEF Tally
<1>1. CASE Work(w)
  <2>1. PICK o \in Outcome : Report(OutcomeEvent[o], w) /\ fate' = [fate EXCEPT ![job[w].jobid] = o]
    BY <1>1 DEF Work
  <2>2. Holds(w) /\ job[w].jobid \in 1..MaxJobs /\ fate[job[w].jobid] = "none"
    <3>1. Holds(w) /\ job[w].jobid \in 1..MaxJobs
      BY <1>1, JobFields DEF Work, Step, IndInv, ExitsFromClose, Holds
    <3> QED
      BY <3>1 DEF JobsAreDistinct, Unfinished
  <2>3. /\ OutcomeEvent[o] \in EventCmd
        /\ OutcomeEvent[o] # "JOB_DONE"
        /\ OutcomeEvent[o] = "MSGERR" <=> o \notin Good
    BY DEF Outcome, OutcomeEvent, EventCmd, Good
  <2>4. Ended(Good)' = Ended(Good) + (IF o \in Good THEN 1 ELSE 0)
    BY <1>t, <2>1, <2>2, EndedStep
  <2>5. Cardinality(Reporting') = Cardinality(Reporting) + 1
    BY <1>t, <1>1, ReportingStep DEF Work, WorkerPC
  <2>6. Pending("JOB_DONE")' = Pending("JOB_DONE")
    BY <1>t, <1>0, <2>1, <2>3, PendingSteps
  <2>7. Pending("MSGERR")' = Pending("MSGERR") + (IF o \in Good THEN 0 ELSE 1)
    BY <1>t, <1>0, <2>1, <2>3, PendingSteps
  <2> QED
    BY <1>t, <1>0, <2>4, <2>5, <2>6, <2>7
<1>2. CASE WorkThrows(w)
  <2>1. Holds(w) /\ job[w].jobid \in 1..MaxJobs
    BY <1>2, JobFields DEF WorkThrows, Step, IndInv, ExitsFromClose, Holds
  <2>2. fate[job[w].jobid] = "none" /\ fate' = [fate EXCEPT ![job[w].jobid] = "threw"]
    BY <1>2, <2>1 DEF JobsAreDistinct, Unfinished, WorkThrows
  <2>3. Ended(Good)' = Ended(Good)
    <3>1. "threw" \notin Good /\ "threw" \in Outcome \cup {"threw"}
      BY DEF Good
    <3>2. Ended(Good)' = Ended(Good) + (IF "threw" \in Good THEN 1 ELSE 0)
      BY <1>t, <2>1, <2>2, <3>1, EndedStep
    <3> QED
      BY <1>0, <3>1, <3>2
  <2>4. Reporting' = Reporting
    BY <1>t, <1>2, ReportingStep DEF WorkThrows, WorkerPC
  <2>5. Pending("JOB_DONE")' = Pending("JOB_DONE") /\ Pending("MSGERR")' = Pending("MSGERR")
    BY <1>t, <1>2, PendingSteps DEF WorkThrows
  <2> QED
    BY <1>t, <1>0, <2>3, <2>4, <2>5
<1>3. CASE ReportDone(w)
  <2>1. Cardinality(Reporting') = Cardinality(Reporting) - 1
    BY <1>t, <1>3, ReportingStep DEF ReportDone, WorkerPC
  <2>2. Report("JOB_DONE", w) /\ "JOB_DONE" \in EventCmd /\ fate' = fate
    BY <1>3 DEF ReportDone, EventCmd
  <2>3. Pending("JOB_DONE")' = Pending("JOB_DONE") + 1 /\ Pending("MSGERR")' = Pending("MSGERR")
    BY <1>t, <1>0, <2>2, PendingSteps
  <2> QED
    BY <1>t, <1>0, <2>1, <2>2, <2>3, EndedStep
<1>4. CASE Start(w) \/ Pop(w) \/ IncBusy(w) \/ ExitDec(w) \/ ExitReport(w) \/ DecBusy(w)
  <2>1. fate' = fate
    BY <1>4 DEF Start, Pop, IncBusy, ExitDec, ExitReport, DecBusy
  <2>2. \E from, to \in WorkerPC \ {"done"} : Step(w, from, to)
    <3>1. \E from \in {"sleep", "pop", "popped", "exit", "exitReport", "dec"},
             to \in {"pop", "popped", "exit", "work", "exitReport", "stopped"} : Step(w, from, to)
      BY <1>4 DEF Start, Pop, IncBusy, ExitDec, ExitReport, DecBusy
    <3> QED
      BY <3>1 DEF WorkerPC
  <2>3. Reporting' = Reporting
    BY <1>t, <2>2, ReportingStep
  <2>4. \/ pending' = pending
        \/ \E cmd \in {"STARTED", "EXIT"} : Report(cmd, w)
    BY <1>4 DEF Start, Pop, IncBusy, ExitDec, ExitReport, DecBusy
  <2>5. Pending("JOB_DONE")' = Pending("JOB_DONE")
    BY <1>t, <1>0, <2>4, PendingSteps DEF EventCmd
  <2>6. Pending("MSGERR")' = Pending("MSGERR")
    BY <1>t, <1>0, <2>4, PendingSteps DEF EventCmd
  <2> QED
    BY <1>t, <1>0, <2>1, <2>3, <2>5, <2>6, EndedStep
<1> QED
  BY <1>0, <1>1, <1>2, <1>3, <1>4 DEF WorkerNext

\* ... and of the GUI thread.
LEMMA TallyFrame ==
  ASSUME IndInv, JobsAreDistinct, DoneNeedsJob, totalUpdates' = submitted',
         OnThread \/ Handler \/ User \/ UNCHANGED vars
  PROVE  /\ totalUpdates = submitted
         /\ Ended(Good)' = Ended(Good)
         /\ \E n, a \in Int :
              /\ Tally = n + a
              /\ Tally' = n + a \/ Tally' = (n % SizeMod) + a
<1>t. /\ TypeOK /\ successUpdates \in Int /\ submitted \in Nat
      /\ totalUpdates \in 0..(SizeMod - 1) /\ SizeMod \in Nat \ {0}
  BY UpdateGUIAssumption DEF IndInv, TypeOK
<1> DEFINE J == Pending("JOB_DONE")
           R == Pending("MSGERR")
           D == Cardinality(Reporting)
<1>0. /\ Tally = successUpdates + J - R + D
      /\ Tally' = successUpdates' + J' - R' + D'
      /\ J \in Nat /\ R \in Nat /\ D \in Nat
  BY <1>t, PendingSteps, ReportingStep DEF Tally
<1>1. worker' = worker /\ fate' = fate
  BY DEF OnThread, OnThreadMsg, OnThreadMsgErr, OnThreadJobDone, OnThreadExit,
         Handler, CheckStack, CheckBusy, CheckTotal, Reset, Announce, SubmitJob, CloseStack,
         CloseBusy, CloseAdd, User, OnUpdate, OnImportCSV, CsvDialog, OnUpdateFile,
         FileDialog, OnClose, DialogQuit, DialogDontQuit, vars, workerVars
<1>2. D' = D /\ Ended(Good)' = Ended(Good)
  BY <1>t, <1>1, ReportingStep, EndedStep
<1>3. CASE OnThread
  <2>1. /\ pending # <<>> /\ pending' = Tail(pending)
        /\ UNCHANGED <<totalUpdates, submitted>>
        /\ \/ Head(pending).cmd \notin {"JOB_DONE", "MSGERR"} /\ successUpdates' = successUpdates
           \/ Head(pending).cmd = "MSGERR" /\ successUpdates' = (successUpdates - 1) % SizeMod
           \/ Head(pending).cmd = "JOB_DONE" /\ successUpdates' = (successUpdates + 1) % SizeMod
    BY <1>3 DEF OnThread, OnThreadMsg, OnThreadMsgErr, OnThreadJobDone, OnThreadExit, FirstEvent,
                queueVars, statVars
  <2>2. J' = J - (IF Head(pending).cmd = "JOB_DONE" THEN 1 ELSE 0)
    BY <1>t, <2>1, PendingSteps
  <2>3. R' = R - (IF Head(pending).cmd = "MSGERR" THEN 1 ELSE 0)
    BY <1>t, <2>1, PendingSteps
  <2> HIDE DEF J, R, D
  <2>4. CASE Head(pending).cmd \notin {"JOB_DONE", "MSGERR"}
    <3>1. Tally' = Tally /\ Tally = successUpdates + (J - R + D) /\ J - R + D \in Int
      BY <1>t, <1>0, <1>2, <2>1, <2>2, <2>3, <2>4
    <3> QED
      BY <1>t, <1>2, <2>1, <3>1
  <2>5. CASE Head(pending).cmd = "MSGERR"
    <3>1. /\ successUpdates - 1 \in Int /\ J - R + D + 1 \in Int
          /\ (successUpdates - 1) % SizeMod \in Int
      BY <1>t, <1>0
    <3>2. successUpdates' = (successUpdates - 1) % SizeMod /\ J' = J /\ R' = R - 1
      BY <2>1, <2>2, <2>3, <2>5, <1>0
    <3>3. /\ Tally = (successUpdates - 1) + (J - R + D + 1)
          /\ Tally' = ((successUpdates - 1) % SizeMod) + (J - R + D + 1)
      BY <1>t, <1>0, <1>2, <3>1, <3>2
    <3> QED
      BY <1>t, <1>2, <2>1, <3>1, <3>3
  <2>6. CASE Head(pending).cmd = "JOB_DONE"
    <3>1. /\ successUpdates + 1 \in Int /\ J - R + D - 1 \in Int
          /\ (successUpdates + 1) % SizeMod \in Int
      BY <1>t, <1>0
    <3>2. successUpdates' = (successUpdates + 1) % SizeMod /\ J' = J - 1 /\ R' = R
      BY <2>1, <2>2, <2>3, <2>6, <1>0
    <3>3. /\ Tally = (successUpdates + 1) + (J - R + D - 1)
          /\ Tally' = ((successUpdates + 1) % SizeMod) + (J - R + D - 1)
      BY <1>t, <1>0, <1>2, <3>1, <3>2
    <3> QED
      BY <1>t, <1>2, <2>1, <3>1, <3>3
  <2> QED
    BY <2>4, <2>5, <2>6
<1>4. CASE Handler \/ User \/ UNCHANGED vars
  <2>1. ~Announce
    <3>1. ASSUME Announce PROVE FALSE
      <4>1. submitted' = submitted /\ totalUpdates' = 0 /\ HandlingJobDone
        BY <3>1 DEF Announce, Goto, queueVars, HandlingJobDone
      <4> QED
        BY <4>1 DEF DoneNeedsJob
    <3> QED
      BY <3>1
  <2>2. /\ UNCHANGED <<pending, successUpdates>>
        /\ \/ UNCHANGED <<totalUpdates, submitted>>
           \/ totalUpdates' = (totalUpdates + 1) % SizeMod /\ submitted' = submitted + 1
    BY <1>4, <2>1
       DEF Handler, CheckStack, CheckBusy, CheckTotal, Reset, SubmitJob, CloseStack,
           CloseBusy, CloseAdd, User, OnUpdate, OnImportCSV, CsvDialog, OnUpdateFile,
           FileDialog, OnClose, DialogQuit, DialogDontQuit, vars, queueVars, statVars
  <2>3. totalUpdates = submitted
    <3>1. ASSUME totalUpdates' = (totalUpdates + 1) % SizeMod, submitted' = submitted + 1
          PROVE  totalUpdates = submitted
      <4>1. CASE totalUpdates + 1 = SizeMod
        <5>1. SizeMod % SizeMod = 0
          BY <1>t, Z3
        <5>2. totalUpdates' = 0
          BY <3>1, <4>1, <5>1, Zenon
        <5>3. totalUpdates' = submitted + 1
          BY <3>1, Zenon
        <5> QED
          BY <1>t, <5>2, <5>3
      <4>2. CASE totalUpdates + 1 # SizeMod
        <5>1. (totalUpdates + 1) % SizeMod = totalUpdates + 1
          BY <1>t, <4>2, Z3
        <5>2. totalUpdates' = totalUpdates + 1
          BY <3>1, <5>1, Zenon
        <5>3. totalUpdates' = submitted + 1
          BY <3>1, Zenon
        <5> QED
          BY <1>t, <5>2, <5>3
      <4> QED
        BY <4>1, <4>2
    <3> QED
      BY <2>2, <3>1
  <2>4. J' = J /\ R' = R
    BY <1>t, <2>2, PendingSteps
  <2> HIDE DEF J, R, D
  <2>5. Tally' = Tally /\ Tally = successUpdates + (J - R + D) /\ J - R + D \in Int
    BY <1>t, <1>0, <1>2, <2>2, <2>4
  <2> QED
    BY <1>t, <1>2, <2>3, <2>5
<1> QED
  BY <1>3, <1>4

LEMMA DistinctStep == IndInv /\ JobsAreDistinct /\ [Next]_vars => JobsAreDistinct'
<1> SUFFICES ASSUME IndInv, JobsAreDistinct, [Next]_vars PROVE JobsAreDistinct'
  OBVIOUS
<1>1. CASE \E w \in Worker : WorkerNext(w)
  BY <1>1, DistinctWorker
<1>2. CASE SubmitJob
  <2>1. submitted < MaxJobs
    BY <1>2, UpdateGUIAssumption DEF SubmitJob, IndInv, TypeOK
  <2> QED
    BY <1>2, <2>1, DistinctAdd DEF SubmitJob, workerVars
<1>3. CASE CloseAdd
  BY <1>3, DistinctAdd DEF CloseAdd, workerVars
<1>4. CASE OnThread \/ (Handler /\ ~SubmitJob /\ ~CloseAdd) \/ User \/ UNCHANGED vars
  <2>1. UNCHANGED <<m_Jobs, submitted, worker, job, fate>>
    BY <1>4
       DEF OnThread, OnThreadMsg, OnThreadMsgErr, OnThreadJobDone, OnThreadExit, FirstEvent,
           Handler, CheckStack, CheckBusy, CheckTotal, Reset, Announce, CloseStack,
           CloseBusy, User, OnUpdate, OnImportCSV, CsvDialog, OnUpdateFile,
           FileDialog, OnClose, DialogQuit, DialogDontQuit, vars, queueVars, workerVars
  <2> QED
    BY <2>1 DEF JobsAreDistinct, Holds, Unfinished
<1> QED
  BY <1>1, <1>2, <1>3, <1>4 DEF Next, Rest

LEMMA TallyType == IndInv => Tally \in Int /\ Ended(Good) \in Nat
<1> SUFFICES ASSUME IndInv PROVE Tally \in Int /\ Ended(Good) \in Nat
  OBVIOUS
<1>1. TypeOK /\ successUpdates \in Int
  BY UpdateGUIAssumption DEF IndInv, TypeOK
<1>2. Pending("JOB_DONE") \in Nat /\ Pending("MSGERR") \in Nat
  BY <1>1, PendingSteps
<1> QED
  BY <1>1, <1>2, ReportingStep, EndedStep DEF Tally

LEMMA CountInvStep == IndInv /\ CountInv /\ [Next]_vars => CountInv'
<1> SUFFICES ASSUME IndInv, CountInv, [Next]_vars PROVE CountInv'
  OBVIOUS
<1>t. JobsAreDistinct /\ DoneNeedsJob
  BY DEF CountInv
<1>1. JobsAreDistinct' /\ DoneNeedsJob'
  BY <1>t, DistinctStep, DoneNeedsJobStep
<1>i. /\ Tally \in Int /\ Tally' \in Int
      /\ Ended(Good) \in Int /\ Ended(Good)' \in Int
      /\ SizeMod \in Int
  <2>1. IndInv'
    BY IndInvStep
  <2>2. IndInv' => (Tally \in Int /\ Ended(Good) \in Nat)'
    BY TallyType, PTL
  <2> QED
    BY <2>1, <2>2, TallyType, UpdateGUIAssumption
<1>2. ASSUME totalUpdates' = submitted' PROVE SameBut(Tally', Ended(Good)')
  <2>1. CASE \E w \in Worker : WorkerNext(w)
    <3>1. /\ UNCHANGED <<submitted, totalUpdates>>
          /\ Tally' - Tally = Ended(Good)' - Ended(Good)
      BY <1>t, <2>1, TallyWorker
    <3>2. PICK k \in Int : Tally = Ended(Good) + k * SizeMod
      BY <1>2, <3>1 DEF CountInv, SameBut, Good
    <3>3. Tally' = Ended(Good)' + k * SizeMod
      BY <1>i, <3>1, <3>2, SMTT(20)
    <3> QED
      BY <3>3 DEF SameBut
  <2>2. CASE OnThread \/ Handler \/ User \/ UNCHANGED vars
    <3>1. /\ totalUpdates = submitted
          /\ Ended(Good)' = Ended(Good)
      BY <1>t, <1>2, <2>2, TallyFrame
    <3>2. PICK n, a \in Int :
            /\ Tally = n + a
            /\ Tally' = n + a \/ Tally' = (n % SizeMod) + a
      BY <1>t, <1>2, <2>2, TallyFrame
    <3>3. SameBut(n + a, Ended(Good))
      <4>1. SameBut(Tally, Ended(Good))
        BY <3>1 DEF CountInv, Good
      <4> QED
        BY <3>2, <4>1
    <3>4. SameBut((n % SizeMod) + a, Ended(Good))
      BY <1>i, <3>3, ModKeepsRounds
    <3> QED
      BY <3>1, <3>2, <3>3, <3>4
  <2> QED
    BY <2>1, <2>2 DEF Next, Rest
<1> QED
  BY <1>1, <1>2 DEF CountInv, Good

LEMMA CountInvInit == Init => CountInv
<1> SUFFICES ASSUME Init PROVE CountInv
  OBVIOUS
<1>1. JobsAreDistinct
  BY DEF Init, JobsAreDistinct, Holds
<1>2. DoneNeedsJob
  BY DEF Init, DoneNeedsJob, HandlingJobDone, Reporting
<1>3. Tally = 0 /\ Ended(Good) = 0
  <2>1. \A cmd : {i \in DOMAIN pending : pending[i].cmd = cmd} = {}
    BY DEF Init
  <2>2. Pending("JOB_DONE") = 0 /\ Pending("MSGERR") = 0
    BY <2>1, FS_EmptySet DEF Pending
  <2>3. Reporting = {} /\ {id \in 1..MaxJobs : fate[id] \in Good} = {}
    BY DEF Init, Reporting, Good
  <2>4. Cardinality(Reporting) = 0 /\ Ended(Good) = 0 /\ successUpdates = 0
    BY <2>3, FS_EmptySet DEF Ended, Init
  <2> QED
    BY <2>2, <2>4 DEF Tally
<1>4. SameBut(Tally, Ended(Good))
  <2>1. 0 = 0 + 0 * SizeMod
    BY UpdateGUIAssumption
  <2> QED
    BY <1>3, <2>1 DEF SameBut
<1> QED
  BY <1>1, <1>2, <1>4 DEF CountInv, Good

THEOREM JobsEndOnce == Spec => []CountInv
BY CountInvInit, CountInvStep, Invariance, PTL DEF Spec

LEMMA CountsFollow == IndInv /\ CountInv => CountsAllButErrors
<1> SUFFICES ASSUME IndInv, CountInv, totalUpdates = submitted
             PROVE  Tally % SizeMod = Ended(Good)
  BY DEF CountsAllButErrors, Good
<1>1. PICK k \in Int : Tally = Ended(Good) + k * SizeMod
  BY DEF CountInv, SameBut, Good
<1>2. submitted \in Nat /\ submitted < SizeMod /\ SizeMod \in Nat
  BY UpdateGUIAssumption DEF IndInv, TypeOK
<1>3. Ended(Good) \in 0..(SizeMod - 1)
  <2> DEFINE S == {id \in 1..MaxJobs : fate[id] \in Good}
  <2>1. S \subseteq 1..submitted
    <3>1. \A id \in 1..MaxJobs : fate[id] \in Good => ~(id > submitted)
      BY DEF CountInv, JobsAreDistinct, Good
    <3>2. \A id \in 1..MaxJobs : ~(id > submitted) => id \in 1..submitted
      BY <1>2, UpdateGUIAssumption
    <3> QED
      BY <3>1, <3>2
  <2>2. IsFiniteSet(1..submitted) /\ Cardinality(1..submitted) = submitted
    BY <1>2, FS_Interval
  <2>3. Cardinality(S) <= submitted /\ Cardinality(S) \in Nat
    BY <2>1, <2>2, FS_Subset, FS_CardinalityType
  <2>4. Ended(Good) = Cardinality(S)
    BY DEF Ended
  <2> QED
    BY <1>2, <2>3, <2>4
<1> QED
  BY <1>1, <1>3, ModOfSum

\* Until the first summary successUpdates is the number of jobs that ended
\* without MSGERR, those with a bad image among them (UpdateGUI.cpp:388-389 and
\* JobQueue.cpp:105): for any number of jobs and threads and any size_t.
THEOREM CountsExact == Spec => []CountsAllButErrors
BY CountsFollow, JobsEndOnce, Invariance, PTL

-----------------------------------------------------------------------------
(* From one run of the main frame to all runs of the program: the license   *)
(* comes first, and what holds in one run holds in every one.              *)

\* A new run of the program begins as the first one did.
LEMMA EndRunStartsAfresh == EndRun => Init'
BY DEF EndRun, Init

LEMMA FrameInvInit == Init => FrameInv
<1>1. Init => CloseInv
  BY DEF Init, CloseInv
<1> QED
  BY <1>1, IndInvInit, CountInvInit DEF FrameInv

LEMMA FrameInvStep == FrameInv /\ [Next]_vars => FrameInv'
BY IndInvStep, CloseInvStep, CountInvStep DEF FrameInv

LEMMA AppInvStep == AppInv /\ [AppNext]_appVars => AppInv'
<1> SUFFICES ASSUME AppInv, [AppNext]_appVars PROVE AppInv'
  OBVIOUS
<1> USE DEF AppInv, FrameIsLicensed
<1>1. ASSUME UNCHANGED vars PROVE FrameInv'
  BY <1>1, FrameInvStep
<1>2. CASE OnInit
  BY <1>1, <1>2 DEF OnInit, isLicenseAlreadyAccepted, licenseVars
<1>3. CASE OnAccept
  BY <1>1, <1>3 DEF OnAccept, setLicenseAccepted
<1>4. CASE LeaveLicense
  BY <1>1, <1>4 DEF LeaveLicense, licenseVars
<1>5. CASE RunFrame
  BY <1>5, FrameInvStep DEF RunFrame, licenseVars
<1>6. CASE EndRun
  <2>1. Init'
    BY <1>6, EndRunStartsAfresh
  <2>2. Init' => FrameInv'
    BY FrameInvInit, PTL
  <2>3. FrameIsLicensed' /\ (file => win32 /\ licensed)'
    BY <1>6 DEF EndRun
  <2> QED
    BY <2>1, <2>2, <2>3
<1>7. CASE UNCHANGED appVars
  BY <1>1, <1>7 DEF appVars, licenseVars
<1> QED
  BY <1>2, <1>3, <1>4, <1>5, <1>6, <1>7 DEF AppNext

\* The invariant of the main frame survives the end of a run and the next one.
THEOREM AppInvariance == AppSpec => []AppInv
<1>1. AppInit => AppInv
  BY FrameInvInit DEF AppInit, AppInv, FrameIsLicensed
<1> QED
  BY <1>1, AppInvStep, PTL DEF AppSpec

\* No main frame before the license is accepted.
THEOREM LicenseFirst == AppSpec => []FrameIsLicensed
<1>1. AppInv => FrameIsLicensed
  BY DEF AppInv
<1> QED
  BY <1>1, AppInvariance, PTL

\* In every run m_busyWorker is the number of workers that are busy.
THEOREM BusyExactInEveryRun == AppSpec => []BusyWorkerIsExact
<1>1. AppInv => BusyWorkerIsExact
  BY DEF AppInv, FrameInv, IndInv
<1> QED
  BY <1>1, AppInvariance, PTL

\* In every run successUpdates counts what ended without MSGERR, until the
\* first summary of that run.
THEOREM CountsExactInEveryRun == AppSpec => []CountsAllButErrors
<1>1. AppInv => CountsAllButErrors
  BY CountsFollow DEF AppInv, FrameInv
<1> QED
  BY <1>1, AppInvariance, PTL

\* In every run no worker takes a JOB once OnClose has begun to stop the
\* threads, and the end of a run starts none.
THEOREM NoJobAfterCloseInEveryRun == AppSpec => NoJobStartsAfterClose
<1>1. AppInv /\ [AppNext]_appVars => [Takes]_vars
  <2> SUFFICES ASSUME AppInv, [AppNext]_appVars PROVE [Takes]_vars
    OBVIOUS
  <2>1. CASE OnInit \/ OnAccept \/ LeaveLicense \/ UNCHANGED appVars
    BY <2>1 DEF OnInit, OnAccept, LeaveLicense, appVars
  <2>2. CASE RunFrame
    BY <2>2, TakesExit DEF RunFrame, AppInv, FrameInv
  <2>3. CASE EndRun
    <3>1. \A w \in Worker : worker'[w] # "popped"
      BY <2>3 DEF EndRun
    <3> QED
      BY <3>1 DEF Takes
  <2> QED
    BY <2>1, <2>2, <2>3 DEF AppNext
<1>2. AppSpec => [][Takes]_vars
  BY <1>1, AppInvariance, PTL DEF AppSpec
<1> QED
  BY <1>2 DEF NoJobStartsAfterClose, Takes
=============================================================================
