------------------------------ MODULE UpdateGUI ------------------------------
(***************************************************************************)
(* The graphical program: the main frame (class UpdateGUIFrame), which     *)
(* runs in the GUI thread, and the worker threads (class WorkerThread),    *)
(* which share the job queue and its counters and report back with pending *)
(* events.                                                                 *)
(*                                                                         *)
(* AddJob, Pop and Stacksize are single steps here; JobQueue, which models *)
(* them step by step, implements that.  So are the operations on           *)
(* m_busyWorker and m_totalJobsDone, each a critical section of            *)
(* m_MutexBusyWorker with one access.  A handler of the GUI thread that    *)
(* calls several of these operations is a chain of steps (gui), because    *)
(* workers run in between.                                                 *)
(***************************************************************************)
EXTENDS Integers, FiniteSets, SequencesExt

CONSTANTS Worker,         \* the thread ids (1, 2 and 3 in the program)
          NoJob,          \* the job of a worker that has none
          MaxJobs,        \* bound: JOBs submitted per behaviour
          SizeMod,        \* the number of values of a size_t, 2^w
          StartMayFail    \* may wxThread::Create or Run fail?

ASSUME UpdateGUIAssumption ==
  /\ IsFiniteSet(Worker)
  /\ Worker # {}
  /\ MaxJobs \in Nat
  /\ SizeMod \in Nat \ {0}
  /\ StartMayFail \in BOOLEAN

\* enum JobPriority
eHIGHEST == 0
eNORMAL  == 2

\* What a job of the queue says: update one device, or stop.
ExitJobLow == [cmd |-> "EXIT", jobid |-> 0, priority |-> 4]   \* mutant: eLOW
ExitJob   == [cmd |-> "EXIT", jobid |-> 0, priority |-> eHIGHEST]
UpdateJob(id) == [cmd |-> "JOB", jobid |-> id, priority |-> eNORMAL]
JobSet == {ExitJob} \cup {UpdateJob(id) : id \in 1..MaxJobs}
ASSUME NoJobAssumption == NoJob \notin JobSet

\* The events a worker posts.  Of the MSG events that report progress only
\* the last of a job is kept: the others change no state.
EventCmd == {"STARTED", "MSG", "MSGOK", "MSGERR", "JOB_DONE", "EXIT"}
Event    == [cmd : EventCmd, id : Worker]

\* How a job can end, and the event that says so.
Outcome == {"updated", "error", "badimage"}
\* Mutant: an error, too, is reported with a plain message.
ErrorAsMsg == [updated |-> "MSGOK", error |-> "MSG", badimage |-> "MSG"]

OutcomeEvent == [updated |-> "MSGOK", error |-> "MSGERR", badimage |-> "MSG"]

VARIABLES
  m_Jobs,            \* the queue, in the order in which Pop takes the jobs
  m_busyWorker,
  m_totalJobsDone,
  worker,            \* where each worker is in doWork and doJob
  job,               \* each worker's local variable Job job
  pending,           \* the frame's pending events
  gui,               \* where the GUI thread is; "idle": in an event loop
  modal,             \* the modal dialog whose event loop that is, or "none"
  batch,             \* jobs the running handler has still to add
  threads,
  totalUpdates,
  successUpdates,
  life,              \* of the frame
  submitted,         \* history: the number of JOBs submitted
  closing,           \* history: has OnClose told the workers to stop?
  fate               \* history: how each JOB ended

queueVars   == <<m_Jobs, submitted, closing>>
counterVars == <<m_busyWorker, m_totalJobsDone>>
workerVars  == <<worker, job, fate>>
statVars    == <<totalUpdates, successUpdates>>
frameVars   == <<threads, life>>
handlerVars == <<gui, modal, batch>>
vars == <<queueVars, counterVars, workerVars, statVars, frameVars,
          handlerVars, pending>>

-----------------------------------------------------------------------------
(* The operations of the queue.                                            *)

AddJob(j) ==
  \E n \in 1..(Len(m_Jobs) + 1) :
    /\ \A i \in 1..(n-1) : m_Jobs[i].priority <= j.priority
    /\ \A i \in n..Len(m_Jobs) : m_Jobs[i].priority > j.priority
    /\ m_Jobs' = InsertAt(m_Jobs, n, j)

Report(cmd, w) == pending' = Append(pending, [cmd |-> cmd, id |-> w])

incBusyWorker ==
  /\ m_busyWorker' = m_busyWorker + 1
  /\ UNCHANGED m_totalJobsDone

decBusyWorker ==
  /\ m_busyWorker' = IF m_busyWorker > 0 THEN m_busyWorker - 1 ELSE 0
  /\ m_totalJobsDone' = m_totalJobsDone + 1

-----------------------------------------------------------------------------
\* The frame's constructor: the list threads is filled whether or not the
\* thread could be started.
Init ==
  /\ m_Jobs = <<>>
  /\ m_busyWorker = 0
  /\ m_totalJobsDone = 0
  /\ worker \in [Worker -> IF StartMayFail THEN {"sleep", "failed"} ELSE {"sleep"}]
  /\ job = [w \in Worker |-> NoJob]
  /\ pending = <<>>
  /\ gui = "idle"
  /\ modal = "none"
  /\ batch = 0
  /\ threads = Worker
  /\ totalUpdates = 0
  /\ successUpdates = 0
  /\ life = "running"
  /\ submitted = 0
  /\ closing = FALSE
  /\ fate = [id \in 1..MaxJobs |-> "none"]

-----------------------------------------------------------------------------
(* The workers: doWork and doJob.                                          *)

\* _exit(0) ends the workers wherever they are.
Step(w, from, to) ==
  /\ life # "exited"
  /\ worker[w] = from
  /\ worker' = [worker EXCEPT ![w] = to]

\* Sleep(1000), then the first report.
Start(w) ==
  /\ Step(w, "sleep", "pop")
  /\ Report("STARTED", w)
  /\ UNCHANGED <<queueVars, counterVars, job, fate, statVars, frameVars, handlerVars>>

\* Mutant: the semaphore counts one job less than there are.
PopIfTwo(w) ==
  /\ Step(w, "pop", "popped")
  /\ Len(m_Jobs) > 1
  /\ job' = [job EXCEPT ![w] = Head(m_Jobs)]
  /\ m_Jobs' = Tail(m_Jobs)
  /\ UNCHANGED <<submitted, closing, counterVars, fate, statVars, frameVars,
                 handlerVars, pending>>

Pop(w) ==
  /\ Step(w, "pop", "popped")
  /\ m_Jobs # <<>>
  /\ job' = [job EXCEPT ![w] = Head(m_Jobs)]
  /\ m_Jobs' = Tail(m_Jobs)
  /\ UNCHANGED <<submitted, closing, counterVars, fate, statVars, frameVars,
                 handlerVars, pending>>

IncBusy(w) ==
  /\ Step(w, "popped", IF job[w].cmd = "EXIT" THEN "exit" ELSE "work")
  /\ incBusyWorker
  /\ UNCHANGED <<queueVars, job, fate, statVars, frameVars, handlerVars, pending>>

\* Mutant: the EXIT case forgets decBusyWorker.
ExitNoDec(w) ==
  /\ Step(w, "exit", "exitReport")
  /\ UNCHANGED <<queueVars, counterVars, job, fate, statVars, frameVars, handlerVars, pending>>

\* case eID_THREAD_EXIT of doJob: the exception leaves doWork's loop ...
ExitDec(w) ==
  /\ Step(w, "exit", "exitReport")
  /\ decBusyWorker
  /\ UNCHANGED <<queueVars, job, fate, statVars, frameVars, handlerVars, pending>>

\* Mutant: the handler is inside the loop, and the thread goes on.
ExitGoesOn(w) ==
  /\ Step(w, "exitReport", "pop")
  /\ Report("EXIT", w)
  /\ UNCHANGED <<queueVars, counterVars, job, fate, statVars, frameVars, handlerVars>>

\* ... whose handler reports it, and the thread ends.
ExitReport(w) ==
  /\ Step(w, "exitReport", "stopped")
  /\ Report("EXIT", w)
  /\ UNCHANGED <<queueVars, counterVars, job, fate, statVars, frameVars, handlerVars>>

\* case eID_THREAD_JOB: one update, with the report that tells its outcome.
Work(w) ==
  /\ Step(w, "work", "done")
  /\ \E o \in Outcome :
       /\ Report(OutcomeEvent[o], w)
       /\ fate' = [fate EXCEPT ![job[w].jobid] = o]
  /\ UNCHANGED <<queueVars, counterVars, job, statVars, frameVars, handlerVars>>

\* An exception out of Client::send (pc = "threw" in HttpClient) is caught by
\* none of doJob and doWork: wxWidgets ends the thread, or the runtime library
\* the program (external).
WorkThrows(w) ==
  /\ Step(w, "work", "died")
  /\ fate' = [fate EXCEPT ![job[w].jobid] = "threw"]
  /\ life' \in {life, "exited"}
  /\ UNCHANGED <<queueVars, counterVars, job, statVars, threads, handlerVars, pending>>

ReportDone(w) ==
  /\ Step(w, "done", "dec")
  /\ Report("JOB_DONE", w)
  /\ UNCHANGED <<queueVars, counterVars, job, fate, statVars, frameVars, handlerVars>>

\* The last statement of doJob; the loop of doWork calls it again.
DecBusy(w) ==
  /\ Step(w, "dec", "pop")
  /\ decBusyWorker
  /\ job' = [job EXCEPT ![w] = NoJob]
  /\ UNCHANGED <<queueVars, fate, statVars, frameVars, handlerVars, pending>>

WorkerNext(w) ==
  \/ Start(w)
  \/ Pop(w)
  \/ IncBusy(w)
  \/ ExitDec(w)
  \/ ExitReport(w)
  \/ Work(w)
  \/ WorkThrows(w)
  \/ ReportDone(w)
  \/ DecBusy(w)

-----------------------------------------------------------------------------
(* OnThread: the GUI thread handles the first pending event, also inside   *)
(* the event loop of a modal dialog.                                       *)

FirstEvent(cmds) ==
  /\ gui = "idle"
  /\ life # "exited"
  /\ pending # <<>>
  /\ Head(pending).cmd \in cmds
  /\ pending' = Tail(pending)

OnThreadMsg ==
  /\ FirstEvent({"STARTED", "MSG", "MSGOK"})
  /\ UNCHANGED <<queueVars, counterVars, workerVars, statVars, frameVars, handlerVars>>

\* Mutant: a counter that may become negative.
MsgErrSigned ==
  /\ FirstEvent({"MSGERR"})
  /\ successUpdates' = successUpdates - 1
  /\ UNCHANGED <<queueVars, counterVars, workerVars, totalUpdates, frameVars, handlerVars>>

OnThreadMsgErr ==
  /\ FirstEvent({"MSGERR"})
  /\ successUpdates' = (successUpdates - 1) % SizeMod
  /\ UNCHANGED <<queueVars, counterVars, workerVars, totalUpdates, frameVars, handlerVars>>

\* The job timings, which divide by threads.size(), come before the checks.
OnThreadJobDone ==
  /\ FirstEvent({"JOB_DONE"})
  /\ successUpdates' = (successUpdates + 1) % SizeMod
  /\ gui' = "checkStack"
  /\ UNCHANGED <<queueVars, counterVars, workerVars, totalUpdates, frameVars, modal, batch>>

\* Mutant: the first thread of the list is removed, whoever sent the event.
ExitPopsFront ==
  /\ FirstEvent({"EXIT"})
  /\ threads' = threads \ {CHOOSE w \in threads : TRUE}
  /\ life' = IF threads' = {} THEN "destroyed" ELSE life
  /\ UNCHANGED <<queueVars, counterVars, workerVars, statVars, handlerVars>>

\* Mutant: the frame is closed by the first EXIT.
ExitDestroys ==
  /\ FirstEvent({"EXIT"})
  /\ threads' = threads \ {Head(pending).id}
  /\ life' = "destroyed"
  /\ UNCHANGED <<queueVars, counterVars, workerVars, statVars, handlerVars>>

\* The last thread's EXIT closes the frame: OnExit, Close(true), OnClose,
\* which finds threads empty and calls Destroy.
OnThreadExit ==
  /\ FirstEvent({"EXIT"})
  /\ threads' = threads \ {Head(pending).id}
  /\ life' = IF threads' = {} THEN "destroyed" ELSE life
  /\ UNCHANGED <<queueVars, counterVars, workerVars, statVars, handlerVars>>

Goto(from, to) ==
  /\ gui = from
  /\ gui' = to

\* jobs->Stacksize() == 0 &&
CheckStack ==
  /\ Goto("checkStack", IF m_Jobs = <<>> THEN "checkBusy" ELSE "idle")
  /\ UNCHANGED <<queueVars, counterVars, workerVars, statVars, frameVars, modal, batch, pending>>

\* jobs->getBusyWorker() == 0
CheckBusy ==
  /\ Goto("checkBusy", IF m_busyWorker = 0 THEN "checkTotal" ELSE "idle")
  /\ UNCHANGED <<queueVars, counterVars, workerVars, statVars, frameVars, modal, batch, pending>>

\* jobs->getTotalJobsDone() > 1: allJobsDone = true
CheckTotal ==
  /\ Goto("checkTotal", IF m_totalJobsDone > 1 THEN "resetAnnounce" ELSE "reset")
  /\ UNCHANGED <<queueVars, counterVars, workerVars, statVars, frameVars, modal, batch, pending>>

\* jobs->resetTotalJobsDone()
Reset ==
  /\ \/ Goto("resetAnnounce", "announce")
     \/ Goto("reset", "idle")
  /\ m_totalJobsDone' = 0
  /\ UNCHANGED <<queueVars, m_busyWorker, workerVars, statVars, frameVars, modal, batch, pending>>

\* if (allJobsDone): the summary of the finished jobs is logged
Announce ==
  /\ Goto("announce", "idle")
  /\ totalUpdates' = 0
  /\ successUpdates' = 0
  /\ UNCHANGED <<queueVars, counterVars, workerVars, frameVars, modal, batch, pending>>

OnThread ==
  \/ OnThreadMsg
  \/ OnThreadMsgErr
  \/ OnThreadJobDone
  \/ OnThreadExit

-----------------------------------------------------------------------------
(* OnUpdate and OnImportCSV: submitting jobs.  The user reaches the frame  *)
(* while it is shown and no modal dialog disables it.                      *)

UserTurn ==
  /\ gui = "idle"
  /\ modal = "none"
  /\ life = "running"

Submit(n) ==
  /\ submitted + n <= MaxJobs
  /\ batch' = n
  /\ gui' = IF n > 0 THEN "submit" ELSE "idle"

OnUpdate ==
  /\ UserTurn
  /\ \E n \in 1..MaxJobs : Submit(n)
  /\ UNCHANGED <<queueVars, counterVars, workerVars, statVars, frameVars, modal, pending>>

\* OnImportCSV opens a file dialog first, whose event loop handles events.
OnImportCSV ==
  /\ UserTurn
  /\ modal' = "csv"
  /\ UNCHANGED <<queueVars, counterVars, workerVars, statVars, frameVars, gui, batch, pending>>

CsvDialog ==
  /\ gui = "idle"
  /\ modal = "csv"
  /\ modal' = "none"
  /\ \/ UNCHANGED <<gui, batch>>              \* wxID_CANCEL
     \/ \E n \in 0..MaxJobs : Submit(n)
  /\ UNCHANGED <<queueVars, counterVars, workerVars, statVars, frameVars, pending>>

\* OnUpdateFile, too; what it puts into imgEntry the user may as well type.
OnUpdateFile ==
  /\ UserTurn
  /\ modal' = "file"
  /\ UNCHANGED <<queueVars, counterVars, workerVars, statVars, frameVars, gui, batch, pending>>

FileDialog ==
  /\ gui = "idle"
  /\ modal = "file"
  /\ modal' = "none"
  /\ UNCHANGED <<queueVars, counterVars, workerVars, statVars, frameVars, gui, batch, pending>>

\* The body of the loop over the hosts or the rows.
SubmitJob ==
  /\ gui = "submit"
  /\ totalUpdates' = (totalUpdates + 1) % SizeMod
  /\ submitted' = submitted + 1
  /\ AddJob(UpdateJob(submitted + 1))
  /\ batch' = batch - 1
  /\ gui' = IF batch = 1 THEN "idle" ELSE "submit"
  /\ UNCHANGED <<closing, counterVars, workerVars, successUpdates, frameVars, modal, pending>>

-----------------------------------------------------------------------------
(* OnClose                                                                 *)

\* The user closes the frame.  (That threads is empty is the call from
\* OnThreadExit.)
OnClose ==
  /\ UserTurn
  /\ threads # {}
  /\ gui' = "closeStack"
  /\ UNCHANGED <<queueVars, counterVars, workerVars, statVars, frameVars, modal, batch, pending>>

AskUser ==
  /\ gui' = "idle"
  /\ modal' = "quit"
  /\ UNCHANGED batch

\* Mutant: i < threads.size() - 1.
TellFewer ==
  /\ gui' = "closeAdd"
  /\ batch' = Cardinality(threads) - 1
  /\ UNCHANGED modal

TellThreads ==
  /\ gui' = "closeAdd"
  /\ batch' = Cardinality(threads)
  /\ UNCHANGED modal

\* jobs->Stacksize() > 0 ||
CloseStack ==
  /\ gui = "closeStack"
  /\ \/ m_Jobs # <<>> /\ AskUser
     \/ m_Jobs = <<>> /\ gui' = "closeBusy" /\ UNCHANGED <<modal, batch>>
  /\ UNCHANGED <<queueVars, counterVars, workerVars, statVars, frameVars, pending>>

\* jobs->getBusyWorker() > 0
CloseBusy ==
  /\ gui = "closeBusy"
  /\ \/ m_busyWorker > 0 /\ AskUser
     \/ m_busyWorker = 0 /\ TellThreads
  /\ UNCHANGED <<queueVars, counterVars, workerVars, statVars, frameVars, pending>>

\* case wxID_YES: Destroy(); _exit(0), the end of all threads
DialogQuit ==
  /\ gui = "idle"
  /\ modal = "quit"
  /\ modal' = "none"
  /\ life' = "exited"
  /\ UNCHANGED <<queueVars, counterVars, workerVars, statVars, threads, gui, batch, pending>>

\* case wxID_NO: return
DialogDontQuit ==
  /\ gui = "idle"
  /\ modal = "quit"
  /\ modal' = "none"
  /\ UNCHANGED <<queueVars, counterVars, workerVars, statVars, frameVars, gui, batch, pending>>

\* One EXIT job for each thread of the list.
CloseAdd ==
  /\ gui = "closeAdd"
  /\ AddJob(ExitJob)
  /\ closing' = TRUE
  /\ batch' = batch - 1
  /\ gui' = IF batch = 1 THEN "idle" ELSE "closeAdd"
  /\ UNCHANGED <<submitted, counterVars, workerVars, statVars, frameVars, modal, pending>>

-----------------------------------------------------------------------------
\* What the GUI thread does once a handler runs.
Handler ==
  \/ CheckStack
  \/ CheckBusy
  \/ CheckTotal
  \/ Reset
  \/ Announce
  \/ SubmitJob
  \/ CloseStack
  \/ CloseBusy
  \/ CloseAdd

\* What the user may do.
User ==
  \/ OnUpdate
  \/ OnImportCSV
  \/ CsvDialog
  \/ OnUpdateFile
  \/ FileDialog
  \/ OnClose
  \/ DialogQuit
  \/ DialogDontQuit

\* The program rests: every thread waits for the user, or has ended.
Rest ==
  /\ \/ life = "exited"
     \/ /\ gui = "idle"
        /\ pending = <<>>
        /\ \A w \in Worker : \/ worker[w] \in {"stopped", "failed", "died"}
                             \/ worker[w] = "pop" /\ m_Jobs = <<>>
  /\ UNCHANGED vars

Next ==
  \/ OnThread
  \/ Handler
  \/ User
  \/ \E w \in Worker : WorkerNext(w)
  \/ Rest

Spec == Init /\ [][Next]_vars

-----------------------------------------------------------------------------
\* A thread that can run runs: Pop and the semaphore let each waiting worker
\* through in the end.  But an update need not end: where the timeouts of the
\* socket are not in force (Http.hpp:361, HttpClient) a device that is silent
\* holds its worker for ever.  The event loop gets round to pending events
\* whatever the user does.  Nothing makes the user do anything.
Fairness ==
  /\ SF_vars(OnThread)
  /\ WF_vars(Handler)
  /\ \A w \in Worker : WF_vars(worker[w] # "work" /\ WorkerNext(w))

LiveSpec == Spec /\ Fairness

-----------------------------------------------------------------------------
WorkerPC == {"sleep", "failed", "pop", "popped", "exit", "exitReport", "work",
             "died", "done", "dec", "stopped"}
GuiPC    == {"idle", "checkStack", "checkBusy", "checkTotal", "reset",
             "resetAnnounce", "announce", "submit", "closeStack", "closeBusy",
             "closeAdd"}

TypeOK ==
  /\ m_Jobs \in Seq(JobSet)
  /\ m_busyWorker \in Nat
  /\ m_totalJobsDone \in Nat
  /\ worker \in [Worker -> WorkerPC]
  /\ job \in [Worker -> JobSet \cup {NoJob}]
  /\ pending \in Seq(Event)
  /\ gui \in GuiPC
  /\ modal \in {"none", "csv", "file", "quit"}
  /\ batch \in Nat
  /\ threads \subseteq Worker
  /\ totalUpdates \in 0..(SizeMod - 1)
  /\ successUpdates \in 0..(SizeMod - 1)
  /\ life \in {"running", "destroyed", "exited"}
  /\ submitted \in 0..MaxJobs
  /\ closing \in BOOLEAN
  /\ fate \in [1..MaxJobs -> Outcome \cup {"threw", "none"}]

\* calcJobTimingsAvgTotEst divides by threads.size() (UpdateGUI.cpp:360 and
\* 393): when a JOB_DONE event is handled, the list still has the thread
\* that sent it, whatever other threads have exited in the meantime.
JobDoneFindsThreads ==
  \A i \in DOMAIN pending :
     pending[i].cmd = "JOB_DONE" => pending[i].id \in threads

\* "should only be run once per thread and only if the app exits"
\* (UpdateGUI.cpp:408): an EXIT event comes from a thread that is still in
\* the list, no second one from the same thread is on its way, and OnClose
\* has told the threads to stop.
ExitOncePerThread ==
  \A i \in DOMAIN pending :
     pending[i].cmd = "EXIT" =>
        /\ pending[i].id \in threads
        /\ closing
        /\ \A k \in DOMAIN pending \ {i} : pending[k] # pending[i]

Busy == {w \in Worker : worker[w] \in {"exit", "work", "died", "done", "dec"}}

\* m_busyWorker is the number of workers between incBusyWorker and
\* decBusyWorker, on the paths of both commands (JobQueue.cpp:59, 66 and
\* 163); a thread that died there is counted for ever.  So the guard of
\* decBusyWorker (JobQueue.hpp:110) never bites.
BusyWorkerIsExact ==
  m_busyWorker = Cardinality(Busy)

\* The frame is destroyed only after every worker has ended and its last
\* event is handled: no worker posts to a frame that is gone
\* (UpdateGUI.cpp:203-208 and 410-411).
DestroyedLast ==
  life = "destroyed" =>
     /\ pending = <<>>
     /\ \A w \in Worker : worker[w] = "stopped"

\* What successUpdates counts, until the first summary resets it: the jobs that
\* ended without the event MSGERR, and so also the jobs whose image was not
\* valid (JobQueue.cpp:105), once the events under way are handled
\* (UpdateGUI.cpp:388-389).
Pending(cmd) == Cardinality({i \in DOMAIN pending : pending[i].cmd = cmd})
Reporting == {w \in Worker : worker[w] = "done"}
Tally == successUpdates + Pending("JOB_DONE") - Pending("MSGERR") + Cardinality(Reporting)
Ended(outcomes) == Cardinality({id \in 1..MaxJobs : fate[id] \in outcomes})

CountsAllButErrors ==
  totalUpdates = submitted => Tally % SizeMod = Ended({"updated", "badimage"})

\* Once OnClose has begun to stop the threads no worker takes a JOB from the
\* queue, also not one that is submitted later: the EXIT jobs have the highest
\* priority and there is one for every worker (UpdateGUI.cpp:203-205).  A JOB
\* taken before may still be started.
NoJobStartsAfterClose ==
  [][closing => \A w \in Worker : worker[w] = "pop" /\ worker'[w] = "popped"
                                    => job'[w] = ExitJob]_vars

\* A thread that did not start or has died, and one whose device never answers.
Lost     == {w \in Worker : worker[w] \in {"failed", "died"}}
Waits(w) == [](worker[w] = "work")

\* A JOB that is in the queue when the threads have not been told to stop is
\* run to its end, unless the user quits the program, the device of that JOB is
\* silent for ever, or no thread is left: one that has started (UpdateGUI.cpp:153),
\* survives its jobs and does not wait for ever is enough.
Queued(id) == \E i \in DOMAIN m_Jobs : m_Jobs[i].jobid = id

JobsFinish ==
  \A id \in 1..MaxJobs :
     Queued(id) /\ ~closing ~>
        \/ fate[id] # "none"
        \/ life = "exited"
        \/ \E w \in Worker : job[w] = UpdateJob(id) /\ Waits(w)
        \/ \A w \in Worker : w \in Lost \/ Waits(w)

\* OnClose has one EXIT job for each thread of the list (UpdateGUI.cpp:203-205):
\* every thread ends that is not lost and does not wait for ever, and if all of
\* them end so does the program: the frame is destroyed, or the user has quit in
\* the dialog of another OnClose.
CloseCompletes ==
  closing ~> \/ life = "exited"
             \/ /\ \A w \in Worker : w \in Lost \/ worker[w] = "stopped" \/ Waits(w)
                /\ (\A w \in Worker : worker[w] = "stopped") => life = "destroyed"

-----------------------------------------------------------------------------
(* What the program says about itself, and does not keep.                  *)

\* "All jobs finished" (UpdateGUI.cpp:437): no JOB is unfinished when the
\* summary is logged.
AllJobsFinished ==
  gui = "announce" =>
     /\ \A i \in DOMAIN m_Jobs : m_Jobs[i].cmd # "JOB"
     /\ \A w \in Worker : worker[w] \in {"popped", "work"} => job[w].cmd # "JOB"

\* "Total updates: %lu, success: %lu, failed: %lu" (UpdateGUI.cpp:447): the
\* number of failed updates, total - success, is not negative.
SummaryAddsUp == gui = "announce" => successUpdates <= totalUpdates

\* "If more then one job was in the queue inform the user about job
\* completion" (UpdateGUI.cpp:394-395): jobs that are submitted together are
\* followed by a summary, unless the program is closed, or a worker died or waits
\* for ever.
BatchAnnounced ==
  gui = "submit" /\ batch > 1 ~>
     \/ gui = "announce"
     \/ closing \/ life # "running"
     \/ \E w \in Worker : w \in Lost \/ Waits(w)
=============================================================================
