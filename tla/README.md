# A TLA+ model of the EnergyManager update tool

UpdateTool brings a firmware image to a list of EnergyManager devices over
HTTP. It is built in two forms from the same sources: a wxWidgets program,
whose main frame hands the updates to three worker threads through a job
queue, and a command line program that goes through the list by itself. This
directory models the parts in which the order of steps matters: the queue, the
threads and the frame, the conversation with a device, the HTTP request below
it, the import of a list of devices with its reading thread, and the license that comes
before all of it on the screen; and the places where it reads or writes text that
others understand: lists of hosts, columns of CSV, JSON replies and HTTP requests.

Source paths below are relative to `src/`, the directory of the program's
sources in the repository (`src/src/` from here).

## 1. Inventory

| Component | State | Operations | What makes it correct |
|---|---|---|---|
| Job queue: `class Queue` (`JobQueue.hpp:76`, `JobQueue.cpp:5-21`) | `m_Jobs` (a `multimap` by priority), `m_MutexQueue`, `m_QueueCount` (a semaphore) | `AddJob`, `Pop`, `Stacksize` | jobs come out by priority, first come first served in a class; none is lost or run twice; nobody sleeps while there is work; `begin()` is never taken of an empty map |
| Counters of the queue (`JobQueue.hpp:92-112`) | `m_busyWorker`, `m_totalJobsDone`, `m_MutexBusyWorker` | `incBusyWorker`, `decBusyWorker`, `getBusyWorker`, `getTotalJobsDone`, `resetTotalJobsDone` | `m_busyWorker` is the number of workers with a job |
| Worker threads: `class WorkerThread` (`JobQueue.cpp:40-164`) | where each thread is; its job; its `UpdateFactory` | `doWork`, `doJob`, `Report`, `ReportDone` | each job ends with one `JOB_DONE`, each thread with one `EXIT` |
| Main frame: `class UpdateGUIFrame` (`UpdateGUI.cpp`) | `threads`, `totalUpdates`, `successUpdates`, the pending events, open dialogs | `OnUpdate`, `OnUpdateFile`, `OnImportCSV`, `OnThread`, `OnClose`, `OnExit` | an orderly shutdown; a summary that is true and comes once |
| Update session: `class UpdateFactory` (`UpdateFactory.cpp`) | session id, `authenticated`, the two mapped versions, the buffer | `setDest`, `doAuth`, `loadUpdateFile`, `doUpdate`, `cleanup` | success is reported only for an installed image; an image is installed once; no downgrade; a request says what the object holds |
| Command line program: `main` (`UpdateTool.cpp:72`) | the list, two counters | one loop | as above; its summary adds up |
| Host lists and CSV import (`UpdateFactory.cpp:387-472`) | the list under construction, the errors | `loadUpdateFactoriesFromStr`, `loadUpdateFactoriesFromCSV` | every entry is taken or reported; the import ends |
| CSV reader (`Csv.hpp`) | double buffer, reader thread | `next_line`, `read_row` | every line once, in order; no over-long line is split; a value is that of its column |
| HTTP client (`Http.hpp`) | a socket per request | `Client::send` | a reply is complete or refused; a request is framed and carries its body; a silent device does not hold a worker for ever |
| JSON parser (`Json.cpp`) | none | `parse`, `operator[]`, `bool_value`, `string_value` | a reply that is not JSON is refused, and one that states no login gives none |
| License window (`UpdateGUI.cpp:48-62, 457-572`) | the window, the file `utool_license_accepted` | `OnInit`, `OnAccept`, `OnDecline`, `OnClose` | no frame before an acceptance |
| HTTP server, SSL and the rest of the vendored headers | - | not used by the program | - |
| Build scripts | - | - | - |

How they interact: the GUI thread calls `AddJob`, `Stacksize` and the counters;
the workers call `Pop`, the counters and `Report`; `Report` posts an event that
the GUI thread handles in `OnThread`, also inside the event loop of a modal
dialog. A worker owns the `UpdateFactory` of its job, so sessions share nothing
but the devices they talk to.

What is hard in this code:

- *Several counts of the same jobs.* The semaphore, the map, `m_busyWorker`, the
  reports under way and the frame's statistics all count jobs, none is updated
  together with another, and `OnThread` and `OnClose` decide on two or three of
  them read one after the other.
- *Shutdown.* `OnClose` only puts `EXIT` jobs into the queue; the frame stays
  usable, and the events that end it may be handled inside a dialog.
- *Errors between steps.* A reply may be lost after the device has acted on the
  request, or before: the image may be taken when its sender has long given up and
  another one has compared versions. Each step of a session has an error path of
  its own, and an exception of the HTTP client is caught nowhere.
- *Check, then act.* The version of a device is compared long before the upload.
- *Two threads, one buffer.* The CSV reader's thread fills a block of the buffer
  whose other blocks the caller's thread cuts lines from and writes NULs into.
- *A connection that breaks anywhere*, also in the middle of a line, or is silent.
- *Text in place.* Columns are cut out of a line by NULs while it is read; requests
  are built from parts that are reused, escaped or not by a condition that looks
  for the wrong header.

`PROJECT.json` lists the hazards one by one at the line where each bites.

## 2. Modules

| Module | Models | Kind |
|---|---|---|
| `PriorityFifo` | what the queue promises: jobs wait, a free worker takes the first by priority and submission | abstract specification |
| `JobQueue` | `AddJob`, `Pop`, `Stacksize` step by step | implements `PriorityFifo` |
| `SequenceLemmas` | facts about sequences that several of the proofs need | lemmas |
| `JobQueueProofs` | theorems on `JobQueue` | proofs |
| `UpdateGUI` | frame, workers, counters, pending events, dialogs | composition of GUI thread and workers |
| `UpdateGUIProofs` | theorems on `UpdateGUI` and `UpdateApp` | proofs |
| `UpdateApp` | the license window, and runs of the program one after the other, around `UpdateGUI` | composition |
| `Update` | what an update promises: taken once at most, success only if taken, refused only if never taken | abstract specification |
| `UpdateFactory` | the methods of a session and the device they talk to | shared by the next two |
| `UpdateJob` | `doJob`'s update: sessions side by side | composition, implements `Update` |
| `UpdateTool` | `main`: sessions one after the other | composition, implements `Update` |
| `UpdateFactoryProofs` | what each method of a session preserves | lemmas |
| `UpdateJobProofs`, `UpdateToolProofs` | theorems on `UpdateJob` and `UpdateTool` | proofs |
| `Exchange` | what `UpdateFactory` takes a request for: acted on once or not at all, the device's reply or none | abstract specification |
| `HttpClient` | `Client::send` over a socket, and the device at its other end | implements `Exchange` |
| `HttpClientProofs` | theorems on `HttpClient` and `Request` | proofs |
| `LineSource` | what the CSV reader's `next_line` promises: each line once and in order | abstract specification |
| `LineReader` | `io::LineReader`, its buffer and its reading thread | implements `LineSource` |
| `CsvImport` | `loadUpdateFactoriesFromCSV` on top of `LineReader` | composition |
| `HostList` | `loadUpdateFactoriesFromStr` | one loop, checked against the entries of the whole list |
| `LoadProofs` | theorems on `HostList`, `CsvColumns`, `LineReader` and `CsvImport` | proofs |
| `JsonGrammar` | what a text means as JSON, read as a whole | reference definition |
| `JsonParser` | `Json::parse`, from left to right, and what `doAuth` reads from the result | recursive operators, checked against `JsonGrammar` |
| `CsvColumns` | `read_header`, `read_row`: a line cut into columns in place | checked against the columns of the line as a whole |
| `Request` | the requests that `doAuth` and `doUpdate` build and `write_request` writes | checked against what a device makes of them |
| `MC*` | instances for TLC; `MCText` puts the four text modules side by side, `MCUpdateGUILive` bounds what the user submits and closes | |

### JobQueue

One action per shared-memory step. `AddJob` is `AddJobLock`, `AddJobInsert`,
`AddJobPost`, `AddJobUnlock`; `Pop` is `Wait`, `Lock`, `Copy`, `Erase`, `Unlock`;
`Stacksize` is `StacksizeLock`, `StacksizeRead` and the same unlock. `NextJob` is
the worker's way back to `Pop`. The map is a sequence in iteration order, and
`InsertJob` puts an element where `std::multimap` does: behind all keys that are
not greater. A job is its submission number and its priority; what is inside
plays no part. The code's `AddJob` holds the mutex while it posts the
semaphore, but `Pop` takes a count before it locks, so the model keeps the two
apart: this is where the interleavings come from.

### UpdateGUI

`AddJob`, `Pop`, `Stacksize` and each access to a counter are one step here,
which `JobQueue` justifies. A handler of the GUI thread that calls several of
them is a chain of steps, with `gui` as its program counter, because workers run
between the calls: `OnThread`'s `JOB_DONE` case is `OnThreadJobDone`, `CheckStack`,
`CheckBusy`, `CheckTotal`, `Reset`, `Announce`, in the order of the evaluation of
`UpdateGUI.cpp:398-401` with its short circuits. `OnClose` is `OnClose`,
`CloseStack`, `CloseBusy` and then the dialog (`DialogQuit`, `DialogDontQuit`) or one
`CloseAdd` per thread. `modal` says whether a dialog is open: pending events are
still handled then, but the user cannot reach the frame.

A worker is `Start`, then rounds of `Pop`, `IncBusy`, `Work`, `ReportDone`, `DecBusy`,
or `Pop`, `IncBusy`, `ExitDec`, `ExitReport`. `Work` is the whole update with a
nondeterministic outcome; of the events it posts only the one that tells the
outcome is kept, for the others change no state. What lies behind it is said in
`Update`, which `UpdateJob` implements: `Begin` to `End` is `Work`, and the outcomes
`updated`, `refused` and `error` are `updated`, `badimage` and `error`. In place of an
outcome an exception of `Client::send` may come (`WorkThrows`): nothing catches it, so the
thread is gone without an event (`died`), or the whole program.
`threads` is filled whether or not a thread could be started, as in the
constructor; with `StartMayFail` workers may be missing from the beginning.

What the user has typed when a handler runs is any input: `OnUpdate` and
`OnImportCSV` submit any number of jobs. `OnUpdateFile` opens a dialog like that of the
import and only fills a field.

A job's number stands for its identity. (`jobid` in the code is a random number
for the log.)

The history variables `submitted`, `closing` and `fate` are read by properties and
by the bound on submissions only.

### UpdateApp

`window` is `"license"` or `"frame"`, or `"none"` while the program does not run. `OnInit`
shows the frame if `isLicenseAlreadyAccepted`, which on Windows looks for a file and
elsewhere is false; `OnAccept` writes the file, if it can, and shows the frame.
`LeaveLicense` is `OnDecline` and `OnClose`. While the frame is shown the steps are
those of `UpdateGUI` (`RunFrame`), and the program may end at any of them (`EndRun`):
the next run finds the file as it is and the rest as the constructor makes it. So
the `gui` run is about any number of runs of the program.

### UpdateFactory, UpdateJob, UpdateTool

`UpdateFactory` has the methods, one step per HTTP request: `AuthStart` (GET
`/start.php`), `AuthLogin` (POST `/start.php`), `loadUpdateFile`, `UpdateCleanup` (the
checks of `doUpdate` and the GET) and `UpdateUpload` (the POST of the image).
Every reply the code tells apart is tried, and the loss of each reply, before
or after the device has acted. `grepCookie` keeps its quirk: without a semicolon
the last character of the session id is cut off. Versions are written as the
strings of `version_map`, in the code's order, and a version that is not in the map is
`"Unknown"`. An update file is named by the version in its trailer, or is missing
or too short for one.

The device is external. It is assumed to report its version truthfully, to take
an image only from a session that is logged in, and to answer 200 or 302 to the
upload only if it takes the image. It may forget its sessions at any moment
(`Forget`), refuse anything and answer nonsense. An image that was sent and not
answered stays in `late`, and the device may take it at any later moment
(`LateInstall`), as `Exchange` allows: also when the session has ended and others have
read the version it will overwrite. `MethodThrows` is the exception that leaves
`Client::send` and with it every method; it too may come after the device has acted.

`UpdateJob` adds the decisions of `doJob` and lets all sessions run side by side,
each with a destination and a file of its own. `UpdateTool` adds those of `main`,
which differ: it looks at the result of `loadUpdateFile` before it compares
versions, uses one file for all devices, and starts a session only when the one
before is over. Both implement `Update`: `pc` is mapped to an outcome, and `installs` to the
set of updates whose image was taken.

### Exchange, HttpClient

`HttpClient` has one action per call of the socket. `create_client_socket` goes
through the addresses of the host (`OpenSocket`, `Connected`, `Refused`,
`NoAddress`); the request is written (`Write`, `WriteFails`); the reply is read line
by line (`read_response_line`, `read_headers`, `EmptyLine`, with `GetsByte` and
`GetsNothing` for the inside of `socket_gets`) and then its body (`Content`,
`ContentEnds`, `UntilEnd`); `CloseSocket` is the end of `read_and_close_socket`. A
`Content-Length` that `std::stoi` refuses, or a status that is out of the range of
`int`, throws out of `send` and leaves the socket open (`pc = "threw"`; the object's
callers do not catch it: `MethodThrows` in `UpdateFactory`, `WorkThrows` in
`UpdateGUI`). `SocketsAreClosed` is about the sends that return and neither asks
for that socket nor forbids it.

A request is its head and `size` pieces of body. Each line of the reply is two
pieces, its text and its end, so that the connection may break in between.
Lines fit the buffer of `socket_gets`, and the request is accepted by the socket
as a whole or up to a piece; what `write` returns is not looked at.

The device is external: it reads, acts, answers, closes, resets or falls silent as
it likes, but reports success only after it has the whole request and has acted
on it. `posix` is the build, chosen at the start. `setsockopt` gets an `int` for
`SO_RCVTIMEO`: Windows takes it as milliseconds, a POSIX system wants a `timeval`
and refuses it, and the result is ignored. So on POSIX there is no timeout, and a
write to a closed connection ends the program with `SIGPIPE` (`Killed`), which only
`Server` ignores. On Windows a pause inside a line ends the read of the line; the
rest of it is then read as the next. This is why `Exchange` promises the device's own
status and body only if `exact`, and otherwise a status that is the device's or -1.

### LineSource, LineReader, CsvImport

The caller's thread and the reading thread share the three blocks of `buffer`.
Each method of `AsynchronousReader` holds its mutex from beginning to end and is a
step. `next_line` is `NextLine` (the end of the data, or the move of the second
block to the first), `FinishRead`, `CopyBlock` and `ScanLine`; between them the
reading thread runs. `Destroy` and `Join` are the destructor. `base` is a history
variable: where in the file `buffer[0]` comes from. The file does not change while
it is read, and a read that comes up short has met its end.

`CsvImport` is the loop of `loadUpdateFactoriesFromCSV`. What a line contains is told
by its first byte: a header, a row whose destination is taken, a port that is not
a number, a port out of the range of `int`, or anything else, which has too few
columns. Three ways lead out of the function: `UPDATE_OK` at the end of the file,
`UPDATE_CSV` after a bad header, and an exception that its handlers do not name
(`can_not_open_file` is thrown outside of the `try`, `std::out_of_range` has no
handler); each destroys the reader on the way.

### HostList, CsvColumns, Request, JsonGrammar, JsonParser

`HostList` is the loop over `start` and `end` with `parseHostPort` in it. Positions count
from 1. A port is what `std::stoi` makes of the text behind the first colon: white space,
a sign or none, and digits, whatever follows them, so that `h: 99` has the port 99 and
`h:-9` the port -9, which the code does not refuse. Without digits it is 80. A number, with
its zeros in front left out, that is beyond `IntMax` or below `-IntMax - 1` throws out of
the function, with the objects of the entries before in the list. `HostsAreExact` says the
same without going along the text: `Stated` is the set of all numbers that the text may
be cut into.

`CsvColumns` goes through a file line by line: `HeaderColumn` and `RowColumn` are the rounds
of the loops of `parse_header_line` and `parse_line`, each with `chop_next_column` and
`trim`, which write NULs into `mem`, the memory of the line; what is kept of a value is
where it begins, and `RowEnd` reads it from there, up to the first NUL. `ColumnsAreExact`
compares that with the columns of the whole line, cut at the commas.

`Request` follows the object's own `Request`s: that of `doAuth` is sent as GET and then, with a
body, as POST, that of `doUpdate` likewise. `write_request` writes the headers (all
but a line that does not fit the buffer of `socket_printf`), then the body, encoded if
there is a header of the name of a type, which there never is. Headers are a function
from names to the values a name has, in order. `RequestArrives` decodes what was
written as a device would, and says when the password and the image are what
they were.

`JsonParser` has an operator for each method of `JsonParser`, with the position as
argument and in the result, and `Elements` and `Members` for the two loops of
`parse_json`. `JsonGrammar` says what the parser should find, in another way: it
looks at the ends of a text and at the places where it can be cut in two, and
collects all values it may have. `ParseIsExact` says that there is one, the parser's,
or none, and that the parser fails then. A symbol of a text is a character,
a literal or an escape sequence; the two halves of a character outside the basic
plane are symbols of their own. Numbers are compared as they are written.
`parseJsonResult`, `Authentication` and `AppVersion` are what `doAuth` does with a reply:
`RepliesFailSafe` says that it sees a login only where the text, by the grammar, is an
object whose last `authentication` is `true`, and a version only where that is a string.

## 3. Runs

| Run | Instance | Shows |
|---|---|---|
| `job_queue` | 3 workers, 3 priorities, 3 jobs, fair threads | `BeginIsValid`, `EraseTakesCopied`, `SizeIsUpperBound`; the refinement `ImplementsFifo`; no lost wakeup (`HighestTaken`) |
| `gui` | 2 workers that may fail to start or die, 2 jobs, any number of runs of the program | no division by zero (`JobDoneFindsThreads`), `ExitOncePerThread`, `BusyWorkerIsExact`, `DestroyedLast`, what `successUpdates` counts (`CountsAllButErrors`), `NoJobStartsAfterClose`, no frame before the license (`FrameIsLicensed`) |
| `gui_live` | 2 workers that may fail to start, die or wait for ever; 2 jobs, or one and a user who closes; fair threads | a job is run while a thread is left (`JobsFinish`); every thread that is left stops, and the program ends if none is lost and none waits (`CloseCompletes`) |
| `update_job` | 2 sessions on one device, 5 kinds of file, late images | `SuccessIsInstalled`, `BufferIsLoaded`, `OnlyOvertakenDowngrade`; the refinement `ImplementsUpdate` |
| `update_tool` | 2 rows over 2 devices, 5 kinds of file, late images | `OnlyLostRepeats`, `SummaryIsHonest`; the refinement `ImplementsUpdate` |
| `http_client` | one request; up to 2 addresses, bodies of 0 and 2 pieces, 72 replies, both builds | `SocketsAreClosed`; the refinement `ImplementsExchange`; `RequestEnds` |
| `csv_import` | blocks of 3 bytes, files of a header and up to 4 lines of 7 kinds, with and without a byte order mark and a last LF | `AssertsHold`, `BlocksAreDisjoint`; `ImportIsExact`; the refinement `ReadsLines`; `ImportEnds` |
| `text` | all texts of up to 5 symbols of JSON's structure, strings and numbers besides, objects of two members, values nested up to and beyond `max_depth`; all lists of up to 6 characters of 4 kinds, ports of up to 4 characters of 6 kinds; headers of up to 4 columns of 8 kinds, rows of up to 5 symbols, and 6 below one header; passwords and images of up to 3 symbols | `ParseIsExact`, `RepliesFailSafe`, `HostsAreExact`, `ColumnsAreExact`, `RequestArrives` |

The following runs end in a counterexample; each property is what a comment or
an output of the program says.

| Run | Property | What happens |
|---|---|---|
| `gui_all_done` | `AllJobsFinished` | "All jobs finished" is logged while a worker is between `Pop` and `incBusyWorker` and so in no count |
| `gui_summary` | `SummaryAddsUp` | `successUpdates` is decremented by an error before the job's `JOB_DONE` increments it; the errors of two jobs come before both, and a summary between the two `JOB_DONE`s prints 2^w-1 |
| `gui_batch` | `BatchAnnounced` | the last `JOB_DONE` is handled before its worker calls `decBusyWorker`: no summary, ever, though no worker is lost or waits |
| `update_job_downgrade` | `NeverDowngrades` | two jobs on one device compare before either uploads |

`OnlyOvertakenDowngrade`, `OnlyLostRepeats` and `NeverDowngrades` belong together. With one
session at a time (`update_tool`) no version falls, also when an image whose answer
was lost is taken late; a device may then be given the version it has a second
time, and only then. With sessions side by side a downgrade is possible, but only in
the one way the first property allows: another job has updated the device since
this one read its version.

Other behaviours were seen while modelling and have no run of their own:

- An over-long row makes the import endless: `next_line` throws without consuming it,
  the loop of `loadUpdateFactoriesFromCSV` catches the error and goes on, and the
  same line is refused for ever, each time under the next line number.
  `ImportEnds` is stated for files without such a line.
- The loop over a list of hosts ends at the first empty entry; the hosts behind `,,`
  are not updated.
- If the user closes the frame a second time while `EXIT` jobs wait in the queue,
  the question whether to quit is asked, and the `EXIT` events handled inside that
  dialog destroy the frame whatever the answer.
- A job submitted after `OnClose` stays in the queue behind the `EXIT` jobs and is
  dropped without a question.
- An invalid image is reported as a plain message (`JobQueue.cpp:105`), not as an
  error, and so counts as a successful update; `CountsAllButErrors` says so.
- A `Content-Length` that is not a number, or a status out of the range of `int`, ends the
  worker thread, or the program, with no report, and leaves the socket open; `m_busyWorker` counts the thread for ever, so no summary follows, and the
  frame can only be closed by quitting.
- The login form is not encoded: `has_header` is asked for a type where it takes a name
  (`Http.hpp:718`). A password with `&` or `+`, or `%` before two hexadecimal digits,
  never logs in.
- A session id that makes its header as long as `BUFSIZ` is left out of the request.
- Where the acceptance of the license cannot be written, it is asked for again; on a
  POSIX system it always is.
- `doAuth` returns `UPDATE_OK` after a reply with `authentication: false`. The device
  then refuses the image, so that `SuccessIsInstalled` holds all the same.
- On POSIX systems the timeouts of the socket are not in force (`Http.hpp:361`), and
  `SIGPIPE` is not ignored.
- The text for an over-long line says 2^24-1 (`Csv.hpp:137`), `block_len` is 2^20.

### Bounds

- *Workers.* The program has three. `job_queue` has three, since what is hard in the
  queue needs one worker between `Wait` and `Lock` and two more to compete. The `gui`
  runs have two: their properties relate the frame to one worker and to the rest.
  All constants are free in the proofs.
- *Jobs.* `MaxJobs` bounds submissions per behaviour, `EXIT` jobs not included. Three
  jobs of three priorities are every insertion before, between and behind; two
  are enough for a queue that is empty, then not, then empty again.
- *SizeMod* is 2^w of `size_t`; 8 exceeds every count the instances reach, so that a
  value near `SizeMod` is one that has wrapped.
- *Versions.* A device starts with a version below all images or with one that is
  not in the map; images have two known versions, one unknown, or none. That makes
  the comparison come out each way, and again after an update.
- `http_client`: two addresses give a first that fails and a second; a `Window` of 2
  below a request of 3 pieces lets the network fill up. The replies have no
  `Content-Length`, one that is 0, one that is longer or shorter than the body, one
  that is not a number, and two that differ; the status is 200, 403, none
  that can be read, or out of the range of `int`.
- `gui_live`: two jobs are enough for a worker that is lost, or waits, with one while the
  other worker is to run the second. The user who closes submits one job, which may be
  before `OnClose` or behind its `EXIT` jobs; `closes` says at the start which user it is.
- `csv_import`: `block_len` 3 stands for 2^20. A file has up to about six blocks, so the
  buffer is moved several times with a line, a CR LF or the end of the file at each
  place of a block. `MaxFileLine` stops the behaviours that the over-long line makes
  endless; it is above the lines of every file.
- `gui` repeats runs without a bound: a new run differs from the first only in the file
  and in what was accepted.
- `text`: a header needs three columns and one more to be doubled or extra; a row of
  five symbols may have six columns, more than any header; three symbols of a password hold an
  escape and what stands beside it. Five symbols hold each production of the grammar
  but an object's member, which the longer texts add; `max_depth` 2 stands for 200,
  `IntMax` 99 for the greatest `int`: numbers of two digits are in its range and of three,
  without a zero in front, are not, but for -100. Four characters of a port hold a blank, a sign
  and two digits, or three digits behind one of them.
- `update_job` has one device, as sessions on different devices do not meet; `gui_live`
  needs no symmetry and uses none, for symmetry is not sound for liveness.

### Fairness

Safety runs assume none. `JobQueue`: weak fairness of each thread's steps once it
can run, strong fairness of taking the mutex (a mutex that is free again and
again is taken in the end), and nothing of `NextJob`, because an update may take for
ever. `UpdateGUI`: weak fairness of each worker and of a handler that has begun, and
strong fairness of `OnThread`, as the event loop gets round to pending events
whatever the user does. There is no fairness of `Work`: only the timeouts of the socket
bound the wait for a device, and on a POSIX system they are not in force. So an update may
last for ever in `gui_live`, and the properties name the workers it holds: `Waits(w)`. The
user is never made to do anything: to answer a dialog, to submit or to close.
`HttpClient`: weak fairness of the client, and none of the device or the network:
`RequestEnds` therefore assumes timeouts, or a device that closes the connection.
`CsvImport`: weak fairness of each of the two threads.

`CloseCompletes` allows for threads that are lost, because they did not start (the code
ignores the results of `Create` and `Run`) or died of an exception, and for those that wait
for ever: the others stop all the same, but the `EXIT` event of a lost or a waiting one
never comes and the frame stays. `JobsFinish` excuses a job whose own device is silent for
ever, or that no thread is left for; one thread that is left is enough.

## 4. Proofs

`tlapm` checks all proofs; nothing is assumed but the constants' `ASSUME`s. The
properties are in the modules of the components; the inductive invariants that the
proofs need besides are in the modules with the proofs.

**JobQueue** (`JobQueueProofs`), for any number of workers, priorities and jobs:
`TypeCorrect`, `BeginValid`, `ErasesWhatItCopied`, `SizeUpperBound`, `TokensMatch` and
`Refinement` (`Spec => ImplementsFifo`). The invariants the runs check are not
inductive: that `begin()` is valid follows from counting. `IndInv` adds
`MutexOwner` (who holds the mutex is who is between lock and unlock) and
`TokensMatchJobs`: the semaphore's value, the workers it has let through and the job
that is inserted and not yet posted together are the size of the map. A worker at
`Copy` is one of those, so the map is not empty. The refinement needs `OrderInv`
besides, that the map is sorted by priority and by submission inside a priority,
so that its head is the element which the abstract queue would hand out. A worker
takes its job at `Erase`; all other steps but `AddJobInsert` and `NextJob` stutter.

**UpdateGUI** (`UpdateGUIProofs`), for any number of workers and jobs and any width of
`size_t`: `TypeCorrect`, `NoDivisionByZero`, `ExitOnce`, `BusyExact`,
`DestroyedAfterWorkers`, with threads that fail to start or die. The strengthening `IndInv` has two parts. `EventOrder`: the sender of each
pending event is in `threads`, `EXIT` is the last event of its sender, and a thread
leaves the list only when it has stopped. `ExitsFromClose`: an `EXIT` job, wherever it
has got to, comes from `OnClose`. With them the `JOB_DONE` of a thread cannot be
overtaken by its `EXIT`, which is why `threads.size()` is not zero when it divides.

The program starts the frame anew in each of its runs, so what else is proved of the frame
is proved of `UpdateApp`, in the same module:

- `LicenseFirst` and `BusyExactInEveryRun`. `AppInv` is `IndInv` of the frame, which the end of a
  run at any moment and the next start keep, and that the file exists only on Windows
  and only after an acceptance.
- `NoJobAfterCloseInEveryRun` (`NoJobStartsAfterClose`), by a count. Once `OnClose` adds `EXIT` jobs,
  `CloseInv` says that the queue begins with `ExitsDue` of them: the workers that may still come to
  `Pop`, less the `EXIT` jobs that the loop has yet to add. An `EXIT` has the highest priority, so
  `AddJob` puts it before every `JOB`, and a worker that takes one never comes back: both sides
  of the count change together. That a worker which takes a job is one of those that are
  counted makes the first job an `EXIT`. The loop begins with an empty queue, since `OnClose` has
  asked for `Stacksize`, and no job is submitted between its steps.
- `CountsExactInEveryRun` (`CountsAllButErrors`) and `JobsEndOnce`. `CountInv` says that each `JOB` is in one place,
  the queue or the hands of one worker, until it ends; that nothing has been reported
  before the first job, so that a summary makes `totalUpdates` differ from `submitted` for good; and
  that `successUpdates`, with the events that are pending and the reports that are due, differs
  from the jobs that ended without `MSGERR` by a multiple of 2^w.

**UpdateFactory** (`UpdateFactoryProofs`) has no specification of its own; it shows that
each method preserves `IndInv`, for any number of sessions and devices and any
set of images. `IndInv` says of each session that its buffer holds the image whose
version it knows, that it sends an image only after the comparison, and, in
`ReadInv`, that the version it has read is still the device's own or some other
session has installed since; that makes `OnlyOvertakenDowngrade` inductive.
`SuccessInv` ties `UPDATE_OK` after `doUpdate` to an entry of `installs`, and `LateInv` a late image
to a session that got no answer.
The lemma `SessionStep` covers all steps that install nothing, `InstallStep` the one
that does.

**UpdateJob** (`UpdateJobProofs`) adds the steps of `doJob`: `TypeCorrect`, `SuccessIsReal`,
`BufferLoaded`, `DowngradesAreRaces`, and `Refinement` (`Spec => ImplementsUpdate`): an upload, or a late
image, is a `Take`, the last decision of the job an `End`, and every other step
stutters. That a refused image is never taken follows from `LateInv`, since its session
has sent nothing.

**UpdateTool** (`UpdateToolProofs`): `TypeCorrect`, `OnlyUpgrades` (`OnlyLostRepeats`), `HonestSummary` and
`Refinement`. `ToolInv` adds to `IndInv` that one session at most is under way (`OneAtATime`), that
all have one file and a device that has taken it keeps it (`OneFile`), that what was
installed since a session read its version is its own image or that of a row which
failed (`OvertakenByLost`), and what the counters count (`Counted`). `Session` has to be
finite for that, which is the assumption `UpdateFactoryAssumption` of the module.

**HttpClient** (`HttpClientProofs`), for any number of addresses, any window of the network, any
length of a request and any set of replies: `TypeCorrect`, `SocketsClosed` and
`Refinement` (`Spec => ImplementsExchange`). `SocketsInv` is the exact number of open sockets at
each `pc`, the one that an exception leaves open included; `SocketsClosed` takes from it that one at
most is open and that a send which returns has none. `HttpInv` adds to them what the refinement needs: `RequestInv`,
that the device acts when it has got the whole request, and before it reports success;
`StatusInv`, that the status of the client's `Response` is that of the device's first line, or none;
`ReplyInv`, that what is going to be returned is a reply; and, on a system where the
timeouts are not in force, `ExactInv`: as far as `send` has read the reply, its headers and its body
are those of the device, at the place that `got` says, or nothing more can be received.
On Windows a read that times out inside a line is taken for the end of the line, and what
comes later for the next one, which is why the last does not hold there. The assumption on `Replies` is that the text of a header is not the end of a line.

**Request** (`HttpClientProofs`), for every password, every image and every cookie: `RequestCorrectness`
(`RequestSpec => []RequestArrives`). `SentInv` adds what the next request needs: that `req` is a
request, that a session exists once the login has been sent, and which form the body is.
`Generated` and `Written` say that each header has one value after `genRequest` and after `write_request`,
whatever the `Request` held before. What a device finds is the larger part: `BetweenParts`
says that what lies between two marks of a body is the part up to the first mark inside it, so
the image arrives if and only if the boundary is not in it; `DecodedWithoutEscape` and `DecodedLength` that
decoding changes each `+`, makes a text with an escape shorter and changes nothing else, so a
password that was never encoded is decoded to itself if and only if it has no `+`, no escape and, by
`CutOrWhole`, no `&`. The assumption is that passwords and images are sequences of symbols.

**LineReader and CsvImport** (`LoadProofs`), for every file, every `block_len` above 1 and every interleaving
of the two threads: `TypeCorrect`, `Assertions`, `NoRaceOnTheBuffer` and `Refinement`
(`CsvSpec => ReadsLines`). `ReaderInv` says where the data lies (`PlaceInv`: behind it the file is at its
end, or both blocks are full, or one while the other is waited for), what the two
threads have told each other (`AskedInv`), and what the data is: the byte at each place from
`data_begin` to `data_end` is that of the file at `base` plus the place (`DataInv`), and the third block,
when its read has finished, holds the bytes of the file before `pos` (`ThirdBlockInv`). What `ScanLine`
cuts off is then a line of the file; the moves of blocks keep `base` plus `data_begin`, the refinement
mapping's `next`, and are stutters. The assumptions are that a file has no NUL in it (the
reader ends a line at one) and that `block_len` is above 1; it is 2^20.

From the same invariant and one more about the import follows `ImportExact`. An error ends the import
without a claim, and so does a line that is too long, which is met for ever (`Stuck`). Otherwise
`HandledInv` says that `file_line` counts the lines that begin before the next one, one more while it is
being looked for, and that there is a current line `d`, the one the caller has got or will get
next: before it every line behind the header is in `update_list` or in `error_list`, at the
place that counting the lines of its kind gives, and its error has the number that counting all lines
gives (`ExactBelow`). `LineAtIs` says that a line has one end and the next line begins behind it,
`CountFacts` and `CountNext` how the counts grow from a line to the next. At the end of the file every
line is before `d`.

**HostList** (`LoadProofs`), for lists of any length and any range of `int` that holds 80: `HostsExact`. `HostInv` says that `start` is behind a comma or
at the beginning, `end` at the next comma or behind the list, that there are as many
destinations as commas before `start`, and that each is named by its entry. The entries are numbered by
counting the commas before a place, so the proof has a lemma about such counts
(`Ranks`): the next of a set of numbers has one more below it. What `std::stoi` reads and what a text
states are two definitions; `StoiReads` says that they agree, since there is one way only
to cut a text into white space, a sign and digits (`OneWay`).

**CsvColumns** (`LoadProofs`), for every file: `ColumnsExact`. The columns of a line as a whole lie
between cuts (its commas, its beginning and its end), and the reader makes them one by one in a
memory that it writes. `ColumnInv` says that the rest of the line begins behind a cut, that as many
columns have been read as cuts are before it, and that what is behind it is as it was in
the file (`Scanned`); that each value kept so far begins at its place, has its NUL before the
rest, and so cannot be changed by what is still to be cut (`EndsBefore`, `RowInv`); and that
the header's places are those of the names, each of them once (`OrderInv`). The lemmas say what
`chop_next_column` and `trim` do to a line of any length (`NextColumnIs`, `ScanStep`,
`TrimmedIs`). The assumption on `CsvTexts` says only that a file has a first line and that lines are
sequences of symbols.

The runs are small instances of the same formulas: the inductive invariants were
found to hold with TLC before they were proved.

Only model-checked:

- Everything about liveness (`HighestTaken`, `JobsFinish`, `CloseCompletes`, `RequestEnds`, `ImportEnds`), which is outside
  what the prover handles.
- `ParseIsExact` and `RepliesFailSafe`: the parser is recursive.

## 5. Not modelled

- Events that report progress only, texts, colours and layout; `OnThread`'s
  periodic line and the averages of the job timings (but not the division).
- What wxWidgets does with a destroyed frame: `Destroy` schedules the deletion,
  and a handler that is under way runs to its end.
- The windows that only show a text: the about box, the license without buttons that
  the frame's menu opens.
- Two frames, or a second `OnClose` while a handler runs: the event loop runs one
  handler at a time, and a modal dialog disables the frame.
- Inside the HTTP client: progress callbacks and a status line longer than the buffer
  of `socket_gets`. `HttpClient` takes a request for its length, `Request` for its text.
- Inside the CSV reader: a failure of the file while it is read
  (`UpdateFactory.cpp:410`), quotes and comments, which the program's type of reader does
  not have. `CsvImport` tells a line by its first byte, `CsvColumns` by its columns.
- Of the JSON parser comments, `parse_multi`, `dump` and the comparisons, and the
  conversion of a number to `int` or `double`. The sessions do not read texts: a reply
  that is JSON and one that is not are both tried.
- The HTTP server and SSL of `Http.hpp` and whatever else of the vendored headers the
  program does not use; the debug output; the build scripts.

## 6. Plan

Done: all components the program is made of are modelled, and every safety property that
the runs check is proved, but for the two of the JSON parser.

What is left:

1. The JSON parser as a machine with a stack, whose steps could be proved about as those of
   the readers are; the recursive definition is the clearer model, and TLC compares it
   with the grammar.
2. The liveness properties, with a prover that can reason about `ENABLED`.
