SPECIFICATION AppSpec
CONSTANTS
  Worker = {w1, w2}
  NoJob = NoJob
  MaxJobs = 2
  SizeMod = 8
  StartMayFail = TRUE
SYMMETRY WorkerSymmetry
INVARIANTS
  TypeOK
  JobDoneFindsThreads
  ExitOncePerThread
  BusyWorkerIsExact
  DestroyedLast
  CountsAllButErrors
  FrameIsLicensed
PROPERTIES
  NoJobStartsAfterClose
