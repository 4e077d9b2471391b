SPECIFICATION Spec
CONSTANTS
  Worker = {w1, w2}
  NoJob = NoJob
  MaxJobs = 3
  SizeMod = 8
  StartMayFail = FALSE
SYMMETRY WorkerSymmetry
INVARIANTS
  AllJobsFinished
