SPECIFICATION MCLiveSpec
CONSTANTS
  Worker = {w1, w2}
  NoJob = NoJob
  MaxJobs = 2
  SizeMod = 8
  StartMayFail = TRUE
PROPERTIES
  JobsFinish
  CloseCompletes
