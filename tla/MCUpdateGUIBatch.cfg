SPECIFICATION LiveSpec
CONSTANTS
  Worker = {w1}
  NoJob = NoJob
  MaxJobs = 2
  SizeMod = 8
  StartMayFail = FALSE
PROPERTIES
  BatchAnnounced
