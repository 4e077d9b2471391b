SPECIFICATION LiveSpec
CONSTANTS
  Worker = {w1, w2, w3}
  GUI = GUI
  Nobody = Nobody
  NoJob = NoJob
  Priority = {0, 2, 5}
  MaxJobs = 3
INVARIANTS
  TypeOK
  BeginIsValid
  EraseTakesCopied
  SizeIsUpperBound
PROPERTIES
  ImplementsFifo
  HighestTaken
