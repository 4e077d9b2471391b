SPECIFICATION CsvSpec
CONSTANTS
  block_len = 3
  MaxRows = 4
  MaxFileLine = 7
  Files <- CsvFiles
INVARIANTS
  CsvTypeOK
  AssertsHold
  BlocksAreDisjoint
  ImportIsExact
PROPERTIES
  ReadsLines
  ImportEnds
