SPECIFICATION TextSpec
CONSTANTS
  max_depth = 2
  IntMax = 99
  Texts <- JsonTexts
  HostLists <- HostTexts
  Passwords <- TypedPasswords
  Images <- FileContents
  CsvTexts <- CsvFiles
  SessionIds = {"id", "longId"}
  LongIds = {"longId"}
INVARIANTS
  ParseIsExact
  RepliesFailSafe
  HostsAreExact
  RequestArrives
  ColumnsAreExact
