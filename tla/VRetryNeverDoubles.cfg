SPECIFICATION JournalSpec
CONSTANTS
  Requests = {"r1", "r2"}
  NoRequest = ""
  HistoryLimit = 3
  DiskRefuses = FALSE
  MaxRecords = 3
  MaxStarts = 3
INVARIANT RetryNeverDoubles
CHECK_DEADLOCK FALSE
