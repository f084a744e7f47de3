CONSTANTS
  Sessions = {s1, s2, s3}
  Files = {f1, f2}
  Handlers = {h1, h2}
  Nil = Nil
  Budget = 3
  MaxJobs = 2
  UserCalls = {"abort", "archive", "remove", "hold", "expire", "take over"}
SPECIFICATION FilesSpec
SYMMETRY Symmetry
CHECK_DEADLOCK FALSE
INVARIANTS HistoryIsWhole UploadsEndOnce ReceiptRestsOnArchive RemovalKeepsBodies
