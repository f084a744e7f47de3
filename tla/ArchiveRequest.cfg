CONSTANTS
  ArKeys = {k1}
  ArScopes = {"current"}
  ArHandlers = {h1, h2}
  Batches = 2
  MaxSnapshots = 2
SPECIFICATION ArchiveRequestSpec
INVARIANT RequestsMakeJobs
CHECK_DEADLOCK FALSE
