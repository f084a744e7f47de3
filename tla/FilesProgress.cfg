CONSTANTS
  Sessions = {s1, s2}
  Files = {f1, f2}
  Handlers = {h1, h2}
  Nil = Nil
  Budget = 2
  MaxJobs = 0
  UserCalls = {"take over"}
SPECIFICATION FairSpec
PROPERTY UploadFinishes
CHECK_DEADLOCK FALSE
