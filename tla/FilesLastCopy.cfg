CONSTANTS
  Sessions = {s1, s2}
  Files = {f1}
  Handlers = {h1, h2}
  Nil = Nil
  Budget = 2
  MaxJobs = 1
  UserCalls = {"archive", "remove"}
SPECIFICATION Spec
SYMMETRY Symmetry
CHECK_DEADLOCK FALSE
INVARIANT LastCopyKept
