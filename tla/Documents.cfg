CONSTANTS
  m1 = m1
  m2 = m2
  s1 = s1
  s2 = s2
  k1 = k1
  k2 = k2
  n1 = n1
  n2 = n2
  Schedules = {s1, s2}
  Plans = {p1}
  Clashes = {c1}
  DayCounts = {1, 2}
  BreaksOf <- MCBreaks
  SrHandlers = {h1, h2}
  MaxRevisions = 2
  MaxDays = 2
  MaxPatches = 2
  Sheets = {cs1}
  Packs = {pk1}
  People = {a}
  Keys = {k1, k2}
  IsHandlers = {h1, h2}
  MaxDrafts = 1
  MaxIssues = 3
  MaxVersion = 4
  Links = {l1}
  Approvals = {a1}
  Members = {m1, m2}
  Owners = {m1, m2}
  Decisions = {"approved", "rejected"}
  Requests <- MCRequests
  ShKeys = {k3}
  ShHandlers = {h1, h2}
  MaxBegun = 4
  CommentIds = {n1, n2}
  Writers = {m1, m2}
  MaxActivities = 6
SPECIFICATION DocumentsSpec
SYMMETRY Symmetry
CHECK_DEADLOCK FALSE
INVARIANTS PlansStand ConflictsAreAccounted IssuesStand DecisionsStand ActivitiesTellTheComments
PROPERTIES DayChangesAreKept ImplementsFrozenIssues SharesMoveOn
