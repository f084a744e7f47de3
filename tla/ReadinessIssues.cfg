SPECIFICATION Spec
CONSTANTS
  schedule = schedule
  writing = writing
  r1 = r1
  r2 = r2
  project = project
  day = day
  Rules = {schedule, writing}
  SourceStates = {"unmet", "met"}
  Marks <- MCMarks
  Days = {day}
  Handlers = {r1, r2}
  Project = project
  MaxEdits = 2
  MaxIssues = 2
  MaxCapture = 2
  MaxTime = 3
  Alone = {"provision", "override", "view"}
  HandStates = {"ready"}
SYMMETRY Symmetry
CHECK_DEADLOCK FALSE
INVARIANTS
  IssueWasTrue
PROPERTIES
  IssueOfLatest
  ViewFindsOutdated
  IssuesAreARegister
