CONSTANTS
  Codes = {c1}
  Lines = {l1, l2}
  Amounts = {1, 2}
  Contingencies = {5000}
  PlKeys = {k1, k2}
  PlHandlers = {h1, h2}
  Fields = {f1, f2}
  Defaulted = {f2}
  Items = {i1}
  Kits = {t1}
  Windows <- MCWindows
  Reservations = {r1, r2}
  MaxPlanVersions = 2
  MaxBudgetWrites = 4
  MaxRequirementWrites = 3
  ProjectRegisters = {"risk", "equipment", "kit", "logistics", "transport", "catering"}
  EndRank = 7
  HoldIds = {x1, x2}
  HoldOwners = {"m1", "m2"}
  CtHandlers = {h1, h2}
  MaxRows = 4
  MaxHoldEvents = 4
  Recs = {x1, x2, x3}
  Ideas = {x3, idea}
  RcFields = {f1, f2}
  Shadowed = {f2}
  Refilled = {f2}
  RcCodes = {c1, c2}
  RcKeys = {k1, k2}
  RcHandlers = {h1, h2}
  TopRank = 7
  LegacyRank = 3
  MaxRecordWrites = 2
  MaxIdeaWrites = 3
  Pages = {h1, h2}
  Blocks = {b1, b2}
  FirstBlocks = {b1}
  MaxTyped = 2
  MaxScript = 3
  ItemCount = 2
  Size = 2
  Processes = {agent}
  Inodes = {1, 2, 3, 4, 5}
  MaxDownloads = 2
  DraftIds = {d1, d2}
  Hooks = {h1, h2}
  MaxEdits = 1
  MaxVersion = 4
  Allocations <- MCAllocations
  BudgetLines <- MCBudgetLines
  Timecodes <- MCTimecodes
  Calendars <- MCCalendars
  Networks <- MCNetworks
  Reorderings <- MCReorderings
  Merges <- MCMerges
  Travel <- MCTravel
  ListIds = {1, 2, 3}
  Limits = {1, 2}
  Readers = {d1}
  ListWriters = {h1, h2}
  MaxNow = 1
  Projects <- MCProjects
SPECIFICATION WorkspaceSpec
SYMMETRY Symmetry
CHECK_DEADLOCK FALSE
INVARIANTS BudgetStands InstalledIsWhole ShownIsRight ReadinessIsEarned
PROPERTIES OnlyLoadedIsReplaced ControlsStand RequirementEditsAreKept RecordsStand StagedWholeIsKept OnlySeenIsReplaced
