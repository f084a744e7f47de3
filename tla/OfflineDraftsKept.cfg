CONSTANTS
  DraftIds = {d1, d2}
  Hooks = {k1, k2}
  MaxEdits = 2
  MaxVersion = 3
SPECIFICATION OfflineSpec
PROPERTY DraftsAreKept
CHECK_DEADLOCK FALSE
