CONSTANTS
  Pages = {p1}
  Blocks = {b1, b2}
  FirstBlocks = {b1}
  MaxTyped = 2
  MaxScript = 3
SPECIFICATION ScriptSpec
CHECK_DEADLOCK FALSE
PROPERTIES TypedIsKept
