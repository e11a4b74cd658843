\* Two patterns per rule, the maps as the server has them.
CONSTANTS
  NumLeft = 3
  NumRight = 3
  MaxToks = 9999
  InitAlloc = 18
  NumRules = 1
  MaxPatterns = 2
  Words = {"a", "b"}
  Patterns <- MCTwoPatterns
  Paths <- MCPaths
\* Loading ends.
CHECK_DEADLOCK FALSE
SPECIFICATION Spec
INVARIANTS
  NarrowingSound
