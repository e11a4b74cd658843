\* One pattern per rule, one map on each side: ** and the middle are reached.
\* The vectors start with one element, and must grow for the second rule.
CONSTANTS
  NumLeft = 1
  NumRight = 1
  MaxToks = 9999
  InitAlloc = 1
  NumRules = 2
  MaxPatterns = 1
  Words = {"a", "b"}
  Patterns <- MCPatterns
  Paths <- MCPaths
\* Loading ends.
CHECK_DEADLOCK FALSE
SPECIFICATION Spec
INVARIANTS
  TypeOK
  NarrowingSound
  NarrowingExact
