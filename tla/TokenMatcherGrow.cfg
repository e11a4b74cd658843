\* The vectors start with one element; the first pattern comes in the third
\* rule.  (With the code's 18 elements: in the 37th.)
CONSTANTS
  NumLeft = 3
  NumRight = 3
  MaxToks = 9999
  InitAlloc = 1
  NumRules = 3
  MaxPatterns = 1
  Words = {"a", "b"}
  Patterns <- MCTwoPatterns
  Paths <- MCPaths
\* Loading ends.
CHECK_DEADLOCK FALSE
SPECIFICATION Spec
INVARIANTS
  ReqVecsInBounds
