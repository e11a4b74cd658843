\* The same, and whether the result is a set.
CONSTANTS
  AllIdxs <- MCAllIdxs
  Vecs <- MCTwice
  NumModules = 2
  MaxUnions = 1
SPECIFICATION Spec
INVARIANTS
  NoRuleTwice
