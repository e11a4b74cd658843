\* Tables without duplicates.
CONSTANTS
  AllIdxs <- MCAllIdxs
  Vecs <- MCSets
  NumModules = 2
  MaxUnions = 2
SPECIFICATION FairSpec
INVARIANTS
  TypeOK
  MergesRight
PROPERTIES
  ImplementsNarrowing
  LookupEnds
