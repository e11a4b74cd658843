\* Definitions updated at run time; no symmetry, since behaviours are checked.
CONSTANTS
  Refs = {r1, r2}
  Slots = {s1, s2, s3, s4}
  NoRef = NoRef
  NoSlot = NoSlot
  InitAlloc = 1
  MaxDefnVer = 2
SPECIFICATION FairSpec
INVARIANTS
  TypeOK
  SlotsConserved
  
  DefnsCurrent
PROPERTIES
  HeldStateStable
  ImplementsPool
  CallsReturn
