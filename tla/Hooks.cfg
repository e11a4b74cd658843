SPECIFICATION Spec
CONSTANTS
  m = m
  v = v
  Servers = {m, v}
  Main = m
  NoServer = NoServer
  MaxLookupValues <- mcMaxLookups
  InitStateValues <- mcInitStates
  MaxLines = 2
  t1 = t1
  Threads = {t1}
  MaxDepth = 2
  MaxNest = 2
  MaxRuns = 1
  MaxStates = 2
  Following <- mcFollowing
INVARIANTS
  TypeOK
  ConfigsAsAsked
  CtxAsWritten
  
  StatesReady
  StatesOwned
