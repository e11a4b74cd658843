\* One request through three phases, every status an action can return.
CONSTANTS
  q1 = q1
  q2 = q2
  q3 = q3
  path = path
  queryarg = queryarg
  regex0 = regex0
  arg0 = arg0
  arg1 = arg1
  NumPhases = 3
  NumRules = 3
  Reqs = {q1, q2, q3}
  NoReq = NoReq
  Modules = {path, queryarg}
  NoModule = NoModule
  FiltConds = {regex0, arg0, arg1}
  MaxLookups = 3
  CondPhase <- MCCondPhase
  ActionPhase <- MCActionPhase
  FiltCondIdxs <- MCFiltCondIdxs
  FiltPhase <- MCFiltPhase
  FiltHolds <- MCFiltHolds
  FiltModule <- MCFiltModule
  MatchAllRules <- MCMatchAllRules
  Lookup2 <- MCLookup2
SPECIFICATION FairSpec
INVARIANTS
  TypeOK
  
  
PROPERTIES
  
  CallReturns
