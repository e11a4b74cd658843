SPECIFICATION Spec
CONSTANTS
  ua = ua
  uas = uas
  uab = uab
  ue = ue
  na = na
  ea = ea
  nb = nb
  v1 = v1
  e1 = e1
  pa = pa
  pas = pas
  pab = pab
  pstar = pstar
  xa = xa
  xstar = xstar
  xbad = xbad
  ta = ta
  tb = tb
  h1 = h1
  h2 = h2
  NoVal = NoVal
  NoArgs = NoArgs
  NoRegEx = NoRegEx
  NotCached = NotCached
  DecodeOf <- mcDecodeOf
  Tokens <- mcTokens
  SlashURIs = {uas}
  EmptyURIs = {ue}
  Narrows <- mcNarrows
  MatchAll = {}
  RegExOf <- mcRegExOf
  SlashEnd = {pas}
  Exec <- mcExec
  Parens <- mcParens
  Invalid = {xbad}
  Unset = Unset
  Empty = Empty
  Configs <- mcConfigs
  NumPhases = 3
  MaxLookups = 2
  Requests <- mcRequests
  URIs <- mcURIs
  ArgSeqs <- mcArgSeqs
  ModuleOrder <- mcModuleOrder
INVARIANTS
  TypeOK
  
  CapturesAsWritten
  CachesAgree
CHECK_DEADLOCK FALSE
