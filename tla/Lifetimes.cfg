SPECIFICATION Spec
CONSTANTS
  lower = lower
  upper = upper
  worda = worda
  wordb = wordb
  blank = blank
  Keys = {lower, upper}
  CaseOf <- mcCaseOf
  Words = {worda, wordb, blank}
  NoWord = blank
  Values <- mcValues
  Written = {"uri", "main", "remote_host", "hostname", "client_addr", "server_hostname"}
  NewArgs <- mcNewArgs
  RegArgs <- mcRegArgs
  ElemArgs <- mcElemArgs
  None = None
  MaxObjs = 3
  MaxRecs = 5
  MaxLoad = 4
  MaxItems = 3
  MaxStrs = 1
INVARIANTS
  TypeOK
  DeletedOnce
  NothingLeft
  StringsLive
  
PROPERTIES
  CallsEnd
CHECK_DEADLOCK FALSE
