\* The conditions and actions of two rules in two files.
SPECIFICATION Spec
CONSTANTS
  NumPhases = 2
  core = core
  path = path
  name = name
  regex = regex
  pattern = pattern
  star = star
  slashed = slashed
  Modules = {core, path}
  NoModule = NoModule
  Conds = {name, regex, pattern, star, slashed}
  NoCond = NoCond
  Children <- MCChildren
  MaxFiles = 2
  MaxRules = 2
  MaxElems = 6
  MaxScripts = 1
INVARIANTS
  TypeOK
  CondsStored
  RulesReached
  MatchAllBySize
  DefinitionsOfAllFiles
CHECK_DEADLOCK FALSE
