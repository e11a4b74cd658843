\* A rule with <Conditions> in two phases against the comment in lookup().
SPECIFICATION Spec
CONSTANTS
  NumPhases = 2
  core = core
  path = path
  name = name
  regex = regex
  pattern = pattern
  star = star
  slashed = slashed
  Modules = {core, path}
  NoModule = NoModule
  Conds = {name, regex, pattern, star, slashed}
  NoCond = NoCond
  Children <- MCChildren
  MaxFiles = 1
  MaxRules = 2
  MaxElems = 6
  MaxScripts = 0
INVARIANTS
  MatchAllBySizeAlways
CHECK_DEADLOCK FALSE
