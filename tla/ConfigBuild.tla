----------------------------- MODULE ConfigBuild -----------------------------
(***************************************************************************)
(* Config::Config() and the procXML_*() functions: how the rules, the      *)
(* filter conditions and the tables of the condition modules come out of   *)
(* the XML files.                                                          *)
(*                                                                         *)
(* The files are not data but a choice: at every place of the parser any   *)
(* element that may stand there can come next, or an error.  at names the  *)
(* element whose children are being read.  Indices start at 1.             *)
(*                                                                         *)
(* A filter condition's text (asStr()) is a value of Conds.  A vector of   *)
(* rule indices is the set of its elements; for matchAllRuleIdxsVec_, where *)
(* an index may be twice, mariSize is the size().                          *)
(***************************************************************************)
EXTENDS Integers, Sequences, FiniteSets

CONSTANTS
  NumPhases,    \* Phases::numPhases()
  Modules,      \* the names in condModulesMap_
  NoModule,     \* no module
  Conds,        \* texts of filter conditions
  NoCond,       \* no filter condition
  Children,     \* the elements that may stand in a module's element
  MaxFiles,     \* bound: configuration files
  MaxRules,     \* bound: rules
  MaxElems,     \* bound: <Conditions>, modules and their children, in all
  MaxScripts    \* bound: scripts and actions, in all

Phases == 0 .. NumPhases - 1

(* kind "filter": a condition that is only filtered by.  "table": one that  *)
(* is also entered into a table of the module.  "all": a <Pattern> that any *)
(* path matches.  slash is the PathSlashFiltCond that a <Pattern> adds.     *)
ChildType == [kind : {"filter", "table", "all"}, cond : Conds, slash : Conds \cup {NoCond}]

ASSUME PhasesAssumption == NumPhases \in Nat \ {0}
ASSUME ChildrenAssumption ==
  /\ NoCond \notin Conds
  /\ NoModule \notin Modules
  /\ Children \in [Modules -> SUBSET ChildType]
ASSUME BoundsAssumption ==
  MaxFiles \in Nat /\ MaxRules \in Nat /\ MaxElems \in Nat /\ MaxScripts \in Nat

VARIABLES
  at,           \* the element procXML_*() is in, or the part of Config()
  files,        \* the configFiles_ still to be read
  ctorError,    \* ctorError_
  phase,        \* local of procXML_Conditions() and procXML_Actions()
  cm,           \* local of procXML_Conditions()
  narrowing,    \* hasNarrowingCondition of parseXMLCond()
  slash,        \* local of PathCondModule::parseXMLCond(): slashCond, to be stored
  rules,        \* rules_: phase, filter conditions, phases of the actions
  filtConds,    \* filtConds_, and with it filtCondIdxMap
  condUsage,    \* condUsageMap_: the modules the current rule used
  matchAll,     \* matchAllRuleIdxsVec_ of each module
  mariSize,     \* its size()
  table,        \* each module's tables: which rule, by which condition
  preActions,   \* commonPreActions_: how many
  defns,        \* defnScripts_ and defnScriptFiles_: how many
  published,    \* what LuaManager::updateDefinitions() was given
  errHandler,   \* errHandlerScriptUsed_ and errHandlerScriptFileUsed_
  phaseRules,   \* phaseRulesIdxs_
  usage,        \* phaseUsageVec_, condPhaseUsageVec_, actionPhaseUsageVec_
  doc,          \* history: each rule's conditions as they were read, and the
                \* phases for which a module was told of the rule
  elems,        \* counts against MaxElems
  scripts       \* counts against MaxScripts

fileVars  == <<files, ctorError, elems, scripts>>
localVars == <<phase, cm, narrowing, slash>>
ruleVars  == <<rules, filtConds, condUsage, doc>>
cmVars    == <<matchAll, mariSize, table>>
luaVars   == <<preActions, defns, published, errHandler>>
phaseVars == <<phaseRules, usage>>
vars == <<at, fileVars, localVars, ruleVars, cmVars, luaVars, phaseVars>>

RuleIdxs == DOMAIN rules
ruleIdx  == Len(rules)

Init ==
  /\ at = "globs"
  /\ files = 0
  /\ ctorError = FALSE
  /\ phase = 0
  /\ cm = NoModule
  /\ narrowing = FALSE
  /\ slash = NoCond
  /\ rules = <<>>
  /\ filtConds = <<>>
  /\ condUsage = {}
  /\ matchAll = [m \in Modules |-> [p \in Phases |-> {}]]
  /\ mariSize = [m \in Modules |-> [p \in Phases |-> 0]]
  /\ table = [m \in Modules |-> [p \in Phases |-> {}]]
  /\ preActions = 0
  /\ defns = 0
  /\ published = 0
  /\ errHandler = {}
  /\ phaseRules = [p \in Phases |-> {}]
  /\ usage = [any |-> {}, conds |-> {}, actions |-> {}]
  /\ doc = <<>>
  /\ elems = 0
  /\ scripts = 0

-----------------------------------------------------------------------------
(* The parser enters or leaves an element. *)
Go(from, to) == at = from /\ at' = to

(* A RumConfigFile directive: a glob gives any number of files, a name one  *)
(* (that the file is not there is noticed when it is opened).               *)
AddFiles(isGlob, n) ==
  /\ at = "globs"
  /\ isGlob \/ n = 1
  /\ files + n <= MaxFiles
  /\ files' = files + n
  /\ UNCHANGED <<at, ctorError, elems, scripts, localVars, ruleVars, cmVars, luaVars, phaseVars>>

EndGlobs ==
  /\ Go("globs", "files")
  /\ UNCHANGED <<fileVars, localVars, ruleVars, cmVars, luaVars, phaseVars>>

OpenFile ==
  /\ Go("files", "root")
  /\ files > 0
  /\ files' = files - 1
  /\ UNCHANGED <<ctorError, elems, scripts, localVars, ruleVars, cmVars, luaVars, phaseVars>>

(* The children of <RumConf>, and the way back. *)
Section(name) ==
  /\ Go("root", name)
  /\ UNCHANGED <<fileVars, localVars, ruleVars, cmVars, luaVars, phaseVars>>

EndSection(name) ==
  /\ Go(name, "root")
  /\ UNCHANGED <<fileVars, localVars, ruleVars, cmVars, luaVars, phaseVars>>

(* Bug: the definitions are published file by file. *)
EndFilePublishes ==
  /\ Go("root", "files")
  /\ published' = defns
  /\ UNCHANGED <<fileVars, localVars, ruleVars, cmVars, preActions, defns, errHandler, phaseVars>>

EndFile ==
  /\ Go("root", "files")
  /\ UNCHANGED <<fileVars, localVars, ruleVars, cmVars, luaVars, phaseVars>>

(* Bug: the vectors are not made unique. *)
NotUniqueSize(m, p) == mariSize[m][p]

(* The size a vector has when it was made unique. *)
UniqueSize(m, p) == Cardinality(matchAll[m][p])

(* What procXMLFiles() does after the last file: CondModule::postConfProc() *)
(* of each module makes its vectors unique, and the Lua manager is told of  *)
(* the definitions.                                                         *)
PostProc ==
  /\ Go("files", "phases")
  /\ files = 0
  /\ mariSize' = [m \in Modules |-> [p \in Phases |-> UniqueSize(m, p)]]
  /\ published' = defns
  /\ UNCHANGED <<fileVars, localVars, ruleVars, matchAll, table, preActions, defns,
                 errHandler, phaseVars>>

(* An element that is not known, a phase that is not, a script that does    *)
(* not compile, a second error handler, a file that cannot be read: all     *)
(* callers return at once.                                                  *)
Fail ==
  /\ at \notin {"globs", "Module", "phases", "done"}
  /\ at = "files" => files > 0
  /\ at' = "phases"
  /\ ctorError' = TRUE
  /\ UNCHANGED <<files, elems, scripts, localVars, ruleVars, cmVars, luaVars, phaseVars>>

-----------------------------------------------------------------------------
(* The module m is told that rule r matches all requests of phase p:        *)
(* CondModule::matchAllReqs().                                              *)
MatchAllReqs(ms, r, p) ==
  /\ matchAll' = [m \in Modules |-> IF m \in ms THEN [matchAll[m] EXCEPT ![p] = @ \cup {r}]
                                    ELSE matchAll[m]]
  /\ mariSize' = [m \in Modules |-> IF m \in ms THEN [mariSize[m] EXCEPT ![p] = @ + 1]
                                    ELSE mariSize[m]]

(* Bug: a rule without <Conditions> has no phase. *)
NewRuleInvalid == [condPhase |-> -1, filtCondIdxs |-> <<>>, actions |-> <<>>]

(* Rule::Rule() *)
NewRule == [condPhase |-> 0, filtCondIdxs |-> <<>>, actions |-> <<>>]

(* Bug: condUsageMap_ is not reset. *)
StartRuleKeepsUsage ==
  /\ Go("Rules", "Rule")
  /\ Len(rules) < MaxRules
  /\ rules' = Append(rules, NewRule)
  /\ doc' = Append(doc, [conds |-> <<>>, phases |-> {}])
  /\ UNCHANGED <<fileVars, localVars, filtConds, condUsage, cmVars, luaVars, phaseVars>>

StartRule ==
  /\ Go("Rules", "Rule")
  /\ Len(rules) < MaxRules
  /\ rules' = Append(rules, NewRule)
  /\ condUsage' = {}
  /\ doc' = Append(doc, [conds |-> <<>>, phases |-> {}])
  /\ UNCHANGED <<fileVars, localVars, filtConds, cmVars, luaVars, phaseVars>>

(* "condition modules which did not appear in the rule cause that rule to   *)
(* match all requests"                                                      *)
EndRule ==
  LET p == rules[ruleIdx].condPhase IN
  /\ Go("Rule", "Rules")
  /\ MatchAllReqs(Modules \ condUsage, ruleIdx, p)
  /\ doc' = [doc EXCEPT ![ruleIdx].phases = @ \cup {p}]
  /\ UNCHANGED <<fileVars, localVars, rules, filtConds, condUsage, table, luaVars, phaseVars>>

(* <Conditions>: without a phase attribute the rule keeps its phase. *)
StartConditions(p) ==
  /\ Go("Rule", "Conditions")
  /\ elems < MaxElems
  /\ elems' = elems + 1
  /\ rules' = [rules EXCEPT ![ruleIdx].condPhase = p]
  /\ phase' = p
  /\ UNCHANGED <<files, ctorError, scripts, cm, narrowing, slash, filtConds, condUsage, doc,
                 cmVars, luaVars, phaseVars>>

EndConditions ==
  /\ Go("Conditions", "Rule")
  /\ UNCHANGED <<fileVars, localVars, ruleVars, cmVars, luaVars, phaseVars>>

(* <Path>, <QueryArg>, ...: parseXMLCond() of the module. *)
StartModule(m) ==
  /\ Go("Conditions", "Module")
  /\ elems < MaxElems
  /\ elems' = elems + 1
  /\ cm' = m
  /\ narrowing' = FALSE
  /\ doc' = [doc EXCEPT ![ruleIdx].phases = @ \cup {phase}]
  /\ UNCHANGED <<files, ctorError, scripts, phase, slash, rules, filtConds, condUsage, cmVars,
                 luaVars, phaseVars>>

(* Bug: two conditions of different phases are taken for the same one. *)
BlobIDNoPhase(fc) == <<fc.module, fc.cond>>

(* FiltCond::blobID(): what makes two filter conditions the same one. *)
BlobID(fc) == <<fc.phase, fc.module, fc.cond>>

(* CondModule::storeUniqueFiltCond() *)
SameFiltConds(fcs, fc) == {i \in DOMAIN fcs : BlobID(fcs[i]) = BlobID(fc)}
StoreUniqueFiltCond(fc) ==
  LET same == SameFiltConds(filtConds, fc)
      idx  == IF same = {} THEN Len(filtConds) + 1 ELSE CHOOSE i \in same : TRUE
  IN
  /\ filtConds' = IF same = {} THEN Append(filtConds, fc) ELSE filtConds
  /\ rules' = [rules EXCEPT ![ruleIdx].filtCondIdxs = Append(@, idx)]
  /\ doc' = [doc EXCEPT ![ruleIdx].conds = Append(@, fc)]

(* TokenMatcher::procPattern() or storeQueryArgName() *)
TableWith(c) == [table EXCEPT ![cm][phase] = @ \cup {<<ruleIdx, c.cond>>}]

(* One child of the module's element. *)
Child(c) ==
  /\ at = "Module"
  /\ slash = NoCond
  /\ elems < MaxElems
  /\ elems' = elems + 1
  /\ narrowing' = (narrowing \/ c.kind # "filter")
  /\ table' = IF c.kind = "table" THEN TableWith(c) ELSE table
  /\ IF c.kind = "all"
     THEN MatchAllReqs({cm}, ruleIdx, phase)
     ELSE UNCHANGED <<matchAll, mariSize>>
  /\ StoreUniqueFiltCond([phase |-> phase, module |-> cm, cond |-> c.cond])
  /\ slash' = c.slash
  /\ UNCHANGED <<at, files, ctorError, scripts, phase, cm, condUsage, luaVars, phaseVars>>

(* The second filter condition of a <Pattern>. *)
StoreSlash ==
  /\ at = "Module"
  /\ slash # NoCond
  /\ StoreUniqueFiltCond([phase |-> phase, module |-> cm, cond |-> slash])
  /\ slash' = NoCond
  /\ UNCHANGED <<at, fileVars, phase, cm, narrowing, condUsage, cmVars, luaVars, phaseVars>>

EndModule ==
  /\ Go("Module", "Conditions")
  /\ slash = NoCond
  /\ IF narrowing
     THEN UNCHANGED <<matchAll, mariSize>>
     ELSE MatchAllReqs({cm}, ruleIdx, phase)
  /\ condUsage' = condUsage \cup {cm}
  /\ UNCHANGED <<fileVars, localVars, rules, filtConds, doc, table, luaVars, phaseVars>>

-----------------------------------------------------------------------------
(* <Actions>: without a phase attribute their phase is the one the rule has *)
(* by now.                                                                  *)
StartActions(p) ==
  /\ Go("Rule", "Actions")
  /\ phase' = p
  /\ UNCHANGED <<fileVars, cm, narrowing, slash, ruleVars, cmVars, luaVars, phaseVars>>

EndActions ==
  /\ Go("Actions", "Rule")
  /\ UNCHANGED <<fileVars, localVars, ruleVars, cmVars, luaVars, phaseVars>>

(* A script or the file of one.  It is compiled as it is read, and Fail has *)
(* those that do not compile.                                               *)
Script == scripts < MaxScripts /\ scripts' = scripts + 1

(* A definition is only remembered: each Lua state will load it.            *)
Definition == defns' = defns + 1

(* <Script>, <ScriptFile>, <InternalRedirect> or <ExternalRedirect> *)
AddAction ==
  /\ at = "Actions"
  /\ Script
  /\ rules' = [rules EXCEPT ![ruleIdx].actions = Append(@, phase)]
  /\ UNCHANGED <<at, files, ctorError, elems, localVars, filtConds, condUsage, doc, cmVars,
                 luaVars, phaseVars>>

AddPreAction ==
  /\ at = "CommonPreAction"
  /\ Script
  /\ preActions' = preActions + 1
  /\ UNCHANGED <<at, files, ctorError, elems, localVars, ruleVars, cmVars, defns, published,
                 errHandler, phaseVars>>

AddDefn ==
  /\ at = "Definitions"
  /\ Script
  /\ Definition
  /\ UNCHANGED <<at, files, ctorError, elems, localVars, ruleVars, cmVars, preActions, published,
                 errHandler, phaseVars>>

(* <Script> or <ScriptFile>, and only one of them in all files. *)
SetErrHandler(kind) ==
  /\ at = "ErrorHandler"
  /\ Script
  /\ errHandler = {}
  /\ errHandler' = {kind}
  /\ UNCHANGED <<at, files, ctorError, elems, localVars, ruleVars, cmVars, preActions, defns,
                 published, phaseVars>>

-----------------------------------------------------------------------------
CondPhases == {rules[r].condPhase : r \in RuleIdxs}

ActionPhases == UNION {{rules[r].actions[k] : k \in DOMAIN rules[r].actions} : r \in RuleIdxs}

(* The end of Config::Config(), of a failed one too. *)
BuildPhases ==
  /\ Go("phases", "done")
  /\ phaseRules' = [p \in Phases |-> {r \in RuleIdxs : rules[r].condPhase = p}]
  /\ usage' = [any |-> CondPhases \cup ActionPhases, conds |-> CondPhases, actions |-> ActionPhases]
  /\ UNCHANGED <<fileVars, localVars, ruleVars, cmVars, luaVars>>

Sections == {"CommonPreAction", "Definitions", "ErrorHandler", "Rules"}

Next ==
  \/ \E isGlob \in BOOLEAN, n \in 0 .. MaxFiles : AddFiles(isGlob, n)
  \/ EndGlobs \/ OpenFile \/ EndFile \/ PostProc \/ Fail
  \/ \E name \in Sections : Section(name) \/ EndSection(name)
  \/ StartRule \/ EndRule
  \/ \E p \in Phases : StartConditions(p) \/ StartActions(p)
  \/ EndConditions \/ EndActions
  \/ \E m \in Modules : StartModule(m)
  \/ \E m \in Modules : \E c \in Children[m] : m = cm /\ Child(c)
  \/ StoreSlash \/ EndModule
  \/ AddAction \/ AddPreAction \/ AddDefn
  \/ \E kind \in {"Script", "ScriptFile"} : SetErrHandler(kind)
  \/ BuildPhases

Spec == Init /\ [][Next]_vars

-----------------------------------------------------------------------------
Places == {"globs", "files", "root", "Rule", "Conditions", "Module", "Actions", "phases",
           "done"} \cup Sections
FiltConds == [phase : Phases, module : Modules, cond : Conds]
RuleType  == [condPhase : Phases, filtCondIdxs : Seq(Nat \ {0}), actions : Seq(Phases)]
DocType   == [conds : Seq(FiltConds), phases : SUBSET Phases]

TypeOK ==
  /\ at \in Places
  /\ files \in Nat
  /\ ctorError \in BOOLEAN
  /\ phase \in Phases
  /\ cm \in Modules \cup {NoModule}
  /\ narrowing \in BOOLEAN
  /\ slash \in Conds \cup {NoCond}
  /\ rules \in Seq(RuleType)
  /\ filtConds \in Seq(FiltConds)
  /\ condUsage \subseteq Modules
  /\ matchAll \in [Modules -> [Phases -> SUBSET RuleIdxs]]
  /\ mariSize \in [Modules -> [Phases -> Nat]]
  /\ table \in [Modules -> [Phases -> SUBSET (RuleIdxs \X Conds)]]
  /\ preActions \in Nat
  /\ defns \in Nat
  /\ published \in Nat
  /\ errHandler \in SUBSET {"Script", "ScriptFile"}
  /\ phaseRules \in [Phases -> SUBSET RuleIdxs]
  /\ usage \in [any : SUBSET Phases, conds : SUBSET Phases, actions : SUBSET Phases]
  /\ doc \in Seq(DocType)
  /\ elems \in Nat
  /\ scripts \in Nat

-----------------------------------------------------------------------------
(* The properties. *)

Loaded == at = "done" /\ ~ctorError

(* A rule that no module was told of for a phase it does not have. *)
OnePhase(r) == doc[r].phases \subseteq {rules[r].condPhase}

(* Every rule is filtered by exactly the conditions in its elements, in     *)
(* their order and for their phase, though equal conditions are stored once *)
(* for the rules of all files.  (storeUniqueFiltCond)  A match is forgotten *)
(* by the phase of its condition, so one shared by two phases would be      *)
(* forgotten too late or too early.                                         *)
CondsAsWritten ==
  /\ \A r \in RuleIdxs :
       /\ Len(rules[r].filtCondIdxs) = Len(doc[r].conds)
       /\ \A k \in DOMAIN doc[r].conds :
            /\ rules[r].filtCondIdxs[k] \in DOMAIN filtConds
            /\ filtConds[rules[r].filtCondIdxs[k]] = doc[r].conds[k]
  /\ \A i, j \in DOMAIN filtConds : filtConds[i] = filtConds[j] => i = j

(* A rule of one phase is filtered in that phase by conditions of that phase *)
(* alone, whatever rules of other phases they were stored for first: its     *)
(* matches are forgotten when its phase is looked up again, and at no other  *)
(* time.  (RuleEngine assumes it of its rules: OnePhaseAssumption.)          *)
FilteredInPhase ==
  \A r \in RuleIdxs : OnePhase(r) =>
    \A k \in DOMAIN rules[r].filtCondIdxs :
      filtConds[rules[r].filtCondIdxs[k]].phase = rules[r].condPhase

(* The tables through which a module can find rule r in phase p. *)
Finds(m, p, r) == r \in matchAll[m][p] \/ \E c \in Conds : <<r, c>> \in table[m][p]

(* Every condition module knows of every rule in the rule's phase, by a     *)
(* condition of the rule or as one that matches all requests; a rule that a *)
(* module does not know is found for no request.  (procXML_Rule,            *)
(* parseXMLCond)                                                            *)
EveryModuleFinds ==
  Loaded => \A r \in RuleIdxs : OnePhase(r) =>
              \A m \in Modules : Finds(m, rules[r].condPhase, r)

(* No table leads to a rule that is not then filtered by the condition it   *)
(* was found by.                                                            *)
TableEntriesFiltered ==
  \A m \in Modules : \A p \in Phases : \A e \in table[m][p] :
    /\ e[1] \in RuleIdxs
    /\ \E k \in DOMAIN doc[e[1]].conds :
         doc[e[1]].conds[k] = [phase |-> p, module |-> m, cond |-> e[2]]

(* CondModule::lookup() takes it from the size of a vector that "every rule *)
(* matches every request".                                                  *)
SizeSaysMatchAll(m, p) ==
  mariSize[m][p] >= Cardinality(phaseRules[p]) => phaseRules[p] \subseteq matchAll[m][p]

(* It may, if every rule has its conditions in one phase. *)
MatchAllBySize ==
  Loaded /\ (\A r \in RuleIdxs : OnePhase(r)) =>
    \A m \in Modules : \A p \in Phases : SizeSaysMatchAll(m, p)

(* It may, whatever the files say.  *)
MatchAllBySizeAlways ==
  Loaded => \A m \in Modules : \A p \in Phases : SizeSaysMatchAll(m, p)

(* The Lua manager is told of the definitions of all files, and only when   *)
(* all of them could be read.  (procXMLFiles)                               *)
DefinitionsOfAllFiles ==
  /\ published > 0 => ~ctorError
  /\ Loaded => published = defns

(* A phase that lookupAndRun() passes over has no condition and no action,  *)
(* and the rules of a phase are those that have it.                         *)
IdlePhases ==
  Loaded =>
    \A r \in RuleIdxs :
      /\ \A p \in Phases : r \in phaseRules[p] <=> p = rules[r].condPhase
      /\ rules[r].condPhase \in usage.any \cap usage.conds
      /\ \A k \in DOMAIN rules[r].actions : rules[r].actions[k] \in usage.any \cap usage.actions

(* A rule's conditions are stored as written, those of a rule of one phase  *)
(* for that phase, and it is entered into the tables by those only.         *)
CondsStored == CondsAsWritten /\ FilteredInPhase /\ TableEntriesFiltered

(* No rule is forgotten: each module finds it in its phase, and the phase   *)
(* is not passed over.                                                      *)
RulesReached == EveryModuleFinds /\ IdlePhases

=============================================================================
