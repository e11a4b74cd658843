-------------------------- MODULE ConfigBuildProofs --------------------------
(***************************************************************************)
(* Proofs about ConfigBuild, for any phases, modules, conditions and       *)
(* bounds.                                                                 *)
(***************************************************************************)
EXTENDS ConfigBuild, FiniteSetTheorems, TLAPS

InRule == {"Rule", "Conditions", "Module", "Actions"}

(* TypeOK in parts, and the current rule exists, as does the module whose   *)
(* element is read.                                                         *)
FileTypes ==
  /\ at \in Places
  /\ files \in Nat
  /\ ctorError \in BOOLEAN
  /\ elems \in Nat
  /\ scripts \in Nat
LocalTypes ==
  /\ phase \in Phases
  /\ cm \in Modules \cup {NoModule}
  /\ narrowing \in BOOLEAN
  /\ slash \in Conds \cup {NoCond}
RuleTypes ==
  /\ rules \in Seq(RuleType)
  /\ filtConds \in Seq(FiltConds)
  /\ condUsage \subseteq Modules
  /\ doc \in Seq(DocType)
  /\ Len(doc) = Len(rules)
CmTypes ==
  /\ matchAll \in [Modules -> [Phases -> SUBSET RuleIdxs]]
  /\ mariSize \in [Modules -> [Phases -> Nat]]
  /\ table \in [Modules -> [Phases -> SUBSET (RuleIdxs \X Conds)]]
LuaTypes ==
  /\ preActions \in Nat
  /\ defns \in Nat
  /\ published \in Nat
  /\ errHandler \in SUBSET {"Script", "ScriptFile"}
PhaseTypes ==
  /\ phaseRules \in [Phases -> SUBSET RuleIdxs]
  /\ usage \in [any : SUBSET Phases, conds : SUBSET Phases, actions : SUBSET Phases]
PlaceInv ==
  /\ at \in InRule => Len(rules) > 0
  /\ at = "Module" => cm \in Modules
  /\ ctorError => at \in {"phases", "done"}

TypeInv ==
  FileTypes /\ LocalTypes /\ RuleTypes /\ CmTypes /\ LuaTypes /\ PhaseTypes /\ PlaceInv

(* A module was told of a rule only for phases that the history has, *)
Told ==
  /\ \A m \in Modules : \A p \in Phases : \A r \in matchAll[m][p] : r \in RuleIdxs /\ p \in doc[r].phases
  /\ \A m \in Modules : \A p \in Phases : \A e \in table[m][p] : e[1] \in RuleIdxs /\ p \in doc[e[1]].phases
  /\ at = "Module" => phase \in doc[ruleIdx].phases

(* and it was told of every rule it has to know. *)
Known ==
  /\ ~ctorError =>
       \A r \in RuleIdxs : \A m \in Modules :
         r < ruleIdx \/ at \notin InRule \/ m \in condUsage =>
           \E p \in doc[r].phases : Finds(m, p, r)
  /\ at = "Module" /\ narrowing => Finds(cm, phase, ruleIdx)

(* What the tables are in the end. *)
Built ==
  /\ at \in {"phases", "done"} /\ ~ctorError =>
       \A m \in Modules : \A p \in Phases : mariSize[m][p] = Cardinality(matchAll[m][p])
  /\ at = "done" =>
       /\ \A p \in Phases : phaseRules[p] = {r \in RuleIdxs : rules[r].condPhase = p}
       /\ usage = [any |-> CondPhases \cup ActionPhases, conds |-> CondPhases,
                   actions |-> ActionPhases]

(* When the definitions are published. *)
Published ==
  /\ at \notin {"phases", "done"} \/ ctorError => published = 0
  /\ at \in {"phases", "done"} /\ ~ctorError => published = defns

-----------------------------------------------------------------------------
(* Types.                                                                  *)

USE PhasesAssumption, ChildrenAssumption, BoundsAssumption

LEMMA RulesType ==
  ASSUME TypeInv
  PROVE  /\ RuleIdxs = 1 .. Len(rules) /\ DOMAIN doc = RuleIdxs /\ ruleIdx = Len(rules)
         /\ IsFiniteSet(RuleIdxs)
         /\ at \in InRule => ruleIdx \in RuleIdxs
<1>1. RuleIdxs = 1 .. Len(rules) /\ DOMAIN doc = RuleIdxs /\ Len(rules) \in Nat
  BY DEF TypeInv, RuleTypes, RuleIdxs
<1>2. IsFiniteSet(RuleIdxs)
  BY <1>1, FS_Interval
<1>3. QED
  BY <1>1, <1>2 DEF TypeInv, PlaceInv, ruleIdx

LEMMA InitType == Init => TypeInv
<1> SUFFICES ASSUME Init PROVE TypeInv
  OBVIOUS
<1>1. 0 \in Phases
  BY DEF Phases
<1>2. FileTypes /\ LocalTypes /\ LuaTypes /\ PlaceInv
  BY <1>1 DEF Init, FileTypes, LocalTypes, LuaTypes, PlaceInv, Places, Sections, InRule
<1>3. RuleTypes /\ CmTypes /\ PhaseTypes
  BY DEF Init, RuleTypes, CmTypes, PhaseTypes, RuleIdxs
<1>4. QED
  BY <1>2, <1>3 DEF TypeInv

(* What a step leaves alone keeps its type. *)
LEMMA Frames ==
  ASSUME TypeInv
  PROVE  /\ UNCHANGED localVars => LocalTypes'
         /\ UNCHANGED ruleVars => RuleTypes'
         /\ UNCHANGED cmVars /\ RuleIdxs' = RuleIdxs => CmTypes'
         /\ UNCHANGED luaVars => LuaTypes'
         /\ UNCHANGED phaseVars /\ RuleIdxs' = RuleIdxs => PhaseTypes'
         /\ UNCHANGED rules => RuleIdxs' = RuleIdxs
<1>1. UNCHANGED localVars => LocalTypes'
  BY DEF TypeInv, LocalTypes, localVars
<1>2. UNCHANGED ruleVars => RuleTypes'
  BY DEF TypeInv, RuleTypes, ruleVars
<1>3. UNCHANGED cmVars /\ RuleIdxs' = RuleIdxs => CmTypes'
  BY DEF TypeInv, CmTypes, cmVars
<1>4. UNCHANGED luaVars => LuaTypes'
  BY DEF TypeInv, LuaTypes, luaVars
<1>5. UNCHANGED phaseVars /\ RuleIdxs' = RuleIdxs => PhaseTypes'
  BY DEF TypeInv, PhaseTypes, phaseVars
<1>6. QED
  BY <1>1, <1>2, <1>3, <1>4, <1>5 DEF RuleIdxs

(* The steps that only move the parser. *)
LEMMA MoveType ==
  ASSUME TypeInv,
         \/ \E isGlob \in BOOLEAN, n \in 0 .. MaxFiles : AddFiles(isGlob, n)
         \/ EndGlobs \/ OpenFile \/ EndFile \/ Fail
         \/ \E name \in Sections : Section(name) \/ EndSection(name)
         \/ EndConditions \/ EndActions
  PROVE  TypeInv'
<1>1. UNCHANGED <<localVars, ruleVars, cmVars, luaVars, phaseVars>>
  BY DEF AddFiles, EndGlobs, OpenFile, EndFile, Fail, Section, EndSection, EndConditions, EndActions
<1>2. LocalTypes' /\ RuleTypes' /\ CmTypes' /\ LuaTypes' /\ PhaseTypes'
  BY <1>1, Frames DEF ruleVars
<1>3. FileTypes'
  <2> USE DEF TypeInv, FileTypes, Places
  <2>1. ASSUME NEW isGlob \in BOOLEAN, NEW n \in 0 .. MaxFiles, AddFiles(isGlob, n) PROVE FileTypes'
    BY <2>1 DEF AddFiles
  <2>2. CASE EndGlobs \/ EndFile \/ EndConditions \/ EndActions
    BY <2>2 DEF EndGlobs, EndFile, EndConditions, EndActions, Go, fileVars
  <2>3. CASE OpenFile
    BY <2>3 DEF OpenFile, Go
  <2>4. CASE Fail
    BY <2>4 DEF Fail
  <2>5. ASSUME NEW name \in Sections, Section(name) \/ EndSection(name) PROVE FileTypes'
    BY <2>5 DEF Section, EndSection, Go, fileVars
  <2>6. QED
    BY <2>1, <2>2, <2>3, <2>4, <2>5
<1>4. PlaceInv'
  BY <1>1 DEF TypeInv, PlaceInv, AddFiles, EndGlobs, OpenFile, EndFile, Fail, Section, EndSection,
     EndConditions, EndActions, Go, fileVars, localVars, ruleVars, InRule, Sections
<1>5. QED
  BY <1>2, <1>3, <1>4 DEF TypeInv

LEMMA EndType ==
  ASSUME TypeInv, PostProc \/ BuildPhases
  PROVE  TypeInv'
<1>1. UNCHANGED <<fileVars, localVars, ruleVars>> /\ at' \in {"phases", "done"}
  BY DEF PostProc, BuildPhases, Go
<1>2. LocalTypes' /\ RuleTypes' /\ RuleIdxs' = RuleIdxs
  BY <1>1, Frames DEF ruleVars
<1>3. FileTypes' /\ PlaceInv'
  BY <1>1 DEF TypeInv, FileTypes, PlaceInv, fileVars, localVars, ruleVars, Places, InRule
<1>4. CASE PostProc
  <2>1. ASSUME NEW m \in Modules, NEW p \in Phases PROVE UniqueSize(m, p) \in Nat
    BY RulesType, FS_Subset, FS_CardinalityType DEF UniqueSize, TypeInv, CmTypes
  <2>2. CmTypes'
    BY <1>2, <1>4, <2>1 DEF PostProc, TypeInv, CmTypes
  <2>3. LuaTypes'
    BY <1>4 DEF PostProc, TypeInv, LuaTypes
  <2>4. PhaseTypes'
    BY <1>2, <1>4, Frames DEF PostProc
  <2>5. QED
    BY <1>2, <1>3, <2>2, <2>3, <2>4 DEF TypeInv
<1>5. CASE BuildPhases
  <2>1. CmTypes' /\ LuaTypes'
    BY <1>2, <1>5, Frames DEF BuildPhases
  <2>2. CondPhases \subseteq Phases /\ ActionPhases \subseteq Phases
    <3>1. \A r \in RuleIdxs : rules[r].condPhase \in Phases /\ rules[r].actions \in Seq(Phases)
      <4>1. \A r \in RuleIdxs : rules[r] \in RuleType
        BY DEF RuleIdxs, TypeInv, RuleTypes
      <4>2. QED
        BY <4>1 DEF RuleType
    <3>2. \A r \in RuleIdxs : {rules[r].actions[k] : k \in DOMAIN rules[r].actions} \subseteq Phases
      BY <3>1
    <3>3. QED
      BY <3>1, <3>2 DEF CondPhases, ActionPhases
  <2>3. PhaseTypes'
    BY <1>2, <1>5, <2>2 DEF BuildPhases, PhaseTypes
  <2>4. QED
    BY <1>2, <1>3, <2>1, <2>3 DEF TypeInv
<1>6. QED
  BY <1>4, <1>5

(* A module told of a rule keeps its vectors' types. *)
LEMMA MatchAllReqsType ==
  ASSUME TypeInv, NEW ms \in SUBSET Modules, NEW r \in RuleIdxs, NEW p \in Phases,
         MatchAllReqs(ms, r, p)
  PROVE  /\ matchAll' \in [Modules -> [Phases -> SUBSET RuleIdxs]]
         /\ mariSize' \in [Modules -> [Phases -> Nat]]
BY DEF MatchAllReqs, TypeInv, CmTypes

LEMMA StoreType ==
  ASSUME TypeInv, at = "Module", UNCHANGED condUsage,
         NEW fc \in FiltConds, StoreUniqueFiltCond(fc)
  PROVE  RuleTypes' /\ RuleIdxs' = RuleIdxs /\ Len(rules') = Len(rules)
<1>1. ruleIdx \in RuleIdxs /\ RuleIdxs = 1 .. Len(rules) /\ DOMAIN doc = RuleIdxs
  BY RulesType DEF InRule
<1>2. filtConds' \in Seq(FiltConds)
  BY DEF StoreUniqueFiltCond, TypeInv, RuleTypes
<1>3. PICK idx \in Nat \ {0} : rules' = [rules EXCEPT ![ruleIdx].filtCondIdxs = Append(@, idx)]
  <2>1. CASE SameFiltConds(filtConds, fc) = {}
    <3>1. rules' = [rules EXCEPT ![ruleIdx].filtCondIdxs = Append(@, Len(filtConds) + 1)]
      BY <2>1 DEF StoreUniqueFiltCond
    <3>2. Len(filtConds) + 1 \in Nat \ {0}
      BY DEF TypeInv, RuleTypes
    <3>3. QED
      BY <3>1, <3>2
  <2>2. CASE SameFiltConds(filtConds, fc) # {}
    <3>1. DOMAIN filtConds = 1 .. Len(filtConds) /\ Len(filtConds) \in Nat
      BY DEF TypeInv, RuleTypes
    <3>2. SameFiltConds(filtConds, fc) \subseteq Nat \ {0}
      BY <3>1 DEF SameFiltConds
    <3>3. rules' = [rules EXCEPT ![ruleIdx].filtCondIdxs =
                      Append(@, CHOOSE i \in SameFiltConds(filtConds, fc) : TRUE)]
      BY <2>2 DEF StoreUniqueFiltCond
    <3>4. (CHOOSE i \in SameFiltConds(filtConds, fc) : TRUE) \in SameFiltConds(filtConds, fc)
      BY <2>2
    <3>5. (CHOOSE i \in SameFiltConds(filtConds, fc) : TRUE) \in Nat \ {0}
      BY <3>2, <3>4
    <3>6. QED
      BY <3>3, <3>5
  <2>3. QED
    BY <2>1, <2>2
<1>4. rules[ruleIdx] \in RuleType /\ doc[ruleIdx] \in DocType
  BY <1>1 DEF TypeInv, RuleTypes, RuleIdxs
<1>5. rules' \in Seq(RuleType) /\ Len(rules') = Len(rules)
  <2>1. [rules[ruleIdx] EXCEPT !.filtCondIdxs = Append(@, idx)] \in RuleType
    <3>1. Append(rules[ruleIdx].filtCondIdxs, idx) \in Seq(Nat \ {0})
      BY <1>4 DEF RuleType
    <3>2. QED
      BY <1>4, <3>1 DEF RuleType
  <2>2. QED
    BY <1>1, <1>3, <2>1 DEF TypeInv, RuleTypes
<1>6. doc' \in Seq(DocType) /\ Len(doc') = Len(doc)
  <2>1. [doc[ruleIdx] EXCEPT !.conds = Append(@, fc)] \in DocType
    <3>1. Append(doc[ruleIdx].conds, fc) \in Seq(FiltConds)
      BY <1>4 DEF DocType
    <3>2. QED
      BY <1>4, <3>1 DEF DocType
  <2>2. QED
    BY <1>1, <2>1 DEF TypeInv, RuleTypes, StoreUniqueFiltCond
<1>7. QED
  BY <1>2, <1>5, <1>6 DEF RuleTypes, TypeInv, RuleIdxs

LEMMA StartRuleType == ASSUME TypeInv, StartRule PROVE TypeInv'
<1>1. UNCHANGED <<fileVars, localVars, cmVars, luaVars, phaseVars>> /\ at' = "Rule"
  BY DEF StartRule, Go
<1>2. LocalTypes' /\ LuaTypes' /\ FileTypes'
  BY <1>1, Frames DEF TypeInv, FileTypes, fileVars, Places
<1>3. NewRule \in RuleType /\ [conds |-> <<>>, phases |-> {}] \in DocType
  BY DEF NewRule, RuleType, Phases, DocType
<1>4. RuleTypes' /\ Len(rules') = Len(rules) + 1
  BY <1>3 DEF StartRule, TypeInv, RuleTypes
<1>5. RuleIdxs \subseteq RuleIdxs'
  BY <1>4 DEF RuleIdxs, TypeInv, RuleTypes
<1>6. CmTypes' /\ PhaseTypes'
  BY <1>1, <1>5 DEF TypeInv, CmTypes, PhaseTypes, cmVars, phaseVars
<1>7. PlaceInv'
  BY <1>1, <1>4 DEF StartRule, Go, TypeInv, RuleTypes, PlaceInv, fileVars
<1>8. QED
  BY <1>2, <1>4, <1>6, <1>7 DEF TypeInv

LEMMA EndRuleType == ASSUME TypeInv, EndRule PROVE TypeInv'
<1> DEFINE p == rules[ruleIdx].condPhase
<1>1. /\ UNCHANGED <<fileVars, localVars, rules, filtConds, condUsage, table, luaVars, phaseVars>>
      /\ at = "Rule" /\ at' = "Rules" /\ MatchAllReqs(Modules \ condUsage, ruleIdx, p)
      /\ doc' = [doc EXCEPT ![ruleIdx].phases = @ \cup {p}]
  BY DEF EndRule, Go
<1>2. LocalTypes' /\ LuaTypes' /\ PhaseTypes' /\ FileTypes' /\ PlaceInv' /\ RuleIdxs' = RuleIdxs
  BY <1>1, Frames DEF TypeInv, FileTypes, PlaceInv, fileVars, Places, Sections, InRule
<1>3. ruleIdx \in RuleIdxs /\ DOMAIN doc = RuleIdxs
  BY <1>1, RulesType DEF InRule
<1>4. p \in Phases /\ doc[ruleIdx] \in DocType
  <2>1. rules[ruleIdx] \in RuleType /\ doc[ruleIdx] \in DocType
    BY <1>3 DEF RuleIdxs, TypeInv, RuleTypes
  <2>2. QED
    BY <2>1 DEF RuleType
<1>5. doc' \in Seq(DocType) /\ Len(doc') = Len(doc)
  <2>1. [doc[ruleIdx] EXCEPT !.phases = @ \cup {p}] \in DocType
    BY <1>4 DEF DocType
  <2>2. QED
    BY <1>1, <1>3, <2>1 DEF TypeInv, RuleTypes
<1>6. RuleTypes'
  BY <1>1, <1>5 DEF TypeInv, RuleTypes
<1>7. matchAll' \in [Modules -> [Phases -> SUBSET RuleIdxs]] /\ mariSize' \in [Modules -> [Phases -> Nat]]
  <2> HIDE DEF p
  <2>1. QED
    BY <1>1, <1>3, <1>4, MatchAllReqsType
<1>8. CmTypes'
  BY <1>1, <1>2, <1>7 DEF TypeInv, CmTypes
<1>9. QED
  BY <1>2, <1>6, <1>8 DEF TypeInv

LEMMA StartConditionsType == ASSUME TypeInv, NEW p \in Phases, StartConditions(p) PROVE TypeInv'
<1>1. ruleIdx \in RuleIdxs /\ rules[ruleIdx] \in RuleType
  BY RulesType DEF StartConditions, Go, InRule, TypeInv, RuleTypes, RuleIdxs
<1>2. [rules[ruleIdx] EXCEPT !.condPhase = p] \in RuleType
  BY <1>1 DEF RuleType
<1>3. RuleTypes' /\ Len(rules') = Len(rules)
  BY <1>1, <1>2 DEF StartConditions, TypeInv, RuleTypes, RuleIdxs
<1>4. RuleIdxs' = RuleIdxs
  BY <1>3 DEF RuleIdxs, TypeInv, RuleTypes
<1>5. CmTypes' /\ PhaseTypes' /\ LuaTypes'
  BY <1>4, Frames DEF StartConditions
<1>6. FileTypes' /\ LocalTypes'
  BY DEF StartConditions, Go, TypeInv, FileTypes, LocalTypes, Places
<1>7. PlaceInv'
  BY <1>3 DEF StartConditions, Go, TypeInv, PlaceInv, InRule
<1>8. QED
  BY <1>3, <1>5, <1>6, <1>7 DEF TypeInv

LEMMA StartActionsType == ASSUME TypeInv, NEW p \in Phases, StartActions(p) PROVE TypeInv'
<1>1. UNCHANGED <<fileVars, ruleVars, cmVars, luaVars, phaseVars>>
  BY DEF StartActions
<1>2. RuleTypes' /\ CmTypes' /\ PhaseTypes' /\ LuaTypes'
  BY <1>1, Frames DEF ruleVars
<1>3. FileTypes' /\ LocalTypes' /\ PlaceInv'
  BY <1>1 DEF StartActions, Go, TypeInv, FileTypes, LocalTypes, PlaceInv, Places, InRule, fileVars, ruleVars
<1>4. QED
  BY <1>2, <1>3 DEF TypeInv

LEMMA StartModuleType == ASSUME TypeInv, NEW m \in Modules, StartModule(m) PROVE TypeInv'
<1>1. ruleIdx \in RuleIdxs /\ DOMAIN doc = RuleIdxs /\ doc[ruleIdx] \in DocType
  BY RulesType DEF StartModule, Go, InRule, TypeInv, RuleTypes
<1>2. [doc[ruleIdx] EXCEPT !.phases = @ \cup {phase}] \in DocType
  BY <1>1 DEF DocType, TypeInv, LocalTypes
<1>3. RuleTypes' /\ RuleIdxs' = RuleIdxs
  BY <1>1, <1>2 DEF StartModule, TypeInv, RuleTypes, RuleIdxs
<1>4. CmTypes' /\ PhaseTypes' /\ LuaTypes'
  BY <1>3, Frames DEF StartModule
<1>5. FileTypes' /\ LocalTypes' /\ PlaceInv'
  <2>1. FileTypes'
    BY DEF StartModule, Go, TypeInv, FileTypes, Places
  <2>2. LocalTypes' /\ PlaceInv'
    BY DEF StartModule, Go, TypeInv, FileTypes, LocalTypes, PlaceInv, InRule
  <2>3. QED
    BY <2>1, <2>2
<1>6. QED
  BY <1>3, <1>4, <1>5 DEF TypeInv

LEMMA TableType ==
  ASSUME TypeInv, at = "Module", NEW c \in ChildType
  PROVE  TableWith(c) \in [Modules -> [Phases -> SUBSET (RuleIdxs \X Conds)]]
BY RulesType DEF TableWith, TypeInv, CmTypes, PlaceInv, LocalTypes, InRule, ChildType

LEMMA ChildTypeOf == ASSUME NEW m \in Modules, NEW c \in Children[m] PROVE c \in ChildType
OBVIOUS

LEMMA ChildStepType == ASSUME TypeInv, NEW c \in ChildType, Child(c) PROVE TypeInv'
<1> DEFINE fc == [phase |-> phase, module |-> cm, cond |-> c.cond]
<1>1. at = "Module" /\ StoreUniqueFiltCond(fc) /\ UNCHANGED <<at, condUsage, luaVars, phaseVars>>
  BY DEF Child
<1>2. cm \in Modules /\ phase \in Phases /\ fc \in FiltConds
  BY <1>1 DEF TypeInv, PlaceInv, LocalTypes, FiltConds, ChildType
<1>3. RuleTypes' /\ RuleIdxs' = RuleIdxs /\ Len(rules') = Len(rules)
  <2> HIDE DEF fc
  <2>1. QED
    BY <1>1, <1>2, StoreType
<1>4. PhaseTypes' /\ LuaTypes'
  BY <1>1, <1>3, Frames
<1>5. FileTypes' /\ LocalTypes' /\ PlaceInv'
  BY <1>3 DEF Child, TypeInv, FileTypes, LocalTypes, PlaceInv, ChildType
<1>6. ruleIdx \in RuleIdxs
  BY <1>1, RulesType DEF InRule
<1>7. matchAll' \in [Modules -> [Phases -> SUBSET RuleIdxs]] /\ mariSize' \in [Modules -> [Phases -> Nat]]
  <2>1. CASE c.kind = "all"
    BY <1>2, <1>6, <2>1, MatchAllReqsType DEF Child
  <2>2. CASE c.kind # "all"
    BY <2>2 DEF Child, TypeInv, CmTypes
  <2>3. QED
    BY <2>1, <2>2
<1>8. table' \in [Modules -> [Phases -> SUBSET (RuleIdxs \X Conds)]]
  BY <1>1, TableType DEF Child, TypeInv, CmTypes
<1>9. QED
  BY <1>3, <1>4, <1>5, <1>7, <1>8 DEF TypeInv, CmTypes

LEMMA StoreSlashType == ASSUME TypeInv, StoreSlash PROVE TypeInv'
<1> DEFINE fc == [phase |-> phase, module |-> cm, cond |-> slash]
<1>1. /\ at = "Module" /\ slash # NoCond /\ StoreUniqueFiltCond(fc)
      /\ UNCHANGED <<at, fileVars, condUsage, cmVars, luaVars, phaseVars>>
  BY DEF StoreSlash
<1>2. fc \in FiltConds
  BY <1>1 DEF TypeInv, PlaceInv, LocalTypes, FiltConds
<1>3. RuleTypes' /\ RuleIdxs' = RuleIdxs /\ Len(rules') = Len(rules)
  <2> HIDE DEF fc
  <2>1. QED
    BY <1>1, <1>2, StoreType
<1>4. CmTypes' /\ PhaseTypes' /\ LuaTypes'
  BY <1>1, <1>3, Frames
<1>5. FileTypes' /\ LocalTypes' /\ PlaceInv'
  BY <1>3 DEF StoreSlash, TypeInv, FileTypes, LocalTypes, PlaceInv, fileVars
<1>6. QED
  BY <1>3, <1>4, <1>5 DEF TypeInv

LEMMA EndModuleType == ASSUME TypeInv, EndModule PROVE TypeInv'
<1>1. /\ at = "Module" /\ at' = "Conditions"
      /\ UNCHANGED <<fileVars, localVars, rules, filtConds, doc, table, luaVars, phaseVars>>
  BY DEF EndModule, Go
<1>2. cm \in Modules /\ phase \in Phases /\ ruleIdx \in RuleIdxs
  BY <1>1, RulesType DEF TypeInv, PlaceInv, LocalTypes, InRule
<1>3. LocalTypes' /\ LuaTypes' /\ PhaseTypes' /\ FileTypes' /\ PlaceInv' /\ RuleIdxs' = RuleIdxs
  BY <1>1, Frames DEF TypeInv, FileTypes, PlaceInv, fileVars, Places, InRule
<1>4. RuleTypes'
  BY <1>1, <1>2 DEF EndModule, TypeInv, RuleTypes
<1>5. matchAll' \in [Modules -> [Phases -> SUBSET RuleIdxs]] /\ mariSize' \in [Modules -> [Phases -> Nat]]
  <2>1. CASE narrowing
    BY <2>1 DEF EndModule, TypeInv, CmTypes
  <2>2. CASE ~narrowing
    BY <1>2, <2>2, MatchAllReqsType DEF EndModule
  <2>3. QED
    BY <2>1, <2>2
<1>6. CmTypes'
  BY <1>1, <1>3, <1>5 DEF TypeInv, CmTypes
<1>7. QED
  BY <1>3, <1>4, <1>6 DEF TypeInv

LEMMA AddActionType == ASSUME TypeInv, AddAction PROVE TypeInv'
<1>1. ruleIdx \in RuleIdxs /\ rules[ruleIdx] \in RuleType
  BY RulesType DEF AddAction, InRule, TypeInv, RuleTypes, RuleIdxs
<1>2. [rules[ruleIdx] EXCEPT !.actions = Append(@, phase)] \in RuleType
  <2>1. Append(rules[ruleIdx].actions, phase) \in Seq(Phases)
    BY <1>1 DEF RuleType, TypeInv, LocalTypes
  <2>2. QED
    BY <1>1, <2>1 DEF RuleType
<1>3. RuleTypes' /\ Len(rules') = Len(rules)
  BY <1>1, <1>2 DEF AddAction, TypeInv, RuleTypes, RuleIdxs
<1>4. RuleIdxs' = RuleIdxs
  BY <1>3 DEF RuleIdxs, TypeInv, RuleTypes
<1>5. LocalTypes' /\ CmTypes' /\ PhaseTypes' /\ LuaTypes'
  BY <1>4, Frames DEF AddAction
<1>6. FileTypes' /\ PlaceInv'
  BY <1>3 DEF AddAction, Script, TypeInv, FileTypes, PlaceInv, localVars
<1>7. QED
  BY <1>3, <1>5, <1>6 DEF TypeInv

LEMMA ScriptType ==
  ASSUME TypeInv,
         AddPreAction \/ AddDefn \/ \E kind \in {"Script", "ScriptFile"} : SetErrHandler(kind)
  PROVE  TypeInv'
<1>1. UNCHANGED <<at, files, ctorError, elems, localVars, ruleVars, cmVars, phaseVars>> /\ Script
  BY DEF AddPreAction, AddDefn, SetErrHandler
<1>2. LocalTypes' /\ RuleTypes' /\ CmTypes' /\ PhaseTypes'
  BY <1>1, Frames DEF ruleVars
<1>3. FileTypes' /\ PlaceInv'
  BY <1>1 DEF Script, TypeInv, FileTypes, PlaceInv, localVars, ruleVars
<1>4. LuaTypes'
  <2>1. CASE AddPreAction \/ AddDefn
    <3>1. preActions' \in Nat /\ defns' \in Nat
      BY <2>1 DEF AddPreAction, AddDefn, Definition, TypeInv, LuaTypes
    <3>2. UNCHANGED <<published, errHandler>>
      BY <2>1 DEF AddPreAction, AddDefn
    <3>3. QED
      BY <3>1, <3>2 DEF TypeInv, LuaTypes
  <2>2. ASSUME NEW kind \in {"Script", "ScriptFile"}, SetErrHandler(kind) PROVE LuaTypes'
    BY <2>2 DEF SetErrHandler, TypeInv, LuaTypes
  <2>3. QED
    BY <2>1, <2>2
<1>5. QED
  BY <1>2, <1>3, <1>4 DEF TypeInv

LEMMA StutterType == ASSUME TypeInv, UNCHANGED vars PROVE TypeInv'
<1>1. UNCHANGED <<at, fileVars, localVars, ruleVars, cmVars, luaVars, phaseVars>>
  BY DEF vars
<1>2. LocalTypes' /\ RuleTypes' /\ CmTypes' /\ LuaTypes' /\ PhaseTypes'
  BY <1>1, Frames DEF ruleVars
<1>3. QED
  BY <1>1, <1>2 DEF TypeInv, FileTypes, PlaceInv, fileVars, localVars, ruleVars

LEMMA StepType == TypeInv /\ [Next]_vars => TypeInv'
<1> SUFFICES ASSUME TypeInv, [Next]_vars PROVE TypeInv'
  OBVIOUS
<1>1. CASE UNCHANGED vars
  BY <1>1, StutterType
<1>2. CASE Next
  BY <1>2, MoveType, EndType, StartRuleType, EndRuleType, StartConditionsType, StartActionsType,
     StartModuleType, ChildTypeOf, ChildStepType, StoreSlashType, EndModuleType, AddActionType,
     ScriptType DEF Next
<1>3. QED
  BY <1>1, <1>2

(* Every variable of the loader keeps its type, whatever the files say. *)
THEOREM TypeCorrect == Spec => []TypeOK
<1>1. Init => TypeInv
  BY InitType
<1>2. TypeInv /\ [Next]_vars => TypeInv'
  BY StepType
<1>3. TypeInv => TypeOK
  BY DEF TypeInv, TypeOK, FileTypes, LocalTypes, RuleTypes, CmTypes, LuaTypes, PhaseTypes
<1>4. QED
  BY <1>1, <1>2, <1>3, PTL DEF Spec

-----------------------------------------------------------------------------
(* The filter conditions of the rules.                                      *)

(* What most steps do to the conditions and the tables: nothing. *)
KeepsConds ==
  /\ RuleIdxs' = RuleIdxs /\ Len(rules') = Len(rules)
  /\ filtConds' = filtConds /\ table' = table
  /\ \A r \in RuleIdxs :
       /\ rules'[r].filtCondIdxs = rules[r].filtCondIdxs
       /\ doc'[r].conds = doc[r].conds
       /\ doc[r].phases \subseteq doc'[r].phases

LEMMA SameRules ==
  ASSUME TypeInv, UNCHANGED <<rules, filtConds, table, doc>>
  PROVE  KeepsConds
BY DEF KeepsConds, RuleIdxs

LEMMA StepKeepsConds ==
  ASSUME TypeInv,
         [Next]_vars, ~StartRule, ~StoreSlash, ~ \E c \in ChildType : Child(c)
  PROVE  KeepsConds
<1>1. CASE UNCHANGED vars
  BY <1>1, SameRules DEF vars, ruleVars, cmVars
<1>2. CASE \/ \E isGlob \in BOOLEAN, n \in 0 .. MaxFiles : AddFiles(isGlob, n)
           \/ EndGlobs \/ OpenFile \/ EndFile \/ Fail
           \/ \E name \in Sections : Section(name) \/ EndSection(name)
           \/ EndConditions \/ EndActions
  BY <1>2, SameRules DEF AddFiles, EndGlobs, OpenFile, EndFile, Fail, Section, EndSection,
     EndConditions, EndActions, ruleVars, cmVars
<1>3. CASE PostProc \/ BuildPhases \/ EndModule
  BY <1>3, SameRules DEF PostProc, BuildPhases, EndModule, ruleVars, cmVars
<1>4. CASE AddPreAction \/ AddDefn \/ \E kind \in {"Script", "ScriptFile"} : SetErrHandler(kind)
  BY <1>4, SameRules DEF AddPreAction, AddDefn, SetErrHandler, ruleVars, cmVars
<1>5. CASE \E p \in Phases : StartActions(p)
  BY <1>5, SameRules DEF StartActions, ruleVars, cmVars
<1>6. CASE EndRule \/ \E m \in Modules : StartModule(m)
  <2>1. PICK p : doc' = [doc EXCEPT ![ruleIdx].phases = @ \cup {p}]
    BY <1>6 DEF EndRule, StartModule
  <2>2. UNCHANGED <<rules, filtConds, table>>
    BY <1>6 DEF EndRule, StartModule, cmVars
  <2>3. DOMAIN doc = RuleIdxs /\ \A r \in RuleIdxs : doc[r] \in DocType
    BY RulesType DEF TypeInv, RuleTypes
  <2>4. \A r \in RuleIdxs : doc'[r].conds = doc[r].conds /\ doc[r].phases \subseteq doc'[r].phases
    BY <2>1, <2>3 DEF DocType
  <2>5. QED
    BY <2>2, <2>4 DEF KeepsConds, RuleIdxs
<1>7. CASE AddAction \/ \E p \in Phases : StartConditions(p)
  <2>1. UNCHANGED <<filtConds, table, doc>>
    BY <1>7 DEF AddAction, StartConditions, cmVars
  <2>2. ruleIdx \in RuleIdxs /\ \A r \in RuleIdxs : rules[r] \in RuleType
    BY <1>7, RulesType DEF AddAction, StartConditions, Go, InRule, TypeInv, RuleTypes, RuleIdxs
  <2>3. PICK new : rules' = [rules EXCEPT ![ruleIdx] = new] /\ new.filtCondIdxs = rules[ruleIdx].filtCondIdxs
    <3>1. CASE AddAction
      <4>1. rules' = [rules EXCEPT ![ruleIdx] = [rules[ruleIdx] EXCEPT !.actions = Append(@, phase)]]
        BY <3>1 DEF AddAction
      <4>2. [rules[ruleIdx] EXCEPT !.actions = Append(@, phase)].filtCondIdxs
              = rules[ruleIdx].filtCondIdxs
        BY <2>2 DEF RuleType
      <4>3. QED
        BY <4>1, <4>2
    <3>2. ASSUME NEW p \in Phases, StartConditions(p)
          PROVE  \E new : /\ rules' = [rules EXCEPT ![ruleIdx] = new]
                          /\ new.filtCondIdxs = rules[ruleIdx].filtCondIdxs
      <4>1. rules' = [rules EXCEPT ![ruleIdx] = [rules[ruleIdx] EXCEPT !.condPhase = p]]
        BY <3>2 DEF StartConditions
      <4>2. [rules[ruleIdx] EXCEPT !.condPhase = p].filtCondIdxs = rules[ruleIdx].filtCondIdxs
        BY <2>2 DEF RuleType
      <4>3. QED
        BY <4>1, <4>2
    <3>3. QED
      BY <1>7, <3>1, <3>2
  <2>4. Len(rules') = Len(rules) /\ RuleIdxs' = RuleIdxs
    BY <2>2, <2>3 DEF TypeInv, RuleTypes, RuleIdxs
  <2>5. \A r \in RuleIdxs : rules'[r].filtCondIdxs = rules[r].filtCondIdxs
    BY <2>2, <2>3 DEF RuleIdxs
  <2>6. QED
    BY <2>1, <2>4, <2>5 DEF KeepsConds
<1>8. QED
  BY <1>1, <1>2, <1>3, <1>4, <1>5, <1>6, <1>7, ChildTypeOf DEF Next

(* What StoreUniqueFiltCond() does to the rule and to the conditions. *)
LEMMA StoreEffect ==
  ASSUME TypeInv, at = "Module", NEW fc \in FiltConds, StoreUniqueFiltCond(fc)
  PROVE  \E idx \in DOMAIN filtConds' :
           /\ filtConds'[idx] = fc
           /\ rules' = [rules EXCEPT ![ruleIdx].filtCondIdxs = Append(@, idx)]
           /\ doc' = [doc EXCEPT ![ruleIdx].conds = Append(@, fc)]
           /\ \/ filtConds' = filtConds
              \/ /\ filtConds' = Append(filtConds, fc)
                 /\ \A i \in DOMAIN filtConds : filtConds[i] # fc
<1>1. filtConds \in Seq(FiltConds) /\ DOMAIN filtConds = 1 .. Len(filtConds) /\ Len(filtConds) \in Nat
  BY DEF TypeInv, RuleTypes
<1>2. doc' = [doc EXCEPT ![ruleIdx].conds = Append(@, fc)]
  BY DEF StoreUniqueFiltCond
<1>3. CASE SameFiltConds(filtConds, fc) = {}
  <2>1. filtConds' = Append(filtConds, fc)
    BY <1>3 DEF StoreUniqueFiltCond
  <2>2. rules' = [rules EXCEPT ![ruleIdx].filtCondIdxs = Append(@, Len(filtConds) + 1)]
    BY <1>3 DEF StoreUniqueFiltCond
  <2>3. \A i \in DOMAIN filtConds : filtConds[i] # fc
    BY <1>3 DEF SameFiltConds
  <2>4. Len(filtConds) + 1 \in DOMAIN filtConds' /\ filtConds'[Len(filtConds) + 1] = fc
    BY <1>1, <2>1
  <2>5. QED
    BY <1>2, <2>1, <2>2, <2>3, <2>4
<1>4. CASE SameFiltConds(filtConds, fc) # {}
  <2> DEFINE idx == CHOOSE i \in SameFiltConds(filtConds, fc) : TRUE
  <2>1. filtConds' = filtConds
    BY <1>4 DEF StoreUniqueFiltCond
  <2>2. rules' = [rules EXCEPT ![ruleIdx].filtCondIdxs = Append(@, idx)]
    BY <1>4 DEF StoreUniqueFiltCond
  <2>3. idx \in SameFiltConds(filtConds, fc)
    BY <1>4
  <2> HIDE DEF idx
  <2>4. idx \in DOMAIN filtConds /\ BlobID(filtConds[idx]) = BlobID(fc)
    BY <2>3 DEF SameFiltConds
  <2>5. filtConds[idx] \in FiltConds
    BY <1>1, <2>4
  <2>6. filtConds[idx] = fc
    BY <2>4, <2>5 DEF BlobID, FiltConds
  <2>7. QED
    BY <1>2, <2>1, <2>2, <2>4, <2>6
<1>5. QED
  BY <1>3, <1>4

LEMMA StoreConds ==
  ASSUME TypeInv, CondsAsWritten, at = "Module",
         NEW fc \in FiltConds, StoreUniqueFiltCond(fc)
  PROVE  CondsAsWritten'
<1>1. PICK idx \in DOMAIN filtConds' :
        /\ filtConds'[idx] = fc
        /\ rules' = [rules EXCEPT ![ruleIdx].filtCondIdxs = Append(@, idx)]
        /\ doc' = [doc EXCEPT ![ruleIdx].conds = Append(@, fc)]
        /\ \/ filtConds' = filtConds
           \/ /\ filtConds' = Append(filtConds, fc)
              /\ \A i \in DOMAIN filtConds : filtConds[i] # fc
  BY StoreEffect
<1>2. filtConds \in Seq(FiltConds)
  BY DEF TypeInv, RuleTypes
<1>3. \A i \in DOMAIN filtConds : i \in DOMAIN filtConds' /\ filtConds'[i] = filtConds[i]
  <2>1. CASE filtConds' = filtConds
    BY <2>1
  <2>2. CASE filtConds' = Append(filtConds, fc)
    BY <1>2, <2>2
  <2>3. QED
    BY <1>1, <2>1, <2>2
<1>4. \A i, j \in DOMAIN filtConds' : filtConds'[i] = filtConds'[j] => i = j
  BY <1>1, <1>2 DEF CondsAsWritten
<1>5. /\ ruleIdx \in RuleIdxs /\ DOMAIN doc = RuleIdxs
      /\ \A r \in RuleIdxs : rules[r] \in RuleType /\ doc[r] \in DocType
  BY RulesType DEF InRule, TypeInv, RuleTypes, RuleIdxs
<1>6. RuleIdxs' = RuleIdxs
  BY <1>1, <1>5 DEF RuleIdxs
<1>7. ASSUME NEW r \in RuleIdxs
      PROVE  /\ Len(rules'[r].filtCondIdxs) = Len(doc'[r].conds)
             /\ \A k \in DOMAIN doc'[r].conds :
                  /\ rules'[r].filtCondIdxs[k] \in DOMAIN filtConds'
                  /\ filtConds'[rules'[r].filtCondIdxs[k]] = doc'[r].conds[k]
  <2> DEFINE I == rules[r].filtCondIdxs
             C == doc[r].conds
  <2>1. I \in Seq(Nat \ {0}) /\ C \in Seq(FiltConds)
    BY <1>5 DEF RuleType, DocType
  <2>2. Len(I) = Len(C) /\ \A k \in DOMAIN C : I[k] \in DOMAIN filtConds /\ filtConds[I[k]] = C[k]
    BY DEF CondsAsWritten
  <2>3. CASE r # ruleIdx
    <3>1. rules'[r].filtCondIdxs = I /\ doc'[r].conds = C
      BY <1>1, <1>5, <2>3 DEF RuleIdxs
    <3>2. QED
      BY <1>3, <2>2, <3>1
  <2>4. CASE r = ruleIdx
    <3>1. rules'[r].filtCondIdxs = Append(I, idx) /\ doc'[r].conds = Append(C, fc)
      BY <1>1, <1>5, <2>4 DEF RuleIdxs, RuleType, DocType
    <3> HIDE DEF I, C
    <3>2. Len(Append(I, idx)) = Len(Append(C, fc))
      BY <2>1, <2>2
    <3>3. ASSUME NEW k \in DOMAIN Append(C, fc)
          PROVE  /\ Append(I, idx)[k] \in DOMAIN filtConds'
                 /\ filtConds'[Append(I, idx)[k]] = Append(C, fc)[k]
      <4>1. CASE k \in DOMAIN C
        <5>1. Append(I, idx)[k] = I[k] /\ Append(C, fc)[k] = C[k]
          BY <2>1, <2>2, <4>1
        <5>2. QED
          BY <1>3, <2>2, <4>1, <5>1
      <4>2. CASE k \notin DOMAIN C
        <5>1. Append(I, idx)[k] = idx /\ Append(C, fc)[k] = fc
          BY <2>1, <2>2, <4>2
        <5>2. QED
          BY <1>1, <5>1
      <4>3. QED
        BY <4>1, <4>2
    <3>4. QED
      BY <3>1, <3>2, <3>3
  <2>5. QED
    BY <2>3, <2>4
<1>8. QED
  BY <1>4, <1>6, <1>7 DEF CondsAsWritten

LEMMA KeptConds == ASSUME CondsAsWritten, KeepsConds PROVE CondsAsWritten'
BY DEF CondsAsWritten, KeepsConds

LEMMA NewRuleConds == ASSUME TypeInv, CondsAsWritten, StartRule PROVE CondsAsWritten'
<1>1. rules' = Append(rules, NewRule) /\ doc' = Append(doc, [conds |-> <<>>, phases |-> {}])
      /\ filtConds' = filtConds
  BY DEF StartRule
<1>2. rules \in Seq(RuleType) /\ doc \in Seq(DocType) /\ Len(doc) = Len(rules)
  BY DEF TypeInv, RuleTypes
<1>3. \A r \in RuleIdxs' : \/ r \in RuleIdxs /\ rules'[r] = rules[r] /\ doc'[r] = doc[r]
                           \/ rules'[r] = NewRule /\ doc'[r] = [conds |-> <<>>, phases |-> {}]
  BY <1>1, <1>2 DEF RuleIdxs
<1>4. QED
  <2>1. ASSUME NEW r \in RuleIdxs'
        PROVE  /\ Len(rules'[r].filtCondIdxs) = Len(doc'[r].conds)
               /\ \A k \in DOMAIN doc'[r].conds :
                    /\ rules'[r].filtCondIdxs[k] \in DOMAIN filtConds
                    /\ filtConds[rules'[r].filtCondIdxs[k]] = doc'[r].conds[k]
    <3>1. CASE r \in RuleIdxs /\ rules'[r] = rules[r] /\ doc'[r] = doc[r]
      BY <3>1 DEF CondsAsWritten
    <3>2. CASE rules'[r] = NewRule /\ doc'[r] = [conds |-> <<>>, phases |-> {}]
      BY <3>2 DEF NewRule
    <3>3. QED
      BY <1>3, <3>1, <3>2
  <2>2. QED
    BY <1>1, <2>1 DEF CondsAsWritten

LEMMA SlashFiltCond ==
  ASSUME TypeInv, StoreSlash
  PROVE  [phase |-> phase, module |-> cm, cond |-> slash] \in FiltConds
BY DEF StoreSlash, TypeInv, LocalTypes, PlaceInv, FiltConds

LEMMA ChildFiltCond ==
  ASSUME TypeInv, NEW c \in ChildType, Child(c)
  PROVE  [phase |-> phase, module |-> cm, cond |-> c.cond] \in FiltConds
BY DEF Child, TypeInv, LocalTypes, PlaceInv, FiltConds, ChildType

LEMMA CondsStep == TypeInv /\ CondsAsWritten /\ [Next]_vars => CondsAsWritten'
<1> SUFFICES ASSUME TypeInv, CondsAsWritten, [Next]_vars PROVE CondsAsWritten'
  OBVIOUS
<1>1. CASE StartRule
  BY <1>1, NewRuleConds
<1>2. CASE StoreSlash
  <2>1. at = "Module" /\ StoreUniqueFiltCond([phase |-> phase, module |-> cm, cond |-> slash])
    BY <1>2 DEF StoreSlash
  <2>2. QED
    BY <1>2, <2>1, SlashFiltCond, StoreConds
<1>3. ASSUME NEW c \in ChildType, Child(c) PROVE CondsAsWritten'
  <2>1. at = "Module" /\ StoreUniqueFiltCond([phase |-> phase, module |-> cm, cond |-> c.cond])
    BY <1>3 DEF Child
  <2>2. QED
    BY <1>3, <2>1, ChildFiltCond, StoreConds
<1>4. QED
  BY <1>1, <1>2, <1>3, StepKeepsConds, KeptConds

(* Every rule is filtered by the conditions of its elements, in their order *)
(* and for their phase, though equal conditions are stored once.            *)
(* (CondModule::storeUniqueFiltCond)                                        *)
THEOREM ConditionsAsWritten == Spec => []CondsAsWritten
<1>1. Init => TypeInv /\ CondsAsWritten
  <2>1. Init => CondsAsWritten
    BY DEF Init, CondsAsWritten, RuleIdxs
  <2>2. QED
    BY <2>1, InitType
<1>2. TypeInv /\ CondsAsWritten /\ [Next]_vars => TypeInv' /\ CondsAsWritten'
  BY StepType, CondsStep
<1>3. QED
  BY <1>1, <1>2, PTL DEF Spec

-----------------------------------------------------------------------------
(* The tables of the modules.                                               *)

(* No step takes a condition or a phase from the history of a rule. *)
DocGrows ==
  /\ RuleIdxs \subseteq RuleIdxs'
  /\ \A r \in RuleIdxs :
       /\ \A k \in DOMAIN doc[r].conds :
            k \in DOMAIN doc'[r].conds /\ doc'[r].conds[k] = doc[r].conds[k]
       /\ doc[r].phases \subseteq doc'[r].phases

LEMMA StoreDoc ==
  ASSUME TypeInv, at = "Module", NEW fc \in FiltConds, StoreUniqueFiltCond(fc)
  PROVE  /\ DocGrows /\ RuleIdxs' = RuleIdxs /\ ruleIdx' = ruleIdx
         /\ \E k \in DOMAIN doc'[ruleIdx].conds : doc'[ruleIdx].conds[k] = fc
<1>1. /\ ruleIdx \in RuleIdxs /\ DOMAIN doc = RuleIdxs
      /\ \A r \in RuleIdxs : doc[r] \in DocType
  BY RulesType DEF InRule, TypeInv, RuleTypes, RuleIdxs
<1>2. doc' = [doc EXCEPT ![ruleIdx].conds = Append(@, fc)]
  BY DEF StoreUniqueFiltCond
<1>3. RuleIdxs' = RuleIdxs /\ Len(rules') = Len(rules)
  <2>1. PICK idx : rules' = [rules EXCEPT ![ruleIdx].filtCondIdxs = Append(@, idx)]
    BY StoreEffect
  <2>2. QED
    BY <2>1 DEF TypeInv, RuleTypes, RuleIdxs
<1>4. \A r \in RuleIdxs : doc[r].conds \in Seq(FiltConds)
  BY <1>1 DEF DocType
<1>5. \A r \in RuleIdxs : r # ruleIdx => doc'[r] = doc[r]
  BY <1>1, <1>2
<1>6. doc'[ruleIdx].conds = Append(doc[ruleIdx].conds, fc) /\ doc'[ruleIdx].phases = doc[ruleIdx].phases
  BY <1>1, <1>2 DEF DocType
<1>7. \A k \in DOMAIN doc[ruleIdx].conds :
        k \in DOMAIN doc'[ruleIdx].conds /\ doc'[ruleIdx].conds[k] = doc[ruleIdx].conds[k]
  BY <1>1, <1>4, <1>6
<1>8. LET k == Len(doc[ruleIdx].conds) + 1 IN
      k \in DOMAIN doc'[ruleIdx].conds /\ doc'[ruleIdx].conds[k] = fc
  BY <1>1, <1>4, <1>6
<1>9. QED
  BY <1>3, <1>5, <1>6, <1>7, <1>8 DEF DocGrows, ruleIdx

LEMMA StepDoc == ASSUME TypeInv, [Next]_vars PROVE DocGrows
<1>1. CASE StartRule
  BY <1>1 DEF StartRule, DocGrows, TypeInv, RuleTypes, RuleIdxs
<1>2. CASE StoreSlash
  <2>1. at = "Module" /\ StoreUniqueFiltCond([phase |-> phase, module |-> cm, cond |-> slash])
    BY <1>2 DEF StoreSlash
  <2>2. QED
    BY <1>2, <2>1, SlashFiltCond, StoreDoc
<1>3. ASSUME NEW c \in ChildType, Child(c) PROVE DocGrows
  <2>1. at = "Module" /\ StoreUniqueFiltCond([phase |-> phase, module |-> cm, cond |-> c.cond])
    BY <1>3 DEF Child
  <2>2. QED
    BY <1>3, <2>1, ChildFiltCond, StoreDoc
<1>4. QED
  BY <1>1, <1>2, <1>3, StepKeepsConds DEF KeepsConds, DocGrows

(* A module is told of the current rule or of none, by a pattern for a      *)
(* table, *)
LEMMA StepTable ==
  ASSUME TypeInv, [Next]_vars, NEW m \in Modules, NEW p \in Phases
  PROVE  /\ table[m][p] \subseteq table'[m][p]
         /\ \A e \in table'[m][p] :
              e \notin table[m][p] =>
                \E c \in ChildType :
                  /\ Child(c) /\ c.kind = "table" /\ m = cm /\ p = phase
                  /\ e = <<ruleIdx, c.cond>>
<1>1. CASE table' = table
  BY <1>1
<1>2. CASE table' # table
  <2>1. PICK c \in ChildType : Child(c)
    BY <1>2, StepKeepsConds DEF KeepsConds, StartRule, StoreSlash, cmVars
  <2>2. c.kind = "table" /\ table' = TableWith(c)
    BY <1>2, <2>1 DEF Child
  <2>3. table'[m][p] = IF m = cm /\ p = phase THEN table[m][p] \cup {<<ruleIdx, c.cond>>} ELSE table[m][p]
    BY <2>1, <2>2 DEF TableWith, TypeInv, CmTypes
  <2>4. QED
    BY <2>1, <2>2, <2>3
<1>3. QED
  BY <1>1, <1>2

LEMMA TablesStep == TypeInv /\ TableEntriesFiltered /\ [Next]_vars => TableEntriesFiltered'
<1> SUFFICES ASSUME TypeInv, TableEntriesFiltered, [Next]_vars,
                    NEW m \in Modules, NEW p \in Phases, NEW e \in table'[m][p]
             PROVE  /\ e[1] \in RuleIdxs'
                    /\ \E k \in DOMAIN doc'[e[1]].conds :
                         doc'[e[1]].conds[k] = [phase |-> p, module |-> m, cond |-> e[2]]
  BY DEF TableEntriesFiltered
<1>1. CASE e \in table[m][p]
  BY <1>1, StepDoc DEF DocGrows, TableEntriesFiltered
<1>2. CASE e \notin table[m][p]
  <2>1. PICK c \in ChildType : Child(c) /\ m = cm /\ p = phase /\ e = <<ruleIdx, c.cond>>
    BY <1>2, StepTable
  <2> DEFINE fc == [phase |-> phase, module |-> cm, cond |-> c.cond]
  <2>2. at = "Module" /\ StoreUniqueFiltCond(fc)
    BY <2>1 DEF Child
  <2>3. fc \in FiltConds
    BY <2>1, ChildFiltCond
  <2>4. fc = [phase |-> p, module |-> m, cond |-> e[2]] /\ e[1] = ruleIdx
    BY <2>1
  <2> HIDE DEF fc
  <2>5. RuleIdxs' = RuleIdxs /\ \E k \in DOMAIN doc'[ruleIdx].conds : doc'[ruleIdx].conds[k] = fc
    BY <2>2, <2>3, StoreDoc
  <2>6. ruleIdx \in RuleIdxs
    BY <2>2, RulesType DEF InRule
  <2>7. QED
    BY <2>4, <2>5, <2>6
<1>3. QED
  BY <1>1, <1>2

(* A rule that a module finds by a table is then filtered by the condition  *)
(* it was found by.  (PathCondModule::parseXMLCond)                         *)
THEOREM TablesFiltered == Spec => []TableEntriesFiltered
<1>1. Init => TypeInv /\ TableEntriesFiltered
  <2>1. Init => TableEntriesFiltered
    BY DEF Init, TableEntriesFiltered
  <2>2. QED
    BY <2>1, InitType
<1>2. TypeInv /\ TableEntriesFiltered /\ [Next]_vars => TypeInv' /\ TableEntriesFiltered'
  BY StepType, TablesStep
<1>3. QED
  BY <1>1, <1>2, PTL DEF Spec

(* or as one that matches all requests. *)
LEMMA StepMatchAll ==
  ASSUME TypeInv, Told, [Next]_vars, NEW m \in Modules, NEW p \in Phases
  PROVE  /\ matchAll[m][p] \subseteq matchAll'[m][p]
         /\ \A r \in matchAll'[m][p] :
              r \notin matchAll[m][p] => r = ruleIdx /\ r \in RuleIdxs' /\ p \in doc'[r].phases
<1>1. CASE matchAll' = matchAll
  BY <1>1
<1>2. CASE EndRule
  <2> DEFINE q == rules[ruleIdx].condPhase
  <2>1. ruleIdx \in RuleIdxs /\ DOMAIN doc = RuleIdxs /\ rules[ruleIdx] \in RuleType /\ doc[ruleIdx] \in DocType
    BY <1>2, RulesType DEF EndRule, Go, InRule, TypeInv, RuleTypes, RuleIdxs
  <2>2. q \in Phases
    BY <2>1 DEF RuleType
  <2>3. MatchAllReqs(Modules \ condUsage, ruleIdx, q) /\ q \in doc'[ruleIdx].phases
    BY <1>2, <2>1 DEF EndRule, DocType
  <2> HIDE DEF q
  <2>4. ruleIdx \in RuleIdxs'
    BY <1>2, <2>1 DEF EndRule, RuleIdxs
  <2>5. QED
    <3>1. matchAll'[m][p] = IF m \in Modules \ condUsage /\ p = q THEN matchAll[m][p] \cup {ruleIdx}
                            ELSE matchAll[m][p]
      BY <2>1, <2>2, <2>3 DEF MatchAllReqs, TypeInv, CmTypes
    <3>2. QED
      BY <2>3, <2>4, <3>1
<1>3. CASE EndModule \/ \E c \in ChildType : Child(c)
  <2>1. CASE UNCHANGED matchAll
    BY <2>1, <1>1
  <2>2. CASE MatchAllReqs({cm}, ruleIdx, phase)
    <3>1. at = "Module" /\ cm \in Modules /\ phase \in Phases /\ ruleIdx \in RuleIdxs
      BY <1>3, RulesType DEF EndModule, Child, Go, TypeInv, PlaceInv, LocalTypes, InRule
    <3>2. phase \in doc'[ruleIdx].phases /\ ruleIdx \in RuleIdxs'
      BY <3>1, StepDoc DEF Told, DocGrows
    <3>3. QED
      <4>1. matchAll'[m][p] = IF m \in {cm} /\ p = phase THEN matchAll[m][p] \cup {ruleIdx}
                              ELSE matchAll[m][p]
        BY <2>2, <3>1 DEF MatchAllReqs, TypeInv, CmTypes
      <4>2. QED
        BY <3>2, <4>1
  <2>3. QED
    BY <1>3, <2>1, <2>2 DEF EndModule, Child
<1>4. CASE UNCHANGED vars
  BY <1>1, <1>4 DEF vars, cmVars
<1>5. QED
  BY <1>1, <1>2, <1>3, <1>4, ChildTypeOf DEF Next, AddFiles, EndGlobs, OpenFile, EndFile, PostProc, Fail,
     Section, EndSection, StartRule, StartConditions, StartActions, EndConditions, EndActions,
     StartModule, StoreSlash, AddAction, AddPreAction, AddDefn, SetErrHandler, BuildPhases, cmVars

LEMMA StoreSlashLen == ASSUME TypeInv, StoreSlash PROVE Len(rules') = Len(rules)
<1>1. at = "Module" /\ StoreUniqueFiltCond([phase |-> phase, module |-> cm, cond |-> slash])
  BY DEF StoreSlash
<1>2. QED
  BY <1>1, SlashFiltCond, StoreDoc DEF ruleIdx

LEMMA ChildLen == ASSUME TypeInv, NEW c \in ChildType, Child(c) PROVE Len(rules') = Len(rules)
<1>1. at = "Module" /\ StoreUniqueFiltCond([phase |-> phase, module |-> cm, cond |-> c.cond])
  BY DEF Child
<1>2. QED
  BY <1>1, ChildFiltCond, StoreDoc DEF ruleIdx

LEMMA ToldStep == TypeInv /\ Told /\ [Next]_vars => Told'
<1> SUFFICES ASSUME TypeInv, Told, [Next]_vars PROVE Told'
  OBVIOUS
<1>1. ASSUME NEW m \in Modules, NEW p \in Phases, NEW r \in matchAll'[m][p]
      PROVE  r \in RuleIdxs' /\ p \in doc'[r].phases
  BY StepMatchAll, StepDoc DEF Told, DocGrows
<1>2. ASSUME NEW m \in Modules, NEW p \in Phases, NEW e \in table'[m][p]
      PROVE  e[1] \in RuleIdxs' /\ p \in doc'[e[1]].phases
  <2>1. CASE e \in table[m][p]
    BY <2>1, StepDoc DEF Told, DocGrows
  <2>2. CASE e \notin table[m][p]
    <3>1. at = "Module" /\ e[1] = ruleIdx /\ p = phase
      <4>1. PICK c \in ChildType : Child(c) /\ p = phase /\ e = <<ruleIdx, c.cond>>
        BY <2>2, StepTable
      <4>2. QED
        BY <4>1 DEF Child
    <3>2. QED
      BY <3>1, RulesType, StepDoc DEF InRule, Told, DocGrows
  <2>3. QED
    BY <2>1, <2>2
<1>3. ASSUME at' = "Module" PROVE phase' \in doc'[ruleIdx'].phases
  <2>1. CASE \E m \in Modules : StartModule(m)
    <3>1. ruleIdx \in RuleIdxs /\ DOMAIN doc = RuleIdxs /\ doc[ruleIdx] \in DocType
      BY <2>1, RulesType DEF StartModule, Go, InRule, TypeInv, RuleTypes
    <3>2. doc' = [doc EXCEPT ![ruleIdx].phases = @ \cup {phase}] /\ UNCHANGED <<phase, rules>>
      BY <2>1 DEF StartModule
    <3>3. QED
      BY <3>1, <3>2 DEF DocType, ruleIdx
  <2>2. CASE at = "Module" /\ UNCHANGED phase /\ Len(rules') = Len(rules)
    BY <2>2, RulesType, StepDoc DEF InRule, Told, DocGrows, ruleIdx
  <2>3. CASE StoreSlash
    BY <2>3, <2>2, StoreSlashLen DEF StoreSlash
  <2>4. ASSUME NEW c \in ChildType, Child(c) PROVE at = "Module" /\ UNCHANGED phase /\ Len(rules') = Len(rules)
    BY <2>4, ChildLen DEF Child
  <2>5. CASE UNCHANGED vars
    BY <1>3, <2>5, <2>2 DEF vars, localVars, ruleVars
  <2>6. QED
    BY <1>3, <2>1, <2>2, <2>3, <2>4, <2>5, ChildTypeOf DEF Next, AddFiles, EndGlobs, OpenFile, EndFile, PostProc, Fail,
       Section, EndSection, Sections, StartRule, EndRule, StartConditions, StartActions, EndConditions, EndActions,
       EndModule, AddAction, AddPreAction, AddDefn, SetErrHandler, BuildPhases, Go
<1>4. QED
  BY <1>1, <1>2, <1>3 DEF Told

-----------------------------------------------------------------------------
(* Every module finds every rule.                                           *)

(* What is found stays found. *)
LEMMA StepFinds ==
  ASSUME TypeInv, Told, [Next]_vars, NEW m \in Modules, NEW p \in Phases, NEW r, Finds(m, p, r)
  PROVE  Finds(m, p, r)'
<1>1. matchAll[m][p] \subseteq matchAll'[m][p]
  BY StepMatchAll
<1>2. table[m][p] \subseteq table'[m][p]
  BY StepTable
<1>3. QED
  BY <1>1, <1>2 DEF Finds

(* Where a step leads that neither begins nor ends a rule or a module's     *)
(* element.                                                                 *)
LEMMA StepPlace ==
  ASSUME TypeInv, [Next]_vars, ~StartRule, ~EndRule, ~EndModule, ~ctorError'
  PROVE  /\ ~ctorError /\ (at' \in InRule <=> at \in InRule) /\ UNCHANGED condUsage
         /\ RuleIdxs' = RuleIdxs /\ ruleIdx' = ruleIdx
<1>1. CASE StoreSlash
  <2>1. at = "Module" /\ StoreUniqueFiltCond([phase |-> phase, module |-> cm, cond |-> slash])
    BY <1>1 DEF StoreSlash
  <2>2. RuleIdxs' = RuleIdxs /\ ruleIdx' = ruleIdx
    BY <1>1, <2>1, SlashFiltCond, StoreDoc
  <2>3. QED
    BY <1>1, <2>2 DEF StoreSlash, fileVars
<1>2. ASSUME NEW c \in ChildType, Child(c)
      PROVE  /\ ~ctorError /\ (at' \in InRule <=> at \in InRule) /\ UNCHANGED condUsage
             /\ RuleIdxs' = RuleIdxs /\ ruleIdx' = ruleIdx
  <2>1. at = "Module" /\ StoreUniqueFiltCond([phase |-> phase, module |-> cm, cond |-> c.cond])
    BY <1>2 DEF Child
  <2>2. RuleIdxs' = RuleIdxs /\ ruleIdx' = ruleIdx
    BY <1>2, <2>1, ChildFiltCond, StoreDoc
  <2>3. QED
    BY <1>2, <2>2 DEF Child
<1>3. CASE ~StoreSlash /\ ~ \E c \in ChildType : Child(c)
  <2>1. RuleIdxs' = RuleIdxs /\ ruleIdx' = ruleIdx
    BY <1>3, StepKeepsConds DEF KeepsConds, ruleIdx
  <2>2. ~ctorError /\ (at' \in InRule <=> at \in InRule) /\ UNCHANGED condUsage
    <3>1. CASE UNCHANGED vars
      BY <3>1 DEF vars, fileVars, ruleVars
    <3>2. CASE EndGlobs \/ OpenFile \/ EndFile \/ PostProc \/ BuildPhases
               \/ \E name \in Sections : Section(name) \/ EndSection(name)
      BY <3>2 DEF EndGlobs, OpenFile, EndFile, PostProc, BuildPhases, Section, EndSection, Sections, Go,
         InRule, fileVars, ruleVars
    <3>3. CASE \E isGlob \in BOOLEAN, n \in 0 .. MaxFiles : AddFiles(isGlob, n)
      BY <3>3 DEF AddFiles, ruleVars
    <3>4. CASE EndConditions \/ EndActions \/ \E p \in Phases : StartConditions(p) \/ StartActions(p)
      BY <3>4 DEF EndConditions, EndActions, StartConditions, StartActions, Go, InRule, fileVars, ruleVars
    <3>5. CASE AddAction \/ \E m \in Modules : StartModule(m)
      BY <3>5 DEF AddAction, StartModule, Go, InRule
    <3>6. CASE AddPreAction \/ AddDefn \/ \E kind \in {"Script", "ScriptFile"} : SetErrHandler(kind)
      BY <3>6 DEF AddPreAction, AddDefn, SetErrHandler, ruleVars
    <3>7. QED
      BY <1>3, <3>1, <3>2, <3>3, <3>4, <3>5, <3>6, ChildTypeOf DEF Next, Fail
  <2>3. QED
    BY <2>1, <2>2
<1>4. QED
  BY <1>1, <1>2, <1>3

KnownRule(r, m) == \E p \in doc[r].phases : Finds(m, p, r)

LEMMA StepKnownRule ==
  ASSUME TypeInv, Told, [Next]_vars, NEW r \in RuleIdxs, NEW m \in Modules, KnownRule(r, m)
  PROVE  KnownRule(r, m)'
<1>1. PICK p \in doc[r].phases : Finds(m, p, r)
  BY DEF KnownRule
<1>2. p \in Phases
  <2>1. doc[r] \in DocType
    BY RulesType DEF TypeInv, RuleTypes
  <2>2. QED
    BY <2>1 DEF DocType
<1>3. p \in doc'[r].phases
  BY StepDoc DEF DocGrows
<1>4. Finds(m, p, r)'
  BY <1>1, <1>2, StepFinds
<1>5. QED
  BY <1>3, <1>4 DEF KnownRule

LEMMA EndRuleKnown ==
  ASSUME TypeInv, Told, Known, EndRule, ~ctorError, NEW m \in Modules
  PROVE  KnownRule(ruleIdx, m)'
<1> DEFINE q == rules[ruleIdx].condPhase
<1>1. ruleIdx \in RuleIdxs /\ DOMAIN doc = RuleIdxs /\ rules[ruleIdx] \in RuleType /\ doc[ruleIdx] \in DocType
  BY RulesType DEF EndRule, Go, InRule, TypeInv, RuleTypes, RuleIdxs
<1>2. q \in Phases
  BY <1>1 DEF RuleType
<1>3. MatchAllReqs(Modules \ condUsage, ruleIdx, q) /\ q \in doc'[ruleIdx].phases /\ UNCHANGED rules
  BY <1>1 DEF EndRule, DocType
<1>4. CASE m \in condUsage
  <2>1. KnownRule(ruleIdx, m)
    BY <1>1, <1>4 DEF Known, KnownRule
  <2>2. KnownRule(ruleIdx, m)'
    <3>1. [Next]_vars
      BY DEF Next
    <3>2. ASSUME NEW r \in RuleIdxs, KnownRule(r, m) PROVE KnownRule(r, m)'
      BY <3>1, <3>2, StepKnownRule
    <3>3. \A r : KnownRule(r, m)' <=> \E p \in doc'[r].phases : Finds(m, p, r)'
      BY DEF KnownRule
    <3>4. QED
      BY <1>1, <1>3, <2>1, <3>2 DEF ruleIdx
  <2>3. QED
    BY <2>2
<1>5. CASE m \notin condUsage
  <2> HIDE DEF q
  <2>1. ruleIdx \in matchAll'[m][q]
    BY <1>2, <1>3, <1>5 DEF MatchAllReqs, TypeInv, CmTypes
  <2>2. ruleIdx' = ruleIdx
    BY <1>3 DEF ruleIdx
  <2>3. QED
    BY <1>3, <2>1, <2>2 DEF KnownRule, Finds
<1>6. QED
  BY <1>4, <1>5

LEMMA EndModuleKnown ==
  ASSUME TypeInv, Told, Known, EndModule
  PROVE  KnownRule(ruleIdx, cm)'
<1>1. at = "Module" /\ cm \in Modules /\ phase \in Phases /\ phase \in doc[ruleIdx].phases
      /\ UNCHANGED <<rules, doc, cm, phase>>
  BY DEF EndModule, Go, TypeInv, PlaceInv, LocalTypes, Told, localVars
<1>2. Finds(cm, phase, ruleIdx)'
  <2>1. CASE narrowing
    <3>1. Finds(cm, phase, ruleIdx) /\ UNCHANGED <<matchAll, table>>
      BY <1>1, <2>1 DEF EndModule, Known
    <3>2. QED
      BY <1>1, <3>1 DEF Finds, ruleIdx
  <2>2. CASE ~narrowing
    <3>1. ruleIdx \in matchAll'[cm][phase]
      BY <1>1, <2>2 DEF EndModule, MatchAllReqs, TypeInv, CmTypes
    <3>2. QED
      BY <1>1, <3>1 DEF Finds, ruleIdx
  <2>3. QED
    BY <2>1, <2>2
<1>3. ruleIdx' = ruleIdx
  BY <1>1 DEF ruleIdx
<1>4. QED
  BY <1>1, <1>2, <1>3 DEF KnownRule

(* The first part of Known. *)
LEMMA KnownStep1 ==
  ASSUME TypeInv, Told, Known, [Next]_vars, ~ctorError',
         NEW r \in RuleIdxs', NEW m \in Modules,
         r < ruleIdx' \/ at' \notin InRule \/ m \in condUsage'
  PROVE  KnownRule(r, m)'
<1>1. \A x \in RuleIdxs, y \in Modules :
        ~ctorError /\ (x < ruleIdx \/ at \notin InRule \/ y \in condUsage) => KnownRule(x, y)
  BY DEF Known, KnownRule
<1>2. CASE StartRule
  <2>1. ~ctorError /\ at \notin InRule /\ condUsage' = {} /\ at' \in InRule
    BY <1>2 DEF StartRule, Go, InRule, fileVars
  <2>2. RuleIdxs = 1 .. Len(rules) /\ Len(rules) \in Nat
    BY DEF TypeInv, RuleTypes, RuleIdxs
  <2>3. rules' = Append(rules, NewRule) /\ rules \in Seq(RuleType)
    BY <1>2 DEF StartRule, TypeInv, RuleTypes
  <2>4. RuleIdxs' = 1 .. Len(rules) + 1 /\ ruleIdx' = Len(rules) + 1
    BY <2>2, <2>3 DEF RuleIdxs, ruleIdx
  <2>5. r \in RuleIdxs
    BY <2>1, <2>2, <2>4
  <2>6. QED
    BY <1>1, <2>1, <2>5, StepKnownRule
<1>3. CASE EndRule
  <2>1. ~ctorError /\ RuleIdxs' = RuleIdxs /\ ruleIdx' = ruleIdx
    BY <1>3 DEF EndRule, fileVars, RuleIdxs, ruleIdx
  <2>2. CASE r = ruleIdx
    <3>1. KnownRule(ruleIdx, m)'
      BY <1>3, <2>1, EndRuleKnown
    <3>2. \E p \in doc'[ruleIdx'].phases : Finds(m, p, ruleIdx)'
      BY <3>1 DEF KnownRule
    <3>3. QED
      BY <2>1, <2>2, <3>2 DEF KnownRule, Finds
  <2>3. CASE r # ruleIdx
    <3>1. r \in RuleIdxs /\ r < ruleIdx
      BY <2>1, <2>3, RulesType DEF TypeInv, RuleTypes
    <3>2. QED
      BY <1>1, <2>1, <3>1, StepKnownRule
  <2>4. QED
    BY <2>2, <2>3
<1>4. CASE EndModule
  <2>1. /\ ~ctorError /\ RuleIdxs' = RuleIdxs /\ ruleIdx' = ruleIdx /\ at \in InRule /\ at' \in InRule
        /\ condUsage' = condUsage \cup {cm} /\ UNCHANGED cm
    BY <1>4 DEF EndModule, Go, InRule, fileVars, localVars, RuleIdxs, ruleIdx
  <2>2. CASE r < ruleIdx \/ m \in condUsage
    BY <1>1, <2>1, <2>2, StepKnownRule
  <2>3. CASE ~(r < ruleIdx) /\ m = cm
    <3>1. r = ruleIdx
      BY <2>1, <2>3, RulesType DEF TypeInv, RuleTypes
    <3>2. \E p \in doc'[ruleIdx'].phases : Finds(cm, p, ruleIdx)'
      BY <1>4, EndModuleKnown DEF KnownRule
    <3>3. QED
      BY <2>1, <2>3, <3>1, <3>2 DEF KnownRule, Finds
  <2>4. QED
    BY <2>1, <2>2, <2>3
<1>5. CASE ~StartRule /\ ~EndRule /\ ~EndModule
  BY <1>1, <1>5, StepPlace, StepKnownRule
<1>6. QED
  BY <1>2, <1>3, <1>4, <1>5

(* The second part of Known. *)
LEMMA KnownStep2 ==
  ASSUME TypeInv, Told, Known, [Next]_vars, at' = "Module", narrowing'
  PROVE  Finds(cm, phase, ruleIdx)'
<1>1. ASSUME UNCHANGED <<cm, phase>>, ruleIdx' = ruleIdx, at = "Module", narrowing
      PROVE  Finds(cm, phase, ruleIdx)'
  <2>1. cm \in Modules /\ phase \in Phases /\ Finds(cm, phase, ruleIdx)
    BY <1>1 DEF TypeInv, PlaceInv, LocalTypes, Known
  <2>2. matchAll[cm][phase] \subseteq matchAll'[cm][phase] /\ table[cm][phase] \subseteq table'[cm][phase]
    BY <2>1, StepMatchAll, StepTable
  <2>3. QED
    BY <1>1, <2>1, <2>2 DEF Finds
<1>2. CASE StoreSlash
  <2>1. ruleIdx' = ruleIdx
    BY <1>2, StoreSlashLen DEF ruleIdx
  <2>2. QED
    BY <1>1, <1>2, <2>1 DEF StoreSlash
<1>3. CASE UNCHANGED vars
  BY <1>1, <1>3 DEF vars, localVars, ruleVars, ruleIdx
<1>4. ASSUME NEW c \in ChildType, Child(c) PROVE Finds(cm, phase, ruleIdx)'
  <2>1. UNCHANGED <<cm, phase>> /\ ruleIdx' = ruleIdx /\ at = "Module"
    BY <1>4, ChildLen DEF Child, ruleIdx
  <2>2. cm \in Modules /\ phase \in Phases
    BY <2>1 DEF TypeInv, PlaceInv, LocalTypes
  <2>3. CASE c.kind = "filter"
    BY <1>1, <1>4, <2>1, <2>3 DEF Child
  <2>4. CASE c.kind = "table"
    <3>1. <<ruleIdx, c.cond>> \in table'[cm][phase]
      BY <1>4, <2>2, <2>4 DEF Child, TableWith, TypeInv, CmTypes
    <3>2. c.cond \in Conds
      BY DEF ChildType
    <3>3. QED
      BY <2>1, <3>1, <3>2 DEF Finds
  <2>5. CASE c.kind = "all"
    <3>1. ruleIdx \in matchAll'[cm][phase]
      BY <1>4, <2>2, <2>5 DEF Child, MatchAllReqs, TypeInv, CmTypes
    <3>2. QED
      BY <2>1, <3>1 DEF Finds
  <2>6. QED
    BY <2>3, <2>4, <2>5 DEF ChildType
<1>5. QED
  BY <1>2, <1>3, <1>4, ChildTypeOf DEF Next, AddFiles, EndGlobs, OpenFile, EndFile, PostProc, Fail,
     Section, EndSection, Sections, StartRule, EndRule, StartConditions, StartActions, EndConditions,
     EndActions, StartModule, EndModule, AddAction, AddPreAction, AddDefn, SetErrHandler, BuildPhases, Go

LEMMA KnownStep == TypeInv /\ Told /\ Known /\ [Next]_vars => Known'
<1> SUFFICES ASSUME TypeInv, Told, Known, [Next]_vars PROVE Known'
  OBVIOUS
<1>1. ASSUME ~ctorError', NEW r \in RuleIdxs', NEW m \in Modules,
             r < ruleIdx' \/ at' \notin InRule \/ m \in condUsage'
      PROVE  \E p \in doc'[r].phases : Finds(m, p, r)'
  <2>1. KnownRule(r, m)'
    BY <1>1, KnownStep1
  <2>2. QED
    BY <2>1 DEF KnownRule
<1>2. at' = "Module" /\ narrowing' => Finds(cm, phase, ruleIdx)'
  BY KnownStep2
<1>3. QED
  BY <1>1, <1>2 DEF Known, Finds

LEMMA InitKnown == Init => Told /\ Known
BY DEF Init, Told, Known, RuleIdxs

(* What a rule's conditions are stored for are phases that the history has. *)
Stored ==
  \A r \in RuleIdxs : \A k \in DOMAIN doc[r].conds : doc[r].conds[k].phase \in doc[r].phases

LEMMA StoreStored ==
  ASSUME TypeInv, Told, Stored, at = "Module", NEW fc \in FiltConds, fc.phase = phase,
         StoreUniqueFiltCond(fc)
  PROVE  Stored'
<1>1. doc' = [doc EXCEPT ![ruleIdx].conds = Append(@, fc)]
  BY DEF StoreUniqueFiltCond
<1>2. /\ ruleIdx \in RuleIdxs /\ DOMAIN doc = RuleIdxs /\ RuleIdxs' = RuleIdxs
      /\ \A r \in RuleIdxs : doc[r] \in DocType
  BY StoreDoc, RulesType DEF InRule, TypeInv, RuleTypes
<1>3. ASSUME NEW r \in RuleIdxs, NEW k \in DOMAIN doc'[r].conds
      PROVE  doc'[r].conds[k].phase \in doc'[r].phases
  <2>1. CASE r # ruleIdx
    BY <1>1, <1>2, <1>3, <2>1 DEF Stored
  <2>2. CASE r = ruleIdx
    <3>1. doc'[r].conds = Append(doc[r].conds, fc) /\ doc'[r].phases = doc[r].phases
      BY <1>1, <1>2, <2>2 DEF DocType
    <3>2. doc[r].conds \in Seq(FiltConds)
      BY <1>2 DEF DocType
    <3>3. \/ k \in DOMAIN doc[r].conds /\ doc'[r].conds[k] = doc[r].conds[k]
          \/ doc'[r].conds[k] = fc
      BY <1>3, <3>1, <3>2
    <3>4. phase \in doc[r].phases
      BY <2>2 DEF Told
    <3>5. QED
      BY <3>1, <3>3, <3>4 DEF Stored
  <2>3. QED
    BY <2>1, <2>2
<1>4. QED
  BY <1>2, <1>3 DEF Stored

LEMMA StoredStep == TypeInv /\ Told /\ Stored /\ [Next]_vars => Stored'
<1> SUFFICES ASSUME TypeInv, Told, Stored, [Next]_vars PROVE Stored'
  OBVIOUS
<1>1. CASE StartRule
  <2>1. rules' = Append(rules, NewRule) /\ doc' = Append(doc, [conds |-> <<>>, phases |-> {}])
    BY <1>1 DEF StartRule
  <2>2. rules \in Seq(RuleType) /\ doc \in Seq(DocType) /\ Len(doc) = Len(rules)
    BY DEF TypeInv, RuleTypes
  <2>3. \A r \in RuleIdxs' : \/ r \in RuleIdxs /\ doc'[r] = doc[r]
                             \/ doc'[r] = [conds |-> <<>>, phases |-> {}]
    BY <2>1, <2>2 DEF RuleIdxs
  <2>4. QED
    BY <2>3 DEF Stored
<1>2. CASE StoreSlash
  <2>1. at = "Module" /\ StoreUniqueFiltCond([phase |-> phase, module |-> cm, cond |-> slash])
    BY <1>2 DEF StoreSlash
  <2>2. QED
    BY <1>2, <2>1, SlashFiltCond, StoreStored
<1>3. ASSUME NEW c \in ChildType, Child(c) PROVE Stored'
  <2>1. at = "Module" /\ StoreUniqueFiltCond([phase |-> phase, module |-> cm, cond |-> c.cond])
    BY <1>3 DEF Child
  <2>2. QED
    BY <1>3, <2>1, ChildFiltCond, StoreStored
<1>4. CASE KeepsConds
  <2>1. RuleIdxs' = RuleIdxs
    BY <1>4 DEF KeepsConds
  <2>2. ASSUME NEW r \in RuleIdxs
        PROVE  doc'[r].conds = doc[r].conds /\ doc[r].phases \subseteq doc'[r].phases
    BY <1>4, <2>2 DEF KeepsConds
  <2>3. QED
    BY <2>1, <2>2 DEF Stored
<1>5. QED
  BY <1>1, <1>2, <1>3, <1>4, StepKeepsConds

(* A rule of one phase is filtered by conditions of that phase alone, though *)
(* the rules share them: what RuleEngine assumes of the rules it is given.   *)
(* (Config::procXML_Conditions, CondModule::storeUniqueFiltCond)             *)
THEOREM OnePhaseFilters == Spec => []FilteredInPhase
<1>1. Init => TypeInv /\ Told /\ Stored /\ CondsAsWritten
  <2>1. Init => Stored /\ CondsAsWritten
    BY DEF Init, Stored, CondsAsWritten, RuleIdxs
  <2>2. QED
    BY <2>1, InitType, InitKnown
<1>2. TypeInv /\ Told /\ Stored /\ CondsAsWritten /\ [Next]_vars
      => TypeInv' /\ Told' /\ Stored' /\ CondsAsWritten'
  BY StepType, ToldStep, StoredStep, CondsStep
<1>3. TypeInv /\ Stored /\ CondsAsWritten => FilteredInPhase
  <2> SUFFICES ASSUME TypeInv, Stored, CondsAsWritten, NEW r \in RuleIdxs, OnePhase(r),
                      NEW k \in DOMAIN rules[r].filtCondIdxs
               PROVE  filtConds[rules[r].filtCondIdxs[k]].phase = rules[r].condPhase
    BY DEF FilteredInPhase
  <2>1. rules[r].filtCondIdxs \in Seq(Nat \ {0}) /\ doc[r].conds \in Seq(FiltConds)
    <3>1. r \in DOMAIN rules /\ r \in DOMAIN doc
      BY RulesType DEF RuleIdxs
    <3>2. rules[r] \in RuleType /\ doc[r] \in DocType
      BY <3>1 DEF TypeInv, RuleTypes
    <3>3. QED
      BY <3>2 DEF RuleType, DocType
  <2>2. Len(rules[r].filtCondIdxs) = Len(doc[r].conds)
    BY DEF CondsAsWritten
  <2>3. k \in DOMAIN doc[r].conds
    BY <2>1, <2>2
  <2>4. filtConds[rules[r].filtCondIdxs[k]] = doc[r].conds[k]
    BY <2>3 DEF CondsAsWritten
  <2>5. doc[r].conds[k].phase \in doc[r].phases
    BY <2>3 DEF Stored
  <2>6. QED
    BY <2>4, <2>5 DEF OnePhase
<1>4. QED
  BY <1>1, <1>2, <1>3, PTL DEF Spec

(* No rule is lost: when the configuration is loaded, each condition module *)
(* finds each rule that has its conditions in one phase.                    *)
(* (Config::procXML_Rule, CondModule::matchAllReqs)                         *)
THEOREM NoRuleLost == Spec => []EveryModuleFinds
<1>1. Init => TypeInv /\ Told /\ Known
  BY InitType, InitKnown
<1>2. TypeInv /\ Told /\ Known /\ [Next]_vars => TypeInv' /\ Told' /\ Known'
  BY StepType, ToldStep, KnownStep
<1>3. TypeInv /\ Known => EveryModuleFinds
  <2> SUFFICES ASSUME TypeInv, Known, Loaded, NEW r \in RuleIdxs, OnePhase(r), NEW m \in Modules
               PROVE  Finds(m, rules[r].condPhase, r)
    BY DEF EveryModuleFinds
  <2>1. PICK p \in doc[r].phases : Finds(m, p, r)
    BY DEF Known, Loaded, InRule
  <2>2. QED
    BY <2>1 DEF OnePhase
<1>4. QED
  BY <1>1, <1>2, <1>3, PTL DEF Spec

-----------------------------------------------------------------------------
(* What the end of the constructor leaves.                                  *)

LEMMA StepToEnd ==
  ASSUME [Next]_vars, at' \in {"phases", "done"}
  PROVE  UNCHANGED vars \/ PostProc \/ Fail \/ BuildPhases
<1>1. CASE Next
  BY <1>1, ChildTypeOf DEF Next, AddFiles, EndGlobs, OpenFile, EndFile,
     Section, EndSection, Sections, StartRule, EndRule, StartConditions, StartActions, EndConditions,
     EndActions, StartModule, Child, StoreSlash, EndModule, AddAction, AddPreAction, AddDefn,
     SetErrHandler, Go
<1>2. QED
  BY <1>1

LEMMA BuiltStep == TypeInv /\ Built /\ [Next]_vars => Built'
<1> SUFFICES ASSUME TypeInv, Built, [Next]_vars, at' \in {"phases", "done"} PROVE Built'
  BY DEF Built
<1>1. CASE UNCHANGED vars
  BY <1>1 DEF vars, fileVars, ruleVars, cmVars, phaseVars, Built, RuleIdxs, CondPhases, ActionPhases
<1>2. CASE PostProc
  <2>1. at' = "phases" /\ UNCHANGED <<matchAll>>
        /\ mariSize' = [m \in Modules |-> [p \in Phases |-> UniqueSize(m, p)]]
    BY <1>2 DEF PostProc, Go
  <2>2. \A m \in Modules : \A p \in Phases : mariSize'[m][p] = Cardinality(matchAll'[m][p])
    BY <2>1 DEF UniqueSize
  <2>3. QED
    BY <2>1, <2>2 DEF Built
<1>3. CASE Fail
  BY <1>3 DEF Fail, Built
<1>4. CASE BuildPhases
  <2>1. at = "phases" /\ UNCHANGED <<ctorError, rules, matchAll, mariSize>>
    BY <1>4 DEF BuildPhases, Go, fileVars, ruleVars, cmVars
  <2>2. ~ctorError' => \A m \in Modules : \A p \in Phases : mariSize'[m][p] = Cardinality(matchAll'[m][p])
    BY <2>1 DEF Built
  <2>3. /\ \A p \in Phases : phaseRules'[p] = {r \in RuleIdxs : rules[r].condPhase = p}
        /\ usage' = [any |-> CondPhases \cup ActionPhases, conds |-> CondPhases, actions |-> ActionPhases]
    BY <1>4 DEF BuildPhases
  <2>4. RuleIdxs' = RuleIdxs /\ CondPhases' = CondPhases /\ ActionPhases' = ActionPhases
    BY <2>1 DEF RuleIdxs, CondPhases, ActionPhases
  <2>5. QED
    BY <2>1, <2>2, <2>3, <2>4 DEF Built
<1>5. QED
  BY <1>1, <1>2, <1>3, <1>4, StepToEnd

LEMMA InitBuilt == Init => Built
BY DEF Init, Built

(* CondModule::lookup() may tell by the size of a vector that all rules of  *)
(* a phase match, if no rule has conditions in two phases.                  *)
THEOREM SizeTellsMatchAll == Spec => []MatchAllBySize
<1>1. Init => TypeInv /\ Told /\ Built
  BY InitType, InitKnown, InitBuilt
<1>2. TypeInv /\ Told /\ Built /\ [Next]_vars => TypeInv' /\ Told' /\ Built'
  BY StepType, ToldStep, BuiltStep
<1>3. TypeInv /\ Told /\ Built => MatchAllBySize
  <2> SUFFICES ASSUME TypeInv, Told, Built, Loaded, \A r \in RuleIdxs : OnePhase(r),
                      NEW m \in Modules, NEW p \in Phases,
                      mariSize[m][p] >= Cardinality(phaseRules[p])
               PROVE  phaseRules[p] \subseteq matchAll[m][p]
    BY DEF MatchAllBySize, SizeSaysMatchAll
  <2>1. phaseRules[p] = {r \in RuleIdxs : rules[r].condPhase = p}
    BY DEF Built, Loaded
  <2>2. matchAll[m][p] \subseteq phaseRules[p]
    BY <2>1 DEF Told, OnePhase
  <2>3. IsFiniteSet(phaseRules[p])
    BY <2>1, RulesType, FS_Subset
  <2>4. /\ Cardinality(matchAll[m][p]) <= Cardinality(phaseRules[p])
        /\ Cardinality(matchAll[m][p]) = Cardinality(phaseRules[p]) => matchAll[m][p] = phaseRules[p]
        /\ Cardinality(matchAll[m][p]) \in Nat /\ Cardinality(phaseRules[p]) \in Nat
    BY <2>2, <2>3, FS_Subset, FS_CardinalityType
  <2>5. mariSize[m][p] = Cardinality(matchAll[m][p])
    BY DEF Built, Loaded
  <2>6. QED
    BY <2>4, <2>5
<1>4. QED
  BY <1>1, <1>2, <1>3, PTL DEF Spec

(* lookupAndRun() passes over a phase only if no rule and no action has it. *)
(* (Config::Config)                                                         *)
THEOREM PhasesPassedOver == Spec => []IdlePhases
<1>1. Init => TypeInv /\ Built
  BY InitType, InitBuilt
<1>2. TypeInv /\ Built /\ [Next]_vars => TypeInv' /\ Built'
  BY StepType, BuiltStep
<1>3. TypeInv /\ Built => IdlePhases
  <2> SUFFICES ASSUME TypeInv, Built, Loaded, NEW r \in RuleIdxs
               PROVE  /\ \A p \in Phases : r \in phaseRules[p] <=> p = rules[r].condPhase
                      /\ rules[r].condPhase \in usage.any \cap usage.conds
                      /\ \A k \in DOMAIN rules[r].actions :
                           rules[r].actions[k] \in usage.any \cap usage.actions
    BY DEF IdlePhases
  <2>1. usage.any = CondPhases \cup ActionPhases /\ usage.conds = CondPhases /\ usage.actions = ActionPhases
    BY DEF Built, Loaded
  <2>2. rules[r].condPhase \in CondPhases
    BY DEF CondPhases
  <2>3. \A k \in DOMAIN rules[r].actions : rules[r].actions[k] \in ActionPhases
    BY DEF ActionPhases
  <2>4. \A p \in Phases : r \in phaseRules[p] <=> p = rules[r].condPhase
    BY DEF Built, Loaded
  <2>5. QED
    BY <2>1, <2>2, <2>3, <2>4
<1>4. QED
  BY <1>1, <1>2, <1>3, PTL DEF Spec

LEMMA PublishedStep == TypeInv /\ Published /\ [Next]_vars => Published'
<1> SUFFICES ASSUME TypeInv, Published, [Next]_vars PROVE Published'
  OBVIOUS
<1>1. CASE UNCHANGED vars
  BY <1>1 DEF vars, fileVars, luaVars, Published
<1>2. CASE PostProc
  BY <1>2 DEF PostProc, Go, Published, TypeInv, PlaceInv, fileVars
<1>3. CASE Fail
  BY <1>3 DEF Fail, Published, luaVars
<1>4. CASE BuildPhases
  BY <1>4 DEF BuildPhases, Go, Published, fileVars, luaVars
<1>5. CASE at' \notin {"phases", "done"}
  <2>1. (at \notin {"phases", "done"} /\ UNCHANGED published) \/ UNCHANGED vars
    BY <1>5, ChildTypeOf DEF Next, AddFiles, EndGlobs, OpenFile, EndFile, PostProc, Fail,
       Section, EndSection, Sections, StartRule, EndRule, StartConditions, StartActions, EndConditions,
       EndActions, StartModule, Child, StoreSlash, EndModule, AddAction, AddPreAction, AddDefn,
       SetErrHandler, BuildPhases, Go, luaVars
  <2>2. QED
    BY <1>1, <1>5, <2>1 DEF Published
<1>6. QED
  BY <1>1, <1>2, <1>3, <1>4, <1>5, StepToEnd

(* The Lua manager is told of the definitions of all files or of none.      *)
(* (Config::procXMLFiles)                                                   *)
THEOREM AllDefinitionsOrNone == Spec => []DefinitionsOfAllFiles
<1>1. Init => TypeInv /\ Published
  BY InitType DEF Init, Published
<1>2. TypeInv /\ Published /\ [Next]_vars => TypeInv' /\ Published'
  BY StepType, PublishedStep
<1>3. TypeInv /\ Published => DefinitionsOfAllFiles
  BY DEF Published, DefinitionsOfAllFiles, Loaded, TypeInv, LuaTypes
<1>4. QED
  BY <1>1, <1>2, <1>3, PTL DEF Spec

-----------------------------------------------------------------------------
(* A rule's conditions are stored as written, those of a rule of one phase  *)
(* for that phase, and it is entered into the tables by those only.         *)
THEOREM ConditionsStored == Spec => []CondsStored
BY ConditionsAsWritten, OnePhaseFilters, TablesFiltered, PTL DEF CondsStored

(* No rule is forgotten: each module finds it in its phase, and the phase   *)
(* is not passed over.                                                      *)
THEOREM AllRulesReached == Spec => []RulesReached
BY NoRuleLost, PhasesPassedOver, PTL DEF RulesReached

=============================================================================
