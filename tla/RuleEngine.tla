----------------------------- MODULE RuleEngine ------------------------------
(***************************************************************************)
(* One request going through the phases: Config::lookupAndRun() with       *)
(* lookupRules() and runActions(), and the ReqCtx they work on.            *)
(*                                                                         *)
(* In each phase the hook calls lookupAndRun().  It looks up the rules     *)
(* whose conditions belong to the phase and hold of the request, adds them *)
(* to the rules of earlier phases, and runs the actions those rules have   *)
(* for the phase.  An action may ask for another lookup, and may change    *)
(* the request that later lookups see.                                     *)
(*                                                                         *)
(* A rule is its index.  A request is a value: what conditions hold of it  *)
(* is given by the constants.  The index vectors are sets, walked in       *)
(* ascending order (MatchedIdxs.tla has the vectors themselves).  pc names *)
(* the place in lookupAndRun() and its callees.                            *)
(***************************************************************************)
EXTENDS Integers, Sequences, FiniteSets

CONSTANTS
  NumPhases,      \* Phases::numPhases()
  NumRules,       \* rules_.size()
  Reqs,           \* what a request can look like (uri, arguments, ...)
  NoReq,          \* "not cached" and "not looked up"
  Modules,        \* the condition modules
  FiltConds,      \* the indices of filtConds_
  MaxLookups,     \* RumMaxLookups
  CondPhase,      \* phase of each rule's <Conditions>
  FiltCondIdxs,   \* the sequence of filter conditions of each rule
  FiltPhase,      \* phase a filter condition was made for
  FiltHolds,      \* the requests a filter condition holds of
  FiltModule,     \* the module whose cached data it reads, or NoModule
  NoModule,       \* the filter condition reads the request itself
  MatchAllRules,  \* rules that do not use a module: it matches all requests
  Lookup2,        \* rules of a module's lookup2(), by request
  ActionPhase     \* the sequence of phases of each rule's actions

Phases == 0 .. NumPhases - 1
InvalidPhase == -1
Rules == 0 .. NumRules - 1

ASSUME SizesAssumption == NumPhases \in Nat \ {0} /\ NumRules \in Nat
ASSUME MaxLookupsAssumption == MaxLookups \in Int
ASSUME NoReqAssumption == NoReq \notin Reqs
ASSUME NoModuleAssumption == NoModule \notin Modules
ASSUME ModulesAssumption == Modules # {} /\ IsFiniteSet(Modules)  \* Config registers four
ASSUME RulesAssumption ==
  /\ CondPhase \in [Rules -> Phases]
  /\ FiltCondIdxs \in [Rules -> Seq(FiltConds)]
  /\ ActionPhase \in [Rules -> Seq(Phases)]
ASSUME CondsAssumption ==
  /\ FiltPhase \in [FiltConds -> Phases]
  /\ FiltHolds \in [FiltConds -> SUBSET Reqs]
  /\ FiltModule \in [FiltConds -> Modules \cup {NoModule}]
  /\ MatchAllRules \in [Modules -> SUBSET Rules]
  /\ Lookup2 \in [Modules -> [Reqs -> SUBSET Rules]]

(* A rule's filter conditions are made for the phase of its <Conditions>.  *)
(* Config::procXML_Rule() ensures it for a rule with one such element.     *)
ASSUME OnePhaseAssumption ==
  \A r \in Rules : \A k \in DOMAIN FiltCondIdxs[r] :
    FiltPhase[FiltCondIdxs[r][k]] = CondPhase[r]

VARIABLES
  req,          \* the request as it is now
  phase,        \* the phase of the current or last call
  pc,           \* where lookupAndRun() is
  lookups,      \* i, the lookups done in this phase
  aStatus,      \* aStatus
  delayedOK,    \* delayedOK of runActions()
  at,           \* <<rule, action>> runActions() is at
  ret,          \* what lookupAndRun() returned last
  narr,         \* narrMatchedIdxs, less the rules already filtered
  todo,         \* the modules lookupRules() has still to ask
  firstLookup, curPhase, curRules, newRules, allRules, allValid,  \* ReqCtx
  filtMatches,  \* filtCondMatches_: the result, and the request it is about
  reqData,      \* the request each module's cached data was computed from
  seen,         \* history: the request each phase was last looked up with
  pass          \* history: the actions run since the last lookup

callVars == <<phase, pc, lookups, aStatus, delayedOK, at, ret>>
findVars == <<narr, todo>>
idxVars  == <<firstLookup, curPhase, curRules, newRules>>
allVars  == <<allRules, allValid>>
condVars == <<filtMatches, reqData>>
histVars == <<seen, pass>>
vars == <<req, callVars, findVars, idxVars, allVars, condVars, histVars>>

NoMatch == [holds |-> FALSE, of |-> NoReq]
Statuses == {"OK", "DELAYED_OK", "RELOOKUP", "DECLINED", "DEFAULT", "EGENERAL"}

PhaseRules(p)       == {r \in Rules : CondPhase[r] = p}
CondPhaseUsage(p)   == PhaseRules(p) # {}
ActionPhaseUsage(p) == \E r \in Rules : \E k \in DOMAIN ActionPhase[r] : ActionPhase[r][k] = p
PhaseUsage(p)       == CondPhaseUsage(p) \/ ActionPhaseUsage(p)

Least(S) == CHOOSE x \in S : \A y \in S : x <= y
LeastPair(S) ==
  CHOOSE x \in S : \A y \in S : x[1] < y[1] \/ (x[1] = y[1] /\ x[2] <= y[2])

-----------------------------------------------------------------------------
(* ReqCtx *)

Init ==
  /\ req \in Reqs
  /\ phase = InvalidPhase
  /\ pc = "idle"
  /\ lookups = 0
  /\ aStatus = "OK"
  /\ delayedOK = FALSE
  /\ at = <<-1, 0>>
  /\ ret = "DECLINED"
  /\ narr = {}
  /\ todo = {}
  /\ firstLookup = TRUE
  /\ curPhase = InvalidPhase
  /\ curRules = {}
  /\ newRules = {}
  /\ allRules = {}
  /\ allValid = FALSE
  /\ filtMatches = [c \in FiltConds |-> NoMatch]
  /\ reqData = [m \in Modules |-> NoReq]
  /\ seen = [p \in Phases |-> NoReq]
  /\ pass = <<>>

(* ReqCtx::ruleIdxs() merges the two vectors once after each change. *)
RuleIdxs == IF allValid THEN allRules ELSE curRules \cup newRules
CacheRuleIdxs ==
  /\ allRules' = RuleIdxs
  /\ allValid' = TRUE

(* Bug: the condition modules keep the data of the older request. *)
ResetKeepsData ==
  /\ firstLookup' = FALSE
  /\ IF firstLookup
     THEN UNCHANGED <<curPhase, curRules, newRules, allVars, condVars>>
     ELSE /\ filtMatches' = [c \in FiltConds |->
                               IF FiltPhase[c] = phase THEN NoMatch ELSE filtMatches[c]]
          /\ curPhase' = phase
          /\ curRules' = IF curPhase # phase THEN curRules \cup newRules ELSE curRules
          /\ newRules' = {}
          /\ allValid' = FALSE
          /\ UNCHANGED <<allRules, reqData>>

(* Bug: the matches of every phase are dropped. *)
ResetDropsMatches ==
  /\ firstLookup' = FALSE
  /\ IF firstLookup
     THEN UNCHANGED <<curPhase, curRules, newRules, allVars, condVars>>
     ELSE /\ filtMatches' = [c \in FiltConds |-> NoMatch]
          /\ reqData' = [m \in Modules |-> NoReq]
          /\ curPhase' = phase
          /\ curRules' = IF curPhase # phase THEN curRules \cup newRules ELSE curRules
          /\ newRules' = {}
          /\ allValid' = FALSE
          /\ UNCHANGED allRules

(* ReqCtx::resetForLookup(): the first lookup of a request resets nothing. *)
ResetForLookup ==
  /\ firstLookup' = FALSE
  /\ IF firstLookup
     THEN UNCHANGED <<curPhase, curRules, newRules, allVars, condVars>>
     ELSE /\ filtMatches' = [c \in FiltConds |->
                               IF FiltPhase[c] = phase THEN NoMatch ELSE filtMatches[c]]
          /\ reqData' = [m \in Modules |-> NoReq]
          /\ curPhase' = phase
          /\ curRules' = IF curPhase # phase THEN curRules \cup newRules ELSE curRules
          /\ newRules' = {}
          /\ allValid' = FALSE
          /\ UNCHANGED allRules

(* ReqCtx::addRuleIdx() *)
AddRuleIdx(r) ==
  /\ curPhase' = phase
  /\ curRules' = IF curPhase # phase THEN curRules \cup newRules ELSE curRules
  /\ newRules' = (IF curPhase # phase THEN {} ELSE newRules) \cup {r}
  /\ allValid' = FALSE
  /\ UNCHANGED <<firstLookup, allRules>>

(* A module's request data is computed when first asked for. *)
Data(m) == IF reqData[m] = NoReq THEN req ELSE reqData[m]

-----------------------------------------------------------------------------
(* The hook of phase p calls lookupAndRun(); Apache calls the hooks in this *)
(* order, and leaves some out when another module decides the request.      *)
EnterPhase(p) ==
  /\ pc = "idle"
  /\ p > phase
  /\ phase' = p
  /\ ret' = "DECLINED"
  /\ aStatus' = "OK"
  /\ lookups' = 0
  /\ pc' = IF PhaseUsage(p) THEN "loop" ELSE "idle"
  /\ UNCHANGED <<req, delayedOK, at, findVars, idxVars, allVars, condVars, histVars>>

(* What runActions() starts with. *)
BeginPass ==
  /\ pc' = "actions"
  /\ aStatus' = "DECLINED"
  /\ delayedOK' = FALSE
  /\ at' = <<-1, 0>>
  /\ pass' = <<>>

(* lookupRules() for a phase that has conditions. *)
BeginLookup ==
  /\ pc = "loop"
  /\ lookups < MaxLookups
  /\ CondPhaseUsage(phase)
  /\ pc' = "narrow"
  /\ ResetForLookup
  /\ narr' = PhaseRules(phase)
  /\ todo' = Modules
  /\ seen' = [seen EXCEPT ![phase] = req]
  /\ UNCHANGED <<req, phase, lookups, aStatus, delayedOK, at, ret, pass>>

(* In a phase that has only actions, lookupRules() does nothing. *)
NoLookup ==
  /\ pc = "loop"
  /\ lookups < MaxLookups
  /\ ~CondPhaseUsage(phase)
  /\ BeginPass
  /\ UNCHANGED <<req, phase, lookups, ret, findVars, idxVars, allVars, condVars, seen>>

(* CondModule::lookup() of one module, and the intersection.  The modules   *)
(* come in the order of a hash table, until no rule is left.                *)
Narrow(m) ==
  LET mari == MatchAllRules[m] \cap PhaseRules(phase)
      all  == mari = PhaseRules(phase)
      rest == IF all THEN narr ELSE narr \cap (Lookup2[m][Data(m)] \cup mari)
  IN
  /\ pc = "narrow"
  /\ m \in todo
  /\ narr' = rest
  /\ todo' = todo \ {m}
  /\ reqData' = IF all THEN reqData ELSE [reqData EXCEPT ![m] = Data(m)]
  /\ pc' = IF rest = {} \/ todo = {m} THEN "filter" ELSE "narrow"
  /\ UNCHANGED <<req, phase, lookups, aStatus, delayedOK, at, ret, idxVars, allVars,
                 filtMatches, histVars>>

(* The request a filter condition is evaluated on, and its result. *)
ReqOf(c) == IF FiltModule[c] \in Modules THEN Data(FiltModule[c]) ELSE req
Evaluated(c) ==
  IF filtMatches[c] # NoMatch
  THEN filtMatches[c]
  ELSE [holds |-> ReqOf(c) \in FiltHolds[c], of |-> ReqOf(c)]

(* The filter conditions of one rule, up to the first that does not hold. *)
FilterRule ==
  LET r     == Least(narr)
      conds == FiltCondIdxs[r]
      tried == {conds[k] : k \in {n \in DOMAIN conds :
                                    \A l \in 1 .. n - 1 : Evaluated(conds[l]).holds}}
  IN
  /\ pc = "filter"
  /\ narr # {}
  /\ narr' = narr \ {r}
  /\ filtMatches' = [c \in FiltConds |-> IF c \in tried THEN Evaluated(c) ELSE filtMatches[c]]
  /\ reqData' = [m \in Modules |->
                   IF \E c \in tried : FiltModule[c] = m /\ filtMatches[c] = NoMatch
                   THEN Data(m) ELSE reqData[m]]
  /\ IF \A k \in DOMAIN conds : Evaluated(conds[k]).holds
     THEN AddRuleIdx(r)
     ELSE UNCHANGED <<idxVars, allVars>>
  /\ UNCHANGED <<req, callVars, todo, histVars>>

EndLookup ==
  /\ pc = "filter"
  /\ narr = {}
  /\ BeginPass
  /\ UNCHANGED <<req, phase, lookups, ret, findVars, idxVars, allVars, condVars, seen>>

-----------------------------------------------------------------------------
(* The actions rules S have for phase p. *)
ActionsOf(S, p) ==
  UNION {{r} \X {k \in DOMAIN ActionPhase[r] : ActionPhase[r][k] = p} : r \in S}

(* Bug: only the first action of a rule runs. *)
DueNextRule == {x \in ActionsOf(RuleIdxs, phase) : at[1] < x[1]}

(* The actions runActions() has still to run: rule by rule, in the order of *)
(* the rule's own actions.                                                  *)
Due ==
  {x \in ActionsOf(RuleIdxs, phase) :
     at[1] < x[1] \/ (at[1] = x[1] /\ at[2] < x[2])}

StartAction ==
  /\ pc = "actions"
  /\ Due # {}
  /\ at' = LeastPair(Due)
  /\ pc' = "running"
  /\ CacheRuleIdxs
  /\ UNCHANGED <<req, phase, lookups, aStatus, delayedOK, ret, findVars, idxVars,
                 condVars, histVars>>

(* A running action reads a module's data (rum.path.tokens, ...) ... *)
ReadData(m) ==
  /\ pc = "running"
  /\ reqData' = [reqData EXCEPT ![m] = Data(m)]
  /\ UNCHANGED <<req, callVars, findVars, idxVars, allVars, filtMatches, histVars>>

(* ... or changes the request (rum.request.uri = ...), as other modules do  *)
(* between the phases.                                                      *)
ChangeReq(q) ==
  /\ pc \in {"running", "idle"}
  /\ req' = q
  /\ UNCHANGED <<callVars, findVars, idxVars, allVars, condVars, histVars>>

(* An action returns, and the others of the phase follow. *)
Continue(st) ==
  /\ pc = "running"
  /\ st \in {"DELAYED_OK", "DECLINED", "DEFAULT"}
  /\ pc' = "actions"
  /\ aStatus' = st
  /\ delayedOK' = (delayedOK \/ st = "DELAYED_OK")
  /\ pass' = Append(pass, <<at, st>>)
  /\ UNCHANGED <<req, phase, lookups, at, ret, findVars, idxVars, allVars, condVars, seen>>

(* Bug: the lookups are not counted. *)
RelookupUncounted ==
  /\ pc = "running"
  /\ pc' = "loop"
  /\ aStatus' = "RELOOKUP"
  /\ pass' = Append(pass, <<at, "RELOOKUP">>)
  /\ UNCHANGED <<req, phase, lookups, delayedOK, at, ret, findVars, idxVars, allVars,
                 condVars, seen>>

(* An action asks for another lookup: the rest of the pass is dropped. *)
Relookup ==
  /\ pc = "running"
  /\ pc' = "loop"
  /\ lookups' = lookups + 1
  /\ aStatus' = "RELOOKUP"
  /\ pass' = Append(pass, <<at, "RELOOKUP">>)
  /\ UNCHANGED <<req, phase, delayedOK, at, ret, findVars, idxVars, allVars, condVars, seen>>

(* An action returns OK or fails: so does the phase. *)
Finish(st) ==
  /\ pc = "running"
  /\ st \in {"OK", "EGENERAL"}
  /\ pc' = "idle"
  /\ aStatus' = st
  /\ ret' = st
  /\ pass' = Append(pass, <<at, st>>)
  /\ UNCHANGED <<req, phase, lookups, delayedOK, at, findVars, idxVars, allVars, condVars, seen>>

(* Bug: the status of the last action is returned to Apache as it is. *)
EndPassRaw ==
  /\ pc = "actions"
  /\ Due = {}
  /\ pc' = "idle"
  /\ aStatus' = IF delayedOK THEN "OK" ELSE aStatus
  /\ ret' = aStatus'
  /\ CacheRuleIdxs
  /\ UNCHANGED <<req, phase, lookups, delayedOK, at, findVars, idxVars, condVars, histVars>>

(* All actions have run.  A delayed OK counts now; otherwise the status of  *)
(* the last action does.                                                    *)
EndPass ==
  /\ pc = "actions"
  /\ Due = {}
  /\ pc' = "idle"
  /\ aStatus' = IF delayedOK THEN "OK" ELSE aStatus
  /\ ret' = IF aStatus' \in {"OK", "DELAYED_OK"} THEN "OK" ELSE "DECLINED"
  /\ CacheRuleIdxs
  /\ UNCHANGED <<req, phase, lookups, delayedOK, at, findVars, idxVars, condVars, histVars>>

(* RumMaxLookups is reached. *)
GiveUp ==
  /\ pc = "loop"
  /\ lookups >= MaxLookups
  /\ pc' = "idle"
  /\ ret' = IF aStatus \in {"OK", "DELAYED_OK"} THEN "OK" ELSE "DECLINED"
  /\ UNCHANGED <<req, phase, lookups, aStatus, delayedOK, at, findVars, idxVars, allVars,
                 condVars, histVars>>

(* The log statements of lookupAndRun() and lookupRules() call ruleIdxs(),  *)
(* if the log level asks for them.                                          *)
LogRuleIdxs ==
  /\ pc \in {"loop", "narrow", "filter", "actions"}
  /\ CacheRuleIdxs
  /\ UNCHANGED <<req, callVars, findVars, idxVars, condVars, histVars>>

-----------------------------------------------------------------------------
Lookup == BeginLookup \/ NoLookup \/ (\E m \in Modules : Narrow(m)) \/ FilterRule \/ EndLookup
Return == (\E st \in Statuses : Continue(st) \/ Finish(st)) \/ Relookup
Engine == Lookup \/ StartAction \/ Return \/ EndPass \/ GiveUp

Next ==
  \/ \E p \in Phases : EnterPhase(p)
  \/ \E m \in Modules : ReadData(m)
  \/ \E q \in Reqs : ChangeReq(q)
  \/ Engine
  \/ LogRuleIdxs

Spec == Init /\ [][Next]_vars

(* The thread of the request runs, and every action returns in the end. *)
FairSpec == Spec /\ WF_vars(Engine)

-----------------------------------------------------------------------------
TypeOK ==
  /\ req \in Reqs
  /\ phase \in Phases \cup {InvalidPhase}
  /\ pc \in {"idle", "loop", "narrow", "filter", "actions", "running"}
  /\ lookups \in Nat
  /\ aStatus \in Statuses
  /\ delayedOK \in BOOLEAN
  /\ at \in Int \X Nat
  /\ ret \in {"OK", "DECLINED", "EGENERAL"}
  /\ narr \subseteq Rules
  /\ todo \subseteq Modules
  /\ firstLookup \in BOOLEAN
  /\ curPhase \in Phases \cup {InvalidPhase}
  /\ curRules \subseteq Rules
  /\ newRules \subseteq Rules
  /\ allRules \subseteq Rules
  /\ allValid \in BOOLEAN
  /\ filtMatches \in [FiltConds -> [holds : BOOLEAN, of : Reqs \cup {NoReq}]]
  /\ reqData \in [Modules -> Reqs \cup {NoReq}]
  /\ seen \in [Phases -> Reqs \cup {NoReq}]
  /\ pass \in Seq((Int \X Nat) \X Statuses)

-----------------------------------------------------------------------------
(* The properties. *)

(* The rules of phase p that hold of request q. *)
Matching(p, q) ==
  {r \in PhaseRules(p) :
     /\ \A m \in Modules : r \in MatchAllRules[m] \cup Lookup2[m][q]
     /\ \A k \in DOMAIN FiltCondIdxs[r] : q \in FiltHolds[FiltCondIdxs[r][k]]}

Selected(p) == IF seen[p] = NoReq THEN {} ELSE Matching(p, seen[p])
InLookup == pc \in {"narrow", "filter"}

(* Whenever actions run, the rules in force are, for every phase that was   *)
(* looked up, exactly those that hold of the request as that phase's last   *)
(* lookup found it: no match left over from an earlier lookup, none lost    *)
(* when the next phase starts, none decided on cached data of an older      *)
(* request.  (lookupRules, resetForLookup, addRuleIdx)                      *)
RulesInForce == ~InLookup => curRules \cup newRules = UNION {Selected(p) : p \in Phases}

(* The merged vector is never used after the two it was merged from changed. *)
MergedRulesCurrent == allValid => allRules = curRules \cup newRules

(* What ruleIdxs() returns between lookups is what the lookups found.       *)
RulesCurrent == RulesInForce /\ MergedRulesCurrent

(* The filter conditions of a rule in force keep the match of the lookup    *)
(* that selected it: what an action reads from them (rum.path.captures) is  *)
(* of the request its rule was selected for, in every later phase too.      *)
CapturesOfSelection ==
  ~InLookup =>
    \A r \in curRules \cup newRules : \A k \in DOMAIN FiltCondIdxs[r] :
      filtMatches[FiltCondIdxs[r][k]] = [holds |-> TRUE, of |-> seen[CondPhase[r]]]

(* A pass that no action ended early has run every action that the rules in *)
(* force have for the phase, once, in the order of the rules and of each    *)
(* rule's actions.  (runActions)                                            *)
PassComplete ==
  [][pc = "actions" /\ pc' = "idle" =>
       /\ {pass[i][1] : i \in DOMAIN pass} = ActionsOf(curRules \cup newRules, phase)
       /\ \A i, j \in DOMAIN pass : i < j =>
            \/ pass[i][1][1] < pass[j][1][1]
            \/ pass[i][1][1] = pass[j][1][1] /\ pass[i][1][2] < pass[j][1][2]]_vars

(* What the pass ps says of the phase. *)
Answer(ps) ==
  LET given == {ps[i][2] : i \in DOMAIN ps}
      last  == ps[Len(ps)][2]
  IN  IF ps # <<>> /\ last = "EGENERAL" THEN "EGENERAL"
      ELSE IF ps # <<>> /\ last # "RELOOKUP" /\ given \cap {"OK", "DELAYED_OK"} # {} THEN "OK"
      ELSE "DECLINED"

(* The hook's answer is that of the actions run since the last lookup: OK   *)
(* if one said OK or delayed it, an error if one failed, and never the      *)
(* answer of an action whose pass a later lookup replaced.  (lookupAndRun)  *)
AnswerOfLastPass ==
  [][pc # "idle" /\ pc' = "idle" /\ MaxLookups > 0 => ret' = Answer(pass')]_vars

(* A hook has run what it should, and says what that said.                  *)
PassOutcome == PassComplete /\ AnswerOfLastPass

(* Every hook returns, whatever actions ask for another lookup. *)
CallReturns == pc # "idle" ~> pc = "idle"

=============================================================================
