-------------------------- MODULE RuleEngineProofs --------------------------
(***************************************************************************)
(* Proofs about RuleEngine for any rules, conditions, modules and phases.  *)
(***************************************************************************)
EXTENDS RuleEngine, FiniteSetTheorems, WellFoundedInduction, TLAPS

(***************************************************************************)
(* The walk in ascending order: a set of indices has a least one.          *)
(***************************************************************************)
LEMMA LeastNat ==
  ASSUME NEW S, S \subseteq Nat, S # {}
  PROVE  \E x \in S : \A y \in S : x <= y
<1> DEFINE R == OpToRel(<, Nat)
<1>1. PICK x \in S : \A y \in S : <<y, x>> \notin R
  <2> HIDE DEF R
  <2>1. IsWellFoundedOn(R, Nat)
    BY NatLessThanWellFounded, Zenon DEF R
  <2>2. QED
    BY <2>1, WFMin
<1>2. \A y \in S : ~(y < x)
  BY <1>1 DEF OpToRel
<1>3. \A y \in S : y \in Nat /\ x \in Nat
  OBVIOUS
<1>4. \A y \in S : x <= y
  BY <1>2, <1>3
<1>5. QED
  BY <1>4

LEMMA LeastIn ==
  ASSUME NEW S, S \subseteq Nat, S # {}
  PROVE  Least(S) \in S /\ \A y \in S : Least(S) <= y
BY LeastNat DEF Least

LEMMA LeastPairIn ==
  ASSUME NEW S, S \subseteq Nat \X Nat, S # {}
  PROVE  /\ LeastPair(S) \in S
         /\ \A y \in S : \/ LeastPair(S)[1] < y[1]
                         \/ LeastPair(S)[1] = y[1] /\ LeastPair(S)[2] <= y[2]
<1> DEFINE A == {x[1] : x \in S}
<1>1. A \subseteq Nat /\ A # {}
  OBVIOUS
<1>2. PICK a \in A : \A b \in A : a <= b
  <2> HIDE DEF A
  <2>1. QED
    BY <1>1, LeastNat
<1> DEFINE B == {x[2] : x \in {z \in S : z[1] = a}}
<1>3. B \subseteq Nat /\ B # {}
  BY <1>2
<1>4. PICK b \in B : \A c \in B : b <= c
  <2> HIDE DEF B
  <2>1. QED
    BY <1>3, LeastNat
<1>5. PICK x \in S : x[1] = a /\ x[2] = b
  BY <1>4
<1>6. ASSUME NEW y \in S PROVE x[1] < y[1] \/ (x[1] = y[1] /\ x[2] <= y[2])
  <2>1. y[1] \in A /\ a <= y[1] /\ y[1] \in Nat /\ y[2] \in Nat /\ a \in Nat
    BY <1>1, <1>2
  <2>2. y[1] = a => y[2] \in B /\ b <= y[2]
    BY <1>4
  <2>3. QED
    BY <2>1, <2>2, <1>5
<1>7. \E z \in S : \A y \in S : z[1] < y[1] \/ (z[1] = y[1] /\ z[2] <= y[2])
  BY <1>6
<1>8. QED
  BY <1>7 DEF LeastPair

-----------------------------------------------------------------------------
(* The walk of lookupRules() and runActions() stays inside the rules.      *)
LEMMA RulesNat == Rules \subseteq Nat
BY SizesAssumption DEF Rules

LEMMA ActionsTyped ==
  ASSUME NEW S \in SUBSET Rules, NEW p
  PROVE  ActionsOf(S, p) \subseteq Nat \X Nat
BY RulesNat, RulesAssumption DEF ActionsOf

LEMMA BeginTyped == <<-1, 0>> \in Int \X Nat /\ <<>> \in Seq((Int \X Nat) \X Statuses)
OBVIOUS

(* Every variable keeps its type. *)
LEMMA TypeInit == Init => TypeOK
<1> SUFFICES ASSUME Init PROVE TypeOK
  OBVIOUS
<1>1. NoMatch \in [holds : BOOLEAN, of : Reqs \cup {NoReq}]
  BY DEF NoMatch
<1>2. filtMatches \in [FiltConds -> [holds : BOOLEAN, of : Reqs \cup {NoReq}]]
  BY <1>1 DEF Init
<1>3. QED
  BY <1>2, BeginTyped DEF Init, TypeOK, Statuses

LEMMA DataTyped ==
  ASSUME TypeOK, NEW m \in Modules
  PROVE  Data(m) \in Reqs /\ [reqData EXCEPT ![m] = Data(m)] \in [Modules -> Reqs \cup {NoReq}]
BY DEF TypeOK, Data

LEMMA EvaluatedTyped ==
  ASSUME TypeOK, NEW c \in FiltConds
  PROVE  Evaluated(c) \in [holds : BOOLEAN, of : Reqs \cup {NoReq}]
<1>1. ReqOf(c) \in Reqs
  BY DataTyped DEF ReqOf, TypeOK
<1>2. QED
  BY <1>1 DEF Evaluated, TypeOK

LEMMA TypeStep == TypeOK /\ [Next]_vars => TypeOK'
<1> SUFFICES ASSUME TypeOK, [Next]_vars PROVE TypeOK'
  OBVIOUS
<1> USE DEF callVars, findVars, idxVars, allVars, condVars, histVars
<1>1. ASSUME NEW p \in Phases, EnterPhase(p) PROVE TypeOK'
  BY <1>1 DEF EnterPhase, TypeOK, Statuses
<1>2. ASSUME NEW m \in Modules, ReadData(m) PROVE TypeOK'
  BY <1>2, DataTyped DEF ReadData, TypeOK
<1>3. ASSUME NEW q \in Reqs, ChangeReq(q) PROVE TypeOK'
  BY <1>3 DEF ChangeReq, TypeOK
<1>4. CASE BeginLookup
  <2>1. filtMatches' \in [FiltConds -> [holds : BOOLEAN, of : Reqs \cup {NoReq}]]
    <3>1. NoMatch \in [holds : BOOLEAN, of : Reqs \cup {NoReq}]
      BY DEF NoMatch
    <3>2. QED
      BY <1>4, <3>1 DEF BeginLookup, ResetForLookup, TypeOK
  <2>2. QED
    BY <1>4, <2>1 DEF BeginLookup, ResetForLookup, TypeOK, PhaseRules
<1>5. CASE NoLookup
  BY <1>5, BeginTyped DEF NoLookup, BeginPass, TypeOK, Statuses
<1>6. ASSUME NEW m \in Modules, Narrow(m) PROVE TypeOK'
  BY <1>6, DataTyped DEF Narrow, TypeOK
<1>7. CASE FilterRule
  <2>1. Least(narr) \in Rules
    BY <1>7, LeastIn, RulesNat DEF FilterRule, TypeOK
  <2>2. narr' \subseteq Rules
    BY <1>7 DEF FilterRule, TypeOK
  <2>3. filtMatches' \in [FiltConds -> [holds : BOOLEAN, of : Reqs \cup {NoReq}]]
    BY <1>7, EvaluatedTyped DEF FilterRule, TypeOK
  <2>4. reqData' \in [Modules -> Reqs \cup {NoReq}]
    BY <1>7, DataTyped DEF FilterRule, TypeOK
  <2>5. /\ firstLookup' = firstLookup /\ allRules' = allRules /\ allValid' \in BOOLEAN
        /\ curPhase' \in Phases \cup {InvalidPhase} /\ curRules' \subseteq Rules
        /\ newRules' \subseteq Rules
    BY <1>7, <2>1 DEF FilterRule, AddRuleIdx, TypeOK
  <2>6. QED
    BY <1>7, <2>2, <2>3, <2>4, <2>5 DEF FilterRule, TypeOK
<1>8. CASE EndLookup
  BY <1>8, BeginTyped DEF EndLookup, BeginPass, TypeOK, Statuses
<1>9. CASE StartAction
  <2>1. Due \subseteq Nat \X Nat
    BY ActionsTyped DEF Due, RuleIdxs, TypeOK
  <2>2. at' \in Nat \X Nat
    BY <1>9, <2>1, LeastPairIn DEF StartAction
  <2>3. QED
    BY <1>9, <2>2 DEF StartAction, CacheRuleIdxs, RuleIdxs, TypeOK
<1>10. ASSUME NEW st \in Statuses, Continue(st) PROVE TypeOK'
  BY <1>10 DEF Continue, TypeOK
<1>11. ASSUME NEW st \in Statuses, Finish(st) PROVE TypeOK'
  BY <1>11 DEF Finish, TypeOK
<1>12. CASE Relookup
  BY <1>12 DEF Relookup, TypeOK, Statuses
<1>13. CASE EndPass
  BY <1>13 DEF EndPass, CacheRuleIdxs, RuleIdxs, TypeOK, Statuses
<1>14. CASE GiveUp
  BY <1>14 DEF GiveUp, TypeOK
<1>15. CASE LogRuleIdxs
  BY <1>15 DEF LogRuleIdxs, CacheRuleIdxs, RuleIdxs, TypeOK
<1>16. CASE UNCHANGED vars
  BY <1>16 DEF vars, TypeOK
<1>17. QED
  BY <1>1, <1>2, <1>3, <1>4, <1>5, <1>6, <1>7, <1>8, <1>9, <1>10, <1>11, <1>12, <1>13,
     <1>14, <1>15, <1>16 DEF Next, Engine, Lookup, Return

(* Every variable of a request's passage through the phases keeps its type. *)
THEOREM TypeCorrect == Spec => []TypeOK
BY TypeInit, TypeStep, PTL DEF Spec

-----------------------------------------------------------------------------
(* The invariant that keeps the rules in force right.  Rules are kept in    *)
(* two sets: those of the current phase (newRules) and those of the others  *)
(* (curRules).  Which phase is the current one is phase while a lookup is   *)
(* under way, and curPhase otherwise.                                       *)
Current == IF InLookup THEN phase ELSE curPhase

(* Rule r holds of the request its phase was last looked up with. *)
Fits(r) == r \in Selected(CondPhase[r])

(* The rules of the phase left when all modules but T have been asked. *)
Narrowed(T) ==
  {r \in PhaseRules(phase) : \A m \in Modules \ T : r \in MatchAllRules[m] \cup Lookup2[m][req]}

PhaseInv ==
  /\ curPhase = InvalidPhase => curRules = {} /\ newRules = {}
  /\ curPhase <= phase
  /\ curPhase \in Phases /\ curPhase # phase => seen[phase] = NoReq
  /\ \A p \in Phases : p > phase => seen[p] = NoReq
  /\ pc # "idle" => phase \in Phases
  /\ InLookup => curPhase \in {phase, InvalidPhase} /\ ~firstLookup /\ seen[phase] = req

(* Before the first lookup nothing was computed and no action has run. *)
FreshInv ==
  firstLookup =>
    /\ curPhase = InvalidPhase
    /\ pc # "running"
    /\ \A m \in Modules : reqData[m] = NoReq
    /\ \A c \in FiltConds : filtMatches[c] = NoMatch

RuleSetInv ==
  /\ curRules = {r \in Rules : CondPhase[r] # Current /\ Fits(r)}
  /\ ~InLookup => newRules = {r \in Rules : CondPhase[r] = Current /\ Fits(r)}
  /\ pc = "narrow" => newRules = {} /\ narr = Narrowed(todo)
  /\ pc = "filter" => narr \subseteq Narrowed({}) /\ newRules = Matching(phase, req) \ narr

(* During a lookup the modules' data is of the request looked up.           *)
DataInv == InLookup => \A m \in Modules : reqData[m] \in {NoReq, req}

(* A cached match is of the request that its phase was last looked up with. *)
MatchInv ==
  \A c \in FiltConds :
    \/ filtMatches[c] = NoMatch
    \/ filtMatches[c] = [holds |-> seen[FiltPhase[c]] \in FiltHolds[c], of |-> seen[FiltPhase[c]]]

(* The conditions of the rules in force keep their matches.                 *)
KeptInv ==
  \A r \in curRules \cup newRules : \A k \in DOMAIN FiltCondIdxs[r] :
    filtMatches[FiltCondIdxs[r][k]].holds

IInv ==
  /\ TypeOK /\ MergedRulesCurrent /\ PhaseInv /\ FreshInv
  /\ RuleSetInv /\ DataInv /\ MatchInv /\ KeptInv

(* Every other action leaves the rules alone. *)
Quiet ==
  /\ UNCHANGED <<firstLookup, curPhase, curRules, newRules, filtMatches, seen, narr, todo>>
  /\ InLookup' <=> InLookup
  /\ InLookup => UNCHANGED <<req, phase, pc, reqData>>

LEMMA Steps ==
  ASSUME [Next]_vars
  PROVE  \/ Quiet \/ BeginLookup \/ FilterRule \/ EndLookup
         \/ \E m \in Modules : Narrow(m)
<1> USE DEF callVars, findVars, idxVars, allVars, condVars, histVars, Quiet, InLookup
<1>1. ASSUME NEW p \in Phases, EnterPhase(p) PROVE Quiet
  BY <1>1 DEF EnterPhase
<1>2. ASSUME NEW m \in Modules, ReadData(m) PROVE Quiet
  BY <1>2 DEF ReadData
<1>3. ASSUME NEW q \in Reqs, ChangeReq(q) PROVE Quiet
  BY <1>3 DEF ChangeReq
<1>4. ASSUME NEW st, Continue(st) \/ Finish(st) PROVE Quiet
  BY <1>4 DEF Continue, Finish
<1>5. CASE NoLookup
  BY <1>5 DEF NoLookup, BeginPass
<1>6. CASE StartAction
  BY <1>6 DEF StartAction
<1>7. CASE Relookup
  BY <1>7 DEF Relookup
<1>8. CASE EndPass \/ GiveUp
  BY <1>8 DEF EndPass, GiveUp
<1>9. CASE LogRuleIdxs
  BY <1>9 DEF LogRuleIdxs
<1>10. CASE UNCHANGED vars
  BY <1>10 DEF vars
<1>11. QED
  BY <1>1, <1>2, <1>3, <1>4, <1>5, <1>6, <1>7, <1>8, <1>9, <1>10
     DEF Next, Engine, Lookup, Return

LEMMA InvInit == Init => IInv
<1> SUFFICES ASSUME Init PROVE IInv
  OBVIOUS
<1>1. TypeOK
  BY TypeInit
<1>2. ~InLookup /\ \A r \in Rules : CondPhase[r] \in Phases /\ seen[CondPhase[r]] = NoReq
  BY RulesAssumption DEF Init, InLookup
<1>3. RuleSetInv
  BY <1>2 DEF RuleSetInv, Fits, Selected, Init
<1>4. PhaseInv
  BY <1>2, SizesAssumption DEF PhaseInv, Init, InvalidPhase, Phases
<1>5. QED
  BY <1>1, <1>2, <1>3, <1>4
  DEF IInv, Init, MergedRulesCurrent, FreshInv, DataInv, MatchInv, KeptInv

(* The merged vector is never stale. *)
LEMMA MergedStep == TypeOK /\ MergedRulesCurrent /\ [Next]_vars => MergedRulesCurrent'
<1> SUFFICES ASSUME MergedRulesCurrent, [Next]_vars PROVE MergedRulesCurrent'
  OBVIOUS
<1> USE DEF MergedRulesCurrent, callVars, findVars, idxVars, allVars, condVars, histVars
<1>1. ASSUME NEW p \in Phases, EnterPhase(p) PROVE MergedRulesCurrent'
  BY <1>1 DEF EnterPhase
<1>2. ASSUME NEW m \in Modules, ReadData(m) \/ Narrow(m) PROVE MergedRulesCurrent'
  BY <1>2 DEF ReadData, Narrow
<1>3. ASSUME NEW q \in Reqs, ChangeReq(q) PROVE MergedRulesCurrent'
  BY <1>3 DEF ChangeReq
<1>4. ASSUME NEW st, Continue(st) \/ Finish(st) PROVE MergedRulesCurrent'
  BY <1>4 DEF Continue, Finish
<1>5. CASE NoLookup \/ EndLookup
  BY <1>5 DEF NoLookup, EndLookup, BeginPass
<1>6. CASE StartAction \/ EndPass \/ LogRuleIdxs
  BY <1>6 DEF StartAction, EndPass, LogRuleIdxs, CacheRuleIdxs, RuleIdxs
<1>7. CASE Relookup \/ GiveUp
  BY <1>7 DEF Relookup, GiveUp
<1>8. CASE BeginLookup
  BY <1>8 DEF BeginLookup, ResetForLookup
<1>9. CASE FilterRule
  BY <1>9 DEF FilterRule, AddRuleIdx
<1>10. CASE UNCHANGED vars
  BY <1>10 DEF vars
<1>11. QED
  BY <1>1, <1>2, <1>3, <1>4, <1>5, <1>6, <1>7, <1>8, <1>9, <1>10
     DEF Next, Engine, Lookup, Return

-----------------------------------------------------------------------------
LEMMA Distinct == InvalidPhase \notin Phases /\ Phases \subseteq Int /\ InvalidPhase \in Int
BY SizesAssumption DEF InvalidPhase, Phases

(* In a lookup, everything is computed from the request as it is. *)
LEMMA DataInLookup ==
  ASSUME IInv, InLookup, NEW m \in Modules
  PROVE  Data(m) = req
BY DEF IInv, DataInv, Data

LEMMA EvaluatedInLookup ==
  ASSUME IInv, InLookup, NEW c \in FiltConds, FiltPhase[c] = phase
  PROVE  Evaluated(c) = [holds |-> req \in FiltHolds[c], of |-> req]
<1>1. ReqOf(c) = req
  BY DataInLookup DEF ReqOf
<1>2. seen[phase] = req
  BY DEF IInv, PhaseInv
<1>3. QED
  BY <1>1, <1>2 DEF Evaluated, IInv, MatchInv

LEMMA HoldsOf ==
  \A b \in BOOLEAN : \A v : [holds |-> b, of |-> v].holds = b
OBVIOUS

(* What FilterRule finds out about the least rule left. *)
LEMMA FilteredRule ==
  ASSUME IInv, pc = "filter", narr # {}, NEW r, r = Least(narr)
  PROVE  /\ r \in narr /\ r \in Rules /\ CondPhase[r] = phase
         /\ \A k \in DOMAIN FiltCondIdxs[r] :
              /\ FiltCondIdxs[r][k] \in FiltConds
              /\ FiltPhase[FiltCondIdxs[r][k]] = phase
              /\ Evaluated(FiltCondIdxs[r][k]) =
                   [holds |-> req \in FiltHolds[FiltCondIdxs[r][k]], of |-> req]
         /\ (\A k \in DOMAIN FiltCondIdxs[r] : Evaluated(FiltCondIdxs[r][k]).holds)
               <=> r \in Matching(phase, req)
<1>1. r \in narr
  BY LeastIn, RulesNat DEF IInv, TypeOK
<1>2. r \in Narrowed({}) /\ r \in Rules /\ CondPhase[r] = phase /\ r \in PhaseRules(phase)
  BY <1>1 DEF IInv, RuleSetInv, Narrowed, PhaseRules
<1>3. ASSUME NEW k \in DOMAIN FiltCondIdxs[r]
      PROVE  FiltCondIdxs[r][k] \in FiltConds /\ FiltPhase[FiltCondIdxs[r][k]] = phase
  BY <1>2, RulesAssumption, OnePhaseAssumption
<1>4. ASSUME NEW k \in DOMAIN FiltCondIdxs[r]
      PROVE  Evaluated(FiltCondIdxs[r][k]) =
               [holds |-> req \in FiltHolds[FiltCondIdxs[r][k]], of |-> req]
  BY <1>3, EvaluatedInLookup DEF InLookup
<1>5. r \in Matching(phase, req)
        <=> \A k \in DOMAIN FiltCondIdxs[r] : req \in FiltHolds[FiltCondIdxs[r][k]]
  BY <1>2 DEF Matching, Narrowed
<1>6. (\A k \in DOMAIN FiltCondIdxs[r] : Evaluated(FiltCondIdxs[r][k]).holds)
        <=> r \in Matching(phase, req)
  <2>1. ASSUME NEW k \in DOMAIN FiltCondIdxs[r]
        PROVE  Evaluated(FiltCondIdxs[r][k]).holds <=> req \in FiltHolds[FiltCondIdxs[r][k]]
    <3> DEFINE b == req \in FiltHolds[FiltCondIdxs[r][k]]
               e == Evaluated(FiltCondIdxs[r][k])
    <3>1. b \in BOOLEAN
      OBVIOUS
    <3>2. e = [holds |-> b, of |-> req]
      BY <1>4
    <3> HIDE DEF b, e
    <3>3. e.holds = b
      BY <3>1, <3>2, HoldsOf, Zenon
    <3>4. e.holds <=> b
      BY <3>3, Zenon
    <3>5. QED
      BY <3>4 DEF b, e
  <2>2. QED
    BY <2>1, <1>5, Zenon
<1>7. QED
  BY <1>1, <1>2, <1>3, <1>4, <1>6

(* The phases are looked up in order, and curPhase follows them. *)
LEMMA PhaseStep == IInv /\ [Next]_vars => PhaseInv'
<1> SUFFICES ASSUME IInv, [Next]_vars PROVE PhaseInv'
  OBVIOUS
<1> USE Distinct DEF callVars, findVars, idxVars, allVars, condVars, histVars
<1>1. PhaseInv /\ FreshInv /\ TypeOK
  BY DEF IInv
<1>2. CASE BeginLookup
  BY <1>1, <1>2 DEF BeginLookup, ResetForLookup, PhaseInv, FreshInv, TypeOK, InLookup
<1>3. ASSUME NEW m \in Modules, Narrow(m) PROVE PhaseInv'
  BY <1>1, <1>3 DEF Narrow, PhaseInv, InLookup
<1>4. CASE FilterRule
  BY <1>1, <1>4 DEF FilterRule, AddRuleIdx, PhaseInv, TypeOK, InLookup
<1>5. CASE EndLookup
  BY <1>1, <1>5 DEF EndLookup, BeginPass, PhaseInv, InLookup
<1>6. ASSUME NEW p \in Phases, EnterPhase(p) PROVE PhaseInv'
  BY <1>1, <1>6 DEF EnterPhase, PhaseInv, TypeOK, InLookup
<1>7. ASSUME Quiet, ~\E p \in Phases : EnterPhase(p) PROVE PhaseInv'
  <2>1. phase' = phase /\ (pc' # "idle" => pc # "idle")
    <3>1. ASSUME NEW m \in Modules, ReadData(m) PROVE phase' = phase /\ pc' = pc
      BY <3>1 DEF ReadData
    <3>2. ASSUME NEW q \in Reqs, ChangeReq(q) PROVE phase' = phase /\ pc' = pc
      BY <3>2 DEF ChangeReq
    <3>3. ASSUME NEW m \in Modules, Narrow(m) PROVE phase' = phase /\ pc # "idle"
      BY <3>3 DEF Narrow
    <3>4. ASSUME NEW st, Continue(st) \/ Finish(st) PROVE phase' = phase /\ pc # "idle"
      BY <3>4 DEF Continue, Finish
    <3>5. CASE StartAction \/ Relookup \/ EndPass \/ GiveUp \/ FilterRule
      BY <3>5 DEF StartAction, Relookup, EndPass, GiveUp, FilterRule
    <3>6. CASE BeginLookup \/ NoLookup \/ EndLookup
      BY <3>6 DEF BeginLookup, NoLookup, EndLookup
    <3>7. CASE LogRuleIdxs
      BY <3>7 DEF LogRuleIdxs
    <3>8. CASE UNCHANGED vars
      BY <3>8 DEF vars
    <3>9. QED
      BY <1>7, <3>1, <3>2, <3>3, <3>4, <3>5, <3>6, <3>7, <3>8 DEF Next, Engine, Lookup, Return
  <2>2. QED
    BY <1>1, <1>7, <2>1 DEF PhaseInv, Quiet
<1>8. QED
  BY <1>2, <1>3, <1>4, <1>5, <1>6, <1>7, Steps

(* The rules in force, split by phase. *)
LEMMA RuleSetStep == IInv /\ [Next]_vars => RuleSetInv'
<1> SUFFICES ASSUME IInv, [Next]_vars PROVE RuleSetInv'
  OBVIOUS
<1> USE Distinct DEF callVars, findVars, idxVars, allVars, condVars, histVars
<1>1. PhaseInv /\ FreshInv /\ TypeOK /\ RuleSetInv
  BY DEF IInv
<1>2. \A r \in Rules : CondPhase[r] \in Phases
  BY RulesAssumption
<1>3. \A p \in Phases : \A r \in Selected(p) : r \in Rules /\ CondPhase[r] = p
  BY DEF Selected, Matching, PhaseRules
<1>4. CASE Quiet
  <2>1. (InLookup' <=> InLookup) /\ Current' = Current
    <3>1. CASE InLookup
      BY <1>4, <3>1 DEF Quiet, Current
    <3>2. CASE ~InLookup
      BY <1>4, <3>2 DEF Quiet, Current
    <3>3. QED
      BY <1>4, <3>1, <3>2 DEF Quiet
  <2>2. \A r : Fits(r)' = Fits(r)
    BY <1>4 DEF Quiet, Fits, Selected
  <2>3. CASE InLookup
    BY <1>1, <1>4, <2>1, <2>2, <2>3 DEF Quiet, RuleSetInv, Narrowed
  <2>4. CASE ~InLookup
    BY <1>1, <1>4, <2>1, <2>2, <2>4 DEF Quiet, RuleSetInv, InLookup
  <2>5. QED
    BY <2>3, <2>4
<1>5. CASE BeginLookup
  <2>1. pc = "loop" /\ ~InLookup /\ InLookup' /\ pc' = "narrow" /\ Current' = phase
        /\ Current = curPhase /\ phase \in Phases
    BY <1>1, <1>5 DEF BeginLookup, InLookup, Current, PhaseInv
  <2>2. \A r \in Rules : CondPhase[r] # phase => (Fits(r)' <=> Fits(r))
    BY <1>1, <1>2, <1>5 DEF BeginLookup, Fits, Selected, TypeOK
  <2>3. curRules' = {r \in Rules : CondPhase[r] # phase /\ Fits(r)}
    <3>1. CASE curPhase = InvalidPhase
      <4>1. curRules' = {} /\ \A r \in Rules : ~Fits(r)
        BY <1>1, <1>2, <1>5, <2>1, <3>1 DEF BeginLookup, ResetForLookup, PhaseInv, RuleSetInv
      <4>2. QED
        BY <4>1
    <3>2. CASE curPhase = phase
      BY <1>1, <1>5, <2>1, <3>2 DEF BeginLookup, ResetForLookup, RuleSetInv, FreshInv
    <3>3. CASE curPhase \in Phases /\ curPhase # phase
      <4>1. \A r \in Rules : CondPhase[r] = phase => ~Fits(r)
        BY <1>1, <3>3 DEF PhaseInv, Fits, Selected
      <4>2. curRules' = curRules \cup newRules
        BY <1>1, <1>5, <3>3 DEF BeginLookup, ResetForLookup, FreshInv
      <4>3. QED
        BY <1>1, <2>1, <4>1, <4>2 DEF RuleSetInv
    <3>4. QED
      BY <1>1, <3>1, <3>2, <3>3 DEF TypeOK
  <2>4. curRules' = {r \in Rules : CondPhase[r] # Current' /\ Fits(r)'}
    BY <2>1, <2>2, <2>3
  <2>5. newRules' = {}
    BY <1>1, <1>5 DEF BeginLookup, ResetForLookup, FreshInv, PhaseInv
  <2>6. narr' = Narrowed(todo)'
    BY <1>5 DEF BeginLookup, Narrowed, PhaseRules
  <2>7. QED
    BY <2>1, <2>4, <2>5, <2>6 DEF RuleSetInv
<1>6. ASSUME NEW m \in Modules, Narrow(m) PROVE RuleSetInv'
  <2>1. pc = "narrow" /\ InLookup /\ InLookup' /\ phase' = phase /\ req' = req /\ seen' = seen
        /\ curRules' = curRules /\ newRules' = newRules /\ m \in todo /\ todo' = todo \ {m}
    BY <1>6 DEF Narrow, InLookup
  <2>2. narr' = Narrowed(todo')
    <3>1. Data(m) = req
      BY <2>1, DataInLookup
    <3>2. Narrowed(todo') =
            {r \in Narrowed(todo) : r \in MatchAllRules[m] \cup Lookup2[m][req]}
      BY <2>1 DEF Narrowed
    <3>3. narr = Narrowed(todo)
      BY <1>1, <2>1 DEF RuleSetInv
    <3>4. Narrowed(todo) \subseteq PhaseRules(phase)
      BY DEF Narrowed
    <3>5. QED
      BY <1>6, <3>1, <3>2, <3>3, <3>4 DEF Narrow
  <2>3. Matching(phase, req) \subseteq Narrowed(todo') /\ Matching(phase, req) \subseteq Narrowed({})
    BY DEF Matching, Narrowed
  <2>4. pc' = "filter" => narr' \subseteq Narrowed({}) /\ newRules = Matching(phase, req) \ narr'
    <3>1. pc' = "filter" => narr' = {} \/ todo' = {}
      BY <1>6 DEF Narrow
    <3>2. newRules = {}
      BY <1>1, <2>1 DEF RuleSetInv
    <3>3. QED
      BY <2>2, <2>3, <3>1, <3>2
  <2>5. Narrowed(todo)' = Narrowed(todo') /\ Narrowed({})' = Narrowed({})
    BY <2>1 DEF Narrowed
  <2>6. Current' = Current /\ \A r : Fits(r)' <=> Fits(r)
    BY <2>1 DEF Current, Fits, Selected
  <2>7. QED
    BY <1>1, <2>1, <2>2, <2>4, <2>5, <2>6 DEF RuleSetInv
<1>7. CASE FilterRule
  <2> DEFINE r == Least(narr)
  <2>1. pc = "filter" /\ pc' = "filter" /\ narr # {} /\ narr' = narr \ {r} /\ phase' = phase
        /\ req' = req /\ seen' = seen /\ InLookup /\ InLookup'
    BY <1>7 DEF FilterRule, InLookup
  <2>2. r \in narr
    BY <2>1, FilteredRule
  <2>3. curRules' = curRules
        /\ newRules' = IF r \in Matching(phase, req) THEN newRules \cup {r} ELSE newRules
    <3>1. (\A k \in DOMAIN FiltCondIdxs[r] : Evaluated(FiltCondIdxs[r][k]).holds)
            <=> r \in Matching(phase, req)
      BY <2>1, FilteredRule
    <3>2. CASE r \in Matching(phase, req)
      <4>1. AddRuleIdx(r)
        BY <1>7, <3>1, <3>2 DEF FilterRule
      <4>2. QED
        BY <1>1, <2>1, <3>2, <4>1 DEF AddRuleIdx, PhaseInv
    <3>3. CASE r \notin Matching(phase, req)
      BY <1>7, <3>1, <3>3 DEF FilterRule
    <3>4. QED
      BY <3>2, <3>3
  <2>4. newRules' = Matching(phase, req) \ narr'
    BY <1>1, <2>1, <2>2, <2>3 DEF RuleSetInv
  <2>5. Narrowed({})' = Narrowed({})
    BY <2>1, <1>7 DEF Narrowed, FilterRule
  <2>6. Current' = Current /\ \A x : Fits(x)' <=> Fits(x)
    BY <2>1 DEF Current, Fits, Selected
  <2>7. QED
    BY <1>1, <2>1, <2>3, <2>4, <2>5, <2>6 DEF RuleSetInv
<1>8. CASE EndLookup
  <2>1. pc = "filter" /\ pc' = "actions" /\ narr = {} /\ InLookup /\ ~InLookup'
        /\ UNCHANGED <<phase, seen, curPhase, curRules, newRules>>
    BY <1>8 DEF EndLookup, BeginPass, InLookup
  <2>2. newRules = {r \in Rules : CondPhase[r] = phase /\ Fits(r)}
    <3>1. newRules = Matching(phase, req)
      BY <1>1, <2>1 DEF RuleSetInv
    <3>2. Selected(phase) = Matching(phase, req)
      BY <1>1, <2>1, NoReqAssumption DEF PhaseInv, Selected, TypeOK
    <3>3. phase \in Phases
      BY <1>1, <2>1 DEF PhaseInv
    <3>4. QED
      BY <1>3, <3>1, <3>2, <3>3 DEF Fits
  <2>3. curRules = {r \in Rules : CondPhase[r] # phase /\ Fits(r)}
    BY <1>1, <2>1 DEF RuleSetInv, Current
  <2>4. \A r : Fits(r)' <=> Fits(r)
    BY <2>1 DEF Fits, Selected
  <2>5. Current' = curPhase
    BY <2>1 DEF Current
  <2>6. /\ curRules = {r \in Rules : CondPhase[r] # curPhase /\ Fits(r)}
        /\ newRules = {r \in Rules : CondPhase[r] = curPhase /\ Fits(r)}
    <3>1. CASE curPhase = phase
      BY <2>2, <2>3, <3>1
    <3>2. CASE curPhase = InvalidPhase
      <4>1. curRules = {} /\ newRules = {}
        BY <1>1, <3>2 DEF PhaseInv
      <4>2. \A r \in Rules : ~Fits(r)
        BY <2>2, <2>3, <4>1
      <4>3. QED
        BY <4>1, <4>2
    <3>3. QED
      BY <1>1, <2>1, <3>1, <3>2 DEF PhaseInv
  <2>7. QED
    BY <2>1, <2>4, <2>5, <2>6 DEF RuleSetInv
<1>9. QED
  BY <1>4, <1>5, <1>6, <1>7, <1>8, Steps

-----------------------------------------------------------------------------
(* No action runs, and nothing is computed, before the first lookup.        *)
LEMMA FreshStep == IInv /\ [Next]_vars => FreshInv'
<1> SUFFICES ASSUME IInv, [Next]_vars, firstLookup' PROVE FreshInv'
  BY DEF FreshInv
<1> USE DEF callVars, findVars, idxVars, allVars, condVars, histVars
<1>1. ~BeginLookup
  BY DEF BeginLookup, ResetForLookup
<1>2. ~\E m \in Modules : Narrow(m)
  BY DEF Narrow, IInv, PhaseInv, InLookup
<1>3. ~FilterRule /\ ~EndLookup
  <2>1. ASSUME FilterRule PROVE FALSE
    BY <2>1 DEF FilterRule, AddRuleIdx, IInv, PhaseInv, InLookup
  <2>2. ASSUME EndLookup PROVE FALSE
    BY <2>2 DEF EndLookup, IInv, PhaseInv, InLookup
  <2>3. QED
    BY <2>1, <2>2
<1>4. Quiet
  BY <1>1, <1>2, <1>3, Steps
<1>5. firstLookup /\ FreshInv
  BY <1>4 DEF Quiet, IInv
<1>6. reqData' = reqData
  <2>1. ASSUME NEW m \in Modules, ReadData(m) PROVE FALSE
    BY <1>5, <2>1 DEF ReadData, FreshInv
  <2>2. QED
    BY <1>1, <1>2, <1>3, <2>1 DEF Next, Engine, Lookup, Return, EnterPhase, ChangeReq, NoLookup,
       StartAction, Continue, Finish, Relookup, EndPass, GiveUp, LogRuleIdxs, vars
<1>7. pc' # "running"
  <2>1. RuleIdxs = {}
    BY <1>5 DEF FreshInv, IInv, PhaseInv, MergedRulesCurrent, RuleIdxs
  <2>2. Due = {}
    BY <2>1 DEF Due, ActionsOf
  <2>3. ~StartAction
    BY <2>2 DEF StartAction
  <2>4. pc # "running"
    BY <1>5 DEF FreshInv
  <2>5. QED
    BY <1>1, <1>2, <1>3, <2>3, <2>4 DEF Next, Engine, Lookup, Return, EnterPhase, ReadData, ChangeReq,
       NoLookup, BeginPass, Continue, Finish, Relookup, EndPass, GiveUp, LogRuleIdxs, vars
<1>8. QED
  BY <1>4, <1>5, <1>6, <1>7 DEF FreshInv, Quiet

(* Conditions are decided on the request as it is, not on older data.       *)
LEMMA DataStep == IInv /\ [Next]_vars => DataInv'
<1> SUFFICES ASSUME IInv, [Next]_vars, InLookup' PROVE DataInv'
  BY DEF DataInv
<1> USE DEF callVars, findVars, idxVars, allVars, condVars, histVars
<1>1. TypeOK /\ DataInv /\ FreshInv
  BY DEF IInv
<1>2. CASE Quiet
  BY <1>1, <1>2 DEF Quiet, DataInv
<1>3. CASE BeginLookup
  BY <1>1, <1>3 DEF BeginLookup, ResetForLookup, DataInv, FreshInv
<1>4. ASSUME NEW m \in Modules, Narrow(m) PROVE DataInv'
  <2>1. InLookup /\ req' = req
    BY <1>4 DEF Narrow, InLookup
  <2>2. reqData' = reqData \/ reqData' = [reqData EXCEPT ![m] = req]
    BY <1>4, <2>1, DataInLookup DEF Narrow
  <2>3. QED
    BY <1>1, <2>1, <2>2 DEF DataInv, TypeOK
<1>5. CASE FilterRule
  <2>1. InLookup /\ req' = req
    BY <1>5 DEF FilterRule, InLookup
  <2>2. \A m \in Modules : reqData'[m] \in {reqData[m], Data(m)}
    BY <1>5 DEF FilterRule
  <2>3. QED
    BY <1>1, <2>1, <2>2, DataInLookup DEF DataInv
<1>6. CASE EndLookup
  BY <1>6 DEF EndLookup, BeginPass, InLookup
<1>7. QED
  BY <1>2, <1>3, <1>4, <1>5, <1>6, Steps

(* Cached matches are of the request their phase was last looked up with,   *)
(* and those of the rules in force say that the conditions hold.            *)
LEMMA MatchStep == IInv /\ [Next]_vars => MatchInv' /\ KeptInv'
<1> SUFFICES ASSUME IInv, [Next]_vars PROVE MatchInv' /\ KeptInv'
  OBVIOUS
<1> USE DEF callVars, findVars, idxVars, allVars, condVars, histVars
<1>1. TypeOK /\ MatchInv /\ KeptInv /\ FreshInv /\ PhaseInv /\ RuleSetInv
  BY DEF IInv
<1>2. \A r \in Rules : \A k \in DOMAIN FiltCondIdxs[r] :
         FiltCondIdxs[r][k] \in FiltConds /\ FiltPhase[FiltCondIdxs[r][k]] = CondPhase[r]
  BY RulesAssumption, OnePhaseAssumption
<1>3. ASSUME UNCHANGED <<curRules, newRules, filtMatches, seen>>
      PROVE  MatchInv' /\ KeptInv'
  BY <1>1, <1>3 DEF MatchInv, KeptInv
<1>4. CASE Quiet
  BY <1>3, <1>4 DEF Quiet
<1>5. CASE BeginLookup
  <2>1. phase \in Phases /\ req \in Reqs /\ seen' = [seen EXCEPT ![phase] = req]
    BY <1>1, <1>5 DEF BeginLookup, PhaseInv, TypeOK
  <2>2. \A c \in FiltConds : IF FiltPhase[c] = phase THEN filtMatches'[c] = NoMatch
                             ELSE filtMatches'[c] = filtMatches[c]
    BY <1>1, <1>5 DEF BeginLookup, ResetForLookup, FreshInv
  <2>3. MatchInv'
    <3> SUFFICES ASSUME NEW c \in FiltConds, filtMatches'[c] # NoMatch
                 PROVE  filtMatches'[c] = [holds |-> seen'[FiltPhase[c]] \in FiltHolds[c],
                                           of |-> seen'[FiltPhase[c]]]
      BY DEF MatchInv
    <3>1. FiltPhase[c] # phase /\ filtMatches'[c] = filtMatches[c]
      BY <2>2
    <3>2. seen'[FiltPhase[c]] = seen[FiltPhase[c]]
      BY <1>1, <2>1, <3>1, CondsAssumption DEF TypeOK
    <3>3. QED
      BY <1>1, <3>1, <3>2 DEF MatchInv
  <2>4. \A r \in curRules' \cup newRules' :
          r \in Rules /\ r \in curRules \cup newRules /\ CondPhase[r] # phase
    <3>1. RuleSetInv' /\ Current' = phase
      BY <1>5, RuleSetStep DEF BeginLookup, Current, InLookup
    <3>2. newRules' = {}
      BY <1>5, <3>1 DEF BeginLookup, RuleSetInv
    <3>3. curRules' \subseteq curRules \cup newRules
      BY <1>5 DEF BeginLookup, ResetForLookup
    <3>4. QED
      BY <3>1, <3>2, <3>3 DEF RuleSetInv
  <2>5. KeptInv'
    <3> SUFFICES ASSUME NEW r \in curRules' \cup newRules', NEW k \in DOMAIN FiltCondIdxs[r]
                 PROVE  filtMatches'[FiltCondIdxs[r][k]].holds
      BY DEF KeptInv
    <3>1. filtMatches'[FiltCondIdxs[r][k]] = filtMatches[FiltCondIdxs[r][k]]
      BY <1>2, <2>2, <2>4
    <3>2. QED
      BY <1>1, <2>4, <3>1 DEF KeptInv
  <2>6. QED
    BY <2>3, <2>5
<1>6. ASSUME NEW m \in Modules, Narrow(m) PROVE MatchInv' /\ KeptInv'
  BY <1>3, <1>6 DEF Narrow
<1>7. CASE EndLookup
  BY <1>3, <1>7 DEF EndLookup, BeginPass
<1>8. CASE FilterRule
  <2> DEFINE r == Least(narr)
             conds == FiltCondIdxs[r]
             Tried(c) == \E k \in DOMAIN conds : c = conds[k]
                            /\ \A l \in 1 .. k - 1 : Evaluated(conds[l]).holds
  <2>1. pc = "filter" /\ narr # {} /\ InLookup /\ seen' = seen /\ phase' = phase /\ req' = req
    BY <1>8 DEF FilterRule, InLookup
  <2>2. /\ r \in narr /\ r \in Rules /\ CondPhase[r] = phase
        /\ \A k \in DOMAIN conds :
              /\ conds[k] \in FiltConds
              /\ FiltPhase[conds[k]] = phase
              /\ Evaluated(conds[k]) = [holds |-> req \in FiltHolds[conds[k]], of |-> req]
    BY <2>1, FilteredRule
  <2>3. seen[phase] = req
    BY <1>1, <2>1 DEF PhaseInv
  <2>4. \A c \in FiltConds : filtMatches'[c] = IF Tried(c) THEN Evaluated(c) ELSE filtMatches[c]
    BY <1>8 DEF FilterRule
  <2>5. MatchInv'
    <3> SUFFICES ASSUME NEW c \in FiltConds
                 PROVE  \/ filtMatches'[c] = NoMatch
                        \/ filtMatches'[c] = [holds |-> seen[FiltPhase[c]] \in FiltHolds[c],
                                              of |-> seen[FiltPhase[c]]]
      BY <2>1 DEF MatchInv
    <3>1. CASE Tried(c)
      <4>1. PICK k \in DOMAIN conds : c = conds[k]
        BY <3>1
      <4>2. filtMatches'[c] = Evaluated(c) /\ seen[FiltPhase[c]] = req
        BY <2>2, <2>3, <2>4, <3>1, <4>1
      <4>3. Evaluated(c) = [holds |-> req \in FiltHolds[c], of |-> req]
        BY <2>2, <4>1, Zenon
      <4>4. QED
        BY <4>2, <4>3, Zenon
    <3>2. CASE ~Tried(c)
      BY <1>1, <2>4, <3>2 DEF MatchInv
    <3>3. QED
      BY <3>1, <3>2
  <2>6. ASSUME NEW x \in curRules' \cup newRules', NEW k \in DOMAIN FiltCondIdxs[x]
        PROVE  filtMatches'[FiltCondIdxs[x][k]].holds
    <3>1. CASE x \in curRules \cup newRules
      <4>1. x \in Rules /\ FiltCondIdxs[x][k] \in FiltConds
        BY <1>1, <1>2, <3>1 DEF TypeOK
      <4>2. filtMatches[FiltCondIdxs[x][k]].holds
        BY <1>1, <3>1 DEF KeptInv
      <4>3. filtMatches[FiltCondIdxs[x][k]] # NoMatch
        BY <4>2 DEF NoMatch
      <4>4. Evaluated(FiltCondIdxs[x][k]) = filtMatches[FiltCondIdxs[x][k]]
        BY <4>3 DEF Evaluated
      <4>5. QED
        BY <2>4, <4>1, <4>2, <4>4
    <3>2. CASE x \notin curRules \cup newRules
      <4>1. x = r /\ \A l \in DOMAIN conds : Evaluated(conds[l]).holds
        BY <1>8, <3>2 DEF FilterRule, AddRuleIdx
      <4>2. conds \in Seq(FiltConds)
        BY <2>2, RulesAssumption
      <4>3. Tried(conds[k])
        BY <4>1, <4>2
      <4>4. filtMatches'[conds[k]] = Evaluated(conds[k])
        BY <2>2, <2>4, <4>1, <4>3
      <4>5. QED
        BY <4>1, <4>4
    <3>3. QED
      BY <3>1, <3>2
  <2>7. QED
    BY <2>5, <2>6 DEF KeptInv
<1>9. QED
  BY <1>4, <1>5, <1>6, <1>7, <1>8, Steps

LEMMA InvStep == IInv /\ [Next]_vars => IInv'
BY TypeStep, MergedStep, PhaseStep, FreshStep, RuleSetStep, DataStep, MatchStep DEF IInv

THEOREM Invariance == Spec => []IInv
BY InvInit, InvStep, PTL DEF Spec

-----------------------------------------------------------------------------
(* Whenever actions run, the rules in force are exactly those that hold of  *)
(* the request as the last lookup of their phase found it.                  *)
THEOREM RulesInForceHolds == Spec => []RulesInForce
<1>1. IInv => RulesInForce
  <2> SUFFICES ASSUME IInv, ~InLookup
               PROVE  curRules \cup newRules = UNION {Selected(p) : p \in Phases}
    BY DEF RulesInForce
  <2>1. curRules \cup newRules = {r \in Rules : Fits(r)}
    BY DEF IInv, RuleSetInv
  <2>2. \A r \in Rules : CondPhase[r] \in Phases
    BY RulesAssumption
  <2>3. \A p \in Phases : \A r \in Selected(p) : r \in Rules /\ CondPhase[r] = p
    BY DEF Selected, Matching, PhaseRules
  <2>4. QED
    BY <2>1, <2>2, <2>3 DEF Fits
<1>2. QED
  BY <1>1, Invariance, PTL

(* The merged vector of rules is never stale. *)
THEOREM MergedRulesHolds == Spec => []MergedRulesCurrent
<1>1. IInv => MergedRulesCurrent
  BY DEF IInv
<1>2. QED
  BY <1>1, Invariance, PTL

(* What an action reads from a rule's conditions is of the lookup that      *)
(* selected the rule.                                                       *)
THEOREM CapturesHold == Spec => []CapturesOfSelection
<1>1. IInv => CapturesOfSelection
  <2> SUFFICES ASSUME IInv, NEW r \in curRules \cup newRules, NEW k \in DOMAIN FiltCondIdxs[r]
               PROVE  filtMatches[FiltCondIdxs[r][k]] = [holds |-> TRUE, of |-> seen[CondPhase[r]]]
    BY DEF CapturesOfSelection
  <2> DEFINE c == FiltCondIdxs[r][k]
  <2>1. r \in Rules /\ c \in FiltConds /\ FiltPhase[c] = CondPhase[r]
    BY RulesAssumption, OnePhaseAssumption DEF IInv, TypeOK
  <2>2. filtMatches[c].holds /\ filtMatches[c] \in [holds : BOOLEAN, of : Reqs \cup {NoReq}]
    BY <2>1 DEF IInv, KeptInv, TypeOK
  <2>3. filtMatches[c] # NoMatch
    BY <2>2 DEF NoMatch
  <2>4. filtMatches[c].of = seen[CondPhase[r]]
    <3> DEFINE b == seen[FiltPhase[c]] \in FiltHolds[c]
    <3>1. filtMatches[c] = [holds |-> b, of |-> seen[FiltPhase[c]]]
      BY <2>1, <2>3 DEF IInv, MatchInv
    <3> HIDE DEF b
    <3>2. filtMatches[c].of = seen[FiltPhase[c]]
      BY <3>1
    <3>3. QED
      BY <2>1, <3>2
  <2>5. QED
    BY <2>2, <2>4
<1>2. QED
  BY <1>1, Invariance, PTL

-----------------------------------------------------------------------------
(* The pass of actions.  pass lists what ran, in order; what is still to    *)
(* run lies after at, and the action that is running is at itself.          *)
Before(x, y) == x[1] < y[1] \/ (x[1] = y[1] /\ x[2] < y[2])
Acts == ActionsOf(curRules \cup newRules, phase)
InPass == pc \in {"actions", "running"}
Ran(x) == \E i \in DOMAIN pass : pass[i][1] = x

PassInv ==
  InPass =>
    /\ \A i \in DOMAIN pass : pass[i][1] \in Acts
    /\ \A i, j \in DOMAIN pass : i < j => Before(pass[i][1], pass[j][1])
    /\ pc = "actions" => \A x \in Acts : Ran(x) <=> ~Before(at, x)
    /\ pc = "running" => at \in Acts /\ \A x \in Acts : Ran(x) <=> Before(x, at)

(* aStatus is what the last action said, and delayedOK that one delayed.    *)
AnswerInv ==
  /\ InPass =>
       /\ \A i \in DOMAIN pass : pass[i][2] \in {"DELAYED_OK", "DECLINED", "DEFAULT"}
       /\ delayedOK <=> \E i \in DOMAIN pass : pass[i][2] = "DELAYED_OK"
       /\ aStatus = IF pass = <<>> THEN "DECLINED" ELSE pass[Len(pass)][2]
  /\ pc = "loop" =>
       \/ lookups = 0
       \/ aStatus = "RELOOKUP" /\ pass # <<>> /\ pass[Len(pass)][2] = "RELOOKUP"

LEMMA ActsTyped ==
  ASSUME TypeOK
  PROVE  Acts \subseteq Nat \X Nat
BY ActionsTyped DEF Acts, TypeOK

LEMMA DueActs ==
  ASSUME IInv
  PROVE  Due = {x \in Acts : Before(at, x)}
<1>1. RuleIdxs = curRules \cup newRules
  BY DEF IInv, MergedRulesCurrent, RuleIdxs
<1>2. QED
  BY <1>1 DEF Due, Acts, Before

LEMMA AppendSays ==
  ASSUME NEW T, NEW s \in Seq(T), NEW e \in T
  PROVE  /\ DOMAIN Append(s, e) = 1 .. Len(s) + 1
         /\ DOMAIN s = 1 .. Len(s)
         /\ Len(Append(s, e)) = Len(s) + 1 /\ Len(s) \in Nat
         /\ Append(s, e)[Len(s) + 1] = e
         /\ \A i \in 1 .. Len(s) : Append(s, e)[i] = s[i]
         /\ Append(s, e) # <<>>
OBVIOUS

(* The other actions leave the pass as it is or are not in one.             *)
LEMMA PassSteps ==
  ASSUME [Next]_vars
  PROVE  \/ BeginPass \/ StartAction
         \/ \E st \in Statuses : Continue(st)
         \/ InPass' /\ InPass /\ UNCHANGED <<pc, at, pass, phase, curRules, newRules, delayedOK, aStatus>>
         \/ ~InPass'
<1> USE DEF callVars, findVars, idxVars, allVars, condVars, histVars, InPass
<1>1. ASSUME NEW p \in Phases, EnterPhase(p) PROVE ~InPass'
  BY <1>1 DEF EnterPhase
<1>2. ASSUME NEW m \in Modules, Narrow(m) PROVE ~InPass'
  BY <1>2 DEF Narrow
<1>3. CASE BeginLookup \/ FilterRule \/ Relookup \/ EndPass \/ GiveUp
  BY <1>3 DEF BeginLookup, FilterRule, Relookup, EndPass, GiveUp
<1>4. CASE NoLookup \/ EndLookup
  BY <1>4 DEF NoLookup, EndLookup
<1>5. ASSUME NEW st \in Statuses, Finish(st) PROVE ~InPass'
  BY <1>5 DEF Finish
<1>6. ASSUME NEW m \in Modules, ReadData(m)
      PROVE  InPass' /\ InPass /\ UNCHANGED <<pc, at, pass, phase, curRules, newRules, delayedOK, aStatus>>
  BY <1>6 DEF ReadData
<1>7. ASSUME UNCHANGED <<callVars, idxVars, histVars>>
      PROVE  \/ InPass' /\ InPass /\ UNCHANGED <<pc, at, pass, phase, curRules, newRules, delayedOK, aStatus>>
             \/ ~InPass'
  BY <1>7
<1>8. ASSUME NEW q \in Reqs, ChangeReq(q) PROVE UNCHANGED <<callVars, idxVars, histVars>>
  BY <1>8 DEF ChangeReq
<1>9. CASE LogRuleIdxs \/ UNCHANGED vars
  BY <1>7, <1>9 DEF LogRuleIdxs, vars
<1>10. QED
  BY <1>1, <1>2, <1>3, <1>4, <1>5, <1>6, <1>7, <1>8, <1>9 DEF Next, Engine, Lookup, Return

LEMMA PassStep == IInv /\ PassInv /\ [Next]_vars => PassInv'
<1> SUFFICES ASSUME IInv, PassInv, [Next]_vars, InPass' PROVE PassInv'
  BY DEF PassInv
<1> USE DEF InPass
<1>1. Acts \subseteq Nat \X Nat /\ Acts' \subseteq Nat \X Nat /\ at \in Int \X Nat
      /\ pass \in Seq((Int \X Nat) \X Statuses)
  <2>1. TypeOK /\ TypeOK'
    BY TypeStep DEF IInv
  <2>2. curRules' \cup newRules' \in SUBSET Rules
    BY <2>1 DEF TypeOK
  <2>3. Acts' \subseteq Nat \X Nat
    BY <2>2, ActionsTyped DEF Acts
  <2>4. QED
    BY <2>1, <2>3, ActsTyped DEF TypeOK
<1>2. CASE BeginPass
  <2>1. \A x \in Acts' : Before(<<-1, 0>>, x)
    BY <1>1 DEF Before
  <2>2. QED
    BY <1>2, <2>1 DEF BeginPass, PassInv, Ran
<1>3. CASE StartAction
  <2>1. pc = "actions" /\ pc' = "running" /\ pass' = pass /\ Acts' = Acts /\ Due # {}
        /\ at' = LeastPair(Due)
    BY <1>3 DEF StartAction, CacheRuleIdxs, Acts, histVars, idxVars
  <2>2. Due \subseteq Nat \X Nat /\ Due = {x \in Acts : Before(at, x)}
    BY <1>1, DueActs
  <2>3. at' \in Due /\ \A y \in Due : at'[1] < y[1] \/ (at'[1] = y[1] /\ at'[2] <= y[2])
    BY <2>1, <2>2, LeastPairIn
  <2>4. at' \in Acts /\ at' \in Nat \X Nat /\ Before(at, at')
    BY <2>2, <2>3
  <2>5. ASSUME NEW x \in Acts PROVE Before(x, at') <=> ~Before(at, x)
    <3>1. x \in Nat \X Nat
      BY <1>1
    <3>2. Before(at, x) => ~Before(x, at')
      BY <2>2, <2>3, <2>4, <3>1 DEF Before
    <3>3. ~Before(at, x) => Before(x, at')
      BY <1>1, <2>4, <3>1 DEF Before
    <3>4. QED
      BY <3>2, <3>3
  <2>6. Ran(at)' = Ran(at)' /\ \A x : Ran(x)' <=> Ran(x)
    BY <2>1 DEF Ran
  <2>7. QED
    BY <2>1, <2>4, <2>5, <2>6 DEF PassInv
<1>4. ASSUME NEW st \in Statuses, Continue(st) PROVE PassInv'
  <2>1. pc = "running" /\ pc' = "actions" /\ at' = at /\ Acts' = Acts
        /\ pass' = Append(pass, <<at, st>>)
    BY <1>4 DEF Continue, Acts, idxVars
  <2>2. <<at, st>> \in (Int \X Nat) \X Statuses
    BY <1>1
  <2>3. /\ DOMAIN pass' = 1 .. Len(pass) + 1 /\ DOMAIN pass = 1 .. Len(pass) /\ Len(pass) \in Nat
        /\ pass'[Len(pass) + 1] = <<at, st>>
        /\ \A i \in 1 .. Len(pass) : pass'[i] = pass[i]
    BY <1>1, <2>1, <2>2, AppendSays
  <2>4. /\ at \in Acts
        /\ \A i \in 1 .. Len(pass) : pass[i][1] \in Acts /\ Before(pass[i][1], at)
    <3>1. at \in Acts /\ \A x \in Acts : Ran(x) <=> Before(x, at)
      BY <2>1 DEF PassInv
    <3>2. \A i \in 1 .. Len(pass) : pass[i][1] \in Acts /\ Ran(pass[i][1])
      BY <2>1, <2>3 DEF PassInv, Ran
    <3>3. QED
      BY <3>1, <3>2
  <2>5. \A i \in DOMAIN pass' : pass'[i][1] \in Acts'
    BY <2>1, <2>3, <2>4
  <2>6. ASSUME NEW i \in DOMAIN pass', NEW j \in DOMAIN pass', i < j
        PROVE  Before(pass'[i][1], pass'[j][1])
    <3>1. i \in 1 .. Len(pass) /\ pass'[i] = pass[i]
      BY <2>3, <2>6
    <3>2. CASE j = Len(pass) + 1
      BY <2>3, <2>4, <3>1, <3>2
    <3>3. CASE j \in 1 .. Len(pass)
      <4>1. Before(pass[i][1], pass[j][1])
        BY <2>1, <2>3, <2>6, <3>1, <3>3 DEF PassInv
      <4>2. QED
        BY <2>3, <3>1, <3>3, <4>1
    <3>4. QED
      BY <2>3, <3>2, <3>3
  <2>7. ASSUME NEW x \in Acts PROVE Ran(x)' <=> ~Before(at, x)
    <3>1. Ran(x)' <=> Ran(x) \/ x = at
      <4>1. Ran(x)' <=> \E i \in 1 .. Len(pass) + 1 : pass'[i][1] = x
        BY <2>3 DEF Ran
      <4>2. Ran(x) <=> \E i \in 1 .. Len(pass) : pass[i][1] = x
        BY <2>3 DEF Ran
      <4>3. QED
        BY <2>3, <4>1, <4>2
    <3>2. Ran(x) <=> Before(x, at)
      BY <2>1 DEF PassInv
    <3>3. Before(x, at) \/ x = at <=> ~Before(at, x)
      <4>1. x \in Nat \X Nat /\ at \in Nat \X Nat
        BY <1>1, <2>4
      <4>2. x = <<x[1], x[2]>> /\ at = <<at[1], at[2]>>
        BY <4>1
      <4>3. QED
        BY <4>1, <4>2 DEF Before
    <3>4. QED
      BY <3>1, <3>2, <3>3
  <2>8. QED
    BY <2>1, <2>5, <2>6, <2>7 DEF PassInv
<1>5. CASE InPass /\ UNCHANGED <<pc, at, pass, phase, curRules, newRules, delayedOK, aStatus>>
  <2>1. Acts' = Acts /\ \A x : Ran(x)' <=> Ran(x)
    BY <1>5 DEF Acts, Ran
  <2>2. QED
    BY <1>5, <2>1 DEF PassInv
<1>6. QED
  BY <1>2, <1>3, <1>4, <1>5, PassSteps

LEMMA AnswerStep == IInv /\ AnswerInv /\ [Next]_vars => AnswerInv'
<1> SUFFICES ASSUME IInv, AnswerInv, [Next]_vars PROVE AnswerInv'
  OBVIOUS
<1> USE DEF InPass, callVars, findVars, idxVars, allVars, condVars, histVars
<1>1. at \in Int \X Nat /\ pass \in Seq((Int \X Nat) \X Statuses)
  BY DEF IInv, TypeOK
<1>2. CASE BeginPass
  BY <1>2 DEF BeginPass, AnswerInv
<1>3. CASE StartAction
  BY <1>3 DEF StartAction, AnswerInv
<1>4. ASSUME NEW st \in Statuses, Continue(st) PROVE AnswerInv'
  <2>1. pc = "running" /\ pc' = "actions" /\ pass' = Append(pass, <<at, st>>) /\ aStatus' = st
        /\ (delayedOK' <=> delayedOK \/ st = "DELAYED_OK") /\ st \in {"DELAYED_OK", "DECLINED", "DEFAULT"}
    BY <1>4 DEF Continue
  <2>2. <<at, st>> \in (Int \X Nat) \X Statuses
    BY <1>1
  <2>3. /\ DOMAIN pass' = 1 .. Len(pass) + 1 /\ DOMAIN pass = 1 .. Len(pass) /\ Len(pass) \in Nat
        /\ Len(pass') = Len(pass) + 1 /\ pass' # <<>>
        /\ pass'[Len(pass) + 1] = <<at, st>>
        /\ \A i \in 1 .. Len(pass) : pass'[i] = pass[i]
    BY <1>1, <2>1, <2>2, AppendSays
  <2>4. \A i \in DOMAIN pass' : pass'[i][2] \in {"DELAYED_OK", "DECLINED", "DEFAULT"}
    BY <2>1, <2>3 DEF AnswerInv
  <2>5. delayedOK' <=> \E i \in DOMAIN pass' : pass'[i][2] = "DELAYED_OK"
    <3>1. delayedOK <=> \E i \in 1 .. Len(pass) : pass[i][2] = "DELAYED_OK"
      BY <2>1, <2>3 DEF AnswerInv
    <3>2. QED
      BY <2>1, <2>3, <3>1
  <2>6. aStatus' = pass'[Len(pass')][2]
    BY <2>1, <2>3
  <2>7. QED
    BY <2>1, <2>3, <2>4, <2>5, <2>6 DEF AnswerInv
<1>5. CASE InPass' /\ InPass /\ UNCHANGED <<pc, at, pass, phase, curRules, newRules, delayedOK, aStatus>>
  BY <1>5 DEF AnswerInv
<1>6. CASE ~InPass'
  <2>1. CASE pc' # "loop"
    BY <1>6, <2>1 DEF AnswerInv
  <2>2. ASSUME NEW p \in Phases, EnterPhase(p) PROVE AnswerInv'
    BY <1>6, <2>2 DEF AnswerInv, EnterPhase
  <2>3. CASE Relookup
    <3>1. <<at, "RELOOKUP">> \in (Int \X Nat) \X Statuses
      BY <1>1 DEF Statuses
    <3>2. pass' # <<>> /\ pass'[Len(pass')] = <<at, "RELOOKUP">>
      <4>1. pass' = Append(pass, <<at, "RELOOKUP">>)
        BY <2>3 DEF Relookup
      <4>2. QED
        BY <1>1, <3>1, <4>1, AppendSays
    <3>3. QED
      BY <1>6, <2>3, <3>2 DEF AnswerInv, Relookup
  <2>4. ASSUME pc' = "loop", ~Relookup, ~\E p \in Phases : EnterPhase(p)
        PROVE  UNCHANGED <<pc, lookups, aStatus, pass>>
    BY <2>4 DEF Next, Engine, Lookup, Return, ReadData, ChangeReq, NoLookup, EndLookup, BeginPass, BeginLookup,
       Narrow, FilterRule, StartAction, Continue, Finish, EndPass, GiveUp, LogRuleIdxs, vars
  <2>5. QED
    BY <1>6, <2>1, <2>2, <2>3, <2>4 DEF AnswerInv
<1>7. QED
  BY <1>2, <1>3, <1>4, <1>5, <1>6, PassSteps

THEOREM PassInvariance == Spec => [](PassInv /\ AnswerInv)
<1>1. Init => PassInv /\ AnswerInv
  BY DEF Init, PassInv, AnswerInv, InPass
<1>2. QED
  BY <1>1, PassStep, AnswerStep, Invariance, PTL DEF Spec

(* A pass that ends by itself has run every action of the phase that the    *)
(* rules in force have, once and in order.                                  *)
THEOREM PassCompleteHolds == Spec => PassComplete
<1> DEFINE A == pc = "actions" /\ pc' = "idle" =>
       /\ {pass[i][1] : i \in DOMAIN pass} = ActionsOf(curRules \cup newRules, phase)
       /\ \A i, j \in DOMAIN pass : i < j =>
            \/ pass[i][1][1] < pass[j][1][1]
            \/ pass[i][1][1] = pass[j][1][1] /\ pass[i][1][2] < pass[j][1][2]
<1>1. IInv /\ PassInv /\ [Next]_vars => [A]_vars
  <2> SUFFICES ASSUME IInv, PassInv, [Next]_vars, pc = "actions", pc' = "idle" PROVE A
    OBVIOUS
  <2>1. EndPass
    BY DEF Next, Engine, Lookup, Return, EnterPhase, ReadData, ChangeReq, NoLookup, EndLookup,
       BeginLookup, Narrow, FilterRule, StartAction, Continue, Relookup, Finish, GiveUp, LogRuleIdxs,
       vars, callVars
  <2>2. \A x \in Acts : Ran(x)
    BY <2>1, DueActs DEF EndPass, PassInv, InPass
  <2>3. {pass[i][1] : i \in DOMAIN pass} = Acts
    BY <2>2 DEF PassInv, InPass, Ran
  <2>4. \A i, j \in DOMAIN pass : i < j => Before(pass[i][1], pass[j][1])
    BY DEF PassInv, InPass
  <2>5. QED
    BY <2>3, <2>4 DEF Acts, Before
<1>2. QED
  BY <1>1, Invariance, PassInvariance, PTL DEF Spec, PassComplete

(* The hook's answer is that of the actions run since the last lookup.      *)
THEOREM AnswerHolds == Spec => AnswerOfLastPass
<1> DEFINE A == pc # "idle" /\ pc' = "idle" /\ MaxLookups > 0 => ret' = Answer(pass')
<1>1. IInv /\ AnswerInv /\ [Next]_vars => [A]_vars
  <2> SUFFICES ASSUME IInv, AnswerInv, [Next]_vars, pc # "idle", pc' = "idle", MaxLookups > 0
               PROVE  ret' = Answer(pass')
    OBVIOUS
  <2> USE DEF InPass, callVars, findVars, idxVars, allVars, condVars, histVars
  <2>1. at \in Int \X Nat /\ pass \in Seq((Int \X Nat) \X Statuses)
    BY DEF IInv, TypeOK
  <2>2. ASSUME NEW st \in Statuses, Finish(st) PROVE ret' = Answer(pass')
    <3>1. pass' = Append(pass, <<at, st>>) /\ ret' = st /\ st \in {"OK", "EGENERAL"}
      BY <2>2 DEF Finish
    <3>2. <<at, st>> \in (Int \X Nat) \X Statuses
      BY <2>1
    <3>3. pass' # <<>> /\ pass'[Len(pass')][2] = st /\ Len(pass') \in DOMAIN pass'
      BY <2>1, <3>1, <3>2, AppendSays
    <3>4. st \in {pass'[i][2] : i \in DOMAIN pass'}
      BY <3>3
    <3>5. QED
      BY <3>1, <3>3, <3>4 DEF Answer
  <2>3. CASE EndPass
    <3>1. pc = "actions" /\ pass' = pass /\ aStatus' = (IF delayedOK THEN "OK" ELSE aStatus)
          /\ ret' = IF aStatus' \in {"OK", "DELAYED_OK"} THEN "OK" ELSE "DECLINED"
      BY <2>3 DEF EndPass
    <3>2. /\ \A i \in DOMAIN pass : pass[i][2] \in {"DELAYED_OK", "DECLINED", "DEFAULT"}
          /\ delayedOK <=> \E i \in DOMAIN pass : pass[i][2] = "DELAYED_OK"
          /\ aStatus = IF pass = <<>> THEN "DECLINED" ELSE pass[Len(pass)][2]
      BY <3>1 DEF AnswerInv
    <3>3. CASE pass = <<>>
      BY <3>1, <3>2, <3>3 DEF Answer
    <3>4. CASE pass # <<>>
      <4>1. Len(pass) \in DOMAIN pass
        BY <2>1, <3>4
      <4>2. pass[Len(pass)][2] \in {"DELAYED_OK", "DECLINED", "DEFAULT"}
        BY <3>2, <4>1
      <4>3. delayedOK <=> {pass[i][2] : i \in DOMAIN pass} \cap {"OK", "DELAYED_OK"} # {}
        BY <3>2
      <4>4. pass[Len(pass)][2] = "DELAYED_OK" => delayedOK
        BY <3>2, <4>1
      <4>5. QED
        BY <3>1, <3>2, <3>4, <4>2, <4>3, <4>4 DEF Answer
    <3>5. QED
      BY <3>3, <3>4
  <2>4. CASE GiveUp
    <3>1. pc = "loop" /\ pass' = pass /\ lookups >= MaxLookups
          /\ ret' = IF aStatus \in {"OK", "DELAYED_OK"} THEN "OK" ELSE "DECLINED"
      BY <2>4 DEF GiveUp
    <3>2. lookups # 0
      BY <3>1, MaxLookupsAssumption
    <3>3. aStatus = "RELOOKUP" /\ pass # <<>> /\ pass[Len(pass)][2] = "RELOOKUP"
      BY <3>1, <3>2 DEF AnswerInv
    <3>4. QED
      BY <3>1, <3>3 DEF Answer
  <2>5. QED
    BY <2>2, <2>3, <2>4 DEF Next, Engine, Lookup, Return, EnterPhase, ReadData, ChangeReq, NoLookup,
       EndLookup, BeginPass, BeginLookup, Narrow, FilterRule, StartAction, Continue, Relookup,
       LogRuleIdxs, vars
<1>2. QED
  BY <1>1, Invariance, PassInvariance, PTL DEF Spec, AnswerOfLastPass

-----------------------------------------------------------------------------
(* What ruleIdxs() returns between lookups is what the lookups found.       *)
THEOREM RulesCurrentHolds == Spec => []RulesCurrent
BY RulesInForceHolds, MergedRulesHolds, PTL DEF RulesCurrent

(* A hook runs every action due, and answers what they said.                *)
THEOREM PassOutcomeHolds == Spec => PassOutcome
BY PassCompleteHolds, AnswerHolds DEF PassOutcome

-----------------------------------------------------------------------------
(* Why a hook returns.  That it does is liveness, and left to TLC; what it  *)
(* rests on is that every step of the engine lowers a rank, and that what   *)
(* comes in between does not raise it.                                      *)

(* The lookups that RumMaxLookups still allows, *)
LookupsLeft == IF lookups < MaxLookups THEN MaxLookups - lookups ELSE 0

(* how far the call has come with this one, *)
Place ==
  CASE pc = "loop"   -> 4
    [] pc = "narrow" -> 3
    [] pc = "filter" -> 2
    [] InPass        -> 1
    [] OTHER         -> 0

(* and what is still to be asked, filtered or run there. *)
Rest ==
  CASE pc = "narrow" -> todo
    [] pc = "filter" -> narr
    [] InPass        -> Due
    [] OTHER         -> {}

Ranked == LookupsLeft \in Nat /\ Place \in Nat /\ IsFiniteSet(Rest)

(* The rank is lexicographic; between two actions nothing is left that was  *)
(* not left before, but the first of them has returned.                     *)
Nearer ==
  \/ LookupsLeft' < LookupsLeft
  \/ LookupsLeft' = LookupsLeft /\ Place' < Place
  \/ LookupsLeft' = LookupsLeft /\ Place' = Place /\ Rest' \subseteq Rest /\ Rest' # Rest
  \/ LookupsLeft' = LookupsLeft /\ Place' = Place /\ Rest' = Rest /\ pc = "running" /\ pc' = "actions"

AsNear == LookupsLeft' = LookupsLeft /\ Place' = Place /\ Rest' = Rest /\ pc' = pc

(* A lookup under way is one that RumMaxLookups allows, and as long as it   *)
(* narrows there is a module to ask.                                        *)
LookupsCounted ==
  /\ pc \in {"narrow", "filter"} \/ InPass => lookups < MaxLookups
  /\ pc = "narrow" => todo # {}

LEMMA CountInit == Init => LookupsCounted
BY DEF Init, LookupsCounted, InPass

LEMMA CountStep == TypeOK /\ LookupsCounted /\ [Next]_vars => LookupsCounted'
<1> SUFFICES ASSUME TypeOK, LookupsCounted, [Next]_vars PROVE LookupsCounted'
  OBVIOUS
<1> USE DEF LookupsCounted, InPass, callVars, findVars
<1>1. ASSUME NEW p \in Phases, EnterPhase(p) PROVE LookupsCounted'
  BY <1>1 DEF EnterPhase
<1>2. CASE BeginLookup
  BY <1>2, ModulesAssumption DEF BeginLookup
<1>3. ASSUME NEW m \in Modules, Narrow(m) PROVE LookupsCounted'
  <2>1. /\ pc = "narrow" /\ lookups' = lookups /\ todo' = todo \ {m} /\ m \in todo
        /\ pc' \in {"narrow", "filter"} /\ (todo = {m} => pc' = "filter")
    BY <1>3 DEF Narrow
  <2>2. QED
    BY <2>1
<1>4. CASE NoLookup \/ EndLookup
  BY <1>4 DEF NoLookup, EndLookup, BeginPass
<1>5. CASE FilterRule \/ StartAction \/ LogRuleIdxs \/ UNCHANGED vars
  BY <1>5 DEF FilterRule, StartAction, LogRuleIdxs, vars
<1>6. ASSUME NEW st \in Statuses, Continue(st) \/ Finish(st) PROVE LookupsCounted'
  BY <1>6 DEF Continue, Finish
<1>7. CASE Relookup \/ EndPass \/ GiveUp
  BY <1>7 DEF Relookup, EndPass, GiveUp
<1>8. ASSUME NEW m \in Modules, ReadData(m) PROVE LookupsCounted'
  BY <1>8 DEF ReadData
<1>9. ASSUME NEW q \in Reqs, ChangeReq(q) PROVE LookupsCounted'
  BY <1>9 DEF ChangeReq
<1>10. QED
  BY <1>1, <1>2, <1>3, <1>4, <1>5, <1>6, <1>7, <1>8, <1>9 DEF Next, Engine, Lookup, Return

(* The actions of the rules are finitely many, as vectors of them are. *)
LEMMA ActionsFinite ==
  ASSUME NEW S \in SUBSET Rules, NEW p
  PROVE  IsFiniteSet(ActionsOf(S, p))
<1> DEFINE Of(r) == {r} \X {k \in DOMAIN ActionPhase[r] : ActionPhase[r][k] = p}
           all   == {Of(r) : r \in S}
           f     == [r \in S |-> Of(r)]
<1>1. IsFiniteSet(S)
  <2>1. IsFiniteSet(Rules)
    BY SizesAssumption, FS_Interval DEF Rules
  <2>2. QED
    BY <2>1, FS_Subset
<1>2. IsFiniteSet(all)
  <2>1. f \in Surjection(S, all)
    BY DEF Surjection
  <2>2. QED
    BY <1>1, <2>1, FS_Surjection
<1>3. ASSUME NEW r \in S PROVE IsFiniteSet(Of(r))
  <2>1. ActionPhase[r] \in Seq(Phases)
    BY RulesAssumption
  <2>2. DOMAIN ActionPhase[r] = 1 .. Len(ActionPhase[r]) /\ Len(ActionPhase[r]) \in Nat
    BY <2>1
  <2>3. IsFiniteSet(DOMAIN ActionPhase[r])
    BY <2>2, FS_Interval
  <2>4. IsFiniteSet({k \in DOMAIN ActionPhase[r] : ActionPhase[r][k] = p})
    BY <2>3, FS_Subset
  <2>5. IsFiniteSet({r})
    BY FS_Singleton
  <2>6. QED
    BY <2>4, <2>5, FS_Product
<1>4. \A T \in all : IsFiniteSet(T)
  BY <1>3
<1>5. IsFiniteSet(UNION all)
  <2> HIDE DEF all
  <2>1. QED
    BY <1>2, <1>4, FS_UNION
<1>6. QED
  BY <1>5 DEF ActionsOf

LEMMA TypedRanked == TypeOK => Ranked
<1> SUFFICES ASSUME TypeOK PROVE Ranked
  OBVIOUS
<1>1. LookupsLeft \in Nat
  BY MaxLookupsAssumption DEF TypeOK, LookupsLeft
<1>2. Place \in Nat
  BY DEF Place
<1>3. IsFiniteSet(Rest)
  <2>1. IsFiniteSet(todo)
    BY ModulesAssumption, FS_Subset DEF TypeOK
  <2>2. IsFiniteSet(narr)
    <3>1. IsFiniteSet(Rules)
      BY SizesAssumption, FS_Interval DEF Rules
    <3>2. QED
      BY <3>1, FS_Subset DEF TypeOK
  <2>3. IsFiniteSet(Due)
    <3>1. RuleIdxs \in SUBSET Rules
      BY DEF TypeOK, RuleIdxs
    <3>2. IsFiniteSet(ActionsOf(RuleIdxs, phase))
      BY <3>1, ActionsFinite
    <3>3. QED
      BY <3>2, FS_Subset DEF Due
  <2>4. QED
    BY <2>1, <2>2, <2>3, FS_EmptySet DEF Rest
<1>4. QED
  BY <1>1, <1>2, <1>3 DEF Ranked

(* runActions() leaves one action less due, ruleIdxs() merged or not. *)
LEMMA DueFalls ==
  ASSUME TypeOK, StartAction
  PROVE  Due' \subseteq Due /\ Due' # Due
<1>1. RuleIdxs' = RuleIdxs /\ phase' = phase /\ at' = LeastPair(Due) /\ Due # {}
  BY DEF StartAction, CacheRuleIdxs, RuleIdxs
<1> DEFINE acts == ActionsOf(RuleIdxs, phase)
<1>2. acts \subseteq Nat \X Nat
  <2>1. RuleIdxs \in SUBSET Rules
    BY DEF TypeOK, RuleIdxs
  <2>2. QED
    BY <2>1, ActionsTyped
<1>3. Due = {x \in acts : Before(at, x)} /\ Due' = {x \in acts : Before(at', x)}
  BY <1>1 DEF Due, Before
<1> HIDE DEF acts
<1>4. at \in Int \X Nat /\ at' \in Due
  <2>1. Due \subseteq Nat \X Nat
    BY <1>2, <1>3
  <2>2. QED
    BY <1>1, <2>1, LeastPairIn DEF TypeOK
<1>5. at' \in Nat \X Nat /\ Before(at, at')
  BY <1>2, <1>3, <1>4
<1>6. ASSUME NEW x \in acts, Before(at', x) PROVE Before(at, x)
  BY <1>2, <1>4, <1>5, <1>6 DEF Before
<1>7. ~Before(at', at')
  BY <1>5 DEF Before
<1>8. QED
  BY <1>3, <1>4, <1>6, <1>7

(* Every step of lookupAndRun() and what it calls. *)
LEMMA EngineNearer ==
  ASSUME TypeOK, LookupsCounted, Engine
  PROVE  Nearer
<1> USE DEF callVars, findVars
<1>1. CASE BeginLookup \/ NoLookup
  <2>1. pc = "loop" /\ pc' \in {"narrow", "actions"} /\ lookups' = lookups
    BY <1>1 DEF BeginLookup, NoLookup, BeginPass
  <2>2. Place = 4 /\ Place' \in {1, 3} /\ LookupsLeft' = LookupsLeft
    BY <2>1 DEF Place, InPass, LookupsLeft
  <2>3. QED
    BY <2>2 DEF Nearer
<1>2. ASSUME NEW m \in Modules, Narrow(m) PROVE Nearer
  <2>1. /\ pc = "narrow" /\ lookups' = lookups /\ todo' = todo \ {m} /\ m \in todo
        /\ pc' \in {"narrow", "filter"}
    BY <1>2 DEF Narrow
  <2>2. Place = 3 /\ LookupsLeft' = LookupsLeft /\ Rest = todo
    BY <2>1 DEF Place, LookupsLeft, Rest, InPass
  <2>3. CASE pc' = "narrow"
    <3>1. Place' = 3 /\ Rest' = todo \ {m}
      BY <2>1, <2>3 DEF Place, Rest, InPass
    <3>2. QED
      BY <2>1, <2>2, <3>1 DEF Nearer
  <2>4. CASE pc' = "filter"
    <3>1. Place' = 2
      BY <2>4 DEF Place, InPass
    <3>2. QED
      BY <2>2, <3>1 DEF Nearer
  <2>5. QED
    BY <2>1, <2>3, <2>4
<1>3. CASE FilterRule
  <2>1. pc = "filter" /\ pc' = pc /\ lookups' = lookups /\ narr' = narr \ {Least(narr)} /\ narr # {}
    BY <1>3 DEF FilterRule
  <2>2. Place' = Place /\ LookupsLeft' = LookupsLeft /\ Rest = narr /\ Rest' = narr'
    BY <2>1 DEF Place, LookupsLeft, Rest, InPass
  <2>3. Least(narr) \in narr
    BY <2>1, LeastIn, RulesNat DEF TypeOK
  <2>4. QED
    BY <2>1, <2>2, <2>3 DEF Nearer
<1>4. CASE EndLookup
  <2>1. pc = "filter" /\ pc' = "actions" /\ lookups' = lookups
    BY <1>4 DEF EndLookup, BeginPass
  <2>2. Place = 2 /\ Place' = 1 /\ LookupsLeft' = LookupsLeft
    BY <2>1 DEF Place, LookupsLeft, InPass
  <2>3. QED
    BY <2>2 DEF Nearer
<1>5. CASE StartAction
  <2>1. pc = "actions" /\ pc' = "running" /\ lookups' = lookups
    BY <1>5 DEF StartAction
  <2>2. Place = 1 /\ Place' = 1 /\ LookupsLeft' = LookupsLeft /\ Rest = Due /\ Rest' = Due'
    BY <2>1 DEF Place, LookupsLeft, Rest, InPass
  <2>3. QED
    BY <1>5, <2>2, DueFalls DEF Nearer
<1>6. ASSUME NEW st \in Statuses, Continue(st) PROVE Nearer
  <2>1. /\ pc = "running" /\ pc' = "actions"
        /\ UNCHANGED <<lookups, phase, at, curRules, newRules, allRules, allValid>>
    BY <1>6 DEF Continue, idxVars, allVars
  <2>2. Place = 1 /\ Place' = 1 /\ LookupsLeft' = LookupsLeft /\ Rest = Due /\ Rest' = Due'
    BY <2>1 DEF Place, LookupsLeft, Rest, InPass
  <2>3. Due' = Due
    BY <2>1 DEF Due, RuleIdxs
  <2>4. QED
    BY <2>1, <2>2, <2>3 DEF Nearer
<1>7. ASSUME NEW st \in Statuses, Finish(st) PROVE Nearer
  <2>1. pc = "running" /\ pc' = "idle" /\ lookups' = lookups
    BY <1>7 DEF Finish
  <2>2. Place = 1 /\ Place' = 0 /\ LookupsLeft' = LookupsLeft
    BY <2>1 DEF Place, LookupsLeft, InPass
  <2>3. QED
    BY <2>2 DEF Nearer
<1>8. CASE Relookup
  <2>1. lookups' = lookups + 1 /\ lookups < MaxLookups /\ lookups \in Nat
    BY <1>8 DEF Relookup, LookupsCounted, InPass, TypeOK
  <2>2. LookupsLeft' < LookupsLeft
    BY <2>1, MaxLookupsAssumption DEF LookupsLeft
  <2>3. QED
    BY <2>2 DEF Nearer
<1>9. CASE EndPass \/ GiveUp
  <2>1. pc \in {"actions", "loop"} /\ pc' = "idle" /\ lookups' = lookups
    BY <1>9 DEF EndPass, GiveUp
  <2>2. Place \in {1, 4} /\ Place' = 0 /\ LookupsLeft' = LookupsLeft
    BY <2>1 DEF Place, LookupsLeft, InPass
  <2>3. QED
    BY <2>2 DEF Nearer
<1>10. QED
  BY <1>1, <1>2, <1>3, <1>4, <1>5, <1>6, <1>7, <1>8, <1>9 DEF Engine, Lookup, Return

(* What an action does, and the log statements, while a hook runs. *)
LEMMA OthersAsNear ==
  ASSUME pc # "idle", Next, ~Engine
  PROVE  AsNear
<1>1. ASSUME UNCHANGED <<callVars, findVars>>, RuleIdxs' = RuleIdxs
      PROVE  AsNear
  <2>1. UNCHANGED <<pc, lookups, narr, todo>> /\ Due' = Due
    BY <1>1 DEF Due, callVars, findVars
  <2>2. QED
    BY <2>1 DEF AsNear, LookupsLeft, Place, Rest, InPass
<1>2. ASSUME NEW m \in Modules, ReadData(m) PROVE AsNear
  BY <1>1, <1>2 DEF ReadData, RuleIdxs, idxVars, allVars
<1>3. ASSUME NEW q \in Reqs, ChangeReq(q) PROVE AsNear
  BY <1>1, <1>3 DEF ChangeReq, RuleIdxs, idxVars, allVars
<1>4. CASE LogRuleIdxs
  BY <1>1, <1>4 DEF LogRuleIdxs, CacheRuleIdxs, RuleIdxs
<1>5. ASSUME NEW p \in Phases PROVE ~EnterPhase(p)
  BY DEF EnterPhase
<1>6. QED
  BY <1>2, <1>3, <1>4, <1>5 DEF Next

(* A lookup under way is always one that RumMaxLookups allows, whatever the *)
(* actions ask for, and it never looks for a module when all were asked.    *)
(* (Config::lookupAndRun, Config::lookupRules)                              *)
THEOREM LookupsAreCounted == Spec => []LookupsCounted
<1>1. Init => TypeOK /\ LookupsCounted
  BY TypeInit, CountInit
<1>2. TypeOK /\ LookupsCounted /\ [Next]_vars => TypeOK' /\ LookupsCounted'
  BY TypeStep, CountStep
<1>3. QED
  BY <1>1, <1>2, PTL DEF Spec

(* Nothing of a hook repeats: each step of the engine lowers a rank that is *)
(* made of natural numbers and finite sets, and what actions do meanwhile   *)
(* leaves it as it is.  So a hook whose engine goes on returns, for any     *)
(* rules and any RumMaxLookups, whatever actions ask for another lookup.    *)
(* (Config::lookupAndRun, Config::lookupRules, Config::runActions)          *)
THEOREM HooksAdvance ==
  Spec => [][Ranked /\ Ranked' /\ (Engine => Nearer) /\ (pc # "idle" => Engine \/ AsNear)]_vars
<1>1. (TypeOK => Ranked)'
  BY TypedRanked, PTL
<1>2. TypeOK /\ LookupsCounted /\ Engine => Nearer
  <2> SUFFICES ASSUME TypeOK, LookupsCounted, Engine PROVE Nearer
    OBVIOUS
  <2>1. QED
    BY EngineNearer
<1>3. Next => (pc # "idle" => Engine \/ AsNear)
  <2> SUFFICES ASSUME Next, pc # "idle", ~Engine PROVE AsNear
    OBVIOUS
  <2>1. QED
    BY OthersAsNear
<1>4. TypeOK /\ TypeOK' /\ LookupsCounted /\ [Next]_vars
        => [Ranked /\ Ranked' /\ (Engine => Nearer) /\ (pc # "idle" => Engine \/ AsNear)]_vars
  BY <1>1, <1>2, <1>3, TypedRanked
<1>5. QED
  BY <1>4, TypeCorrect, LookupsAreCounted, PTL DEF Spec

=============================================================================
