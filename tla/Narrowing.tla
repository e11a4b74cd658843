------------------------------ MODULE Narrowing -------------------------------
(***************************************************************************)
(* What Config::lookupRules() promises of its narrowing, whatever vectors, *)
(* merges and counts it is made of: one module of conditions after the     *)
(* other finds a set of rules, among them those that match any request,    *)
(* and the rules left are those that each module asked so far has found.   *)
(* No module is asked when no rule is left.                                *)
(***************************************************************************)
EXTENDS Naturals

CONSTANTS
  All,         \* the rules of the phase
  NumModules   \* the modules of conditions

VARIABLES
  stage,       \* no module is asked, one is, or the lookup is over
  left,        \* the modules not asked yet
  always,      \* the rules that match any request for the module asked last
  found,       \* the rules it has found
  rules        \* the rules left

narrowVars == <<stage, left, always, found, rules>>

Init ==
  /\ stage = "next"
  /\ left = NumModules
  /\ always = {}
  /\ found = {}
  /\ rules = All

(* A module with rules that match any request: it finds the others one by  *)
(* one, unless there are none.                                             *)
Ask ==
  /\ stage = "next"
  /\ left > 0
  /\ stage' = "asked"
  /\ left' = left - 1
  /\ always' \in SUBSET All
  /\ found' = IF always' = All THEN All ELSE {}
  /\ UNCHANGED rules

Find ==
  /\ stage = "asked"
  /\ \E some \in SUBSET All : found' = found \cup some
  /\ UNCHANGED <<stage, left, always, rules>>

Intersect ==
  /\ stage = "asked"
  /\ always \subseteq found
  /\ rules' = rules \cap found
  /\ stage' = IF rules' = {} \/ left = 0 THEN "done" ELSE "next"
  /\ UNCHANGED <<left, always, found>>

NextLookup ==
  /\ stage = "done"
  /\ stage' = "next"
  /\ left' = NumModules
  /\ found' = {}
  /\ rules' = All
  /\ UNCHANGED always

Next == Ask \/ Find \/ Intersect \/ NextLookup

Spec == Init /\ [][Next]_narrowVars

=============================================================================
