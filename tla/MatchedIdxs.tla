----------------------------- MODULE MatchedIdxs ------------------------------
(***************************************************************************)
(* MatchedIdxs.H and the SmplVec.H below it, as Config::lookupRules() and  *)
(* CondModule::lookup() use them to narrow the rules of a phase: each      *)
(* module's rules are the union of the vectors it finds in its tables, and *)
(* the rules left are the intersection over the modules.                   *)
(*                                                                         *)
(* The vectors are sorted.  Union merges a copy of the vector with the     *)
(* other one, intersection merges in place; a step is one round of a loop. *)
(* "All rules" is not stored but flagged, and told by the number of rules. *)
(***************************************************************************)
EXTENDS Integers, Sequences

CONSTANTS
  AllIdxs,     \* phaseRulesIdxs(phase)
  Vecs,        \* the vectors of rules in the modules' tables
  NumModules,  \* condModulesMap().size()
  MaxUnions    \* bound on the vectors found in one lookup2()

Elems(v)     == {v[i] : i \in DOMAIN v}
Ascending(v) == \A i, j \in DOMAIN v : i < j => v[i] <= v[j]
Strict(v)    == \A i, j \in DOMAIN v : i < j => v[i] < v[j]

All == Elems(AllIdxs)

(* The vector of the rules that match any request is sorted and unique.  So *)
(* are those of the token matcher; a query argument's is only sorted.       *)
MatchAllVecs == {v \in Vecs : Strict(v)}

DistinctTables == \A v \in Vecs : Strict(v)

ASSUME AllIdxsAssumption == AllIdxs \in Seq(Nat) /\ AllIdxs # <<>> /\ Strict(AllIdxs)
ASSUME VecsAssumption == \A v \in Vecs : v \in Seq(All) /\ Ascending(v)
ASSUME BoundsAssumption == NumModules \in Nat \ {0} /\ MaxUnions \in Nat

VARIABLES
  pc,         \* the loop or call lookupRules() is in
  left,       \* the modules it has still to ask
  narr,       \* narrMatchedIdxs: its vector, and matchAll_
  cm,         \* cmMatchedIdxs
  mari,       \* the module's matchAllRuleIdxsVec_ for the phase
  unions,     \* the vectors lookup2() may still find
  last,       \* this union is the one with mari
  tmp, other, \* tmpVec and the argument of union_with()
  tget, oget, put, \* the loops' indices
  want,       \* history: the rules that the module should have found
  exact       \* history: the rules that should be left

idxs    == <<tget, oget, put>>
vars    == <<pc, left, narr, cm, mari, unions, last, tmp, other, idxs, want, exact>>

Cleared  == [vec |-> <<>>, matchAll |-> FALSE]
Everyone == [vec |-> <<>>, matchAll |-> TRUE]
Walk(o)    == IF o.matchAll THEN AllIdxs ELSE o.vec
RulesIn(o) == Elems(Walk(o))
SizeOf(o)  == Len(Walk(o))

Init ==
  /\ pc = "next"
  /\ left = NumModules
  /\ narr = Everyone
  /\ cm = Cleared
  /\ mari = <<>>
  /\ unions = 0
  /\ last = FALSE
  /\ tmp = <<>> /\ other = <<>>
  /\ tget = 0 /\ oget = 0 /\ put = 0
  /\ want = {}
  /\ exact = All

-----------------------------------------------------------------------------
(* The next module, whose matchAllRuleIdxsVec_ is m: clear() and the start  *)
(* of CondModule::lookup().                                                 *)
Lookup(m) ==
  /\ pc = "next"
  /\ left > 0
  /\ left' = left - 1
  /\ mari' = m
  /\ last' = FALSE
  /\ unions' = MaxUnions
  /\ IF Len(m) < Len(AllIdxs)
     THEN pc' = "lookup2" /\ cm' = Cleared /\ want' = {}
     ELSE pc' = "intersect" /\ cm' = Everyone /\ want' = All
  /\ UNCHANGED <<narr, tmp, other, idxs, exact>>

(* What union_with() does when SmplVec has united the vectors to v. *)
Settled(v) == [vec |-> v, matchAll |-> Len(v) = Len(AllIdxs)]
AfterUnion(isLast) == IF isLast THEN "intersect" ELSE "lookup2"

(* MatchedIdxs::union_with(v), up to the loops of SmplVec::union_with(). *)
Unite(v) ==
  /\ want' = want \cup Elems(v)
  /\ IF ~cm.matchAll /\ Len(v) # Len(AllIdxs) /\ v # <<>> /\ cm.vec # <<>>
     THEN /\ tmp' = cm.vec
          /\ other' = v
          /\ tget' = 0 /\ oget' = 0 /\ put' = 0
          /\ cm' = Cleared
          /\ pc' = "union"
     ELSE /\ cm' = IF cm.matchAll THEN cm
                   ELSE IF Len(v) = Len(AllIdxs) THEN [cm EXCEPT !.matchAll = TRUE]
                   ELSE Settled(IF v = <<>> THEN cm.vec ELSE v)
          /\ pc' = AfterUnion(last')
          /\ UNCHANGED <<tmp, other, idxs>>

(* A vector that lookup2() finds ... *)
UniteFound(v) ==
  /\ pc = "lookup2"
  /\ unions > 0
  /\ unions' = unions - 1
  /\ UNCHANGED <<last, left, narr, mari, exact>>
  /\ Unite(v)

(* ... and the rules that match any request. *)
UniteMatchAll ==
  /\ pc = "lookup2"
  /\ last' = TRUE
  /\ UNCHANGED <<unions, left, narr, mari, exact>>
  /\ Unite(mari)

-----------------------------------------------------------------------------
(* The loops of SmplVec::union_with(). *)
ThisFirst  == tget < Len(tmp) /\ (oget < Len(other) => tmp[tget + 1] < other[oget + 1])
OtherFirst == oget < Len(other) /\ (tget < Len(tmp) => other[oget + 1] < tmp[tget + 1])
AtEqual    == tget < Len(tmp) /\ oget < Len(other) /\ tmp[tget + 1] = other[oget + 1]

PushBack(x) == cm' = [cm EXCEPT !.vec = Append(@, x)]

inUnion == <<pc, left, narr, mari, unions, last, tmp, other, put, want, exact>>

PushThis ==
  /\ pc = "union"
  /\ ThisFirst
  /\ PushBack(tmp[tget + 1])
  /\ tget' = tget + 1
  /\ UNCHANGED <<oget, inUnion>>

PushOther ==
  /\ pc = "union"
  /\ OtherFirst
  /\ PushBack(other[oget + 1])
  /\ oget' = oget + 1
  /\ UNCHANGED <<tget, inUnion>>

(* Bug: the other vector's index stays. *)
PushBothOnce ==
  /\ pc = "union"
  /\ AtEqual
  /\ PushBack(tmp[tget + 1])
  /\ tget' = tget + 1
  /\ UNCHANGED <<oget, inUnion>>

PushBoth ==
  /\ pc = "union"
  /\ AtEqual
  /\ PushBack(tmp[tget + 1])
  /\ tget' = tget + 1
  /\ oget' = oget + 1
  /\ UNCHANGED inUnion

(* Bug: without the loops for what is left of either vector. *)
UnionDoneEarly ==
  /\ pc = "union"
  /\ tget = Len(tmp) \/ oget = Len(other)
  /\ cm' = Settled(cm.vec)
  /\ pc' = AfterUnion(last)
  /\ UNCHANGED <<left, narr, mari, unions, last, tmp, other, idxs, want, exact>>

UnionDone ==
  /\ pc = "union"
  /\ tget = Len(tmp) /\ oget = Len(other)
  /\ cm' = Settled(cm.vec)
  /\ pc' = AfterUnion(last)
  /\ UNCHANGED <<left, narr, mari, unions, last, tmp, other, idxs, want, exact>>

-----------------------------------------------------------------------------
(* lookupRules() goes on until no module or no rule is left. *)
EndModule(n) ==
  /\ narr' = n
  /\ pc' = IF SizeOf(n) = 0 \/ left = 0 THEN "done" ELSE "next"

(* MatchedIdxs::intersect_with(cm), up to the loop of SmplVec's. *)
Intersect ==
  /\ pc = "intersect"
  /\ exact' = exact \cap want
  /\ tget' = 0 /\ oget' = 0 /\ put' = 0
  /\ IF cm.matchAll THEN EndModule(narr)
     ELSE IF narr.matchAll THEN EndModule(cm)
     ELSE IF cm.vec = <<>> THEN EndModule([narr EXCEPT !.vec = <<>>])
     ELSE pc' = "common" /\ UNCHANGED narr
  /\ UNCHANGED <<left, cm, mari, unions, last, tmp, other, want>>

This  == narr.vec[tget + 1]
Other == cm.vec[oget + 1]
Both  == tget < Len(narr.vec) /\ oget < Len(cm.vec)

inCommon == <<left, cm, mari, unions, last, tmp, other, want, exact>>

Keep ==
  /\ pc = "common"
  /\ Both
  /\ This = Other
  /\ narr' = [narr EXCEPT !.vec[put + 1] = This]
  /\ tget' = tget + 1 /\ oget' = oget + 1 /\ put' = put + 1
  /\ UNCHANGED <<pc, inCommon>>

SkipThis ==
  /\ pc = "common"
  /\ Both
  /\ This < Other
  /\ tget' = tget + 1
  /\ UNCHANGED <<pc, narr, oget, put, inCommon>>

(* Bug: the place to put the next rule moves on. *)
SkipOtherPuts ==
  /\ pc = "common"
  /\ Both
  /\ Other < This
  /\ oget' = oget + 1
  /\ put' = put + 1
  /\ UNCHANGED <<pc, narr, tget, inCommon>>

(* Bug: the index stays. *)
SkipOtherStays ==
  /\ pc = "common"
  /\ Both
  /\ Other < This
  /\ UNCHANGED <<pc, narr, idxs, inCommon>>

SkipOther ==
  /\ pc = "common"
  /\ Both
  /\ Other < This
  /\ oget' = oget + 1
  /\ UNCHANGED <<pc, narr, tget, put, inCommon>>

IntersectDone ==
  /\ pc = "common"
  /\ ~Both
  /\ EndModule([narr EXCEPT !.vec = SubSeq(@, 1, put)])
  /\ UNCHANGED <<idxs, inCommon>>

(* The next lookupRules() of the phase starts with new objects. *)
NextLookup ==
  /\ pc = "done"
  /\ pc' = "next"
  /\ left' = NumModules
  /\ narr' = Everyone
  /\ cm' = Cleared
  /\ want' = {}
  /\ exact' = All
  /\ UNCHANGED <<mari, unions, last, tmp, other, idxs>>

Step ==
  \/ \E m \in MatchAllVecs : Lookup(m)
  \/ \E v \in Vecs : UniteFound(v)
  \/ UniteMatchAll
  \/ PushThis \/ PushOther \/ PushBoth \/ UnionDone
  \/ Intersect \/ Keep \/ SkipThis \/ SkipOther \/ IntersectDone

Next == Step \/ NextLookup

Spec == Init /\ [][Next]_vars

(* The thread goes on with the lookup. *)
FairSpec == Spec /\ WF_vars(Step)

-----------------------------------------------------------------------------
TypeOK ==
  /\ pc \in {"next", "lookup2", "union", "intersect", "common", "done"}
  /\ left \in 0 .. NumModules
  /\ narr \in [vec : Seq(All), matchAll : BOOLEAN]
  /\ cm \in [vec : Seq(All), matchAll : BOOLEAN]
  /\ mari \in Seq(All) /\ tmp \in Seq(All) /\ other \in Seq(All)
  /\ unions \in 0 .. MaxUnions
  /\ last \in BOOLEAN
  /\ tget \in Nat /\ oget \in Nat /\ put \in 0 .. tget
  /\ want \subseteq All
  /\ exact \subseteq All

(* Whatever the tables hold, no rule is lost that every module has found.   *)
(* (union_with and intersect_with, as used by Config::lookupRules)          *)
NarrowingComplete == pc \in {"next", "done"} => exact \subseteq RulesIn(narr)

(* The rules left are filtered, and their actions run, in the order of the  *)
(* configuration.                                                           *)
WalkInOrder == pc = "done" => Ascending(Walk(narr))

(* If no table has a rule twice, neither has the result ...                 *)
(* (Config::lookupRules, "the intermediate set of rules")                   *)
NoRuleTwice == pc = "done" => Strict(Walk(narr))

(* ... and the rules left are exactly those that every module has found:    *)
(* counting rules to tell that they are all of them is right.               *)
NarrowedRules == pc = "done" => RulesIn(narr) = exact

(* The merges lose nothing and keep the order, whatever the tables hold, and *)
(* are those of sets, if no table has a rule twice.                         *)
MergesRight ==
  /\ NarrowingComplete /\ WalkInOrder
  /\ DistinctTables => NoRuleTwice /\ NarrowedRules

(* What a module has found so far, and the rules left, also in the middle of *)
(* a merge: of the vectors, what is behind the indices is still to come.     *)
Prefix(v, n) == {v[i] : i \in 1 .. n}
Suffix(v, n) == {v[i] : i \in n + 1 .. Len(v)}

foundNow == IF pc = "union" THEN Elems(cm.vec) \cup Suffix(tmp, tget) \cup Suffix(other, oget)
            ELSE RulesIn(cm)
rulesNow == IF pc = "common"
            THEN Prefix(narr.vec, put) \cup (Suffix(narr.vec, tget) \cap Suffix(cm.vec, oget))
            ELSE RulesIn(narr)

(* The loop over two vectors has nothing to decide: the rules that both have *)
(* are fixed when it begins, and so is whether another module is asked.      *)
stageNow == CASE pc \in {"lookup2", "union", "intersect"} -> "asked"
              [] pc = "common" -> IF rulesNow = {} \/ left = 0 THEN "done" ELSE "next"
              [] OTHER -> pc

Abstract == INSTANCE Narrowing WITH
  stage <- stageNow, always <- Elems(mari), found <- foundNow, rules <- rulesNow

(* With such tables, each round of the merges does what intersecting the     *)
(* sets of rules that the modules find does, or nothing.                     *)
(* (Config::lookupRules)                                                     *)
ImplementsNarrowing == Abstract!Spec

(* The loops of every lookup come to an end. *)
LookupEnds == pc # "done" ~> pc = "done"

=============================================================================
