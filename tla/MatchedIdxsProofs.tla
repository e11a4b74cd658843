-------------------------- MODULE MatchedIdxsProofs ---------------------------
(***************************************************************************)
(* Proofs about MatchedIdxs, for any rules, tables and modules.            *)
(*                                                                         *)
(* Every statement is about both kinds of tables: with a rule at most once *)
(* the vectors are strictly ascending and the sets exact, otherwise they   *)
(* ascend and no rule is missing.  Before and Covers stand for the one or  *)
(* the other.                                                              *)
(***************************************************************************)
EXTENDS MatchedIdxs, FiniteSetTheorems, TLAPS

Before(x, y) == IF DistinctTables THEN x < y ELSE x <= y
Sorted(v)    == \A i, j \in DOMAIN v : i < j => Before(v[i], v[j])
Below(S, T)  == \A x \in S, y \in T : Before(x, y)
Covers(S, T) == S \subseteq T /\ (DistinctTables => S = T)

LEMMA AllType == \A x \in All : x \in Nat
BY AllIdxsAssumption DEF All, Elems

LEMMA BeforeFacts ==
  ASSUME NEW x \in All, NEW y \in All
  PROVE  /\ x < y => Before(x, y)
         /\ Before(x, y) => x <= y
         /\ DistinctTables /\ Before(x, y) => x < y
BY AllType DEF Before

LEMMA SortedFacts ==
  ASSUME NEW v \in Seq(All), Sorted(v)
  PROVE  /\ Ascending(v)
         /\ DistinctTables => Strict(v)
BY BeforeFacts DEF Sorted, Ascending, Strict

LEMMA StrictSorted ==
  ASSUME NEW v \in Seq(All), Strict(v)
  PROVE  Sorted(v)
BY BeforeFacts DEF Sorted, Strict

LEMMA TablesSorted ==
  ASSUME NEW v \in Vecs
  PROVE  v \in Seq(All) /\ Sorted(v)
<1>1. v \in Seq(All) /\ Ascending(v)
  BY VecsAssumption
<1>2. CASE DistinctTables
  BY <1>1, <1>2, StrictSorted DEF DistinctTables
<1>3. CASE ~DistinctTables
  BY <1>1, <1>3 DEF Sorted, Ascending, Before
<1>4. QED
  BY <1>1, <1>2, <1>3

LEMMA AllIdxsSorted == AllIdxs \in Seq(All) /\ Sorted(AllIdxs) /\ Elems(AllIdxs) = All
<1>1. AllIdxs \in Seq(All)
  <2>1. \A i \in DOMAIN AllIdxs : AllIdxs[i] \in All
    BY DEF All, Elems
  <2>2. QED
    BY <2>1, AllIdxsAssumption
<1>2. QED
  BY <1>1, AllIdxsAssumption, StrictSorted DEF All

-----------------------------------------------------------------------------
(* What the loops do to vectors.                                           *)

LEMMA PartFacts ==
  ASSUME NEW v \in Seq(All), NEW n \in 0 .. Len(v)
  PROVE  /\ Prefix(v, n) \subseteq All /\ Suffix(v, n) \subseteq All /\ Elems(v) \subseteq All
         /\ Prefix(v, 0) = {} /\ Suffix(v, 0) = Elems(v)
         /\ Prefix(v, Len(v)) = Elems(v) /\ Suffix(v, Len(v)) = {}
         /\ n < Len(v) => /\ v[n + 1] \in All
                          /\ Prefix(v, n + 1) = Prefix(v, n) \cup {v[n + 1]}
                          /\ Suffix(v, n) = Suffix(v, n + 1) \cup {v[n + 1]}
<1>1. Len(v) \in Nat /\ DOMAIN v = 1 .. Len(v) /\ \A i \in 1 .. Len(v) : v[i] \in All
  OBVIOUS
<1>2. Prefix(v, n) \subseteq All /\ Suffix(v, n) \subseteq All /\ Elems(v) \subseteq All
  BY <1>1 DEF Prefix, Suffix, Elems
<1>3. Prefix(v, 0) = {} /\ Suffix(v, Len(v)) = {}
  BY <1>1 DEF Prefix, Suffix
<1>4. Suffix(v, 0) = Elems(v) /\ Prefix(v, Len(v)) = Elems(v)
  BY <1>1 DEF Suffix, Prefix, Elems
<1>5. ASSUME n < Len(v)
      PROVE  /\ v[n + 1] \in All
             /\ Prefix(v, n + 1) = Prefix(v, n) \cup {v[n + 1]}
             /\ Suffix(v, n) = Suffix(v, n + 1) \cup {v[n + 1]}
  <2>1. 1 .. n + 1 = (1 .. n) \cup {n + 1} /\ n + 1 .. Len(v) = (n + 1 + 1 .. Len(v)) \cup {n + 1}
    BY <1>1, <1>5
  <2>2. v[n + 1] \in All
    BY <1>1, <1>5
  <2>3. QED
    BY <2>1, <2>2 DEF Prefix, Suffix
<1>6. QED
  BY <1>2, <1>3, <1>4, <1>5

LEMMA PartsElems ==
  ASSUME NEW v \in Seq(All), NEW n \in 0 .. Len(v)
  PROVE  Elems(v) = Prefix(v, n) \cup Suffix(v, n)
<1>1. DOMAIN v = 1 .. Len(v)
  OBVIOUS
<1>2. PICK k \in Nat : k = Len(v)
  OBVIOUS
<1>3. n \in 0 .. k /\ 1 .. k = (1 .. n) \cup (n + 1 .. k)
  BY <1>2
<1>4. QED
  BY <1>1, <1>2, <1>3, Zenon DEF Elems, Prefix, Suffix

(* The first element left of a sorted vector is below those after it. *)
LEMMA HeadBelow ==
  ASSUME NEW v \in Seq(All), NEW n \in Nat, n < Len(v),
         \A i, j \in n + 1 .. Len(v) : i < j => Before(v[i], v[j])
  PROVE  Below({v[n + 1]}, Suffix(v, n + 1))
<1>1. \A j \in n + 1 + 1 .. Len(v) : n + 1 \in n + 1 .. Len(v) /\ j \in n + 1 .. Len(v) /\ n + 1 < j
  OBVIOUS
<1>2. QED
  BY <1>1 DEF Below, Suffix

LEMMA SortedFrom ==
  ASSUME NEW v \in Seq(All), Sorted(v), NEW n \in Nat
  PROVE  \A i, j \in n + 1 .. Len(v) : i < j => Before(v[i], v[j])
<1>1. \A i \in n + 1 .. Len(v) : i \in DOMAIN v
  OBVIOUS
<1>2. QED
  BY <1>1 DEF Sorted

(* What is less than the first element left is below all of them. *)
LEMMA LessBelow ==
  ASSUME NEW v \in Seq(All), NEW n \in Nat, n < Len(v), NEW x \in All, x < v[n + 1],
         \A i, j \in n + 1 .. Len(v) : i < j => Before(v[i], v[j])
  PROVE  Below({x}, Suffix(v, n)) /\ x \notin Suffix(v, n)
<1>1. n \in 0 .. Len(v) /\ v[n + 1] \in All
  BY PartFacts
<1>2. Below({v[n + 1]}, Suffix(v, n + 1))
  BY HeadBelow
<1>3. Suffix(v, n) = Suffix(v, n + 1) \cup {v[n + 1]} /\ Suffix(v, n) \subseteq All
  BY <1>1, PartFacts
<1>4. ASSUME NEW y \in Suffix(v, n) PROVE x < y /\ y \in All
  <2>1. y \in All /\ (y = v[n + 1] \/ Before(v[n + 1], y))
    BY <1>2, <1>3 DEF Below
  <2>2. x \in Nat /\ y \in Nat /\ v[n + 1] \in Nat
    BY <1>1, <2>1, AllType
  <2>3. v[n + 1] <= y
    <3>1. CASE y = v[n + 1]
      BY <3>1, <2>2
    <3>2. CASE Before(v[n + 1], y)
      BY <3>2, <1>1, <2>1, BeforeFacts
    <3>3. QED
      BY <3>1, <3>2, <2>1
  <2>4. QED
    BY <2>1, <2>2, <2>3
<1>5. x \in Nat
  BY AllType
<1>6. \A y \in Suffix(v, n) : y # x
  BY <1>4, <1>5
<1>7. \A y \in Suffix(v, n) : Before(x, y)
  BY <1>4, BeforeFacts
<1>8. QED
  BY <1>6, <1>7 DEF Below

LEMMA AppendFacts ==
  ASSUME NEW v \in Seq(All), NEW x \in All
  PROVE  /\ Append(v, x) \in Seq(All)
         /\ Elems(Append(v, x)) = Elems(v) \cup {x}
         /\ Sorted(v) /\ Below(Elems(v), {x}) => Sorted(Append(v, x))
<1> DEFINE w == Append(v, x)
<1>1. /\ w \in Seq(All) /\ Len(v) \in Nat /\ Len(w) = Len(v) + 1
      /\ DOMAIN v = 1 .. Len(v) /\ DOMAIN w = 1 .. Len(v) + 1
      /\ \A i \in 1 .. Len(v) : w[i] = v[i]
      /\ w[Len(v) + 1] = x
  OBVIOUS
<1> HIDE DEF w
<1>2. DOMAIN w = DOMAIN v \cup {Len(v) + 1}
  BY <1>1
<1>3. \A i \in DOMAIN v : w[i] = v[i]
  BY <1>1
<1>4. Elems(w) = Elems(v) \cup {x}
  BY <1>1, <1>2, <1>3 DEF Elems
<1>5. ASSUME Sorted(v), Below(Elems(v), {x}), NEW i \in DOMAIN w, NEW j \in DOMAIN w, i < j
      PROVE  Before(w[i], w[j])
  <2>1. i \in DOMAIN v
    BY <1>1, <1>5
  <2>2. CASE j \in DOMAIN v
    BY <2>1, <2>2, <1>3, <1>5 DEF Sorted
  <2>3. CASE j = Len(v) + 1
    <3>1. v[i] \in Elems(v)
      BY <2>1 DEF Elems
    <3>2. QED
      BY <3>1, <2>1, <2>3, <1>1, <1>3, <1>5 DEF Below
  <2>4. QED
    BY <1>2, <2>2, <2>3
<1>6. QED
  BY <1>1, <1>4, <1>5 DEF Sorted, w

-----------------------------------------------------------------------------
(* Telling all rules by their number.                                      *)

LEMMA StrictSize ==
  ASSUME NEW v \in Seq(All), Strict(v)
  PROVE  IsFiniteSet(Elems(v)) /\ Cardinality(Elems(v)) = Len(v)
<1>1. Len(v) \in Nat /\ DOMAIN v = 1 .. Len(v) /\ v \in [1 .. Len(v) -> Elems(v)]
  BY DEF Elems
<1>2. \A i, j \in 1 .. Len(v) : v[i] = v[j] => i = j
  <2>1. \A i \in 1 .. Len(v) : v[i] \in Nat
    <3>1. \A i \in 1 .. Len(v) : v[i] \in All
      OBVIOUS
    <3>2. QED
      BY <3>1, AllType
  <2>2. \A i, j \in 1 .. Len(v) : i < j => v[i] # v[j]
    BY <1>1, <2>1 DEF Strict
  <2>3. QED
    BY <2>2
<1>3. \A x \in Elems(v) : \E i \in 1 .. Len(v) : v[i] = x
  BY <1>1 DEF Elems
<1>4. ExistsBijection(1 .. Len(v), Elems(v))
  BY <1>1, <1>2, <1>3 DEF ExistsBijection, Bijection, Injection, IsInjective, Surjection
<1>5. QED
  BY <1>1, <1>4, FS_CountingElements, FS_NatBijection

LEMMA AllBySize ==
  ASSUME NEW v \in Seq(All), Strict(v), Len(v) = Len(AllIdxs)
  PROVE  Elems(v) = All
<1>1. IsFiniteSet(All) /\ Cardinality(All) = Len(AllIdxs)
  BY AllIdxsSorted, AllIdxsAssumption, StrictSize
<1>2. Cardinality(Elems(v)) = Len(AllIdxs)
  BY StrictSize
<1>3. Elems(v) \in SUBSET All
  BY DEF Elems
<1>4. QED
  BY <1>1, <1>2, <1>3, FS_Subset

LEMMA SettledFacts ==
  ASSUME NEW v \in Seq(All), Sorted(v)
  PROVE  Covers(Elems(v), RulesIn(Settled(v)))
<1>1. Elems(v) \subseteq All
  BY DEF Elems
<1>2. CASE Len(v) # Len(AllIdxs)
  BY <1>2 DEF Covers, RulesIn, Walk, Settled
<1>3. CASE Len(v) = Len(AllIdxs)
  <2>1. RulesIn(Settled(v)) = All
    BY <1>3 DEF RulesIn, Walk, Settled, All
  <2>2. DistinctTables => Elems(v) = All
    BY <1>3, SortedFacts, AllBySize
  <2>3. QED
    BY <1>1, <2>1, <2>2 DEF Covers
<1>4. QED
  BY <1>2, <1>3

LEMMA CoversFacts ==
  ASSUME NEW S, NEW T, Covers(S, T), NEW S2, NEW T2, Covers(S2, T2)
  PROVE  Covers(S \cup S2, T \cup T2) /\ Covers(S \cap S2, T \cap T2)
BY DEF Covers

-----------------------------------------------------------------------------
(* The invariant.                                                          *)

SortedInv ==
  /\ Sorted(cm.vec) /\ Sorted(mari)
  /\ pc # "common" => Sorted(narr.vec)

(* Union: what has been pushed is what was taken from either vector, and is *)
(* below what is left of them.                                              *)
UnionInv ==
  pc = "union" =>
    /\ Sorted(tmp) /\ Sorted(other)
    /\ tget <= Len(tmp) /\ oget <= Len(other)
    /\ Covers(want, Elems(tmp) \cup Elems(other))
    /\ Elems(cm.vec) = Prefix(tmp, tget) \cup Prefix(other, oget)
    /\ Below(Elems(cm.vec), Suffix(tmp, tget) \cup Suffix(other, oget))

FoundInv == pc \in {"lookup2", "intersect"} => Covers(want, RulesIn(cm))

LeftInv == pc # "common" => Covers(exact, RulesIn(narr))

(* Intersection: the rules are among those kept in front, or still to come  *)
(* in both vectors; what is kept never overtakes what is read.              *)
CommonInv ==
  pc = "common" =>
    /\ ~narr.matchAll /\ ~cm.matchAll
    /\ tget <= Len(narr.vec) /\ oget <= Len(cm.vec)
    /\ \A i, j \in 1 .. put : i < j => Before(narr.vec[i], narr.vec[j])
    /\ \A i, j \in tget + 1 .. Len(narr.vec) : i < j => Before(narr.vec[i], narr.vec[j])
    /\ Below(Prefix(narr.vec, put), Suffix(narr.vec, tget))
    /\ Covers(exact, Prefix(narr.vec, put) \cup (Suffix(narr.vec, tget) \cap Suffix(cm.vec, oget)))

IInv == TypeOK /\ SortedInv /\ UnionInv /\ FoundInv /\ LeftInv /\ CommonInv

LEMMA EmptyFacts ==
  /\ <<>> \in Seq(All) /\ Sorted(<<>>) /\ Elems(<<>>) = {}
  /\ Cleared \in [vec : Seq(All), matchAll : BOOLEAN] /\ Sorted(Cleared.vec)
  /\ RulesIn(Cleared) = {}
  /\ Everyone \in [vec : Seq(All), matchAll : BOOLEAN] /\ Sorted(Everyone.vec)
  /\ RulesIn(Everyone) = All
<1>1. <<>> \in Seq(All) /\ DOMAIN <<>> = {}
  OBVIOUS
<1>2. Sorted(<<>>) /\ Elems(<<>>) = {}
  BY <1>1 DEF Sorted, Elems
<1>3. RulesIn(Cleared) = {} /\ RulesIn(Everyone) = All
  BY <1>2 DEF RulesIn, Walk, Cleared, Everyone, All
<1>4. QED
  BY <1>1, <1>2, <1>3 DEF Cleared, Everyone

LEMMA InitInv == Init => IInv
<1> SUFFICES ASSUME Init PROVE IInv
  OBVIOUS
<1>1. TypeOK
  <2>1. <<>> \in Seq(All) /\ Everyone \in [vec : Seq(All), matchAll : BOOLEAN]
        /\ Cleared \in [vec : Seq(All), matchAll : BOOLEAN]
    BY EmptyFacts
  <2>2. NumModules \in 0 .. NumModules /\ 0 \in 0 .. MaxUnions /\ 0 \in 0 .. 0
    BY BoundsAssumption
  <2>3. QED
    BY <2>1, <2>2 DEF Init, TypeOK
<1>2. SortedInv /\ LeftInv
  BY EmptyFacts DEF Init, SortedInv, LeftInv, Covers
<1>3. UnionInv /\ FoundInv /\ CommonInv
  BY DEF Init, UnionInv, FoundInv, CommonInv
<1>4. QED
  BY <1>1, <1>2, <1>3 DEF IInv

LEMMA LookupStep ==
  ASSUME IInv, NEW m \in MatchAllVecs, Lookup(m)
  PROVE  IInv'
<1>1. m \in Seq(All) /\ Sorted(m)
  BY TablesSorted DEF MatchAllVecs
<1>2. /\ narr' = narr /\ exact' = exact /\ pc # "common" /\ mari' = m
      /\ \/ pc' = "lookup2" /\ cm' = Cleared /\ want' = {}
         \/ pc' = "intersect" /\ cm' = Everyone /\ want' = All
  BY DEF Lookup
<1>3. left' \in 0 .. NumModules
  <2>1. left \in 0 .. NumModules /\ left > 0 /\ left' = left - 1 /\ NumModules \in Nat
    BY BoundsAssumption DEF Lookup, IInv, TypeOK
  <2>2. QED
    BY <2>1
<1>4. TypeOK'
  <2>1. cm' \in [vec : Seq(All), matchAll : BOOLEAN] /\ want' \subseteq All
        /\ pc' \in {"lookup2", "intersect"}
    BY <1>2, EmptyFacts
  <2>2. MaxUnions \in 0 .. MaxUnions
    BY BoundsAssumption
  <2>3. last' = FALSE /\ unions' = MaxUnions /\ UNCHANGED <<narr, tmp, other, tget, oget, put, exact>>
    BY DEF Lookup, idxs
  <2>4. QED
    BY <1>1, <1>2, <1>3, <2>1, <2>2, <2>3 DEF IInv, TypeOK
<1>5. SortedInv'
  BY <1>1, <1>2, EmptyFacts DEF IInv, SortedInv
<1>6. FoundInv'
  BY <1>2, EmptyFacts DEF FoundInv, Covers
<1>7. LeftInv'
  BY <1>2 DEF IInv, LeftInv
<1>8. UnionInv' /\ CommonInv'
  BY <1>2 DEF UnionInv, CommonInv
<1>9. QED
  BY <1>4, <1>5, <1>6, <1>7, <1>8 DEF IInv

LEMMA UniteStep ==
  ASSUME IInv, pc = "lookup2", NEW v \in Seq(All), Sorted(v), Unite(v),
         last' \in BOOLEAN, unions' \in 0 .. MaxUnions, UNCHANGED <<left, narr, mari, exact>>
  PROVE  IInv'
<1>1. Sorted(cm.vec) /\ Sorted(mari) /\ Sorted(narr.vec) /\ cm.vec \in Seq(All) /\ want \subseteq All
      /\ Covers(want, RulesIn(cm)) /\ Covers(exact, RulesIn(narr)) /\ cm.matchAll \in BOOLEAN
      /\ cm \in [vec : Seq(All), matchAll : BOOLEAN]
  BY DEF IInv, SortedInv, FoundInv, LeftInv, TypeOK
<1>2. Elems(v) \subseteq All /\ want' = want \cup Elems(v)
  BY DEF Unite, Elems
<1>3. pc' \in {"lookup2", "intersect", "union"}
  BY DEF Unite, AfterUnion
<1>4. LeftInv' /\ CommonInv'
  BY <1>1, <1>3 DEF LeftInv, CommonInv
<1>5. CASE ~cm.matchAll /\ Len(v) # Len(AllIdxs) /\ v # <<>> /\ cm.vec # <<>>
  <2>1. /\ tmp' = cm.vec /\ other' = v /\ tget' = 0 /\ oget' = 0 /\ put' = 0
        /\ cm' = Cleared /\ pc' = "union"
    BY <1>5 DEF Unite
  <2>2. TypeOK'
    BY <1>1, <1>2, <2>1, EmptyFacts DEF IInv, TypeOK
  <2>3. SortedInv'
    BY <1>1, <2>1, EmptyFacts DEF SortedInv
  <2>4. UnionInv'
    <3>1. Covers(want', Elems(cm.vec) \cup Elems(v))
      BY <1>1, <1>2, <1>5 DEF Covers, RulesIn, Walk
    <3>2. Elems(Cleared.vec) = {}
      BY EmptyFacts DEF Cleared
    <3>3. Prefix(cm.vec, 0) = {} /\ Prefix(v, 0) = {} /\ 0 <= Len(cm.vec) /\ 0 <= Len(v)
      BY <1>1 DEF Prefix
    <3>4. QED
      BY <1>1, <2>1, <3>1, <3>2, <3>3 DEF UnionInv, Below
  <2>5. FoundInv'
    BY <2>1 DEF FoundInv
  <2>6. QED
    BY <1>4, <2>2, <2>3, <2>4, <2>5 DEF IInv
<1>6. CASE ~(~cm.matchAll /\ Len(v) # Len(AllIdxs) /\ v # <<>> /\ cm.vec # <<>>)
  <2>1. /\ cm' = IF cm.matchAll THEN cm
                 ELSE IF Len(v) = Len(AllIdxs) THEN [cm EXCEPT !.matchAll = TRUE]
                 ELSE Settled(IF v = <<>> THEN cm.vec ELSE v)
        /\ pc' \in {"lookup2", "intersect"}
        /\ tmp' = tmp /\ other' = other /\ tget' = tget /\ oget' = oget /\ put' = put
    BY <1>6 DEF Unite, idxs, AfterUnion
  <2>2. CASE cm.matchAll
    <3>1. cm' = cm
      BY <2>1, <2>2
    <3>2. RulesIn(cm) = All
      BY <2>2 DEF RulesIn, Walk, All
    <3>3. Covers(want', RulesIn(cm'))
      BY <1>1, <1>2, <3>1, <3>2 DEF Covers
    <3>4. cm' \in [vec : Seq(All), matchAll : BOOLEAN] /\ Sorted(cm'.vec)
      BY <1>1, <3>1
    <3>5. QED
      BY <1>1, <1>2, <1>4, <2>1, <3>3, <3>4 DEF IInv, TypeOK, SortedInv, UnionInv, FoundInv
  <2>3. CASE ~cm.matchAll /\ Len(v) = Len(AllIdxs)
    <3>1. cm' = [cm EXCEPT !.matchAll = TRUE]
      BY <2>1, <2>3
    <3>2. cm'.vec = cm.vec /\ cm'.matchAll = TRUE /\ cm' \in [vec : Seq(All), matchAll : BOOLEAN]
      BY <1>1, <3>1
    <3>3. RulesIn(cm') = All
      BY <3>2 DEF RulesIn, Walk, All
    <3>4. DistinctTables => Elems(v) = All
      BY <2>3, SortedFacts, AllBySize
    <3>5. Covers(want', RulesIn(cm'))
      BY <1>1, <1>2, <3>3, <3>4 DEF Covers
    <3>6. QED
      BY <1>1, <1>2, <1>4, <2>1, <3>2, <3>5 DEF IInv, TypeOK, SortedInv, UnionInv, FoundInv
  <2>4. CASE ~cm.matchAll /\ Len(v) # Len(AllIdxs)
    <3> DEFINE w == IF v = <<>> THEN cm.vec ELSE v
    <3>1. cm' = Settled(w)
      BY <2>1, <2>4
    <3>2. w \in Seq(All) /\ Sorted(w)
      BY <1>1
    <3>3. Covers(want', Elems(w))
      <4>1. Covers(want, Elems(cm.vec))
        BY <1>1, <2>4 DEF RulesIn, Walk
      <4>2. CASE v = <<>>
        BY <4>1, <4>2, <1>2, EmptyFacts DEF Covers
      <4>3. CASE v # <<>>
        <5>1. Elems(cm.vec) = {}
          BY <4>3, <1>6, <2>4, EmptyFacts
        <5>2. QED
          BY <4>1, <4>3, <5>1, <1>2 DEF Covers
      <4>4. QED
        BY <4>2, <4>3
    <3> HIDE DEF w
    <3>4. Covers(Elems(w), RulesIn(Settled(w)))
      BY <3>2, SettledFacts
    <3>5. Covers(want', RulesIn(cm'))
      BY <3>1, <3>3, <3>4 DEF Covers
    <3>6. cm' \in [vec : Seq(All), matchAll : BOOLEAN] /\ cm'.vec = w
      BY <3>1, <3>2 DEF Settled
    <3>7. QED
      BY <1>1, <1>2, <1>4, <2>1, <3>2, <3>5, <3>6 DEF IInv, TypeOK, SortedInv, UnionInv, FoundInv
  <2>5. QED
    BY <2>2, <2>3, <2>4
<1>7. QED
  BY <1>5, <1>6

(* An element x goes from the vectors to the end of the union. *)
LEMMA PushStep ==
  ASSUME IInv, pc = "union", NEW x \in All, PushBack(x),
         UNCHANGED <<pc, left, narr, mari, unions, last, tmp, other, put, want, exact>>,
         tget' \in {tget, tget + 1}, oget' \in {oget, oget + 1},
         tget' <= Len(tmp), oget' <= Len(other),
         x \in Suffix(tmp, tget) \cup Suffix(other, oget),
         Prefix(tmp, tget') \cup Prefix(other, oget')
           = Prefix(tmp, tget) \cup Prefix(other, oget) \cup {x},
         Suffix(tmp, tget') \subseteq Suffix(tmp, tget),
         Suffix(other, oget') \subseteq Suffix(other, oget),
         Below({x}, Suffix(tmp, tget') \cup Suffix(other, oget'))
  PROVE  IInv'
<1>1. /\ cm.vec \in Seq(All) /\ Sorted(cm.vec) /\ cm \in [vec : Seq(All), matchAll : BOOLEAN]
      /\ tget \in Nat /\ oget \in Nat /\ put \in 0 .. tget
  BY DEF IInv, TypeOK, SortedInv
<1>2. /\ Sorted(tmp) /\ Sorted(other)
      /\ Covers(want, Elems(tmp) \cup Elems(other))
      /\ Elems(cm.vec) = Prefix(tmp, tget) \cup Prefix(other, oget)
      /\ Below(Elems(cm.vec), Suffix(tmp, tget) \cup Suffix(other, oget))
  BY DEF IInv, UnionInv
<1>3. cm'.vec = Append(cm.vec, x) /\ cm'.matchAll = cm.matchAll
      /\ cm' = [cm EXCEPT !.vec = Append(cm.vec, x)]
  BY <1>1 DEF PushBack
<1>4. Below(Elems(cm.vec), {x})
  BY <1>2 DEF Below
<1>5. cm'.vec \in Seq(All) /\ Elems(cm'.vec) = Elems(cm.vec) \cup {x} /\ Sorted(cm'.vec)
  BY <1>1, <1>3, <1>4, AppendFacts
<1>6. cm' \in [vec : Seq(All), matchAll : BOOLEAN]
  BY <1>1, <1>3, <1>5
<1>7. TypeOK'
  <2>1. tget' \in Nat /\ oget' \in Nat /\ put \in 0 .. tget'
    BY <1>1
  <2>2. QED
    BY <1>6, <2>1 DEF IInv, TypeOK
<1>8. SortedInv'
  BY <1>5 DEF IInv, SortedInv
<1>9. UnionInv'
  <2>1. Elems(cm'.vec) = Prefix(tmp, tget') \cup Prefix(other, oget')
    BY <1>2, <1>5
  <2>2. Below(Elems(cm'.vec), Suffix(tmp, tget') \cup Suffix(other, oget'))
    BY <1>2, <1>5 DEF Below
  <2>3. QED
    BY <1>2, <2>1, <2>2 DEF UnionInv
<1>10. FoundInv' /\ LeftInv' /\ CommonInv'
  BY DEF IInv, FoundInv, LeftInv, CommonInv
<1>11. QED
  BY <1>7, <1>8, <1>9, <1>10 DEF IInv

LEMMA UnionFacts ==
  ASSUME IInv, pc = "union"
  PROVE  /\ tmp \in Seq(All) /\ other \in Seq(All) /\ tget \in 0 .. Len(tmp) /\ oget \in 0 .. Len(other)
         /\ Len(tmp) \in Nat /\ Len(other) \in Nat /\ tget \in Nat /\ oget \in Nat
         /\ \A i, j \in tget + 1 .. Len(tmp) : i < j => Before(tmp[i], tmp[j])
         /\ \A i, j \in oget + 1 .. Len(other) : i < j => Before(other[i], other[j])
<1>1. tmp \in Seq(All) /\ other \in Seq(All) /\ tget \in Nat /\ oget \in Nat
  BY DEF IInv, TypeOK
<1>2. Sorted(tmp) /\ Sorted(other) /\ tget <= Len(tmp) /\ oget <= Len(other)
  BY DEF IInv, UnionInv
<1>3. Len(tmp) \in Nat /\ Len(other) \in Nat
  BY <1>1
<1>4. tget \in 0 .. Len(tmp) /\ oget \in 0 .. Len(other)
  BY <1>1, <1>2, <1>3
<1>5. \A i, j \in tget + 1 .. Len(tmp) : i < j => Before(tmp[i], tmp[j])
  BY <1>1, <1>2, SortedFrom
<1>6. \A i, j \in oget + 1 .. Len(other) : i < j => Before(other[i], other[j])
  BY <1>1, <1>2, SortedFrom
<1>7. QED
  BY <1>1, <1>3, <1>4, <1>5, <1>6

LEMMA PushThisStep == IInv /\ PushThis => IInv'
<1> SUFFICES ASSUME IInv, PushThis PROVE IInv'
  OBVIOUS
<1> DEFINE x == tmp[tget + 1]
<1>0. pc = "union"
  BY DEF PushThis
<1>1. /\ tmp \in Seq(All) /\ other \in Seq(All) /\ tget \in 0 .. Len(tmp) /\ oget \in 0 .. Len(other)
      /\ Len(tmp) \in Nat /\ Len(other) \in Nat /\ tget \in Nat /\ oget \in Nat
      /\ \A i, j \in tget + 1 .. Len(tmp) : i < j => Before(tmp[i], tmp[j])
      /\ \A i, j \in oget + 1 .. Len(other) : i < j => Before(other[i], other[j])
  BY <1>0, UnionFacts
<1>2. /\ tget < Len(tmp) /\ (oget < Len(other) => x < other[oget + 1])
      /\ PushBack(x) /\ tget' = tget + 1 /\ oget' = oget
      /\ UNCHANGED <<pc, left, narr, mari, unions, last, tmp, other, put, want, exact>>
  BY DEF PushThis, ThisFirst, inUnion
<1>3. /\ x \in All
      /\ Prefix(tmp, tget + 1) = Prefix(tmp, tget) \cup {x}
      /\ Suffix(tmp, tget) = Suffix(tmp, tget + 1) \cup {x}
  BY <1>1, <1>2, PartFacts
<1>4. Below({x}, Suffix(tmp, tget + 1))
  BY <1>1, <1>2, HeadBelow
<1>5. Below({x}, Suffix(other, oget))
  <2>1. CASE oget < Len(other)
    BY <2>1, <1>1, <1>2, <1>3, LessBelow
  <2>2. CASE oget = Len(other)
    <3>1. Suffix(other, oget) = {}
      BY <2>2, <1>1, PartFacts
    <3>2. QED
      BY <3>1 DEF Below
  <2>3. QED
    BY <2>1, <2>2, <1>1
<1> HIDE DEF x
<1>6. Below({x}, Suffix(tmp, tget') \cup Suffix(other, oget'))
  BY <1>2, <1>4, <1>5 DEF Below
<1>7. tget' <= Len(tmp) /\ oget' <= Len(other)
  BY <1>1, <1>2
<1>8. /\ Prefix(tmp, tget') \cup Prefix(other, oget')
           = Prefix(tmp, tget) \cup Prefix(other, oget) \cup {x}
      /\ Suffix(tmp, tget') \subseteq Suffix(tmp, tget)
      /\ Suffix(other, oget') \subseteq Suffix(other, oget)
      /\ x \in Suffix(tmp, tget) \cup Suffix(other, oget)
  BY <1>2, <1>3
<1>9. tget' \in {tget, tget + 1} /\ oget' \in {oget, oget + 1}
  BY <1>2
<1>10. QED
  BY <1>0, <1>2, <1>3, <1>6, <1>7, <1>8, <1>9, PushStep

LEMMA PushOtherStep == IInv /\ PushOther => IInv'
<1> SUFFICES ASSUME IInv, PushOther PROVE IInv'
  OBVIOUS
<1> DEFINE x == other[oget + 1]
<1>0. pc = "union"
  BY DEF PushOther
<1>1. /\ tmp \in Seq(All) /\ other \in Seq(All) /\ tget \in 0 .. Len(tmp) /\ oget \in 0 .. Len(other)
      /\ Len(tmp) \in Nat /\ Len(other) \in Nat /\ tget \in Nat /\ oget \in Nat
      /\ \A i, j \in tget + 1 .. Len(tmp) : i < j => Before(tmp[i], tmp[j])
      /\ \A i, j \in oget + 1 .. Len(other) : i < j => Before(other[i], other[j])
  BY <1>0, UnionFacts
<1>2. /\ oget < Len(other) /\ (tget < Len(tmp) => x < tmp[tget + 1])
      /\ PushBack(x) /\ oget' = oget + 1 /\ tget' = tget
      /\ UNCHANGED <<pc, left, narr, mari, unions, last, tmp, other, put, want, exact>>
  BY DEF PushOther, OtherFirst, inUnion
<1>3. /\ x \in All
      /\ Prefix(other, oget + 1) = Prefix(other, oget) \cup {x}
      /\ Suffix(other, oget) = Suffix(other, oget + 1) \cup {x}
  BY <1>1, <1>2, PartFacts
<1>4. Below({x}, Suffix(other, oget + 1))
  BY <1>1, <1>2, HeadBelow
<1>5. Below({x}, Suffix(tmp, tget))
  <2>1. CASE tget < Len(tmp)
    BY <2>1, <1>1, <1>2, <1>3, LessBelow
  <2>2. CASE tget = Len(tmp)
    <3>1. Suffix(tmp, tget) = {}
      BY <2>2, <1>1, PartFacts
    <3>2. QED
      BY <3>1 DEF Below
  <2>3. QED
    BY <2>1, <2>2, <1>1
<1> HIDE DEF x
<1>6. Below({x}, Suffix(tmp, tget') \cup Suffix(other, oget'))
  BY <1>2, <1>4, <1>5 DEF Below
<1>7. tget' <= Len(tmp) /\ oget' <= Len(other)
  BY <1>1, <1>2
<1>8. /\ Prefix(tmp, tget') \cup Prefix(other, oget')
           = Prefix(tmp, tget) \cup Prefix(other, oget) \cup {x}
      /\ Suffix(tmp, tget') \subseteq Suffix(tmp, tget)
      /\ Suffix(other, oget') \subseteq Suffix(other, oget)
      /\ x \in Suffix(tmp, tget) \cup Suffix(other, oget)
  BY <1>2, <1>3
<1>9. tget' \in {tget, tget + 1} /\ oget' \in {oget, oget + 1}
  BY <1>2
<1>10. QED
  BY <1>0, <1>2, <1>3, <1>6, <1>7, <1>8, <1>9, PushStep

LEMMA PushBothStep == IInv /\ PushBoth => IInv'
<1> SUFFICES ASSUME IInv, PushBoth PROVE IInv'
  OBVIOUS
<1> DEFINE x == tmp[tget + 1]
<1>0. pc = "union"
  BY DEF PushBoth
<1>1. /\ tmp \in Seq(All) /\ other \in Seq(All) /\ tget \in 0 .. Len(tmp) /\ oget \in 0 .. Len(other)
      /\ Len(tmp) \in Nat /\ Len(other) \in Nat /\ tget \in Nat /\ oget \in Nat
      /\ \A i, j \in tget + 1 .. Len(tmp) : i < j => Before(tmp[i], tmp[j])
      /\ \A i, j \in oget + 1 .. Len(other) : i < j => Before(other[i], other[j])
  BY <1>0, UnionFacts
<1>2. /\ tget < Len(tmp) /\ oget < Len(other) /\ x = other[oget + 1]
      /\ PushBack(x) /\ tget' = tget + 1 /\ oget' = oget + 1
      /\ UNCHANGED <<pc, left, narr, mari, unions, last, tmp, other, put, want, exact>>
  BY DEF PushBoth, AtEqual, inUnion
<1>3. /\ x \in All
      /\ Prefix(tmp, tget + 1) = Prefix(tmp, tget) \cup {x}
      /\ Suffix(tmp, tget) = Suffix(tmp, tget + 1) \cup {x}
  BY <1>1, <1>2, PartFacts
<1>4. /\ Prefix(other, oget + 1) = Prefix(other, oget) \cup {x}
      /\ Suffix(other, oget) = Suffix(other, oget + 1) \cup {x}
  BY <1>1, <1>2, PartFacts
<1>5. Below({x}, Suffix(tmp, tget + 1)) /\ Below({x}, Suffix(other, oget + 1))
  BY <1>1, <1>2, HeadBelow
<1> HIDE DEF x
<1>6. Below({x}, Suffix(tmp, tget') \cup Suffix(other, oget'))
  BY <1>2, <1>5 DEF Below
<1>7. tget' <= Len(tmp) /\ oget' <= Len(other)
  BY <1>1, <1>2
<1>8. /\ Prefix(tmp, tget') \cup Prefix(other, oget')
           = Prefix(tmp, tget) \cup Prefix(other, oget) \cup {x}
      /\ Suffix(tmp, tget') \subseteq Suffix(tmp, tget)
      /\ Suffix(other, oget') \subseteq Suffix(other, oget)
      /\ x \in Suffix(tmp, tget) \cup Suffix(other, oget)
  BY <1>2, <1>3, <1>4
<1>9. tget' \in {tget, tget + 1} /\ oget' \in {oget, oget + 1}
  BY <1>2
<1>10. QED
  BY <1>0, <1>2, <1>3, <1>6, <1>7, <1>8, <1>9, PushStep

LEMMA UnionDoneStep == IInv /\ UnionDone => IInv'
<1> SUFFICES ASSUME IInv, UnionDone PROVE IInv'
  OBVIOUS
<1>1. /\ pc = "union" /\ tget = Len(tmp) /\ oget = Len(other)
      /\ cm' = Settled(cm.vec) /\ pc' \in {"lookup2", "intersect"}
      /\ UNCHANGED <<left, narr, mari, unions, last, tmp, other, tget, oget, put, want, exact>>
  BY DEF UnionDone, AfterUnion, idxs
<1>2. cm.vec \in Seq(All) /\ Sorted(cm.vec)
  BY DEF IInv, TypeOK, SortedInv
<1>3. Elems(cm.vec) = Elems(tmp) \cup Elems(other)
  <2>1. Prefix(tmp, tget) = Elems(tmp) /\ Prefix(other, oget) = Elems(other)
    BY <1>1, UnionFacts, PartFacts
  <2>2. QED
    BY <2>1, <1>1 DEF IInv, UnionInv
<1>4. Covers(want, Elems(cm.vec))
  BY <1>1, <1>3 DEF IInv, UnionInv
<1>5. Covers(want', RulesIn(cm'))
  BY <1>1, <1>2, <1>4, SettledFacts DEF Covers
<1>6. cm' \in [vec : Seq(All), matchAll : BOOLEAN] /\ cm'.vec = cm.vec
  BY <1>1, <1>2 DEF Settled
<1>7. QED
  BY <1>1, <1>2, <1>5, <1>6 DEF IInv, TypeOK, SortedInv, UnionInv, FoundInv, LeftInv, CommonInv

-----------------------------------------------------------------------------
(* Intersection.                                                           *)

(* A module whose rules have been intersected: the next one, or the end. *)
LEMMA EndModuleStep ==
  ASSUME IInv, NEW n \in [vec : Seq(All), matchAll : BOOLEAN], EndModule(n),
         Sorted(n.vec), exact' \subseteq All, Covers(exact', RulesIn(n)),
         tget' \in Nat, oget' \in Nat, put' \in 0 .. tget',
         UNCHANGED <<left, cm, mari, unions, last, tmp, other, want>>
  PROVE  IInv'
<1>1. narr' = n /\ pc' \in {"next", "done"}
  BY DEF EndModule
<1>2. TypeOK'
  BY <1>1 DEF IInv, TypeOK
<1>3. SortedInv'
  BY <1>1 DEF IInv, SortedInv
<1>4. LeftInv'
  BY <1>1 DEF LeftInv
<1>5. UnionInv' /\ FoundInv' /\ CommonInv'
  BY <1>1 DEF UnionInv, FoundInv, CommonInv
<1>6. QED
  BY <1>2, <1>3, <1>4, <1>5 DEF IInv

LEMMA IntersectStep == IInv /\ Intersect => IInv'
<1> SUFFICES ASSUME IInv, Intersect PROVE IInv'
  OBVIOUS
<1>1. /\ pc = "intersect" /\ exact' = exact \cap want
      /\ tget' = 0 /\ oget' = 0 /\ put' = 0
      /\ UNCHANGED <<left, cm, mari, unions, last, tmp, other, want>>
  BY DEF Intersect
<1>2. /\ narr \in [vec : Seq(All), matchAll : BOOLEAN] /\ cm \in [vec : Seq(All), matchAll : BOOLEAN]
      /\ exact \subseteq All /\ want \subseteq All
  BY DEF IInv, TypeOK
<1>3. Sorted(cm.vec) /\ Sorted(narr.vec) /\ Covers(want, RulesIn(cm)) /\ Covers(exact, RulesIn(narr))
  BY <1>1 DEF IInv, SortedInv, FoundInv, LeftInv
<1>4. RulesIn(narr) \subseteq All /\ RulesIn(cm) \subseteq All
  BY <1>2 DEF RulesIn, Walk, Elems, All
<1>5. Covers(exact', RulesIn(narr) \cap RulesIn(cm)) /\ exact' \subseteq All
  BY <1>1, <1>2, <1>3, CoversFacts
<1>6. tget' \in Nat /\ oget' \in Nat /\ put' \in 0 .. tget'
  BY <1>1
<1>7. CASE cm.matchAll
  <2>1. RulesIn(cm) = All
    BY <1>7 DEF RulesIn, Walk, All
  <2>2. RulesIn(narr) \cap RulesIn(cm) = RulesIn(narr)
    BY <1>4, <2>1
  <2>3. Covers(exact', RulesIn(narr))
    BY <1>5, <2>2
  <2>4. EndModule(narr)
    BY <1>7 DEF Intersect
  <2>5. QED
    BY <1>1, <1>2, <1>3, <1>5, <1>6, <2>3, <2>4, EndModuleStep
<1>8. CASE ~cm.matchAll /\ narr.matchAll
  <2>1. RulesIn(narr) = All
    BY <1>8 DEF RulesIn, Walk, All
  <2>2. RulesIn(narr) \cap RulesIn(cm) = RulesIn(cm)
    BY <1>4, <2>1
  <2>3. Covers(exact', RulesIn(cm))
    BY <1>5, <2>2
  <2>4. EndModule(cm)
    BY <1>8 DEF Intersect
  <2>5. QED
    BY <1>1, <1>2, <1>3, <1>5, <1>6, <2>3, <2>4, EndModuleStep
<1>9. CASE ~cm.matchAll /\ ~narr.matchAll /\ cm.vec = <<>>
  <2> DEFINE n == [narr EXCEPT !.vec = <<>>]
  <2>1. <<>> \in Seq(All) /\ Sorted(<<>>) /\ Elems(<<>>) = {}
    BY EmptyFacts
  <2>2. n \in [vec : Seq(All), matchAll : BOOLEAN] /\ n.vec = <<>> /\ n.matchAll = narr.matchAll
    BY <1>2, <2>1
  <2>3. EndModule(n)
    BY <1>9 DEF Intersect
  <2> HIDE DEF n
  <2>4. RulesIn(cm) = {} /\ RulesIn(n) = {}
    BY <1>9, <2>1, <2>2 DEF RulesIn, Walk
  <2>5. Covers(exact', RulesIn(n))
    BY <1>5, <2>4
  <2>6. Sorted(n.vec)
    BY <2>1, <2>2
  <2>7. QED
    BY <1>1, <1>5, <1>6, <2>2, <2>3, <2>5, <2>6, EndModuleStep
<1>10. CASE ~cm.matchAll /\ ~narr.matchAll /\ cm.vec # <<>>
  <2>1. pc' = "common" /\ narr' = narr
    BY <1>10 DEF Intersect
  <2>2. TypeOK'
    BY <1>1, <1>5, <1>6, <2>1 DEF IInv, TypeOK
  <2>3. SortedInv' /\ LeftInv' /\ UnionInv' /\ FoundInv'
    BY <1>1, <2>1 DEF IInv, SortedInv, LeftInv, UnionInv, FoundInv
  <2>4. /\ RulesIn(narr) = Elems(narr.vec) /\ RulesIn(cm) = Elems(cm.vec)
        /\ narr.vec \in Seq(All) /\ cm.vec \in Seq(All) /\ Len(narr.vec) \in Nat /\ Len(cm.vec) \in Nat
    BY <1>2, <1>10 DEF RulesIn, Walk
  <2>5. Prefix(narr.vec, 0) = {} /\ Suffix(narr.vec, 0) = Elems(narr.vec)
        /\ Suffix(cm.vec, 0) = Elems(cm.vec)
    BY <2>4, PartFacts
  <2>6. \A i, j \in 0 + 1 .. Len(narr.vec) : i < j => Before(narr.vec[i], narr.vec[j])
    BY <1>3, <2>4, SortedFrom
  <2>7. Covers(exact', Prefix(narr.vec, 0) \cup (Suffix(narr.vec, 0) \cap Suffix(cm.vec, 0)))
    BY <1>5, <2>4, <2>5
  <2>8. Below(Prefix(narr.vec, 0), Suffix(narr.vec, 0))
    BY <2>5 DEF Below
  <2>9. \A i, j \in 1 .. 0 : i < j => Before(narr.vec[i], narr.vec[j])
    OBVIOUS
  <2>10. 0 <= Len(narr.vec) /\ 0 <= Len(cm.vec)
    BY <2>4
  <2>11. CommonInv'
    BY <1>1, <1>10, <2>1, <2>6, <2>7, <2>8, <2>9, <2>10 DEF CommonInv
  <2>12. QED
    BY <2>2, <2>3, <2>11 DEF IInv
<1>11. QED
  BY <1>7, <1>8, <1>9, <1>10

LEMMA CommonFacts ==
  ASSUME IInv, pc = "common"
  PROVE  /\ narr.vec \in Seq(All) /\ cm.vec \in Seq(All) /\ narr \in [vec : Seq(All), matchAll : BOOLEAN]
         /\ Len(narr.vec) \in Nat /\ Len(cm.vec) \in Nat
         /\ tget \in 0 .. Len(narr.vec) /\ oget \in 0 .. Len(cm.vec)
         /\ tget \in Nat /\ oget \in Nat /\ put \in Nat /\ put <= tget
         /\ ~narr.matchAll /\ ~cm.matchAll
         /\ \A i, j \in 1 .. put : i < j => Before(narr.vec[i], narr.vec[j])
         /\ \A i, j \in tget + 1 .. Len(narr.vec) : i < j => Before(narr.vec[i], narr.vec[j])
         /\ \A i, j \in oget + 1 .. Len(cm.vec) : i < j => Before(cm.vec[i], cm.vec[j])
         /\ Below(Prefix(narr.vec, put), Suffix(narr.vec, tget))
         /\ Covers(exact, Prefix(narr.vec, put) \cup (Suffix(narr.vec, tget) \cap Suffix(cm.vec, oget)))
<1>1. /\ narr.vec \in Seq(All) /\ cm.vec \in Seq(All) /\ narr \in [vec : Seq(All), matchAll : BOOLEAN]
      /\ tget \in Nat /\ oget \in Nat /\ put \in 0 .. tget
  BY DEF IInv, TypeOK
<1>2. Len(narr.vec) \in Nat /\ Len(cm.vec) \in Nat /\ put \in Nat /\ put <= tget
  BY <1>1
<1>3. tget <= Len(narr.vec) /\ oget <= Len(cm.vec) /\ Sorted(cm.vec)
  BY DEF IInv, CommonInv, SortedInv
<1>4. tget \in 0 .. Len(narr.vec) /\ oget \in 0 .. Len(cm.vec)
  BY <1>1, <1>2, <1>3
<1>5. \A i, j \in oget + 1 .. Len(cm.vec) : i < j => Before(cm.vec[i], cm.vec[j])
  BY <1>1, <1>3, SortedFrom
<1>6. QED
  BY <1>1, <1>2, <1>4, <1>5 DEF IInv, CommonInv

(* A round that keeps nothing: the indices move on, the vectors stay, and   *)
(* no common rule is skipped.                                               *)
LEMMA SkipStep ==
  ASSUME IInv, pc = "common", UNCHANGED <<pc, narr, put, inCommon>>,
         tget' \in {tget, tget + 1}, oget' \in {oget, oget + 1},
         tget' <= Len(narr.vec), oget' <= Len(cm.vec),
         Suffix(narr.vec, tget') \subseteq Suffix(narr.vec, tget),
         Suffix(narr.vec, tget') \cap Suffix(cm.vec, oget')
           = Suffix(narr.vec, tget) \cap Suffix(cm.vec, oget)
  PROVE  IInv'
<1>1. /\ tget \in Nat /\ oget \in Nat /\ put \in Nat /\ put <= tget
      /\ ~narr.matchAll /\ ~cm.matchAll
      /\ \A i, j \in 1 .. put : i < j => Before(narr.vec[i], narr.vec[j])
      /\ \A i, j \in tget + 1 .. Len(narr.vec) : i < j => Before(narr.vec[i], narr.vec[j])
      /\ Below(Prefix(narr.vec, put), Suffix(narr.vec, tget))
      /\ Covers(exact, Prefix(narr.vec, put) \cup (Suffix(narr.vec, tget) \cap Suffix(cm.vec, oget)))
  BY CommonFacts
<1>2. UNCHANGED <<pc, narr, put, left, cm, mari, unions, last, tmp, other, want, exact>>
  BY DEF inCommon
<1>3. tget' \in Nat /\ oget' \in Nat /\ put \in 0 .. tget'
  BY <1>1
<1>4. TypeOK'
  BY <1>2, <1>3 DEF IInv, TypeOK
<1>5. SortedInv' /\ UnionInv' /\ FoundInv' /\ LeftInv'
  BY <1>2 DEF IInv, SortedInv, UnionInv, FoundInv, LeftInv
<1>6. \A i, j \in tget' + 1 .. Len(narr.vec) : i < j => Before(narr.vec[i], narr.vec[j])
  <2>1. Len(narr.vec) \in Nat
    BY CommonFacts
  <2>2. \A n \in {tget, tget + 1} : \A i \in n + 1 .. Len(narr.vec) : i \in tget + 1 .. Len(narr.vec)
    BY <1>1, <2>1
  <2>3. \A i \in tget' + 1 .. Len(narr.vec) : i \in tget + 1 .. Len(narr.vec)
    BY <2>2
  <2>4. QED
    BY <1>1, <2>3
<1>7. Below(Prefix(narr.vec, put), Suffix(narr.vec, tget'))
  BY <1>1 DEF Below
<1>8. Covers(exact, Prefix(narr.vec, put) \cup (Suffix(narr.vec, tget') \cap Suffix(cm.vec, oget')))
  BY <1>1
<1>9. CommonInv'
  BY <1>1, <1>2, <1>6, <1>7, <1>8 DEF CommonInv
<1>10. QED
  BY <1>4, <1>5, <1>9 DEF IInv

LEMMA SkipThisStep == IInv /\ SkipThis => IInv'
<1> SUFFICES ASSUME IInv, SkipThis PROVE IInv'
  OBVIOUS
<1>1. /\ pc = "common" /\ tget < Len(narr.vec) /\ oget < Len(cm.vec)
      /\ narr.vec[tget + 1] < cm.vec[oget + 1]
      /\ tget' = tget + 1 /\ oget' = oget /\ UNCHANGED <<pc, narr, put, inCommon>>
  BY DEF SkipThis, Both, This, Other
<1>2. /\ narr.vec \in Seq(All) /\ cm.vec \in Seq(All) /\ tget \in Nat /\ oget \in Nat
      /\ tget \in 0 .. Len(narr.vec) /\ Len(narr.vec) \in Nat /\ Len(cm.vec) \in Nat
      /\ \A i, j \in oget + 1 .. Len(cm.vec) : i < j => Before(cm.vec[i], cm.vec[j])
  BY <1>1, CommonFacts
<1>3. /\ narr.vec[tget + 1] \in All
      /\ Suffix(narr.vec, tget) = Suffix(narr.vec, tget + 1) \cup {narr.vec[tget + 1]}
  BY <1>1, <1>2, PartFacts
<1>4. narr.vec[tget + 1] \notin Suffix(cm.vec, oget)
  BY <1>1, <1>2, <1>3, LessBelow
<1>5. tget' <= Len(narr.vec) /\ oget' <= Len(cm.vec)
  BY <1>1, <1>2
<1>6. /\ Suffix(narr.vec, tget') \subseteq Suffix(narr.vec, tget)
      /\ Suffix(narr.vec, tget') \cap Suffix(cm.vec, oget')
           = Suffix(narr.vec, tget) \cap Suffix(cm.vec, oget)
  BY <1>1, <1>3, <1>4
<1>7. QED
  BY <1>1, <1>5, <1>6, SkipStep

LEMMA SkipOtherStep == IInv /\ SkipOther => IInv'
<1> SUFFICES ASSUME IInv, SkipOther PROVE IInv'
  OBVIOUS
<1>1. /\ pc = "common" /\ tget < Len(narr.vec) /\ oget < Len(cm.vec)
      /\ cm.vec[oget + 1] < narr.vec[tget + 1]
      /\ tget' = tget /\ oget' = oget + 1 /\ UNCHANGED <<pc, narr, put, inCommon>>
  BY DEF SkipOther, Both, This, Other
<1>2. /\ narr.vec \in Seq(All) /\ cm.vec \in Seq(All) /\ tget \in Nat /\ oget \in Nat
      /\ oget \in 0 .. Len(cm.vec) /\ Len(narr.vec) \in Nat /\ Len(cm.vec) \in Nat
      /\ \A i, j \in tget + 1 .. Len(narr.vec) : i < j => Before(narr.vec[i], narr.vec[j])
  BY <1>1, CommonFacts
<1>3. /\ cm.vec[oget + 1] \in All
      /\ Suffix(cm.vec, oget) = Suffix(cm.vec, oget + 1) \cup {cm.vec[oget + 1]}
  BY <1>1, <1>2, PartFacts
<1>4. cm.vec[oget + 1] \notin Suffix(narr.vec, tget)
  BY <1>1, <1>2, <1>3, LessBelow
<1>5. tget' <= Len(narr.vec) /\ oget' <= Len(cm.vec)
  BY <1>1, <1>2
<1>6. /\ Suffix(narr.vec, tget') \subseteq Suffix(narr.vec, tget)
      /\ Suffix(narr.vec, tget') \cap Suffix(cm.vec, oget')
           = Suffix(narr.vec, tget) \cap Suffix(cm.vec, oget)
  BY <1>1, <1>3, <1>4
<1>7. QED
  BY <1>1, <1>5, <1>6, SkipStep

LEMMA KeepFacts ==
  ASSUME NEW v \in Seq(All), NEW p \in Nat, NEW t \in Nat, p <= t, t < Len(v),
         NEW w, w = [v EXCEPT ![p + 1] = v[t + 1]]
  PROVE  /\ w \in Seq(All) /\ Len(w) = Len(v) /\ v[t + 1] \in All /\ w[p + 1] = v[t + 1]
         /\ \A i \in 1 .. Len(v) : i # p + 1 => w[i] = v[i]
         /\ Prefix(w, p + 1) = Prefix(v, p) \cup {v[t + 1]}
         /\ Suffix(w, t + 1) = Suffix(v, t + 1)
<1>1. Len(v) \in Nat /\ DOMAIN v = 1 .. Len(v) /\ v \in [1 .. Len(v) -> All]
  OBVIOUS
<1>2. t + 1 \in 1 .. Len(v) /\ p + 1 \in 1 .. Len(v)
  BY <1>1
<1>3. v[t + 1] \in All
  BY <1>1, <1>2
<1>4. w \in [1 .. Len(v) -> All] /\ w[p + 1] = v[t + 1]
      /\ \A i \in 1 .. Len(v) : i # p + 1 => w[i] = v[i]
  BY <1>1, <1>2, <1>3
<1>5. w \in Seq(All) /\ Len(w) = Len(v)
  BY <1>1, <1>4
<1>6. \A i \in 1 .. p : i \in 1 .. Len(v) /\ i # p + 1
  BY <1>1, <1>2
<1>7. 1 .. p + 1 = (1 .. p) \cup {p + 1}
  OBVIOUS
<1>8. Prefix(w, p + 1) = Prefix(v, p) \cup {v[t + 1]}
  BY <1>4, <1>6, <1>7 DEF Prefix
<1>9. \A i \in t + 1 + 1 .. Len(v) : i \in 1 .. Len(v) /\ i # p + 1
  BY <1>1, <1>2
<1>10. Suffix(w, t + 1) = Suffix(v, t + 1)
  BY <1>4, <1>5, <1>9 DEF Suffix
<1>11. QED
  BY <1>3, <1>4, <1>5, <1>8, <1>10

LEMMA KeepStep == IInv /\ Keep => IInv'
<1> SUFFICES ASSUME IInv, Keep PROVE IInv'
  OBVIOUS
<1> DEFINE v == narr.vec
           x == v[tget + 1]
           w == narr'.vec
<1>0. pc = "common"
  BY DEF Keep
<1>1. /\ v \in Seq(All) /\ cm.vec \in Seq(All) /\ narr \in [vec : Seq(All), matchAll : BOOLEAN]
      /\ Len(v) \in Nat /\ Len(cm.vec) \in Nat
      /\ tget \in 0 .. Len(v) /\ oget \in 0 .. Len(cm.vec)
      /\ tget \in Nat /\ oget \in Nat /\ put \in Nat /\ put <= tget
      /\ ~narr.matchAll /\ ~cm.matchAll
      /\ \A i, j \in 1 .. put : i < j => Before(v[i], v[j])
      /\ \A i, j \in tget + 1 .. Len(v) : i < j => Before(v[i], v[j])
      /\ Below(Prefix(v, put), Suffix(v, tget))
      /\ Covers(exact, Prefix(v, put) \cup (Suffix(v, tget) \cap Suffix(cm.vec, oget)))
  BY <1>0, CommonFacts
<1>2. /\ tget < Len(v) /\ oget < Len(cm.vec) /\ x = cm.vec[oget + 1]
      /\ tget' = tget + 1 /\ oget' = oget + 1 /\ put' = put + 1
      /\ UNCHANGED <<pc, left, cm, mari, unions, last, tmp, other, want, exact>>
  BY DEF Keep, Both, This, Other, inCommon
<1>3. narr' = [narr EXCEPT !.vec = [v EXCEPT ![put + 1] = x]]
  BY DEF Keep, This
<1>4. w = [v EXCEPT ![put + 1] = x] /\ narr'.matchAll = narr.matchAll
  BY <1>1, <1>3
<1>5. /\ w \in Seq(All) /\ Len(w) = Len(v) /\ x \in All /\ w[put + 1] = x
      /\ \A i \in 1 .. Len(v) : i # put + 1 => w[i] = v[i]
      /\ Prefix(w, put + 1) = Prefix(v, put) \cup {x}
      /\ Suffix(w, tget + 1) = Suffix(v, tget + 1)
  BY <1>1, <1>2, <1>4, KeepFacts
<1>6. /\ Suffix(v, tget) = Suffix(v, tget + 1) \cup {x}
      /\ Suffix(cm.vec, oget) = Suffix(cm.vec, oget + 1) \cup {x}
  BY <1>1, <1>2, PartFacts
<1>7. Below({x}, Suffix(v, tget + 1))
  BY <1>1, <1>2, HeadBelow
<1>8. TypeOK'
  <2>1. narr' \in [vec : Seq(All), matchAll : BOOLEAN]
    BY <1>1, <1>3, <1>4, <1>5
  <2>2. tget' \in Nat /\ oget' \in Nat /\ put' \in 0 .. tget'
    BY <1>1, <1>2
  <2>3. QED
    BY <1>2, <2>1, <2>2 DEF IInv, TypeOK
<1>9. SortedInv' /\ UnionInv' /\ FoundInv' /\ LeftInv'
  BY <1>0, <1>2 DEF IInv, SortedInv, UnionInv, FoundInv, LeftInv
<1> HIDE DEF x, v, w
<1>10. ASSUME NEW i \in 1 .. put + 1, NEW j \in 1 .. put + 1, i < j
       PROVE  Before(w[i], w[j])
  <2>1. i \in 1 .. put /\ i # put + 1 /\ i \in 1 .. Len(v)
    BY <1>1, <1>2, <1>10
  <2>2. w[i] = v[i]
    BY <1>5, <2>1
  <2>3. CASE j = put + 1
    <3>1. v[i] \in Prefix(v, put)
      BY <2>1 DEF Prefix
    <3>2. QED
      BY <3>1, <2>2, <2>3, <1>1, <1>5, <1>6 DEF Below
  <2>4. CASE j # put + 1
    <3>1. j \in 1 .. put /\ j \in 1 .. Len(v)
      BY <2>4, <1>1, <1>2, <1>10
    <3>2. w[j] = v[j]
      BY <3>1, <2>4, <1>5
    <3>3. QED
      BY <3>1, <3>2, <2>1, <2>2, <1>1, <1>10
  <2>5. QED
    BY <2>3, <2>4
<1>11. ASSUME NEW i \in tget + 1 + 1 .. Len(v), NEW j \in tget + 1 + 1 .. Len(v), i < j
       PROVE  Before(w[i], w[j])
  <2>1. i \in tget + 1 .. Len(v) /\ j \in tget + 1 .. Len(v)
    BY <1>1
  <2>2. i # put + 1 /\ j # put + 1 /\ i \in 1 .. Len(v) /\ j \in 1 .. Len(v)
    BY <1>1
  <2>3. w[i] = v[i] /\ w[j] = v[j]
    BY <2>2, <1>5
  <2>4. QED
    BY <2>1, <2>3, <1>1, <1>11
<1>12. Below(Prefix(w, put + 1), Suffix(w, tget + 1))
  BY <1>1, <1>5, <1>6, <1>7 DEF Below
<1>13. Covers(exact, Prefix(w, put + 1) \cup (Suffix(w, tget + 1) \cap Suffix(cm.vec, oget + 1)))
  <2>1. Prefix(w, put + 1) \cup (Suffix(w, tget + 1) \cap Suffix(cm.vec, oget + 1))
          = Prefix(v, put) \cup (Suffix(v, tget) \cap Suffix(cm.vec, oget))
    BY <1>5, <1>6
  <2>2. QED
    BY <1>1, <2>1
<1>14. tget + 1 <= Len(w) /\ oget + 1 <= Len(cm.vec)
  BY <1>1, <1>2, <1>5
<1>15. CommonInv'
  <2>1. \A i, j \in tget + 1 + 1 .. Len(w) : i < j => Before(w[i], w[j])
    BY <1>5, <1>11
  <2>2. \A i, j \in 1 .. put + 1 : i < j => Before(w[i], w[j])
    BY <1>10
  <2>3. QED
    BY <1>1, <1>2, <1>4, <1>12, <1>13, <1>14, <2>1, <2>2 DEF CommonInv, w
<1>16. QED
  BY <1>8, <1>9, <1>15 DEF IInv

(* Cutting a vector off behind the rules that were kept. *)
LEMMA CutFacts ==
  ASSUME NEW v \in Seq(All), NEW p \in 0 .. Len(v),
         \A i, j \in 1 .. p : i < j => Before(v[i], v[j])
  PROVE  /\ SubSeq(v, 1, p) \in Seq(All) /\ Sorted(SubSeq(v, 1, p))
         /\ Elems(SubSeq(v, 1, p)) = Prefix(v, p)
<1> DEFINE w == SubSeq(v, 1, p)
<1>1. w \in Seq(All) /\ Len(w) = p /\ \A i \in 1 .. p : w[i] = v[i]
  OBVIOUS
<1>2. DOMAIN w = 1 .. p
  BY <1>1
<1> HIDE DEF w
<1>3. Sorted(w)
  BY <1>1, <1>2 DEF Sorted
<1>4. Elems(w) = Prefix(v, p)
  BY <1>1, <1>2 DEF Elems, Prefix
<1>5. QED
  BY <1>1, <1>3, <1>4 DEF w

LEMMA IntersectDoneStep == IInv /\ IntersectDone => IInv'
<1> SUFFICES ASSUME IInv, IntersectDone PROVE IInv'
  OBVIOUS
<1> DEFINE n == [narr EXCEPT !.vec = SubSeq(narr.vec, 1, put)]
<1>0. pc = "common"
  BY DEF IntersectDone
<1>1. /\ narr.vec \in Seq(All) /\ cm.vec \in Seq(All) /\ narr \in [vec : Seq(All), matchAll : BOOLEAN]
      /\ Len(narr.vec) \in Nat /\ Len(cm.vec) \in Nat
      /\ tget \in 0 .. Len(narr.vec) /\ oget \in 0 .. Len(cm.vec)
      /\ tget \in Nat /\ oget \in Nat /\ put \in Nat /\ put <= tget
      /\ ~narr.matchAll /\ ~cm.matchAll
      /\ \A i, j \in 1 .. put : i < j => Before(narr.vec[i], narr.vec[j])
      /\ Covers(exact, Prefix(narr.vec, put) \cup (Suffix(narr.vec, tget) \cap Suffix(cm.vec, oget)))
  BY <1>0, CommonFacts
<1>2. /\ ~(tget < Len(narr.vec) /\ oget < Len(cm.vec)) /\ EndModule(n)
      /\ UNCHANGED <<tget, oget, put, left, cm, mari, unions, last, tmp, other, want, exact>>
  BY DEF IntersectDone, Both, idxs, inCommon
<1>3. tget = Len(narr.vec) \/ oget = Len(cm.vec)
  BY <1>1, <1>2
<1>4. Suffix(narr.vec, tget) \cap Suffix(cm.vec, oget) = {}
  BY <1>1, <1>3, PartFacts
<1>5. Covers(exact, Prefix(narr.vec, put))
  BY <1>1, <1>4
<1>6. put \in 0 .. Len(narr.vec)
  BY <1>1
<1>7. /\ SubSeq(narr.vec, 1, put) \in Seq(All) /\ Sorted(SubSeq(narr.vec, 1, put))
      /\ Elems(SubSeq(narr.vec, 1, put)) = Prefix(narr.vec, put)
  BY <1>1, <1>6, CutFacts
<1>8. /\ n \in [vec : Seq(All), matchAll : BOOLEAN]
      /\ n.vec = SubSeq(narr.vec, 1, put) /\ ~n.matchAll
  BY <1>1, <1>7
<1> HIDE DEF n
<1>9. Covers(exact', RulesIn(n)) /\ Sorted(n.vec)
  BY <1>2, <1>5, <1>7, <1>8 DEF RulesIn, Walk
<1>10. exact' \subseteq All /\ tget' \in Nat /\ oget' \in Nat /\ put' \in 0 .. tget'
  BY <1>1, <1>2 DEF IInv, TypeOK
<1>11. QED
  BY <1>2, <1>8, <1>9, <1>10, EndModuleStep

-----------------------------------------------------------------------------
LEMMA NextLookupStep == IInv /\ NextLookup => IInv'
<1> SUFFICES ASSUME IInv, NextLookup PROVE IInv'
  OBVIOUS
<1>1. /\ pc' = "next" /\ left' = NumModules /\ narr' = Everyone /\ cm' = Cleared
      /\ want' = {} /\ exact' = All /\ pc = "done"
      /\ UNCHANGED <<mari, unions, last, tmp, other, tget, oget, put>>
  BY DEF NextLookup, idxs
<1>2. /\ Cleared \in [vec : Seq(All), matchAll : BOOLEAN] /\ Sorted(Cleared.vec)
      /\ Everyone \in [vec : Seq(All), matchAll : BOOLEAN] /\ Sorted(Everyone.vec)
      /\ RulesIn(Everyone) = All
  BY EmptyFacts
<1>3. NumModules \in 0 .. NumModules
  BY BoundsAssumption
<1>4. TypeOK'
  BY <1>1, <1>2, <1>3 DEF IInv, TypeOK
<1>5. SortedInv' /\ LeftInv'
  BY <1>1, <1>2 DEF IInv, SortedInv, LeftInv, Covers
<1>6. UnionInv' /\ FoundInv' /\ CommonInv'
  BY <1>1 DEF UnionInv, FoundInv, CommonInv
<1>7. QED
  BY <1>4, <1>5, <1>6 DEF IInv

LEMMA UniteFoundStep ==
  ASSUME IInv, NEW v \in Vecs, UniteFound(v)
  PROVE  IInv'
<1>1. v \in Seq(All) /\ Sorted(v)
  BY TablesSorted
<1>2. pc = "lookup2" /\ Unite(v) /\ UNCHANGED <<left, narr, mari, exact>>
  BY DEF UniteFound
<1>3. last' \in BOOLEAN /\ unions' \in 0 .. MaxUnions
  <2>1. last \in BOOLEAN /\ last' = last /\ unions \in 0 .. MaxUnions /\ unions > 0
        /\ unions' = unions - 1 /\ MaxUnions \in Nat
    BY BoundsAssumption DEF UniteFound, IInv, TypeOK
  <2>2. QED
    BY <2>1
<1>4. QED
  BY <1>1, <1>2, <1>3, UniteStep

LEMMA UniteMatchAllStep == IInv /\ UniteMatchAll => IInv'
<1> SUFFICES ASSUME IInv, UniteMatchAll PROVE IInv'
  OBVIOUS
<1>1. mari \in Seq(All) /\ Sorted(mari)
  BY DEF IInv, TypeOK, SortedInv
<1>2. pc = "lookup2" /\ Unite(mari) /\ UNCHANGED <<left, narr, mari, exact>>
  BY DEF UniteMatchAll
<1>3. last' \in BOOLEAN /\ unions' \in 0 .. MaxUnions
  BY DEF UniteMatchAll, IInv, TypeOK
<1>4. QED
  BY <1>1, <1>2, <1>3, UniteStep

LEMMA NextInv == IInv /\ [Next]_vars => IInv'
<1> SUFFICES ASSUME IInv, [Next]_vars PROVE IInv'
  OBVIOUS
<1>1. ASSUME NEW m \in MatchAllVecs, Lookup(m) PROVE IInv'
  BY <1>1, LookupStep
<1>2. ASSUME NEW v \in Vecs, UniteFound(v) PROVE IInv'
  BY <1>2, UniteFoundStep
<1>3. CASE UniteMatchAll
  BY <1>3, UniteMatchAllStep
<1>4. CASE PushThis
  BY <1>4, PushThisStep
<1>5. CASE PushOther
  BY <1>5, PushOtherStep
<1>6. CASE PushBoth
  BY <1>6, PushBothStep
<1>7. CASE UnionDone
  BY <1>7, UnionDoneStep
<1>8. CASE Intersect
  BY <1>8, IntersectStep
<1>9. CASE Keep
  BY <1>9, KeepStep
<1>10. CASE SkipThis
  BY <1>10, SkipThisStep
<1>11. CASE SkipOther
  BY <1>11, SkipOtherStep
<1>12. CASE IntersectDone
  BY <1>12, IntersectDoneStep
<1>13. CASE NextLookup
  BY <1>13, NextLookupStep
<1>14. CASE UNCHANGED vars
  BY <1>14 DEF vars, idxs, IInv, TypeOK, SortedInv, UnionInv, FoundInv, LeftInv, CommonInv
<1>15. QED
  BY <1>1, <1>2, <1>3, <1>4, <1>5, <1>6, <1>7, <1>8, <1>9, <1>10, <1>11, <1>12, <1>13, <1>14
  DEF Next, Step

(* The vectors are typed, at every step of every lookup.                    *)
(* (union_with and intersect_with, as used by Config::lookupRules)          *)
THEOREM TypeCorrect == Spec => []TypeOK
<1>1. IInv => TypeOK
  BY DEF IInv
<1>2. QED
  BY InitInv, NextInv, <1>1, PTL DEF Spec

LEMMA WalkSorted ==
  ASSUME IInv, pc = "done"
  PROVE  Walk(narr) \in Seq(All) /\ Sorted(Walk(narr)) /\ Covers(exact, RulesIn(narr))
<1>1. narr.vec \in Seq(All) /\ Sorted(narr.vec) /\ Covers(exact, RulesIn(narr))
  BY DEF IInv, TypeOK, SortedInv, LeftInv
<1>2. QED
  BY <1>1, AllIdxsSorted DEF Walk

(* No rule is lost that every module of conditions has found, whatever is   *)
(* in the tables.  (Config::lookupRules, SmplVec::intersect_with)           *)
THEOREM Completeness == Spec => []NarrowingComplete
<1>1. IInv => NarrowingComplete
  BY DEF IInv, LeftInv, Covers, NarrowingComplete
<1>2. QED
  BY InitInv, NextInv, <1>1, PTL DEF Spec

(* The rules left are walked in the order of the configuration.             *)
(* (SmplVec::union_with and intersect_with keep the vectors sorted)         *)
THEOREM InOrder == Spec => []WalkInOrder
<1>1. IInv => WalkInOrder
  BY WalkSorted, SortedFacts DEF WalkInOrder
<1>2. QED
  BY InitInv, NextInv, <1>1, PTL DEF Spec

(* With tables in which no vector has a rule twice, no rule is left twice,  *)
(* so no action runs twice.  (CondModule.C and TokenRulesMap.C unique their *)
(* vectors; QueryArgCondModule.C does not.)                                 *)
THEOREM RulesOnce ==
  ASSUME DistinctTables
  PROVE  Spec => []NoRuleTwice
<1>1. IInv => NoRuleTwice
  BY WalkSorted, SortedFacts DEF NoRuleTwice
<1>2. QED
  BY InitInv, NextInv, <1>1, PTL DEF Spec

(* With such tables the rules left are exactly those that every module has  *)
(* found: counting rules to tell "all of them" never takes in another one.  *)
(* (MatchedIdxs::union_with)                                                *)
THEOREM ExactRules ==
  ASSUME DistinctTables
  PROVE  Spec => []NarrowedRules
<1>1. IInv => NarrowedRules
  BY DEF IInv, LeftInv, Covers, NarrowedRules
<1>2. QED
  BY InitInv, NextInv, <1>1, PTL DEF Spec

-----------------------------------------------------------------------------
(* Unions and intersections lose no rule that every module found, and keep  *)
(* the order of the configuration, whatever the tables hold; if no table    *)
(* has a rule twice, neither has the result, and it has no other rules.     *)
THEOREM MergesRightHolds == Spec => []MergesRight
<1>1. IInv => NarrowingComplete
  BY DEF IInv, LeftInv, Covers, NarrowingComplete
<1>2. IInv => WalkInOrder
  BY WalkSorted, SortedFacts DEF WalkInOrder
<1>3. IInv /\ DistinctTables => NoRuleTwice
  BY WalkSorted, SortedFacts DEF NoRuleTwice
<1>4. IInv /\ DistinctTables => NarrowedRules
  BY DEF IInv, LeftInv, Covers, NarrowedRules
<1>5. IInv => MergesRight
  BY <1>1, <1>2, <1>3, <1>4 DEF MergesRight
<1>6. QED
  BY InitInv, NextInv, <1>5, PTL DEF Spec

-----------------------------------------------------------------------------
(* The merges implement the intersection of the sets that modules find.     *)

(* A union is the last one when it is with the rules that match any request, *)
(* which have been found when the intersection begins.                       *)
LastInv ==
  /\ pc = "lookup2" => ~last
  /\ pc = "intersect" \/ (pc = "union" /\ last) => Elems(mari) \subseteq want

LEMMA LastStep == IInv /\ LastInv /\ [Next]_vars => LastInv'
<1> SUFFICES ASSUME IInv, LastInv, [Next]_vars PROVE LastInv'
  OBVIOUS
<1>1. ASSUME NEW m \in MatchAllVecs, Lookup(m) PROVE LastInv'
  <2>1. m \in Seq(All)
    BY TablesSorted DEF MatchAllVecs
  <2>2. Elems(m) \subseteq All
    BY <2>1 DEF Elems
  <2>3. mari' = m /\ last' = FALSE /\ (pc' = "lookup2" \/ (pc' = "intersect" /\ want' = All))
    BY <1>1 DEF Lookup
  <2>4. QED
    BY <2>2, <2>3 DEF LastInv
<1>2. ASSUME NEW v \in Vecs, UniteFound(v) PROVE LastInv'
  <2>1. ~last' /\ pc' \in {"union", "lookup2"}
    BY <1>2 DEF UniteFound, Unite, AfterUnion, LastInv
  <2>2. QED
    BY <2>1 DEF LastInv
<1>3. CASE UniteMatchAll
  <2>1. last' /\ mari' = mari /\ want' = want \cup Elems(mari) /\ pc' \in {"union", "intersect"}
    BY <1>3 DEF UniteMatchAll, Unite, AfterUnion
  <2>2. QED
    BY <2>1 DEF LastInv
<1>4. CASE UnionDone
  <2>1. UNCHANGED <<last, mari, want>> /\ pc = "union" /\ pc' = IF last THEN "intersect" ELSE "lookup2"
    BY <1>4 DEF UnionDone, AfterUnion
  <2>2. last \in BOOLEAN
    BY DEF IInv, TypeOK
  <2>3. QED
    BY <2>1, <2>2 DEF LastInv
<1>5. CASE PushThis \/ PushOther \/ PushBoth
  BY <1>5 DEF PushThis, PushOther, PushBoth, inUnion, LastInv
<1>6. CASE Intersect
  BY <1>6 DEF Intersect, EndModule, LastInv
<1>7. CASE Keep \/ SkipThis \/ SkipOther
  BY <1>7 DEF Keep, SkipThis, SkipOther, inCommon, LastInv
<1>8. CASE IntersectDone
  BY <1>8 DEF IntersectDone, EndModule, LastInv
<1>9. CASE NextLookup
  BY <1>9 DEF NextLookup, LastInv
<1>10. CASE UNCHANGED vars
  BY <1>10 DEF vars, LastInv
<1>11. QED
  BY <1>1, <1>2, <1>3, <1>4, <1>5, <1>6, <1>7, <1>8, <1>9, <1>10 DEF Next, Step

(* What is behind the indices, together with what was pushed, is what the    *)
(* history has.                                                              *)
NowInv ==
  /\ pc \in {"lookup2", "union", "intersect"} => foundNow = want
  /\ rulesNow = exact

LEMMA NowExact == IInv /\ DistinctTables => NowInv
<1> SUFFICES ASSUME DistinctTables, IInv PROVE NowInv
  OBVIOUS
<1>1. CASE pc = "union"
  <2>1. /\ tmp \in Seq(All) /\ other \in Seq(All)
        /\ tget \in 0 .. Len(tmp) /\ oget \in 0 .. Len(other)
    BY <1>1, UnionFacts
  <2>2. /\ want = Elems(tmp) \cup Elems(other)
        /\ Elems(cm.vec) = Prefix(tmp, tget) \cup Prefix(other, oget)
    BY <1>1 DEF IInv, UnionInv, Covers
  <2>3. Elems(tmp) = Prefix(tmp, tget) \cup Suffix(tmp, tget)
    BY <2>1, PartsElems
  <2>4. Elems(other) = Prefix(other, oget) \cup Suffix(other, oget)
    BY <2>1, PartsElems
  <2>5. foundNow = want
    BY <2>2, <2>3, <2>4, <1>1 DEF foundNow
  <2>6. rulesNow = exact
    BY <1>1 DEF rulesNow, IInv, LeftInv, Covers
  <2>7. QED
    BY <2>5, <2>6 DEF NowInv
<1>2. CASE pc = "common"
  BY <1>2 DEF NowInv, rulesNow, IInv, CommonInv, Covers
<1>3. CASE pc \notin {"union", "common"}
  BY <1>3 DEF NowInv, foundNow, rulesNow, IInv, FoundInv, LeftInv, Covers
<1>4. QED
  BY <1>1, <1>2, <1>3

LEMMA NowExactNext == IInv' /\ DistinctTables => NowInv'
<1>1. (IInv /\ DistinctTables => NowInv)'
  BY NowExact, PTL
<1>2. QED
  BY <1>1 DEF DistinctTables, Strict

(* "No rule" is told by the number of rules. *)
LEMMA NoneBySize ==
  ASSUME NEW n \in [vec : Seq(All), matchAll : BOOLEAN]
  PROVE  SizeOf(n) = 0 <=> RulesIn(n) = {}
<1>1. Walk(n) \in Seq(All)
  BY AllIdxsSorted DEF Walk
<1>2. DOMAIN Walk(n) = 1 .. Len(Walk(n)) /\ Len(Walk(n)) \in Nat
  BY <1>1
<1>3. Elems(Walk(n)) = {} <=> Len(Walk(n)) = 0
  <2>1. ASSUME Len(Walk(n)) # 0 PROVE Walk(n)[1] \in Elems(Walk(n))
    BY <1>2, <2>1 DEF Elems
  <2>2. ASSUME Len(Walk(n)) = 0 PROVE Elems(Walk(n)) = {}
    BY <1>2, <2>2 DEF Elems
  <2>3. QED
    BY <2>1, <2>2
<1>4. QED
  BY <1>3 DEF SizeOf, RulesIn

LEMMA InitNarrowing == Init => Abstract!Init
<1> SUFFICES ASSUME Init PROVE Abstract!Init
  OBVIOUS
<1>1. RulesIn(Cleared) = {} /\ RulesIn(Everyone) = All /\ Elems(<<>>) = {}
  BY EmptyFacts
<1>2. pc = "next" /\ left = NumModules /\ cm = Cleared /\ narr = Everyone /\ mari = <<>>
  BY DEF Init
<1>3. stageNow = "next" /\ foundNow = {} /\ rulesNow = All /\ Elems(mari) = {}
  BY <1>1, <1>2 DEF stageNow, foundNow, rulesNow
<1>4. QED
  BY <1>2, <1>3 DEF Abstract!Init

(* A step of a lookup, on the sets. *)
LEMMA LookupNarrows ==
  ASSUME DistinctTables, IInv, IInv', NEW m \in MatchAllVecs, Lookup(m)
  PROVE  Abstract!Ask
<1>1. m \in Seq(All) /\ Strict(m)
  BY TablesSorted DEF MatchAllVecs
<1>2. /\ pc = "next" /\ left > 0 /\ left' = left - 1 /\ mari' = m
      /\ narr' = narr /\ exact' = exact /\ pc' \in {"lookup2", "intersect"}
      /\ want' = IF Len(m) < Len(AllIdxs) THEN {} ELSE All
  BY DEF Lookup
<1>3. Elems(m) \subseteq All /\ (Elems(m) = All <=> ~(Len(m) < Len(AllIdxs)))
  <2>1. IsFiniteSet(Elems(m)) /\ Cardinality(Elems(m)) = Len(m)
    BY <1>1, StrictSize
  <2>2. IsFiniteSet(All) /\ Cardinality(All) = Len(AllIdxs)
    BY AllIdxsSorted, AllIdxsAssumption, StrictSize
  <2>3. Elems(m) \in SUBSET All
    BY <1>1 DEF Elems
  <2>4. /\ Cardinality(Elems(m)) <= Cardinality(All)
        /\ Cardinality(All) = Cardinality(Elems(m)) => All = Elems(m)
    BY <2>2, <2>3, FS_Subset
  <2>5. Len(m) \in Nat /\ Len(AllIdxs) \in Nat
    BY <1>1, AllIdxsAssumption
  <2>6. QED
    BY <2>1, <2>2, <2>3, <2>4, <2>5
<1>4. foundNow' = want' /\ rulesNow' = exact' /\ rulesNow = exact
  <2>1. rulesNow = exact
    BY NowExact DEF NowInv
  <2>2. foundNow' = want' /\ rulesNow' = exact'
    BY <1>2, NowExactNext DEF NowInv
  <2>3. QED
    BY <2>1, <2>2
<1>5. stageNow = "next" /\ stageNow' = "asked"
  BY <1>2 DEF stageNow
<1>6. foundNow' = IF Elems(mari') = All THEN All ELSE {}
  BY <1>2, <1>3, <1>4
<1>7. Elems(mari)' \in SUBSET All /\ foundNow' = IF Elems(mari)' = All THEN All ELSE {}
  BY <1>2, <1>3, <1>6
<1>8. QED
  BY <1>2, <1>4, <1>5, <1>7 DEF Abstract!Ask

LEMMA UniteNarrows ==
  ASSUME DistinctTables, IInv, IInv', pc = "lookup2", NEW v \in Seq(All), Unite(v),
         UNCHANGED <<left, narr, mari, exact>>
  PROVE  Abstract!Find
<1>1. pc' \in {"union", "lookup2", "intersect"} /\ want' = want \cup Elems(v)
  BY DEF Unite, AfterUnion
<1>2. foundNow = want /\ rulesNow = exact
  BY NowExact DEF NowInv
<1>3. foundNow' = want' /\ rulesNow' = exact'
  BY <1>1, NowExactNext DEF NowInv
<1>4. Elems(v) \in SUBSET All
  BY DEF Elems
<1>5. stageNow = "asked" /\ stageNow' = "asked"
  BY <1>1 DEF stageNow
<1>6. \E some \in SUBSET All : foundNow' = foundNow \cup some
  BY <1>1, <1>2, <1>3, <1>4
<1>7. Elems(mari)' = Elems(mari) /\ rulesNow' = rulesNow /\ left' = left
  BY <1>2, <1>3
<1>8. QED
  BY <1>5, <1>6, <1>7 DEF Abstract!Find

LEMMA UnionNarrows ==
  ASSUME DistinctTables, IInv, IInv', PushThis \/ PushOther \/ PushBoth \/ UnionDone
  PROVE  UNCHANGED Abstract!narrowVars
<1>1. /\ pc = "union" /\ pc' \in {"union", "lookup2", "intersect"}
      /\ UNCHANGED <<left, narr, mari, want, exact>>
  BY DEF PushThis, PushOther, PushBoth, UnionDone, inUnion, AfterUnion
<1>2. foundNow = want /\ rulesNow = exact
  BY <1>1, NowExact DEF NowInv
<1>3. foundNow' = want' /\ rulesNow' = exact'
  BY <1>1, NowExactNext DEF NowInv
<1>4. stageNow = "asked" /\ stageNow' = "asked"
  BY <1>1 DEF stageNow
<1>5. QED
  BY <1>1, <1>2, <1>3, <1>4 DEF Abstract!narrowVars

LEMMA IntersectNarrows ==
  ASSUME DistinctTables, IInv, IInv', LastInv, Intersect
  PROVE  Abstract!Intersect
<1>1. /\ pc = "intersect" /\ exact' = exact \cap want /\ UNCHANGED <<left, cm, mari, want>>
      /\ pc' = "common" \/ EndModule(narr')
  BY DEF Intersect, EndModule
<1>2. foundNow = want /\ rulesNow = exact
  BY <1>1, NowExact DEF NowInv
<1>3. rulesNow' = exact'
  BY NowExactNext DEF NowInv
<1>4. foundNow' = foundNow
  <2>1. pc' # "union"
    BY <1>1 DEF EndModule
  <2>2. RulesIn(cm)' = RulesIn(cm)
    BY <1>1 DEF RulesIn, Walk
  <2>3. QED
    BY <2>1, <2>2, <1>1 DEF foundNow
<1>5. Elems(mari) \subseteq foundNow
  BY <1>1, <1>2 DEF LastInv
<1>6. stageNow' = IF rulesNow' = {} \/ left = 0 THEN "done" ELSE "next"
  <2>1. CASE pc' = "common"
    BY <2>1, <1>1 DEF stageNow
  <2>2. CASE pc' # "common"
    <3>1. pc' = IF SizeOf(narr') = 0 \/ left = 0 THEN "done" ELSE "next"
      BY <2>2, <1>1 DEF EndModule
    <3>2. narr' \in [vec : Seq(All), matchAll : BOOLEAN]
      BY DEF IInv, TypeOK
    <3>3. SizeOf(narr') = 0 <=> RulesIn(narr') = {}
      BY <3>2, NoneBySize
    <3>4. rulesNow' = RulesIn(narr')
      BY <2>2 DEF rulesNow
    <3>5. stageNow' = pc'
      BY <3>1, <2>2 DEF stageNow
    <3>6. QED
      BY <3>1, <3>3, <3>4, <3>5
  <2>3. QED
    BY <2>1, <2>2
<1>7. stageNow = "asked"
  BY <1>1 DEF stageNow
<1>8. Elems(mari)' = Elems(mari) /\ rulesNow' = rulesNow \cap foundNow
  BY <1>1, <1>2, <1>3
<1>9. QED
  BY <1>1, <1>4, <1>5, <1>6, <1>7, <1>8 DEF Abstract!Intersect

LEMMA CommonNarrows ==
  ASSUME DistinctTables, IInv, IInv', Keep \/ SkipThis \/ SkipOther \/ IntersectDone
  PROVE  UNCHANGED Abstract!narrowVars
<1>1. /\ pc = "common" /\ UNCHANGED <<left, cm, mari, want, exact>>
      /\ pc' = "common" \/ EndModule(narr')
  BY DEF Keep, SkipThis, SkipOther, IntersectDone, inCommon, EndModule
<1>2. rulesNow = exact
  BY NowExact DEF NowInv
<1>3. rulesNow' = exact'
  BY NowExactNext DEF NowInv
<1>4. foundNow' = foundNow
  <2>1. pc' # "union"
    BY <1>1 DEF EndModule
  <2>2. RulesIn(cm)' = RulesIn(cm)
    BY <1>1 DEF RulesIn, Walk
  <2>3. QED
    BY <2>1, <2>2, <1>1 DEF foundNow
<1>5. rulesNow' = rulesNow /\ left' = left
  BY <1>1, <1>2, <1>3
<1>6. stageNow = IF rulesNow = {} \/ left = 0 THEN "done" ELSE "next"
  BY <1>1 DEF stageNow
<1>7. stageNow' = IF rulesNow' = {} \/ left' = 0 THEN "done" ELSE "next"
  <2>1. CASE pc' = "common"
    BY <2>1 DEF stageNow
  <2>2. CASE pc' # "common"
    <3>1. pc' = IF SizeOf(narr') = 0 \/ left = 0 THEN "done" ELSE "next"
      BY <2>2, <1>1 DEF EndModule
    <3>2. narr' \in [vec : Seq(All), matchAll : BOOLEAN]
      BY DEF IInv, TypeOK
    <3>3. SizeOf(narr') = 0 <=> RulesIn(narr') = {}
      BY <3>2, NoneBySize
    <3>4. rulesNow' = RulesIn(narr')
      BY <2>2 DEF rulesNow
    <3>5. stageNow' = pc'
      BY <3>1, <2>2 DEF stageNow
    <3>6. QED
      BY <3>1, <3>3, <3>4, <3>5, <1>5
  <2>3. QED
    BY <2>1, <2>2
<1>8. stageNow' = stageNow
  BY <1>5, <1>6, <1>7
<1>9. QED
  BY <1>1, <1>4, <1>5, <1>8 DEF Abstract!narrowVars

LEMMA NextNarrows ==
  ASSUME DistinctTables, IInv, IInv', NextLookup
  PROVE  Abstract!NextLookup
<1>1. pc = "done" /\ pc' = "next" /\ left' = NumModules /\ narr' = Everyone /\ cm' = Cleared /\ mari' = mari
  BY DEF NextLookup
<1>2. RulesIn(Cleared) = {} /\ RulesIn(Everyone) = All
  BY EmptyFacts
<1>3. foundNow' = {} /\ rulesNow' = All
  BY <1>1, <1>2 DEF foundNow, rulesNow, RulesIn, Walk
<1>4. stageNow = "done" /\ stageNow' = "next"
  BY <1>1 DEF stageNow
<1>5. QED
  BY <1>1, <1>3, <1>4 DEF Abstract!NextLookup

LEMMA StepNarrows ==
  ASSUME DistinctTables
  PROVE  IInv /\ IInv' /\ LastInv /\ [Next]_vars => [Abstract!Next]_(Abstract!narrowVars)
<1> SUFFICES ASSUME IInv, IInv', LastInv, [Next]_vars
             PROVE  Abstract!Next \/ UNCHANGED Abstract!narrowVars
  OBVIOUS
<1>1. ASSUME NEW m \in MatchAllVecs, Lookup(m) PROVE Abstract!Next
  BY <1>1, LookupNarrows DEF Abstract!Next
<1>2. ASSUME NEW v \in Vecs, UniteFound(v) PROVE Abstract!Next
  <2>1. v \in Seq(All)
    BY TablesSorted
  <2>2. pc = "lookup2" /\ Unite(v) /\ UNCHANGED <<left, narr, mari, exact>>
    BY <1>2 DEF UniteFound
  <2>3. Abstract!Find
    BY <2>1, <2>2, UniteNarrows
  <2>4. QED
    BY <2>3 DEF Abstract!Next
<1>3. CASE UniteMatchAll
  <2>1. mari \in Seq(All)
    BY DEF IInv, TypeOK
  <2>2. pc = "lookup2" /\ Unite(mari) /\ UNCHANGED <<left, narr, mari, exact>>
    BY <1>3 DEF UniteMatchAll
  <2>3. Abstract!Find
    BY <2>1, <2>2, UniteNarrows
  <2>4. QED
    BY <2>3 DEF Abstract!Next
<1>4. CASE PushThis \/ PushOther \/ PushBoth \/ UnionDone
  BY <1>4, UnionNarrows
<1>5. CASE Intersect
  BY <1>5, IntersectNarrows DEF Abstract!Next
<1>6. CASE Keep \/ SkipThis \/ SkipOther \/ IntersectDone
  BY <1>6, CommonNarrows
<1>7. CASE NextLookup
  BY <1>7, NextNarrows DEF Abstract!Next
<1>8. CASE UNCHANGED vars
  BY <1>8 DEF vars, idxs, Abstract!narrowVars, stageNow, foundNow, rulesNow,
             RulesIn, Walk, Elems, Prefix, Suffix
<1>9. QED
  BY <1>1, <1>2, <1>3, <1>4, <1>5, <1>6, <1>7, <1>8 DEF Next, Step

(* With tables in which no vector has a rule twice, the rounds of the merges *)
(* do what intersecting the sets of rules that modules find does, or nothing *)
(* (Config::lookupRules): the mapping has no history in it, what a loop will *)
(* make of two vectors is read from them and from its indices.               *)
THEOREM NarrowingImplemented ==
  ASSUME DistinctTables
  PROVE  Spec => ImplementsNarrowing
<1>1. Init => IInv /\ LastInv
  <2>1. Init => LastInv
    BY DEF Init, LastInv
  <2>2. QED
    BY <2>1, InitInv
<1>2. IInv /\ LastInv /\ [Next]_vars => IInv' /\ LastInv'
  BY NextInv, LastStep
<1>3. IInv /\ IInv' /\ LastInv /\ [Next]_vars => [Abstract!Next]_(Abstract!narrowVars)
  BY DistinctTables, StepNarrows
<1>4. QED
  BY <1>1, <1>2, <1>3, InitNarrowing, PTL DEF Spec, ImplementsNarrowing, Abstract!Spec

-----------------------------------------------------------------------------
(* Why a lookup ends.  Liveness itself is left to TLC, but what it rests on *)
(* is not: every round has a case, and every step lowers a rank.            *)

(* How far the module has come, *)
Place ==
  CASE pc = "lookup2"   -> 4
    [] pc = "union"     -> IF last THEN 3 ELSE 4
    [] pc = "intersect" -> 2
    [] pc = "common"    -> 1
    [] OTHER            -> 0

(* and the rounds a loop has still to do, at most. *)
Rounds ==
  CASE pc = "union"  -> 1 + (Len(tmp) - tget) + (Len(other) - oget)
    [] pc = "common" -> (Len(narr.vec) - tget) + (Len(cm.vec) - oget)
    [] OTHER         -> 0

(* The rank is lexicographic: the modules not asked, the place, the vectors *)
(* that lookup2() may still find, the rounds.                               *)
Nearer ==
  \/ left' < left
  \/ left' = left /\ Place' < Place
  \/ left' = left /\ Place' = Place /\ unions' < unions
  \/ left' = left /\ Place' = Place /\ unions' = unions /\ Rounds' < Rounds

Ranked == left \in Nat /\ Place \in Nat /\ unions \in Nat /\ Rounds \in Nat

(* Nothing is due that has no step to do it. *)
NoCaseMissing ==
  /\ pc = "next" => left > 0
  /\ pc = "union" => ThisFirst \/ OtherFirst \/ AtEqual \/ (tget = Len(tmp) /\ oget = Len(other))
  /\ pc = "common" /\ Both => This = Other \/ This < Other \/ Other < This

LEMMA InvRanked == IInv => Ranked
<1> SUFFICES ASSUME IInv PROVE Ranked
  OBVIOUS
<1>1. left \in Nat /\ unions \in Nat
  BY BoundsAssumption DEF IInv, TypeOK
<1>2. Place \in Nat
  BY DEF Place
<1>3. CASE pc = "union"
  <2>1. PICK m \in Nat, n \in Nat : m = Len(tmp) /\ n = Len(other)
    BY <1>3, UnionFacts
  <2>2. tget \in 0 .. m /\ oget \in 0 .. n
    BY <1>3, <2>1, UnionFacts
  <2>3. Rounds = 1 + (m - tget) + (n - oget)
    BY <1>3, <2>1 DEF Rounds
  <2>4. QED
    BY <1>1, <1>2, <2>2, <2>3 DEF Ranked
<1>4. CASE pc = "common"
  <2>1. PICK m \in Nat, n \in Nat : m = Len(narr.vec) /\ n = Len(cm.vec)
    BY <1>4, CommonFacts
  <2>2. tget \in 0 .. m /\ oget \in 0 .. n
    BY <1>4, <2>1, CommonFacts
  <2>3. Rounds = (m - tget) + (n - oget)
    BY <1>4, <2>1 DEF Rounds
  <2>4. QED
    BY <1>1, <1>2, <2>2, <2>3 DEF Ranked
<1>5. CASE pc \notin {"union", "common"}
  BY <1>1, <1>2, <1>5 DEF Ranked, Rounds
<1>6. QED
  BY <1>3, <1>4, <1>5

(* The steps between the loops. *)
LEMMA PlaceFalls ==
  ASSUME IInv, LastInv,
         \/ \E m \in MatchAllVecs : Lookup(m)
         \/ \E v \in Vecs : UniteFound(v)
         \/ UniteMatchAll \/ UnionDone \/ Intersect \/ IntersectDone
  PROVE  Nearer
<1>1. left \in Nat /\ unions \in Nat /\ last \in BOOLEAN
  BY BoundsAssumption DEF IInv, TypeOK
<1>2. ASSUME NEW m \in MatchAllVecs, Lookup(m) PROVE Nearer
  <2>1. left' = left - 1
    BY <1>2 DEF Lookup
  <2>2. QED
    BY <1>1, <2>1 DEF Nearer
<1>3. ASSUME NEW v \in Vecs, UniteFound(v) PROVE Nearer
  <2>1. pc = "lookup2" /\ unions' = unions - 1 /\ left' = left /\ ~last' /\ pc' \in {"union", "lookup2"}
    BY <1>3 DEF UniteFound, Unite, AfterUnion, LastInv
  <2>2. Place = 4 /\ Place' = 4
    BY <2>1 DEF Place
  <2>3. QED
    BY <1>1, <2>1, <2>2 DEF Nearer
<1>4. CASE UniteMatchAll
  <2>1. pc = "lookup2" /\ left' = left /\ last' /\ pc' \in {"union", "intersect"}
    BY <1>4 DEF UniteMatchAll, Unite, AfterUnion
  <2>2. Place = 4 /\ Place' \in {2, 3}
    BY <2>1 DEF Place
  <2>3. QED
    BY <2>1, <2>2 DEF Nearer
<1>5. CASE UnionDone
  <2>1. /\ pc = "union" /\ left' = left /\ unions' = unions /\ last' = last
        /\ pc' = IF last THEN "intersect" ELSE "lookup2"
    BY <1>5 DEF UnionDone, AfterUnion
  <2>2. CASE last
    <3>1. Place = 3 /\ Place' = 2
      BY <2>1, <2>2 DEF Place
    <3>2. QED
      BY <2>1, <3>1 DEF Nearer
  <2>3. CASE ~last
    <3>1. Place = 4 /\ Place' = 4 /\ Rounds' = 0
      BY <2>1, <2>3 DEF Place, Rounds
    <3>2. Rounds = 1
      <4>1. tget = Len(tmp) /\ oget = Len(other) /\ Len(tmp) \in Nat /\ Len(other) \in Nat
        BY <1>5, <2>1, UnionFacts DEF UnionDone
      <4>2. QED
        BY <2>1, <4>1 DEF Rounds
    <3>3. QED
      BY <2>1, <3>1, <3>2 DEF Nearer
  <2>4. QED
    BY <2>2, <2>3, <1>1
<1>6. CASE Intersect
  <2>1. pc = "intersect" /\ left' = left /\ pc' \in {"common", "next", "done"}
    BY <1>6 DEF Intersect, EndModule
  <2>2. Place = 2 /\ Place' \in {0, 1}
    BY <2>1 DEF Place
  <2>3. QED
    BY <2>1, <2>2 DEF Nearer
<1>7. CASE IntersectDone
  <2>1. pc = "common" /\ left' = left /\ pc' \in {"next", "done"}
    BY <1>7 DEF IntersectDone, EndModule, inCommon
  <2>2. Place = 1 /\ Place' = 0
    BY <2>1 DEF Place
  <2>3. QED
    BY <2>1, <2>2 DEF Nearer
<1>8. QED
  BY <1>2, <1>3, <1>4, <1>5, <1>6, <1>7

(* The rounds of the loops: no one leaves both indices where they were. *)
LEMMA RoundsFall ==
  ASSUME IInv, PushThis \/ PushOther \/ PushBoth \/ Keep \/ SkipThis \/ SkipOther
  PROVE  Nearer
<1>1. CASE PushThis \/ PushOther \/ PushBoth
  <2>1. pc = "union" /\ UNCHANGED <<pc, left, unions, last, tmp, other>>
    BY <1>1 DEF PushThis, PushOther, PushBoth, inUnion
  <2>2. PICK m \in Nat, n \in Nat : m = Len(tmp) /\ n = Len(other)
    BY <2>1, UnionFacts
  <2>3. tget \in 0 .. m /\ oget \in 0 .. n
    BY <2>1, <2>2, UnionFacts
  <2>4. \/ tget' = tget + 1 /\ oget' = oget
        \/ tget' = tget /\ oget' = oget + 1
        \/ tget' = tget + 1 /\ oget' = oget + 1
    BY <1>1 DEF PushThis, PushOther, PushBoth
  <2>5. Rounds = 1 + (m - tget) + (n - oget) /\ Rounds' = 1 + (m - tget') + (n - oget')
    BY <2>1, <2>2 DEF Rounds
  <2>6. Rounds' < Rounds
    <3>1. tget \in Nat /\ oget \in Nat
      BY <2>2, <2>3
    <3>2. 1 + (m - tget') + (n - oget') < 1 + (m - tget) + (n - oget)
      BY <2>4, <3>1
    <3>3. QED
      BY <2>5, <3>2
  <2>7. Place' = Place
    BY <2>1 DEF Place
  <2>8. QED
    BY <2>1, <2>6, <2>7 DEF Nearer
<1>2. CASE Keep \/ SkipThis \/ SkipOther
  <2>1. pc = "common" /\ UNCHANGED <<pc, left, unions, last, cm>>
    BY <1>2 DEF Keep, SkipThis, SkipOther, inCommon
  <2>2. PICK m \in Nat, n \in Nat : m = Len(narr.vec) /\ n = Len(cm.vec)
    BY <2>1, CommonFacts
  <2>3. tget \in 0 .. m /\ oget \in 0 .. n /\ narr \in [vec : Seq(All), matchAll : BOOLEAN]
    BY <2>1, <2>2, CommonFacts
  <2>4. Len(narr.vec)' = Len(narr.vec)
    <3>1. CASE Keep
      <4>1. narr' = [narr EXCEPT !.vec = [narr.vec EXCEPT ![put + 1] = This]]
        BY <3>1 DEF Keep
      <4>2. narr.vec' = [narr.vec EXCEPT ![put + 1] = This]
        BY <2>3, <4>1
      <4>3. Len([narr.vec EXCEPT ![put + 1] = This]) = Len(narr.vec)
        BY <2>3
      <4>4. QED
        BY <4>2, <4>3
    <3>2. CASE SkipThis \/ SkipOther
      BY <3>2 DEF SkipThis, SkipOther
    <3>3. QED
      BY <1>2, <3>1, <3>2
  <2>5. \/ tget' = tget + 1 /\ oget' = oget
        \/ tget' = tget /\ oget' = oget + 1
        \/ tget' = tget + 1 /\ oget' = oget + 1
    BY <1>2 DEF Keep, SkipThis, SkipOther
  <2>6. Rounds = (m - tget) + (n - oget) /\ Rounds' = (m - tget') + (n - oget')
    BY <2>1, <2>2, <2>4 DEF Rounds
  <2>7. Rounds' < Rounds
    <3>1. tget \in Nat /\ oget \in Nat
      BY <2>2, <2>3
    <3>2. (m - tget') + (n - oget') < (m - tget) + (n - oget)
      BY <2>5, <3>1
    <3>3. QED
      BY <2>6, <3>2
  <2>8. Place' = Place
    BY <2>1 DEF Place
  <2>9. QED
    BY <2>1, <2>7, <2>8 DEF Nearer
<1>3. QED
  BY <1>1, <1>2

LEMMA NextAsks == IInv /\ (pc = "next" => left > 0) /\ [Next]_vars => (pc' = "next" => left' > 0)
<1> SUFFICES ASSUME IInv, pc = "next" => left > 0, [Next]_vars, pc' = "next" PROVE left' > 0
  OBVIOUS
<1>1. CASE \/ \E m \in MatchAllVecs : Lookup(m)
           \/ \E v \in Vecs : UniteFound(v)
           \/ UniteMatchAll \/ UnionDone \/ PushThis \/ PushOther \/ PushBoth
           \/ Keep \/ SkipThis \/ SkipOther
  BY <1>1 DEF Lookup, UniteFound, UniteMatchAll, Unite, AfterUnion, UnionDone, PushThis, PushOther,
     PushBoth, inUnion, Keep, SkipThis, SkipOther
<1>2. CASE Intersect \/ IntersectDone
  <2>1. left # 0 /\ left' = left
    BY <1>2 DEF Intersect, IntersectDone, EndModule, inCommon
  <2>2. left \in Nat
    BY BoundsAssumption DEF IInv, TypeOK
  <2>3. QED
    BY <2>1, <2>2
<1>3. CASE NextLookup
  BY <1>3, BoundsAssumption DEF NextLookup
<1>4. CASE UNCHANGED vars
  BY <1>4 DEF vars
<1>5. QED
  BY <1>1, <1>2, <1>3, <1>4 DEF Next, Step

(* Nothing of a lookup repeats: every step of it lowers a rank of natural    *)
(* numbers, whatever the tables hold, so with a next lookup left out no      *)
(* behaviour goes on for ever.  (SmplVec::union_with and intersect_with move *)
(* an index in each round, and Config::lookupRules a module)                 *)
THEOREM LookupsAdvance == Spec => [][Ranked /\ Ranked' /\ (Step => Nearer)]_vars
<1>1. Init => IInv /\ LastInv
  <2>1. Init => LastInv
    BY DEF Init, LastInv
  <2>2. QED
    BY <2>1, InitInv
<1>2. IInv /\ LastInv /\ [Next]_vars => IInv' /\ LastInv'
  BY NextInv, LastStep
<1>3. IInv /\ LastInv /\ Step => Nearer
  <2> SUFFICES ASSUME IInv, LastInv, Step PROVE Nearer
    OBVIOUS
  <2>1. QED
    BY PlaceFalls, RoundsFall DEF Step
<1>4. (IInv => Ranked)'
  BY InvRanked, PTL
<1>5. IInv /\ LastInv /\ IInv' /\ [Next]_vars => [Ranked /\ Ranked' /\ (Step => Nearer)]_vars
  BY <1>3, <1>4, InvRanked
<1>6. QED
  BY <1>1, <1>2, <1>5, PTL DEF Spec

(* And it can go on until it is done: of two vectors one comes first or they *)
(* are equal, and no module is due when none is left.  (The comparisons in   *)
(* SmplVec::union_with and intersect_with, the loop of Config::lookupRules)  *)
THEOREM RoundsHaveACase == Spec => []NoCaseMissing
<1>1. Init => IInv /\ (pc = "next" => left > 0)
  BY InitInv, BoundsAssumption DEF Init
<1>2. IInv /\ (pc = "next" => left > 0) /\ [Next]_vars => IInv' /\ (pc = "next" => left > 0)'
  BY NextInv, NextAsks
<1>3. IInv /\ (pc = "next" => left > 0) => NoCaseMissing
  <2> SUFFICES ASSUME IInv, pc = "next" => left > 0 PROVE NoCaseMissing
    OBVIOUS
  <2>1. ASSUME pc = "union"
        PROVE  ThisFirst \/ OtherFirst \/ AtEqual \/ (tget = Len(tmp) /\ oget = Len(other))
    <3>1. PICK m \in Nat, n \in Nat : m = Len(tmp) /\ n = Len(other)
      BY <2>1, UnionFacts
    <3>2. tget \in 0 .. m /\ oget \in 0 .. n
      BY <2>1, <3>1, UnionFacts
    <3>3. tget < m /\ oget < n => tmp[tget + 1] \in Nat /\ other[oget + 1] \in Nat
      BY <2>1, <3>1, <3>2, UnionFacts, AllType
    <3>4. QED
      BY <3>1, <3>2, <3>3 DEF ThisFirst, OtherFirst, AtEqual
  <2>2. ASSUME pc = "common", Both PROVE This = Other \/ This < Other \/ Other < This
    <3>1. This \in All /\ Other \in All
      BY <2>2, CommonFacts DEF This, Other, Both
    <3>2. QED
      BY <3>1, AllType
  <2>3. QED
    BY <2>1, <2>2 DEF NoCaseMissing
<1>4. QED
  BY <1>1, <1>2, <1>3, PTL DEF Spec

=============================================================================
