------------------------- MODULE TokenMatcherProofs -------------------------
(***************************************************************************)
(* Proofs about TokenMatcher, for any numbers of maps and rules, and any   *)
(* patterns and paths: with one pattern per rule narrowing loses no rule,  *)
(* and it is exact for patterns anchored at the ends.                      *)
(*                                                                         *)
(* The first part is about one pattern and one way f to match it; the      *)
(* second is the invariant of loading; the third puts them together.       *)
(***************************************************************************)
EXTENDS TokenMatcher, FiniteSetTheorems, WellFoundedInduction, TLAPS

LEMMA LeastNat ==
  ASSUME NEW S, S \subseteq Nat, S # {}
  PROVE  \E x \in S : \A y \in S : x <= y
<1> DEFINE R == OpToRel(<, Nat)
<1>1. PICK x \in S : \A y \in S : <<y, x>> \notin R
  <2> HIDE DEF R
  <2>1. IsWellFoundedOn(R, Nat)
    BY NatLessThanWellFounded, Zenon DEF R
  <2>2. QED
    BY <2>1, WFMin
<1>2. \A y \in S : ~(y < x) /\ y \in Nat /\ x \in Nat
  BY <1>1 DEF OpToRel
<1>3. \A y \in S : x <= y
  BY <1>2
<1>4. QED
  BY <1>3

LEMMA SmallestIn ==
  ASSUME NEW n \in Nat, NEW S \in SUBSET (0 .. n), S # {}
  PROVE  SmallestOf(S) \in S /\ \A y \in S : SmallestOf(S) <= y
BY LeastNat, S \subseteq Nat DEF SmallestOf

LEMMA LargestIn ==
  ASSUME NEW n \in Nat, NEW S \in SUBSET (0 .. n), S # {}
  PROVE  LargestOf(S) \in S /\ \A y \in S : y <= LargestOf(S)
<1> DEFINE D == {n - x : x \in S}
<1>1. D \subseteq Nat /\ D # {}
  OBVIOUS
<1>2. PICK d \in D : \A e \in D : d <= e
  <2> HIDE DEF D
  <2>1. QED
    BY <1>1, LeastNat
<1>3. PICK x \in S : d = n - x
  BY <1>2
<1>4. ASSUME NEW y \in S PROVE y <= x
  <2>1. n - y \in D
    OBVIOUS
  <2>2. d <= n - y
    BY <1>2, <2>1
  <2>3. QED
    BY <2>2, <1>3
<1>5. \E z \in S : \A y \in S : y <= z
  BY <1>4
<1>6. QED
  BY <1>5 DEF LargestOf

LEMMA UpTo ==
  ASSUME NEW n \in Nat
  PROVE  IsFiniteSet(1 .. n) /\ Cardinality(1 .. n) = n
<1>1. 1 \in Int /\ n \in Int
  OBVIOUS
<1>2. IsFiniteSet(1 .. n) /\ Cardinality(1 .. n) = IF 1 > n THEN 0 ELSE n - 1 + 1
  BY <1>1, FS_Interval
<1>3. (IF 1 > n THEN 0 ELSE n - 1 + 1) = n
  OBVIOUS
<1>4. QED
  BY <1>2, <1>3

-----------------------------------------------------------------------------
(* The loops of procPattern(): which token sets each of them takes.        *)

LEMMA LeftFacts ==
  ASSUME NEW p \in Seq(TokenSets)
  PROVE  /\ LeftEnd(p) \in 0 .. Len(p)
         /\ LeftEnd(p) <= NumLeft
         /\ \A k \in DOMAIN p : p[k] = StarStar => LeftEnd(p) <= k
<1> DEFINE Stop(k) == k = NumLeft \/ k = Len(p) \/ (k > 0 /\ p[k] = StarStar)
           S == {k \in 0 .. Len(p) : Stop(k)}
<1>1. Stop(NumLeft) /\ Stop(Len(p)) /\ \A k \in 1 .. Len(p) : p[k] = StarStar => Stop(k)
  OBVIOUS
<1>2. LeftEnd(p) = SmallestOf(S)
  BY DEF LeftEnd
<1> HIDE DEF Stop
<1>3. Len(p) \in Nat /\ NumLeft \in Nat
  BY MapsAssumption DEF AnyPos
<1>4. S \in SUBSET (0 .. Len(p)) /\ Len(p) \in S
  BY <1>1, <1>3
<1>5. SmallestOf(S) \in S /\ \A y \in S : SmallestOf(S) <= y
  <2> HIDE DEF S
  <2>1. QED
    BY <1>3, <1>4, SmallestIn
<1>6. LeftEnd(p) \in 0 .. Len(p) /\ \A y \in 0 .. Len(p) : Stop(y) => LeftEnd(p) <= y
  BY <1>2, <1>5
<1> HIDE DEF S
<1>7. LeftEnd(p) <= NumLeft
  BY <1>1, <1>3, <1>6
<1>8. ASSUME NEW k \in DOMAIN p, p[k] = StarStar PROVE LeftEnd(p) <= k
  <2>1. k \in 1 .. Len(p)
    OBVIOUS
  <2>2. QED
    BY <2>1, <1>1, <1>6, <1>8, <1>3
<1>9. QED
  BY <1>6, <1>7, <1>8

LEMMA RightFacts ==
  ASSUME NEW p \in Seq(TokenSets)
  PROVE  /\ RightEnd(p) \in LeftEnd(p) .. Len(p)
         /\ Len(p) - NumRight <= RightEnd(p)
         /\ \A k \in DOMAIN p : k > LeftEnd(p) /\ p[k] = StarStar => k - 1 <= RightEnd(p)
<1> DEFINE Stop(k) == k = LeftEnd(p) \/ k = Len(p) - NumRight
                         \/ (k < Len(p) /\ p[k + 1] = StarStar)
           S == {k \in LeftEnd(p) .. Len(p) : Stop(k)}
<1>0. Len(p) \in Nat /\ NumRight \in Nat /\ LeftEnd(p) \in 0 .. Len(p)
  BY MapsAssumption, LeftFacts
<1>1. /\ Stop(LeftEnd(p)) /\ Stop(Len(p) - NumRight)
      /\ \A k \in 0 .. Len(p) - 1 : p[k + 1] = StarStar => Stop(k)
  BY <1>0
<1>2. RightEnd(p) = LargestOf(S)
  BY DEF RightEnd
<1> HIDE DEF Stop
<1>4. S \in SUBSET (0 .. Len(p)) /\ LeftEnd(p) \in S
  BY <1>0, <1>1
<1>5. LargestOf(S) \in S /\ \A y \in S : y <= LargestOf(S)
  <2> HIDE DEF S
  <2>1. QED
    BY <1>0, <1>4, LargestIn
<1>6. RightEnd(p) \in LeftEnd(p) .. Len(p) /\ \A y \in LeftEnd(p) .. Len(p) : Stop(y) => y <= RightEnd(p)
  BY <1>2, <1>5
<1> HIDE DEF S
<1>7. Len(p) - NumRight <= RightEnd(p)
  BY <1>0, <1>1, <1>6
<1>8. ASSUME NEW k \in DOMAIN p, k > LeftEnd(p), p[k] = StarStar PROVE k - 1 <= RightEnd(p)
  <2>1. k \in 1 .. Len(p)
    OBVIOUS
  <2>2. k - 1 \in 0 .. Len(p) - 1 /\ (k - 1) + 1 = k
    BY <2>1, <1>0
  <2>3. Stop(k - 1)
    BY <2>2, <1>1, <1>8
  <2>4. k - 1 \in LeftEnd(p) .. Len(p)
    BY <2>1, <1>0, <1>8
  <2>5. QED
    BY <2>3, <2>4, <1>6
<1>9. QED
  BY <1>6, <1>7, <1>8

(* Where a word set lies, and what that says of the sets around it. *)
LEMMA Places ==
  ASSUME NEW p \in Seq(TokenSets), NEW i \in WordSets(p)
  PROVE  /\ i \in 1 .. Len(p) /\ p[i] # {} /\ p[i] \subseteq Words /\ p[i] # StarStar /\ p[i] # Star
         /\ \/ /\ Position(p, i) = i - 1
               /\ i <= NumLeft
               /\ \A j \in 1 .. i : p[j] # StarStar
            \/ /\ Position(p, i) = -1 - (Len(p) - i)
               /\ i > Len(p) - NumRight
               /\ \A j \in i .. Len(p) : p[j] # StarStar
            \/ /\ Position(p, i) = AnyPos
               /\ i \in AnySets(p)
         /\ Position(p, i) \in Positions
<1>0. /\ Len(p) \in Nat /\ DOMAIN p = 1 .. Len(p) /\ NumLeft \in Nat /\ NumRight \in Nat
      /\ i \in 1 .. Len(p) /\ p[i] \in TokenSets /\ p[i] # StarStar /\ p[i] # Star
  BY MapsAssumption DEF WordSets, AnyPos
<1>1. p[i] # {} /\ p[i] \subseteq Words
  <2>1. p[i] \in (SUBSET Words) \ {{}}
    BY <1>0, Zenon DEF TokenSets
  <2>2. QED
    BY <2>1
<1>2. /\ LeftEnd(p) \in 0 .. Len(p) /\ LeftEnd(p) <= NumLeft
      /\ \A k \in DOMAIN p : p[k] = StarStar => LeftEnd(p) <= k
  BY LeftFacts
<1>3. /\ RightEnd(p) \in LeftEnd(p) .. Len(p) /\ Len(p) - NumRight <= RightEnd(p)
      /\ \A k \in DOMAIN p : k > LeftEnd(p) /\ p[k] = StarStar => k - 1 <= RightEnd(p)
  BY RightFacts
<1>4. CASE i <= LeftEnd(p)
  <2>1. \A j \in 1 .. i : p[j] # StarStar
    BY <1>0, <1>2, <1>4
  <2>2. Position(p, i) = i - 1 /\ i - 1 \in 0 .. NumLeft - 1
    BY <1>0, <1>2, <1>4 DEF Position, LeftPos
  <2>3. i - 1 \in Positions
    BY <2>2 DEF Positions, LeftPos
  <2>4. QED
    BY <1>0, <1>1, <1>2, <1>4, <2>1, <2>2, <2>3
<1>5. CASE i > LeftEnd(p) /\ i > RightEnd(p)
  <2>1. ASSUME NEW j \in i .. Len(p) PROVE p[j] # StarStar
    <3>1. j = i \/ j - 1 > RightEnd(p)
      BY <1>0, <1>3, <1>5
    <3>2. QED
      BY <3>1, <1>0, <1>2, <1>3, <1>5
  <2>2. Position(p, i) = -1 - (Len(p) - i) /\ Len(p) - i \in 0 .. NumRight - 1
    BY <1>0, <1>2, <1>3, <1>5 DEF Position, RightPos
  <2>3. -1 - (Len(p) - i) \in Positions
    BY <2>2 DEF Positions, RightPos
  <2>4. QED
    BY <1>0, <1>1, <1>2, <1>3, <1>5, <2>1, <2>2, <2>3
<1>6. CASE i > LeftEnd(p) /\ i <= RightEnd(p)
  <2>1. Position(p, i) = AnyPos
    BY <1>0, <1>2, <1>3, <1>6 DEF Position
  <2>2. i \in AnySets(p) /\ AnyPos \in Positions
    BY <2>1 DEF AnySets, Positions
  <2>3. QED
    BY <1>0, <1>1, <2>1, <2>2
<1>7. QED
  BY <1>0, <1>2, <1>3, <1>4, <1>5, <1>6

-----------------------------------------------------------------------------
(* A way f to match pattern p with the tokens toks.                        *)

LEMMA StepFacts ==
  ASSUME NEW p \in Seq(TokenSets), NEW toks \in Seq(Words),
         NEW f \in [0 .. Len(p) -> 0 .. Len(toks)], Matching(p, toks, f)
  PROVE  /\ Len(p) \in Nat /\ Len(toks) \in Nat
         /\ f[0] = 0 /\ f[Len(p)] = Len(toks)
         /\ \A i \in 0 .. Len(p) : f[i] \in 0 .. Len(toks)
         /\ \A i \in 1 .. Len(p) : f[i - 1] <= f[i]
         /\ \A i \in 1 .. Len(p) : p[i] # StarStar => f[i] = f[i - 1] + 1
<1>1. Len(p) \in Nat /\ Len(toks) \in Nat /\ DOMAIN p = 1 .. Len(p)
  OBVIOUS
<1>2. f[0] = 0 /\ f[Len(p)] = Len(toks)
  BY DEF Matching
<1>3. \A i \in 0 .. Len(p) : f[i] \in 0 .. Len(toks)
  OBVIOUS
<1>4. ASSUME NEW i \in 1 .. Len(p)
      PROVE  f[i - 1] <= f[i] /\ (p[i] # StarStar => f[i] = f[i - 1] + 1)
  <2>1. i \in DOMAIN p /\ f[i] \in Int /\ f[i - 1] \in Int
    BY <1>1, <1>3
  <2>2. IF p[i] = StarStar THEN f[i] >= f[i - 1]
        ELSE f[i] = f[i - 1] + 1 /\ (p[i] = Star \/ toks[f[i]] \in p[i])
    BY <2>1 DEF Matching
  <2>3. QED
    BY <2>1, <2>2
<1>5. QED
  BY <1>1, <1>2, <1>3, <1>4

(* The tokens up to a ** are matched one by one, from the left ... *)
LEMMA FromLeft ==
  ASSUME NEW p \in Seq(TokenSets), NEW toks \in Seq(Words),
         NEW f \in [0 .. Len(p) -> 0 .. Len(toks)], Matching(p, toks, f),
         NEW i \in 0 .. Len(p), \A j \in 1 .. i : p[j] # StarStar
  PROVE  f[i] = i
<1> DEFINE Off == {k \in 0 .. i : f[k] # k}
<1>1. /\ Len(p) \in Nat /\ f[0] = 0
      /\ \A k \in 1 .. Len(p) : p[k] # StarStar => f[k] = f[k - 1] + 1
  BY StepFacts
<1>2. SUFFICES ASSUME Off # {} PROVE FALSE
  <2>1. i \in 0 .. i
    BY <1>1
  <2>2. QED
    BY <2>1
<1>3. Off \subseteq Nat
  BY <1>1
<1>4. PICK k \in Off : \A y \in Off : k <= y
  <2> HIDE DEF Off
  <2>1. QED
    BY <1>2, <1>3, LeastNat
<1>5. k # 0 /\ k \in 1 .. i /\ k \in 1 .. Len(p) /\ k - 1 \in 0 .. i
  BY <1>1
<1>6. k - 1 \notin Off
  BY <1>4, <1>5
<1>7. f[k - 1] = k - 1
  BY <1>5, <1>6
<1>8. f[k] = k
  BY <1>1, <1>5, <1>7
<1>9. QED
  BY <1>8

(* ... and those after the last ** from the right. *)
LEMMA FromRight ==
  ASSUME NEW p \in Seq(TokenSets), NEW toks \in Seq(Words),
         NEW f \in [0 .. Len(p) -> 0 .. Len(toks)], Matching(p, toks, f),
         NEW i \in 1 .. Len(p), \A j \in i .. Len(p) : p[j] # StarStar
  PROVE  Len(toks) - f[i] = Len(p) - i
<1> DEFINE n == Len(p) - i
           Off == {k \in 0 .. n : f[Len(p) - k] # Len(toks) - k}
<1>1. /\ Len(p) \in Nat /\ Len(toks) \in Nat /\ f[Len(p)] = Len(toks)
      /\ \A k \in 0 .. Len(p) : f[k] \in 0 .. Len(toks)
      /\ \A k \in 1 .. Len(p) : p[k] # StarStar => f[k] = f[k - 1] + 1
  BY StepFacts
<1>2. SUFFICES ASSUME Off # {} PROVE FALSE
  <2>1. n \in 0 .. n /\ Len(p) - n = i /\ f[i] \in Int
    BY <1>1
  <2>2. Off = {} => f[Len(p) - n] = Len(toks) - n
    BY <2>1
  <2>3. QED
    BY <2>1, <2>2, <1>1
<1>3. Off \subseteq Nat
  BY <1>1
<1>4. PICK k \in Off : \A y \in Off : k <= y
  <2> HIDE DEF Off
  <2>1. QED
    BY <1>2, <1>3, LeastNat
<1>5. k \in 0 .. n /\ f[Len(p) - k] # Len(toks) - k
  OBVIOUS
<1>6. k # 0
  BY <1>1, <1>5
<1>7. k \in 1 .. n /\ k - 1 \in 0 .. n /\ ~(k <= k - 1)
  BY <1>1, <1>5, <1>6
<1>8. f[Len(p) - (k - 1)] = Len(toks) - (k - 1)
  BY <1>4, <1>7
<1> DEFINE m == Len(p) - (k - 1)
<1>9. m \in 1 .. Len(p) /\ m \in i .. Len(p) /\ m - 1 = Len(p) - k /\ m - 1 \in 0 .. Len(p)
  <2>1. Len(p) \in Nat /\ i \in Nat /\ k \in Nat /\ 1 <= i /\ i <= Len(p)
        /\ 1 <= k /\ k <= Len(p) - i
    BY <1>1, <1>7
  <2>2. m \in Int /\ m - 1 = Len(p) - k /\ i <= m /\ m <= Len(p)
    BY <2>1
  <2>3. QED
    BY <2>1, <2>2
<1>10. f[m] = f[m - 1] + 1 /\ f[m - 1] \in Int
  <2> HIDE DEF m
  <2>1. QED
    BY <1>1, <1>9
<1>11. f[Len(p) - k] = Len(toks) - k
  <2>1. f[m] = Len(toks) - (k - 1) /\ f[m - 1] = f[Len(p) - k] /\ k \in Int
    BY <1>8, <1>9, <1>7
  <2>2. Len(toks) \in Int
    BY <1>1
  <2>3. f[m - 1] = Len(toks) - k
    <3> HIDE DEF m
    <3>1. QED
      BY <2>1, <2>2, <1>10
  <2>4. QED
    BY <2>1, <2>3
<1>12. QED
  BY <1>5, <1>11

LEMMA Rising ==
  ASSUME NEW p \in Seq(TokenSets), NEW toks \in Seq(Words),
         NEW f \in [0 .. Len(p) -> 0 .. Len(toks)], Matching(p, toks, f),
         NEW i \in 0 .. Len(p), NEW j \in i .. Len(p)
  PROVE  f[i] <= f[j]
<1> DEFINE Off == {k \in i .. Len(p) : f[k] < f[i]}
<1>1. /\ Len(p) \in Nat /\ \A k \in 0 .. Len(p) : f[k] \in Int
      /\ \A k \in 1 .. Len(p) : f[k - 1] <= f[k]
  BY StepFacts
<1>2. j \in 0 .. Len(p)
  BY <1>1
<1>3. SUFFICES ASSUME Off # {} PROVE FALSE
  <2>1. f[i] \in Int /\ f[j] \in Int
    BY <1>1, <1>2
  <2>2. Off = {} => ~(f[j] < f[i])
    OBVIOUS
  <2>3. QED
    BY <2>1, <2>2
<1>4. Off \subseteq Nat
  BY <1>1
<1>5. PICK k \in Off : \A y \in Off : k <= y
  <2> HIDE DEF Off
  <2>1. QED
    BY <1>3, <1>4, LeastNat
<1>6. k \in i .. Len(p) /\ f[k] < f[i]
  OBVIOUS
<1>7. k # i
  BY <1>1, <1>6
<1>8. k - 1 \in i .. Len(p) /\ k \in 1 .. Len(p) /\ ~(k <= k - 1) /\ k - 1 \in 0 .. Len(p)
  BY <1>1, <1>6, <1>7
<1>9. ~(f[k - 1] < f[i])
  BY <1>5, <1>8
<1>10. f[k - 1] <= f[k] /\ f[k - 1] \in Int /\ f[k] \in Int /\ f[i] \in Int
  BY <1>1, <1>8
<1>11. QED
  BY <1>6, <1>9, <1>10

(* The sets that are no ** match different tokens. *)
LEMMA Distinct ==
  ASSUME NEW p \in Seq(TokenSets), NEW toks \in Seq(Words),
         NEW f \in [0 .. Len(p) -> 0 .. Len(toks)], Matching(p, toks, f)
  PROVE  \A i, j \in 1 .. Len(p) :
           p[i] # StarStar /\ p[j] # StarStar /\ f[i] = f[j] => i = j
<1>0. /\ Len(p) \in Nat /\ Len(toks) \in Nat /\ \A k \in 0 .. Len(p) : f[k] \in 0 .. Len(toks)
      /\ \A k \in 1 .. Len(p) : p[k] # StarStar => f[k] = f[k - 1] + 1
  BY StepFacts
<1>1. /\ Len(p) \in Nat /\ \A k \in 0 .. Len(p) : f[k] \in Int
      /\ \A k \in 1 .. Len(p) : p[k] # StarStar => f[k] = f[k - 1] + 1
  BY <1>0
<1>2. ASSUME NEW a \in 1 .. Len(p), NEW b \in 1 .. Len(p), p[b] # StarStar, a < b
      PROVE  f[a] < f[b]
  <2>1. b - 1 \in a .. Len(p) /\ a \in 0 .. Len(p) /\ b \in 0 .. Len(p) /\ b - 1 \in 0 .. Len(p)
    BY <1>1, <1>2
  <2>2. f[a] <= f[b - 1]
    BY <2>1, Rising
  <2>3. f[b] = f[b - 1] + 1
    BY <1>1, <1>2
  <2>4. f[a] \in Int /\ f[b] \in Int /\ f[b - 1] \in Int
    BY <1>1, <2>1
  <2>5. QED
    BY <2>2, <2>3, <2>4
<1>3. ASSUME NEW i \in 1 .. Len(p), NEW j \in 1 .. Len(p),
             p[i] # StarStar, p[j] # StarStar, f[i] = f[j]
      PROVE  i = j
  <2>1. i < j => f[i] < f[j]
    BY <1>2, <1>3
  <2>2. j < i => f[j] < f[i]
    BY <1>2, <1>3
  <2>3. i \in Int /\ j \in Int /\ f[i] \in Int /\ f[j] \in Int
    BY <1>1
  <2>4. QED
    BY <1>3, <2>1, <2>2, <2>3
<1>4. QED
  BY <1>3

LEMMA MatchedToken ==
  ASSUME NEW p \in Seq(TokenSets), NEW toks \in Seq(Words),
         NEW f \in [0 .. Len(p) -> 0 .. Len(toks)], Matching(p, toks, f),
         NEW i \in 1 .. Len(p), p[i] # StarStar
  PROVE  /\ f[i] \in 1 .. Len(toks)
         /\ p[i] # Star => toks[f[i]] \in p[i]
<1>1. /\ Len(p) \in Nat /\ Len(toks) \in Nat /\ \A k \in 0 .. Len(p) : f[k] \in 0 .. Len(toks)
      /\ f[i] = f[i - 1] + 1
  BY StepFacts
<1>2. i - 1 \in 0 .. Len(p) /\ i \in 0 .. Len(p) /\ i \in DOMAIN p
  BY <1>1
<1>3. f[i - 1] \in 0 .. Len(toks) /\ f[i] \in 0 .. Len(toks)
  BY <1>1, <1>2
<1>4. p[i] # Star => toks[f[i]] \in p[i]
  BY <1>2 DEF Matching
<1>5. QED
  BY <1>1, <1>3, <1>4

(* There are as many tokens as sets that need one. *)
LEMMA EnoughTokens ==
  ASSUME NEW p \in Seq(TokenSets), NEW toks \in Seq(Words),
         NEW f \in [0 .. Len(p) -> 0 .. Len(toks)], Matching(p, toks, f)
  PROVE  MinToks(p) <= Len(toks)
<1> DEFINE A == DOMAIN p \ StarStars(p)
           g == [i \in A |-> f[i]]
<1>1. Len(p) \in Nat /\ Len(toks) \in Nat /\ DOMAIN p = 1 .. Len(p)
  OBVIOUS
<1>2. \A i \in A : i \in 1 .. Len(p) /\ p[i] # StarStar
  BY <1>1 DEF StarStars
<1>3. \A i \in A : f[i] \in 1 .. Len(toks)
  BY <1>2, MatchedToken
<1>4. \A i, j \in A : f[i] = f[j] => i = j
  BY <1>2, Distinct
<1>5. g \in Injection(A, 1 .. Len(toks))
  <2> HIDE DEF A
  <2>1. QED
    BY <1>3, <1>4 DEF Injection, IsInjective
<1>6. IsFiniteSet(1 .. Len(toks)) /\ Cardinality(1 .. Len(toks)) = Len(toks)
  BY <1>1, UpTo
<1>7. Cardinality(A) <= Len(toks)
  <2> HIDE DEF A, g
  <2>1. QED
    BY <1>5, <1>6, FS_Injection
<1>8. IsFiniteSet(1 .. Len(p)) /\ Cardinality(1 .. Len(p)) = Len(p)
  BY <1>1, UpTo
<1>9. Cardinality(A) = Cardinality(1 .. Len(p)) - Cardinality((1 .. Len(p)) \cap StarStars(p))
  BY <1>1, <1>8, FS_Difference
<1>10. (1 .. Len(p)) \cap StarStars(p) = StarStars(p)
  BY <1>1 DEF StarStars
<1>11. QED
  BY <1>7, <1>8, <1>9, <1>10 DEF MinToks

-----------------------------------------------------------------------------
(* Loading.                                                                *)

PositionsOf(p) == {Position(p, i) : i \in WordSets(p)}

(* The table holds the words of the rules' patterns, and nothing else. *)
TableInv ==
  /\ \A r \in Rules : \A p \in patterns[r] : Stored(p) \X {r} \subseteq tokenRules
  /\ \A x \in tokenRules : \E p \in patterns[x[2]] : x[1] \in Stored(p)

(* What a lookup requires of a rule comes from its patterns. *)
RequiredInv ==
  /\ \A r \in Rules : reqBits[r] = UNION {PositionsOf(p) : p \in patterns[r]}
  /\ \A r \in Rules : patterns[r] # {} =>
       \E p \in patterns[r] : minToks[r] = MinToks(p) /\ maxToks[r] = MaxToksOf(p)

(* Rules without requirements are found without a lookup. *)
MatchAllInv ==
  /\ \A r \in Rules : patterns[r] # {} /\ reqBits[r] = {} => r \in matchAllRules
  /\ \A r \in Rules : r < rule /\ patterns[r] = {} => r \in matchAllRules

OrderInv ==
  /\ \A r \in Rules : r > rule \/ (r = rule /\ npat = 0) => patterns[r] = {} /\ reqAnyCt[r] = 0
  /\ npat > 0 => rule \in Rules /\ patterns[rule] # {}

UsageInv == ~loading => mapPosUsage = UNION {reqBits[r] : r \in Rules}

LoadInv == TypeOK /\ TableInv /\ RequiredInv /\ MatchAllInv /\ OrderInv /\ UsageInv

(* With at most one pattern, the count of a rule is its pattern's. *)
SingleInv == \A r \in Rules : \A p \in patterns[r] : patterns[r] = {p} /\ reqAnyCt[r] = ReqAny(p)

LEMMA PatternTypes ==
  ASSUME NEW p \in Patterns
  PROVE  /\ p \in Seq(TokenSets)
         /\ Stored(p) \subseteq Positions \X Words
         /\ PositionsOf(p) \subseteq Positions
         /\ ReqAny(p) \in Nat
         /\ MinToks(p) \in Nat
         /\ MaxToksOf(p) \in Nat
<1>1. p \in Seq(TokenSets)
  BY PatternsAssumption
<1>2. Len(p) \in Nat /\ DOMAIN p = 1 .. Len(p)
  BY <1>1
<1>3. \A i \in WordSets(p) : Position(p, i) \in Positions /\ p[i] \subseteq Words
  BY <1>1, Places
<1>4. Stored(p) \subseteq Positions \X Words /\ PositionsOf(p) \subseteq Positions
  BY <1>3 DEF Stored, PositionsOf
<1>5. IsFiniteSet(1 .. Len(p)) /\ Cardinality(1 .. Len(p)) = Len(p)
  BY <1>2, UpTo
<1>6. ReqAny(p) \in Nat
  <2>1. AnySets(p) \in SUBSET (1 .. Len(p))
    BY <1>2 DEF AnySets, WordSets
  <2>2. QED
    BY <1>5, <2>1, FS_Subset, FS_CardinalityType DEF ReqAny
<1>7. MinToks(p) \in Nat
  <2>1. StarStars(p) \in SUBSET (1 .. Len(p))
    BY <1>2 DEF StarStars
  <2>2. IsFiniteSet(StarStars(p)) /\ Cardinality(StarStars(p)) <= Cardinality(1 .. Len(p))
    BY <1>5, <2>1, FS_Subset
  <2>3. Cardinality(StarStars(p)) \in Nat
    BY <2>2, FS_CardinalityType
  <2>4. QED
    BY <1>2, <1>5, <2>2, <2>3 DEF MinToks
<1>8. MaxToksOf(p) \in Nat
  BY <1>2, BoundsAssumption DEF MaxToksOf
<1>9. QED
  BY <1>1, <1>4, <1>6, <1>7, <1>8

LEMMA TypeStep == TypeOK /\ [Next]_vars => TypeOK'
<1> SUFFICES ASSUME TypeOK, [Next]_vars PROVE TypeOK'
  OBVIOUS
<1> USE BoundsAssumption, InitAllocAssumption
<1>1. ASSUME NEW p \in Patterns, ProcPattern(p) PROVE TypeOK'
  <2>1. rule \in Rules
    BY <1>1 DEF ProcPattern, TypeOK, Rules
  <2>2. /\ Stored(p) \subseteq Positions \X Words /\ PositionsOf(p) \subseteq Positions
        /\ ReqAny(p) \in Nat /\ MinToks(p) \in Nat /\ MaxToksOf(p) \in Nat
    BY PatternTypes
  <2>3. loading' \in BOOLEAN /\ rule' \in 0 .. NumRules /\ npat' \in 0 .. MaxPatterns /\ mapPosUsage' \subseteq Positions
    BY <1>1 DEF ProcPattern, TypeOK
  <2>4. patterns' \in [Rules -> SUBSET Patterns]
    BY <1>1, <2>1 DEF ProcPattern, TypeOK
  <2>5. tokenRules' \subseteq (Positions \X Words) \X Rules
    BY <1>1, <2>1, <2>2 DEF ProcPattern, TypeOK
  <2>6. reqBits' \in [Rules -> SUBSET Positions]
    BY <1>1, <2>1, <2>2 DEF ProcPattern, TypeOK, PositionsOf
  <2>7. reqAnyCt' \in [Rules -> Nat] /\ minToks' \in [Rules -> Nat] /\ maxToks' \in [Rules -> Nat] /\ nalloc' \in Nat
    BY <1>1, <2>1, <2>2 DEF ProcPattern, TypeOK, GrowTo
  <2>8. matchAllRules' \subseteq Rules
    BY <1>1, <2>1 DEF ProcPattern, TypeOK
  <2>9. QED
    BY <2>3, <2>4, <2>5, <2>6, <2>7, <2>8 DEF TypeOK
<1>2. CASE EndRule
  BY <1>2 DEF EndRule, TypeOK, reqVars, Rules
<1>3. CASE PostProc
  BY <1>3 DEF PostProc, TypeOK, reqVars, ruleVars
<1>4. CASE UNCHANGED vars
  BY <1>4 DEF vars, TypeOK, reqVars, ruleVars
<1>5. QED
  BY <1>1, <1>2, <1>3, <1>4 DEF Next

LEMMA LoadInit == Init => LoadInv /\ SingleInv
<1> SUFFICES ASSUME Init PROVE LoadInv /\ SingleInv
  OBVIOUS
<1> USE BoundsAssumption, InitAllocAssumption
<1>1. TypeOK
  BY DEF Init, TypeOK, Rules
<1>2. TableInv /\ RequiredInv /\ SingleInv
  BY DEF Init, TableInv, RequiredInv, SingleInv
<1>3. MatchAllInv /\ OrderInv /\ UsageInv
  BY DEF Init, MatchAllInv, OrderInv, UsageInv, Rules
<1>4. QED
  BY <1>1, <1>2, <1>3 DEF LoadInv

LEMMA LoadStep == LoadInv /\ [Next]_vars => LoadInv'
<1> SUFFICES ASSUME LoadInv, [Next]_vars PROVE LoadInv'
  OBVIOUS
<1> USE BoundsAssumption, InitAllocAssumption
<1>0. TypeOK'
  BY TypeStep DEF LoadInv
<1>1. ASSUME NEW p \in Patterns, ProcPattern(p) PROVE LoadInv'
  <2>1. rule \in Rules /\ rule \in Nat /\ patterns \in [Rules -> SUBSET Patterns]
    BY <1>1 DEF ProcPattern, TypeOK, Rules, LoadInv
  <2>2. /\ patterns'[rule] = patterns[rule] \cup {p}
        /\ reqBits'[rule] = reqBits[rule] \cup PositionsOf(p)
        /\ minToks'[rule] = MinToks(p)
        /\ maxToks'[rule] = MaxToksOf(p)
    BY <1>1, <2>1 DEF ProcPattern, LoadInv, TypeOK, PositionsOf
  <2>3. ASSUME NEW r \in Rules, r # rule
        PROVE  /\ patterns'[r] = patterns[r] /\ reqBits'[r] = reqBits[r]
               /\ minToks'[r] = minToks[r] /\ maxToks'[r] = maxToks[r] /\ reqAnyCt'[r] = reqAnyCt[r]
    BY <1>1, <2>1, <2>3 DEF ProcPattern, LoadInv, TypeOK
  <2>4. /\ tokenRules' = tokenRules \cup (Stored(p) \X {rule})
        /\ rule' = rule /\ loading /\ loading' = loading /\ npat' = npat + 1 /\ npat \in Nat
        /\ matchAllRules' = IF reqBits'[rule] = {} THEN matchAllRules \cup {rule}
                            ELSE matchAllRules
    BY <1>1 DEF ProcPattern, LoadInv, TypeOK
  <2>5. TableInv'
    <3>1. ASSUME NEW r \in Rules, NEW q \in patterns'[r] PROVE Stored(q) \X {r} \subseteq tokenRules'
      <4>1. CASE r = rule /\ q = p
        BY <4>1, <2>4
      <4>2. CASE q \in patterns[r]
        BY <4>2, <2>4 DEF LoadInv, TableInv
      <4>3. QED
        BY <3>1, <4>1, <4>2, <2>2, <2>3
    <3>2. ASSUME NEW x \in tokenRules' PROVE \E q \in patterns'[x[2]] : x[1] \in Stored(q)
      <4>1. CASE x \in tokenRules
        <5>1. PICK q \in patterns[x[2]] : x[1] \in Stored(q)
          BY <4>1 DEF LoadInv, TableInv
        <5>2. x[2] \in Rules
          BY <4>1 DEF LoadInv, TypeOK
        <5>3. q \in patterns'[x[2]]
          BY <5>1, <5>2, <2>2, <2>3
        <5>4. QED
          BY <5>1, <5>3
      <4>2. CASE x \in Stored(p) \X {rule}
        <5>1. x[1] \in Stored(p) /\ x[2] = rule
          BY <4>2
        <5>2. QED
          BY <5>1, <2>2
      <4>3. QED
        BY <3>2, <4>1, <4>2, <2>4
    <3>3. QED
      BY <3>1, <3>2 DEF TableInv
  <2>6. RequiredInv'
    <3>1. ASSUME NEW r \in Rules PROVE reqBits'[r] = UNION {PositionsOf(q) : q \in patterns'[r]}
      <4>1. reqBits[r] = UNION {PositionsOf(q) : q \in patterns[r]}
        BY DEF LoadInv, RequiredInv
      <4>2. CASE r = rule
        BY <4>1, <4>2, <2>2
      <4>3. CASE r # rule
        BY <4>1, <4>3, <2>3
      <4>4. QED
        BY <4>2, <4>3
    <3>2. ASSUME NEW r \in Rules, patterns'[r] # {}
          PROVE  \E q \in patterns'[r] : minToks'[r] = MinToks(q) /\ maxToks'[r] = MaxToksOf(q)
      <4>1. CASE r = rule
        BY <4>1, <2>2
      <4>2. CASE r # rule
        BY <4>2, <3>2, <2>3 DEF LoadInv, RequiredInv
      <4>3. QED
        BY <4>1, <4>2
    <3>3. QED
      BY <3>1, <3>2 DEF RequiredInv
  <2>7. MatchAllInv'
    <3>1. ASSUME NEW r \in Rules PROVE
            /\ patterns'[r] # {} /\ reqBits'[r] = {} => r \in matchAllRules'
            /\ r < rule' /\ patterns'[r] = {} => r \in matchAllRules'
      <4>1. CASE r = rule
        BY <4>1, <2>1, <2>4
      <4>2. CASE r # rule
        BY <4>2, <2>3, <2>4 DEF LoadInv, MatchAllInv
      <4>3. QED
        BY <4>1, <4>2
    <3>2. QED
      BY <3>1 DEF MatchAllInv
  <2>8. OrderInv'
    <3>1. ASSUME NEW r \in Rules, r > rule' \/ (r = rule' /\ npat' = 0)
          PROVE  patterns'[r] = {} /\ reqAnyCt'[r] = 0
      <4>1. r > rule /\ r # rule
        BY <2>1, <2>4, <3>1 DEF Rules
      <4>2. QED
        BY <4>1, <2>3 DEF LoadInv, OrderInv
    <3>2. rule' \in Rules /\ patterns'[rule'] # {}
      BY <2>1, <2>2, <2>4
    <3>3. QED
      BY <3>1, <3>2 DEF OrderInv
  <2>9. UsageInv'
    BY <2>4 DEF UsageInv
  <2>10. QED
    BY <1>0, <2>5, <2>6, <2>7, <2>8, <2>9 DEF LoadInv
<1>2. CASE EndRule
  <2>1. /\ rule \in Nat /\ rule' = rule + 1 /\ rule \in Rules /\ npat \in Nat /\ npat' = 0 /\ loading /\ loading'
        /\ matchAllRules' = IF npat = 0 THEN matchAllRules \cup {rule} ELSE matchAllRules
        /\ UNCHANGED <<patterns, tokenRules, reqBits, reqAnyCt, minToks, maxToks>>
    BY <1>2 DEF EndRule, reqVars, LoadInv, TypeOK, Rules
  <2>2. TableInv' /\ RequiredInv' /\ UsageInv'
    BY <2>1 DEF LoadInv, TableInv, RequiredInv, UsageInv
  <2>3. MatchAllInv'
    <3>1. ASSUME NEW r \in Rules, r < rule', patterns[r] = {} PROVE r \in matchAllRules'
      <4>1. CASE r = rule
        BY <4>1, <2>1, <3>1 DEF LoadInv, OrderInv
      <4>2. CASE r # rule
        <5>1. r < rule
          BY <4>2, <3>1, <2>1 DEF Rules
        <5>2. QED
          BY <5>1, <2>1, <3>1 DEF LoadInv, MatchAllInv
      <4>3. QED
        BY <4>1, <4>2
    <3>2. QED
      BY <3>1, <2>1 DEF LoadInv, MatchAllInv
  <2>4. OrderInv'
    <3>1. ASSUME NEW r \in Rules, r > rule' \/ r = rule' PROVE r > rule
      BY <2>1, <3>1 DEF Rules
    <3>2. QED
      BY <3>1, <2>1 DEF LoadInv, OrderInv
  <2>5. QED
    BY <1>0, <2>2, <2>3, <2>4 DEF LoadInv
<1>3. CASE PostProc
  BY <1>0, <1>3 DEF PostProc, ruleVars, reqVars, LoadInv, TableInv, RequiredInv, MatchAllInv, OrderInv, UsageInv
<1>4. CASE UNCHANGED vars
  BY <1>0, <1>4 DEF vars, ruleVars, reqVars, LoadInv, TableInv, RequiredInv, MatchAllInv, OrderInv, UsageInv
<1>5. QED
  BY <1>1, <1>2, <1>3, <1>4 DEF Next

LEMMA SingleStep == MaxPatterns = 1 /\ LoadInv /\ SingleInv /\ [Next]_vars => SingleInv'
<1> SUFFICES ASSUME MaxPatterns = 1, LoadInv, SingleInv, [Next]_vars PROVE SingleInv'
  OBVIOUS
<1>1. ASSUME NEW p \in Patterns, ProcPattern(p) PROVE SingleInv'
  <2>1. rule \in Rules /\ npat = 0
    BY <1>1, BoundsAssumption DEF ProcPattern, TypeOK, Rules, LoadInv
  <2>2. patterns[rule] = {} /\ reqAnyCt[rule] = 0
    BY <2>1 DEF LoadInv, OrderInv
  <2>3. ReqAny(p) \in Nat
    BY PatternTypes
  <2>4. patterns'[rule] = {p} /\ reqAnyCt'[rule] = ReqAny(p)
    BY <1>1, <2>1, <2>2, <2>3 DEF ProcPattern, LoadInv, TypeOK
  <2>5. \A r \in Rules : r # rule => patterns'[r] = patterns[r] /\ reqAnyCt'[r] = reqAnyCt[r]
    BY <1>1 DEF ProcPattern, LoadInv, TypeOK
  <2>6. QED
    BY <2>4, <2>5 DEF SingleInv
<1>2. CASE EndRule
  BY <1>2 DEF EndRule, SingleInv, reqVars
<1>3. CASE PostProc
  BY <1>3 DEF PostProc, SingleInv, reqVars, ruleVars
<1>4. CASE UNCHANGED vars
  BY <1>4 DEF vars, SingleInv, reqVars, ruleVars
<1>5. QED
  BY <1>1, <1>2, <1>3, <1>4 DEF Next

-----------------------------------------------------------------------------
(* No rule is lost.                                                        *)

LEMMA FoundRule ==
  ASSUME LoadInv, ~loading, NEW q \in Paths, NEW r \in Rules, NEW p \in Patterns,
         patterns[r] = {p}, reqAnyCt[r] = ReqAny(p), r < rule, reqBits[r] # {},
         RegExMatch(p, q)
  PROVE  r \in Lookup(q.toks)
<1> DEFINE toks == q.toks
<1>1. p \in Seq(TokenSets) /\ toks \in Seq(Words) /\ Len(toks) <= MaxToks
  BY PatternsAssumption, PathsAssumption
<1>2. Len(p) \in Nat /\ Len(toks) \in Nat /\ DOMAIN toks = 1 .. Len(toks)
  BY <1>1
<1>3. PICK f \in [0 .. Len(p) -> 0 .. Len(toks)] : Matching(p, toks, f)
  BY DEF RegExMatch
<1>4. /\ reqBits[r] = PositionsOf(p) /\ mapPosUsage = UNION {reqBits[s] : s \in Rules}
      /\ minToks[r] = MinToks(p) /\ maxToks[r] = MaxToksOf(p)
  <2>1. reqBits[r] = UNION {PositionsOf(s) : s \in {p}}
    BY DEF LoadInv, RequiredInv
  <2>2. PICK pp \in {p} : minToks[r] = MinToks(pp) /\ maxToks[r] = MaxToksOf(pp)
    BY DEF LoadInv, RequiredInv
  <2>3. mapPosUsage = UNION {reqBits[s] : s \in Rules}
    BY DEF LoadInv, UsageInv
  <2>4. UNION {PositionsOf(s) : s \in {p}} = PositionsOf(p)
    OBVIOUS
  <2>5. QED
    BY <2>1, <2>2, <2>3, <2>4
<1> HIDE DEF toks
<1>5. ASSUME NEW i \in WordSets(p)
      PROVE  <<Position(p, i), f[i]>> \in Hits(toks, r)
  <2>1. /\ i \in 1 .. Len(p) /\ p[i] # StarStar /\ p[i] # Star
        /\ \/ /\ Position(p, i) = i - 1 /\ i <= NumLeft
              /\ \A j \in 1 .. i : p[j] # StarStar
           \/ /\ Position(p, i) = -1 - (Len(p) - i) /\ i > Len(p) - NumRight
              /\ \A j \in i .. Len(p) : p[j] # StarStar
           \/ Position(p, i) = AnyPos
    BY <1>1, Places
  <2>2. f[i] \in 1 .. Len(toks) /\ toks[f[i]] \in p[i]
    BY <1>1, <1>3, <2>1, MatchedToken
  <2>3. Position(p, i) \in mapPosUsage
    BY <1>4 DEF PositionsOf
  <2>4. <<<<Position(p, i), toks[f[i]]>>, r>> \in tokenRules
    <3>1. <<Position(p, i), toks[f[i]]>> \in Stored(p)
      BY <2>2 DEF Stored
    <3>2. QED
      BY <3>1 DEF LoadInv, TableInv
  <2>5. \/ Position(p, i) = LeftPos(f[i] - 1) /\ f[i] <= NumLeft
        \/ Position(p, i) = RightPos(Len(toks) - f[i]) /\ f[i] > Len(toks) - NumRight
        \/ Position(p, i) = AnyPos
    <3>1. CASE Position(p, i) = i - 1 /\ i <= NumLeft /\ \A j \in 1 .. i : p[j] # StarStar
      <4>1. i \in 0 .. Len(p)
        BY <1>2, <2>1
      <4>2. f[i] = i
        BY <1>1, <1>3, <3>1, <4>1, FromLeft
      <4>3. QED
        BY <3>1, <4>2 DEF LeftPos
    <3>2. CASE /\ Position(p, i) = -1 - (Len(p) - i) /\ i > Len(p) - NumRight
               /\ \A j \in i .. Len(p) : p[j] # StarStar
      <4>1. Len(toks) - f[i] = Len(p) - i
        <5>1. i \in 1 .. Len(p) /\ \A j \in i .. Len(p) : p[j] # StarStar
          BY <2>1, <3>2
        <5>2. QED
          BY <1>1, <1>3, <5>1, FromRight
      <4>2. RightPos(Len(toks) - f[i]) = Position(p, i)
        BY <3>2, <4>1 DEF RightPos
      <4>3. i \in Nat /\ f[i] \in Nat /\ Len(p) \in Nat /\ Len(toks) \in Nat /\ NumRight \in Nat
        BY <1>2, <2>1, <2>2, MapsAssumption
      <4>4. i > Len(p) - NumRight
        BY <3>2
      <4>5. f[i] > Len(toks) - NumRight
        BY <4>1, <4>3, <4>4
      <4>6. QED
        BY <4>2, <4>5
    <3>3. QED
      BY <2>1, <3>1, <3>2
  <2>6. <<Position(p, i), f[i]>> \in Scanned(toks)
    BY <1>2, <2>2, <2>3, <2>5 DEF Scanned
  <2>7. QED
    BY <2>4, <2>6 DEF Hits
<1>6. reqBits[r] \subseteq LookupMapUsage(toks, r)
  <2>1. ASSUME NEW b \in reqBits[r] PROVE b \in LookupMapUsage(toks, r)
    <3>1. PICK i \in WordSets(p) : b = Position(p, i)
      BY <1>4 DEF PositionsOf
    <3>2. <<b, f[i]>> \in Hits(toks, r)
      BY <3>1, <1>5
    <3>3. b = <<b, f[i]>>[1]
      OBVIOUS
    <3>4. QED
      BY <3>2, <3>3, Zenon DEF LookupMapUsage
  <2>2. QED
    BY <2>1
<1>7. Hits(toks, r) # {}
  BY <1>6 DEF LookupMapUsage
<1>8. reqAnyCt[r] <= LookupAnyCt(toks, r)
  <2> DEFINE A == AnySets(p)
             H == {x \in Hits(toks, r) : x[1] = AnyPos}
             g == [i \in A |-> <<AnyPos, f[i]>>]
  <2>0. \A i, j \in 1 .. Len(p) :
          p[i] # StarStar /\ p[j] # StarStar /\ f[i] = f[j] => i = j
    BY <1>1, <1>3, Distinct
  <2>1. \A i \in A : /\ i \in WordSets(p) /\ Position(p, i) = AnyPos
                     /\ i \in 1 .. Len(p) /\ p[i] # StarStar
    <3>1. \A i \in A : i \in WordSets(p) /\ Position(p, i) = AnyPos
      BY DEF AnySets
    <3>2. QED
      BY <3>1, <1>1, Places
  <2>2. \A i \in A : g[i] \in H
    <3>1. ASSUME NEW i \in A PROVE g[i] \in H
      <4>1. <<AnyPos, f[i]>> \in Hits(toks, r)
        BY <2>1, <1>5
      <4>2. g[i] = <<AnyPos, f[i]>>
        OBVIOUS
      <4>3. QED
        BY <4>1, <4>2
    <3>2. QED
      BY <3>1
  <2>3. \A i, j \in A : g[i] = g[j] => i = j
    <3>1. ASSUME NEW i \in A, NEW j \in A, g[i] = g[j] PROVE i = j
      <4>1. f[i] = f[j]
        <5>1. <<AnyPos, f[i]>> = <<AnyPos, f[j]>>
          BY <3>1
        <5> HIDE DEF g
        <5>2. QED
          BY <5>1
      <4>2. i \in 1 .. Len(p) /\ j \in 1 .. Len(p) /\ p[i] # StarStar /\ p[j] # StarStar
        BY <2>1
      <4>3. QED
        BY <4>1, <4>2, <2>0
    <3>2. QED
      BY <3>1
  <2>4. IsFiniteSet(H)
    <3>1. IsFiniteSet({AnyPos}) /\ IsFiniteSet(1 .. Len(toks))
      BY <1>2, UpTo, FS_Singleton
    <3>2. IsFiniteSet({AnyPos} \X (1 .. Len(toks)))
      BY <3>1, FS_Product
    <3>3. H \in SUBSET ({AnyPos} \X (1 .. Len(toks)))
      BY <1>2 DEF Hits, Scanned
    <3>4. QED
      BY <3>2, <3>3, FS_Subset
  <2>5. g \in Injection(A, H)
    <3> HIDE DEF A, H
    <3>1. g \in [A -> H]
      BY <2>2
    <3> HIDE DEF g
    <3>2. QED
      BY <3>1, <2>3 DEF Injection, IsInjective
  <2>6. Cardinality(A) <= Cardinality(H)
    <3> HIDE DEF A, H, g
    <3>1. QED
      BY <2>4, <2>5, FS_Injection
  <2>7. QED
    BY <2>6 DEF ReqAny, LookupAnyCt
<1>9. Fits(toks, r)
  <2>1. MinToks(p) <= Len(toks)
    BY <1>1, <1>3, EnoughTokens
  <2>2. Len(toks) <= MaxToksOf(p)
    <3>1. CASE StarStars(p) # {}
      BY <3>1, <1>1 DEF MaxToksOf, toks
    <3>2. CASE StarStars(p) = {}
      <4>1. Len(p) \in 0 .. Len(p) /\ \A j \in 1 .. Len(p) : p[j] # StarStar
        BY <1>1, <1>2, <3>2 DEF StarStars
      <4>2. f[Len(p)] = Len(p)
        BY <1>1, <1>3, <4>1, FromLeft
      <4>3. f[Len(p)] = Len(toks)
        BY <1>3 DEF Matching
      <4>4. QED
        BY <1>2, <3>2, <4>2, <4>3 DEF MaxToksOf
    <3>3. QED
      BY <3>1, <3>2
  <2>3. QED
    BY <1>4, <2>1, <2>2 DEF Fits
<1>10. r \in Loaded
  BY BoundsAssumption DEF Loaded, Rules, LoadInv, TypeOK
<1>11. QED
  BY <1>6, <1>7, <1>8, <1>9, <1>10 DEF Lookup, toks

LEMMA LoadedRules == TypeOK => Loaded \subseteq Rules /\ \A r \in Loaded : r < rule
BY BoundsAssumption DEF TypeOK, Loaded, Rules

LEMMA SoundState == LoadInv /\ SingleInv => NarrowingSound
<1> SUFFICES ASSUME LoadInv, SingleInv, ~loading, NEW q \in Paths, NEW r \in Loaded,
                    \A p \in patterns[r] : RegExMatch(p, q)
             PROVE  r \in Narrowed(q)
  BY DEF NarrowingSound
<1>1. r \in Rules /\ r < rule
  BY LoadedRules DEF LoadInv
<1>2. CASE r \in matchAllRules
  BY <1>2 DEF Narrowed
<1>3. CASE r \notin matchAllRules
  <2>1. patterns[r] # {} /\ reqBits[r] # {}
    BY <1>1, <1>3 DEF LoadInv, MatchAllInv
  <2>2. PICK p \in patterns[r] : patterns[r] = {p} /\ reqAnyCt[r] = ReqAny(p)
    BY <1>1, <2>1 DEF SingleInv
  <2>3. p \in Patterns
    BY <1>1 DEF LoadInv, TypeOK
  <2>4. r \in Lookup(q.toks)
    BY <1>1, <2>1, <2>2, <2>3, FoundRule
  <2>5. QED
    BY <2>4, <1>3 DEF Narrowed
<1>4. QED
  BY <1>2, <1>3

THEOREM Loading == Spec => []LoadInv
<1>1. Init => LoadInv
  BY LoadInit
<1>2. LoadInv /\ [Next]_vars => LoadInv'
  BY LoadStep
<1>3. QED
  BY <1>1, <1>2, PTL DEF Spec

THEOREM TypeCorrect == Spec => []TypeOK
<1>1. LoadInv => TypeOK
  BY DEF LoadInv
<1>2. QED
  BY <1>1, Loading, PTL

(* With no more rules than twice the first allocation the vectors grow far  *)
(* enough.                                                                  *)
THEOREM VectorBounds ==
  ASSUME NumRules <= 2 * InitAlloc
  PROVE  Spec => []ReqVecsInBounds
<1> USE BoundsAssumption, InitAllocAssumption
<1> DEFINE GrownInv == InitAlloc <= nalloc /\ ReqVecsInBounds
<1>1. Init => GrownInv
  BY DEF Init, ReqVecsInBounds
<1>2. TypeOK /\ GrownInv /\ [Next]_vars => GrownInv'
  <2> SUFFICES ASSUME TypeOK, GrownInv, [Next]_vars PROVE GrownInv'
    OBVIOUS
  <2>1. ASSUME NEW p \in Patterns, ProcPattern(p) PROVE GrownInv'
    <3>1. rule \in Nat /\ rule < NumRules /\ nalloc \in Nat
      BY <2>1 DEF ProcPattern, TypeOK
    <3>2. nalloc' = IF nalloc < rule + 1 THEN 2 * nalloc ELSE nalloc
      BY <2>1 DEF ProcPattern, GrowTo
    <3>3. nalloc' \in Nat /\ nalloc <= nalloc' /\ rule < nalloc'
      BY <3>1, <3>2
    <3>4. ASSUME NEW r \in Rules, patterns'[r] # {} PROVE r < nalloc'
      <4>1. CASE r = rule
        BY <4>1, <3>3
      <4>2. CASE r # rule
        <5>1. patterns'[r] = patterns[r]
          BY <4>2, <2>1 DEF ProcPattern, TypeOK
        <5>2. r < nalloc /\ r \in Nat
          BY <5>1, <3>4 DEF ReqVecsInBounds, Rules
        <5>3. QED
          BY <5>2, <3>1, <3>3
      <4>3. QED
        BY <4>1, <4>2
    <3>5. QED
      BY <3>1, <3>3, <3>4 DEF ReqVecsInBounds
  <2>2. CASE EndRule
    BY <2>2 DEF EndRule, reqVars, ReqVecsInBounds
  <2>3. CASE PostProc
    BY <2>3 DEF PostProc, reqVars, ruleVars, ReqVecsInBounds
  <2>4. CASE UNCHANGED vars
    BY <2>4 DEF vars, reqVars, ruleVars, ReqVecsInBounds
  <2>5. QED
    BY <2>1, <2>2, <2>3, <2>4 DEF Next
<1>3. GrownInv => ReqVecsInBounds
  OBVIOUS
<1> HIDE DEF GrownInv
<1>4. QED
  BY <1>1, <1>2, <1>3, TypeCorrect, PTL DEF Spec

(* If no rule has more than one <Pattern>, narrowing loses no rule: every   *)
(* rule whose pattern matches the path is filtered.                         *)
THEOREM Soundness ==
  ASSUME MaxPatterns = 1
  PROVE  Spec => []NarrowingSound
<1>1. Init => LoadInv /\ SingleInv
  BY LoadInit
<1>2. LoadInv /\ SingleInv /\ [Next]_vars => (LoadInv /\ SingleInv)'
  BY LoadStep, SingleStep
<1>3. LoadInv /\ SingleInv => NarrowingSound
  BY SoundState
<1>4. QED
  BY <1>1, <1>2, <1>3, PTL DEF Spec

-----------------------------------------------------------------------------
(* Nothing but the rules that match is found.                              *)

(* With no sets counted for "any", a rule is found only by a path that has  *)
(* a word of each set in the place of that set.                             *)
LEMMA PlacedWord ==
  ASSUME LoadInv, ~loading, NEW toks \in Seq(Words), NEW r \in Rules, NEW p \in Patterns,
         patterns[r] = {p}, AnySets(p) = {}, r \in Lookup(toks), NEW i \in WordSets(p)
  PROVE  \/ /\ \A j \in 1 .. i : p[j] # StarStar
            /\ i \in 1 .. Len(toks)
            /\ toks[i] \in p[i]
         \/ /\ \A j \in i .. Len(p) : p[j] # StarStar
            /\ i + Len(toks) - Len(p) \in 1 .. Len(toks)
            /\ toks[i + Len(toks) - Len(p)] \in p[i]
<1>1. p \in Seq(TokenSets) /\ Len(p) \in Nat /\ Len(toks) \in Nat /\ DOMAIN toks = 1 .. Len(toks)
  BY PatternsAssumption
<1>2. \A j \in WordSets(p) : /\ j \in 1 .. Len(p)
                             /\ \/ /\ Position(p, j) = j - 1
                                   /\ \A h \in 1 .. j : p[h] # StarStar
                                \/ /\ Position(p, j) = -1 - (Len(p) - j)
                                   /\ \A h \in j .. Len(p) : p[h] # StarStar
  BY <1>1, Places
<1>3. \A j \in WordSets(p) : Position(p, j) # AnyPos
  BY DEF AnySets
<1>4. \A j \in WordSets(p) : Position(p, j) = Position(p, i) => j = i
  <2>1. ASSUME NEW j \in WordSets(p), Position(p, j) = Position(p, i) PROVE j = i
    <3>1. /\ j \in 1 .. Len(p) /\ (Position(p, j) = j - 1 \/ Position(p, j) = -1 - (Len(p) - j))
          /\ i \in 1 .. Len(p) /\ (Position(p, i) = i - 1 \/ Position(p, i) = -1 - (Len(p) - i))
      BY <1>2
    <3>2. QED
      BY <1>1, <2>1, <3>1
  <2>2. QED
    BY <2>1
<1>5. Position(p, i) \in reqBits[r]
  <2>1. reqBits[r] = UNION {PositionsOf(s) : s \in {p}}
    BY DEF LoadInv, RequiredInv
  <2>2. Position(p, i) \in PositionsOf(p)
    BY DEF PositionsOf
  <2>3. QED
    BY <2>1, <2>2
<1>6. PICK x \in Hits(toks, r) : x[1] = Position(p, i)
  BY <1>5 DEF Lookup, LookupMapUsage
<1>7. /\ x[2] \in 1 .. Len(toks)
      /\ \/ x[1] = LeftPos(x[2] - 1)
         \/ x[1] = RightPos(Len(toks) - x[2])
         \/ x[1] = AnyPos
      /\ <<<<x[1], toks[x[2]]>>, r>> \in tokenRules
  BY <1>1 DEF Hits, Scanned
<1>8. toks[x[2]] \in p[i]
  <2>1. <<x[1], toks[x[2]]>> \in Stored(p)
    <3>1. PICK s \in patterns[r] : <<x[1], toks[x[2]]>> \in Stored(s)
      BY <1>7 DEF LoadInv, TableInv
    <3>2. s = p
      BY <3>1
    <3>3. QED
      BY <3>1, <3>2
  <2>2. PICK j \in WordSets(p) : <<x[1], toks[x[2]]>> \in {Position(p, j)} \X p[j]
    BY <2>1 DEF Stored
  <2>3. Position(p, j) = Position(p, i) /\ toks[x[2]] \in p[j]
    BY <2>2, <1>6
  <2>4. QED
    BY <2>3, <1>4
<1>9. x[1] = x[2] - 1 \/ x[1] = -1 - (Len(toks) - x[2])
  BY <1>3, <1>6, <1>7 DEF LeftPos, RightPos
<1>10. CASE Position(p, i) = i - 1 /\ \A h \in 1 .. i : p[h] # StarStar
  <2>1. x[2] = i
    <3>1. i \in 1 .. Len(p)
      BY <1>2
    <3>2. QED
      BY <3>1, <1>1, <1>6, <1>7, <1>9, <1>10
  <2>2. QED
    BY <2>1, <1>7, <1>8, <1>10
<1>11. CASE Position(p, i) = -1 - (Len(p) - i) /\ \A h \in i .. Len(p) : p[h] # StarStar
  <2>1. x[2] = i + Len(toks) - Len(p)
    <3>1. i \in 1 .. Len(p)
      BY <1>2
    <3>2. QED
      <4>1. x[1] = -1 - (Len(p) - i) /\ x[2] \in 1 .. Len(toks)
        BY <1>6, <1>7, <1>11
      <4>2. -1 - (Len(p) - i) < 0 /\ ~(x[2] - 1 < 0)
        BY <3>1, <4>1, <1>1
      <4>3. -1 - (Len(p) - i) = -1 - (Len(toks) - x[2])
        BY <4>1, <4>2, <1>9
      <4>4. i \in Nat /\ x[2] \in Nat /\ Len(p) \in Nat /\ Len(toks) \in Nat
        BY <4>1, <3>1, <1>1
      <4>5. QED
        BY <4>3, <4>4
  <2>2. QED
    BY <2>1, <1>7, <1>8, <1>11
<1>12. QED
  BY <1>2, <1>10, <1>11

LEMMA ExactRule ==
  ASSUME LoadInv, ~loading, NEW toks \in Seq(Words), NEW r \in Rules, NEW p \in Patterns,
         patterns[r] = {p}, Anchored(p), r \in Lookup(toks)
  PROVE  \E f \in [0 .. Len(p) -> 0 .. Len(toks)] : Matching(p, toks, f)
<1>1. p \in Seq(TokenSets) /\ Len(p) \in Nat /\ Len(toks) \in Nat /\ DOMAIN p = 1 .. Len(p)
  BY PatternsAssumption
<1>2. MinToks(p) <= Len(toks) /\ Len(toks) <= MaxToksOf(p)
  <2>1. PICK s \in {p} : minToks[r] = MinToks(s) /\ maxToks[r] = MaxToksOf(s)
    BY DEF LoadInv, RequiredInv
  <2>2. QED
    BY <2>1 DEF Lookup, Fits
<1>3. \A i \in 1 .. Len(p) : p[i] = StarStar \/ p[i] = Star \/ i \in WordSets(p)
  BY <1>1 DEF WordSets
<1>4. IsFiniteSet(StarStars(p))
  <2>1. IsFiniteSet(1 .. Len(p)) /\ StarStars(p) \in SUBSET (1 .. Len(p))
    BY <1>1, UpTo DEF StarStars
  <2>2. QED
    BY <2>1, FS_Subset
<1>5. CASE StarStars(p) = {}
  <2> DEFINE f == [i \in 0 .. Len(p) |-> i]
  <2>1. Len(toks) = Len(p)
    BY <1>1, <1>2, <1>5, FS_EmptySet DEF MinToks, MaxToksOf
  <2>2. \A i \in 1 .. Len(p) : p[i] # StarStar
    BY <1>1, <1>5 DEF StarStars
  <2>3. \A i \in 1 .. Len(p) : p[i] = Star \/ toks[i] \in p[i]
    <3>1. ASSUME NEW i \in WordSets(p) PROVE i \in 1 .. Len(p) => toks[i] \in p[i]
      <4>1. /\ i + Len(toks) - Len(p) = i \/ i \notin 1 .. Len(p)
        BY <1>1, <2>1
      <4>2. QED
        BY <4>1, PlacedWord DEF Anchored
    <3>2. QED
      BY <3>1, <2>2, <1>3
  <2>4. Matching(p, toks, f)
    <3>1. f[0] = 0 /\ f[Len(p)] = Len(toks)
      BY <1>1, <2>1
    <3>2. \A i \in 1 .. Len(p) : f[i] = i /\ f[i - 1] = i - 1 /\ i = (i - 1) + 1
      BY <1>1
    <3> HIDE DEF f
    <3>3. QED
      BY <3>1, <3>2, <2>2, <2>3, <1>1 DEF Matching
  <2>5. f \in [0 .. Len(p) -> 0 .. Len(toks)]
    BY <2>1
  <2>6. QED
    BY <2>4, <2>5
<1>6. CASE StarStars(p) # {}
  <2>1. PICK d : StarStars(p) = {d}
    <3>1. Cardinality(StarStars(p)) \in Nat /\ Cardinality(StarStars(p)) # 0
      BY <1>4, <1>6, FS_EmptySet, FS_CardinalityType
    <3>2. Cardinality(StarStars(p)) = 1
      BY <3>1 DEF Anchored
    <3>3. QED
      BY <3>2, <1>4, FS_Singleton
  <2>2. /\ d \in 1 .. Len(p) /\ p[d] = StarStar
        /\ \A i \in 1 .. Len(p) : i # d => p[i] # StarStar
    BY <2>1, <1>1 DEF StarStars
  <2>3. Len(p) - 1 <= Len(toks)
    BY <2>1, <1>1, <1>2, FS_Singleton DEF MinToks
  <2> DEFINE f == [i \in 0 .. Len(p) |-> IF i < d THEN i ELSE i + Len(toks) - Len(p)]
  <2>4. f \in [0 .. Len(p) -> 0 .. Len(toks)]
    <3>1. ASSUME NEW i \in 0 .. Len(p)
          PROVE  (IF i < d THEN i ELSE i + Len(toks) - Len(p)) \in 0 .. Len(toks)
      BY <1>1, <2>2, <2>3
    <3>2. QED
      BY <3>1
  <2>5. ASSUME NEW i \in 1 .. Len(p), i # d
        PROVE  f[i] = f[i - 1] + 1 /\ (p[i] = Star \/ toks[f[i]] \in p[i])
    <3>1. /\ i \in 0 .. Len(p) /\ i - 1 \in 0 .. Len(p)
          /\ f[i] = IF i < d THEN i ELSE i + Len(toks) - Len(p)
          /\ f[i - 1] = IF i - 1 < d THEN i - 1 ELSE (i - 1) + Len(toks) - Len(p)
      BY <1>1
    <3>2. f[i] = f[i - 1] + 1
      <4> HIDE DEF f
      <4>1. QED
        BY <3>1, <1>1, <2>2, <2>5
    <3>3. ASSUME i \in WordSets(p) PROVE toks[f[i]] \in p[i]
      <4>1. CASE i < d
        <5>1. d \in i .. Len(p)
          BY <4>1, <1>1, <2>2
        <5>2. toks[i] \in p[i]
          BY <3>3, <5>1, <2>2, PlacedWord DEF Anchored
        <5>3. QED
          BY <5>2, <3>1, <4>1
      <4>2. CASE ~(i < d)
        <5>1. d \in 1 .. i
          BY <4>2, <1>1, <2>2
        <5>2. toks[i + Len(toks) - Len(p)] \in p[i]
          BY <3>3, <5>1, <2>2, PlacedWord DEF Anchored
        <5>3. QED
          BY <5>2, <3>1, <4>2
      <4>3. QED
        BY <4>1, <4>2
    <3>4. p[i] # StarStar
      BY <2>2, <2>5
    <3>5. QED
      BY <3>2, <3>3, <3>4, <1>3
  <2>6. f[d] >= f[d - 1]
    <3>1. /\ d \in 0 .. Len(p) /\ d - 1 \in 0 .. Len(p) /\ d - 1 < d /\ ~(d < d)
      BY <1>1, <2>2
    <3>2. f[d] = d + Len(toks) - Len(p) /\ f[d - 1] = d - 1
      BY <3>1
    <3> HIDE DEF f
    <3>3. QED
      BY <3>2, <1>1, <2>2, <2>3
  <2>7. f[0] = 0 /\ f[Len(p)] = Len(toks)
    <3>1. 0 \in 0 .. Len(p) /\ Len(p) \in 0 .. Len(p) /\ 0 < d /\ ~(Len(p) < d)
      BY <1>1, <2>2
    <3>2. f[0] = 0 /\ f[Len(p)] = Len(p) + Len(toks) - Len(p)
      BY <3>1
    <3> HIDE DEF f
    <3>3. QED
      BY <3>2, <1>1
  <2>8. Matching(p, toks, f)
    <3> HIDE DEF f
    <3>1. QED
      BY <1>1, <2>2, <2>5, <2>6, <2>7 DEF Matching
  <2>9. QED
    BY <2>4, <2>8
<1>7. QED
  BY <1>5, <1>6

(* For patterns anchored at the ends of paths a lookup finds only rules     *)
(* that match: a ** stands for the tokens left over, and every other token  *)
(* set for the token in its place.                                          *)
THEOREM Exactness == Spec => []NarrowingExact
<1>1. LoadInv => NarrowingExact
  <2> SUFFICES ASSUME LoadInv, ~loading, NEW q \in Paths, NEW r \in Lookup(q.toks),
                      NEW p \in patterns[r], patterns[r] = {p}, Anchored(p)
               PROVE  \E f \in [0 .. Len(p) -> 0 .. Len(q.toks)] : Matching(p, q.toks, f)
    BY DEF NarrowingExact
  <2>1. r \in Rules
    BY LoadedRules DEF LoadInv, Lookup
  <2>2. p \in Patterns /\ q.toks \in Seq(Words)
    BY <2>1, PathsAssumption DEF LoadInv, TypeOK
  <2>3. QED
    BY <2>1, <2>2, ExactRule
<1>2. QED
  BY <1>1, Loading, PTL

=============================================================================
