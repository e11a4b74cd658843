--------------------------- MODULE LifetimesProofs ---------------------------
(***************************************************************************)
(* Proofs about Lifetimes for any bounds, kinds of objects and scripts.    *)
(***************************************************************************)
EXTENDS Lifetimes, WellFoundedInduction, SequenceTheorems, FiniteSetTheorems, TLAPS

(***************************************************************************)
(* Numbers and sequences                                                   *)
(***************************************************************************)
(* A set of natural numbers has a least one. *)
LEMMA NatMin ==
  ASSUME NEW T \in SUBSET Nat, T # {}
  PROVE  \E x \in T : \A y \in T : x <= y
<1> DEFINE R == OpToRel(<, Nat)
<1>1. PICK x \in T : \A y \in T : <<y, x>> \notin R
  <2> HIDE DEF R
  <2>1. IsWellFoundedOn(R, Nat) BY NatLessThanWellFounded, Zenon DEF R
  <2>2. QED BY <2>1, WFMin
<1>2. \A y \in T : ~(y < x) BY <1>1 DEF OpToRel
<1>3. \A y \in T : y \in Nat /\ x \in Nat OBVIOUS
<1>4. QED BY <1>2, <1>3

(* A set of natural numbers with 0 and the successors of its members. *)
LEMMA SetInduction == ASSUME NEW S \in SUBSET Nat, 0 \in S, \A n \in S : n + 1 \in S PROVE S = Nat
<1>1. SUFFICES ASSUME Nat \ S # {} PROVE FALSE OBVIOUS
<1>2. PICK x \in Nat \ S : \A y \in Nat \ S : x <= y BY <1>1, NatMin
<1>3. x # 0 /\ x - 1 \in Nat OBVIOUS
<1>4. x - 1 \in S BY <1>2, <1>3
<1>5. QED BY <1>3, <1>4

(* \o as an operator of its own: the SMT solvers reason about the elements *)
(* of s \o t, which is in the way where only equations are needed.         *)
Cat(s, t) == s \o t

LEMMA CatType == ASSUME NEW V, NEW a \in Seq(V), NEW b \in Seq(V) PROVE Cat(a, b) \in Seq(V)
BY DEF Cat

(* f holds what FlattenSeq(ss) is for each number of the first sequences. *)
Flattens(ss, n, f) == f = [i \in 1 .. n |-> IF i = 1 THEN ss[i] ELSE Cat(f[i - 1], ss[i])]

(* The function that FlattenSeq is defined with exists, for any number of  *)
(* sequences, and so is what FlattenSeq chooses.                           *)
LEMMA FlattensExists == ASSUME NEW ss, NEW n \in Nat PROVE \E f : Flattens(ss, n, f)
<1> DEFINE N == {k \in Nat : \E f : Flattens(ss, k, f)}
<1>1. 0 \in N
  <2>1. Flattens(ss, 0, [i \in 1 .. 0 |-> ss[i]]) BY DEF Flattens
  <2>2. QED BY <2>1
<1>2. ASSUME NEW k \in N PROVE k + 1 \in N
  <2>1. PICK f : Flattens(ss, k, f) OBVIOUS
  <2> DEFINE x == IF k = 0 THEN ss[1] ELSE Cat(f[k], ss[k + 1])
             g == [i \in 1 .. k + 1 |-> IF i = k + 1 THEN x ELSE f[i]]
  <2>2. \A i \in 1 .. k : f[i] = IF i = 1 THEN ss[i] ELSE Cat(f[i - 1], ss[i])
    BY <2>1 DEF Flattens
  <2>3. \A i \in 1 .. k + 1 : g[i] = IF i = 1 THEN ss[i] ELSE Cat(g[i - 1], ss[i])
    <3> TAKE i \in 1 .. k + 1
    <3>1. CASE i = k + 1 BY <3>1
    <3>2. CASE i \in 1 .. k
      <4>1. g[i] = f[i] /\ (i # 1 => g[i - 1] = f[i - 1]) BY <3>2
      <4>2. QED BY <4>1, <3>2, <2>2
    <3>3. QED BY <3>1, <3>2
  <2>4. g = [i \in 1 .. k + 1 |-> IF i = 1 THEN ss[i] ELSE Cat(g[i - 1], ss[i])]
    <3>1. DOMAIN g = 1 .. k + 1 OBVIOUS
    <3>2. g = [i \in 1 .. k + 1 |-> g[i]] OBVIOUS
    <3> HIDE DEF g
    <3> QED BY <3>1, <3>2, <2>3
  <2>5. Flattens(ss, k + 1, g)
    <3> HIDE DEF g
    <3> QED BY <2>4 DEF Flattens
  <2>6. QED BY <2>5
<1>3. N = Nat
  <2>1. N \in SUBSET Nat OBVIOUS
  <2> HIDE DEF N
  <2> QED BY <1>1, <1>2, <2>1, SetInduction
<1>4. QED BY <1>3

LEMMA FlattenValue ==
  ASSUME NEW ss, Len(ss) \in Nat, Len(ss) # 0
  PROVE  \E f : Flattens(ss, Len(ss), f) /\ FlattenSeq(ss) = f[Len(ss)]
<1> DEFINE g == CHOOSE f : f = [i \in 1 .. Len(ss) |-> IF i = 1 THEN ss[i] ELSE Cat(f[i - 1], ss[i])]
<1>1. FlattenSeq(ss) = g[Len(ss)] BY Zenon DEF FlattenSeq, Cat
<1>2. \E f : f = [i \in 1 .. Len(ss) |-> IF i = 1 THEN ss[i] ELSE Cat(f[i - 1], ss[i])]
  BY FlattensExists DEF Flattens
<1>3. g = [i \in 1 .. Len(ss) |-> IF i = 1 THEN ss[i] ELSE Cat(g[i - 1], ss[i])] BY <1>2, Zenon
<1>4. QED BY <1>1, <1>3 DEF Flattens

(* The recurrence of a flattening whose parts are sequences over V. *)
FlattensOver(V, ss, n, f) ==
  n \in Nat /\ n # 0 /\ Flattens(ss, n, f) /\ \A i \in 1 .. n : ss[i] \in Seq(V)

LEMMA FlattensSteps ==
  ASSUME NEW V, NEW ss, NEW f, NEW n, FlattensOver(V, ss, n, f)
  PROVE  /\ \A i \in 1 .. n : f[i] \in Seq(V)
         /\ f[1] = ss[1]
         /\ \A i \in 2 .. n : f[i] = Cat(f[i - 1], ss[i])
<1> USE DEF FlattensOver
<1>0. \A i \in 1 .. n : f[i] = IF i = 1 THEN ss[i] ELSE Cat(f[i - 1], ss[i]) BY DEF Flattens
<1>1. f[1] = ss[1] /\ \A i \in 2 .. n : f[i] = Cat(f[i - 1], ss[i])
  <2>1. 1 \in 1 .. n /\ \A i \in 2 .. n : i \in 1 .. n /\ i # 1 OBVIOUS
  <2>2. QED BY <1>0, <2>1, Zenon
<1> DEFINE N == {k \in Nat : k + 1 \in 1 .. n => f[k + 1] \in Seq(V)}
<1>2. 0 \in N BY <1>1
<1>3. ASSUME NEW k \in N PROVE k + 1 \in N
  <2>0. k \in Nat OBVIOUS
  <2>1. (k + 1) + 1 = k + 2 BY <2>0
  <2> SUFFICES ASSUME k + 2 \in 1 .. n PROVE f[k + 2] \in Seq(V) BY <2>0, <2>1
  <2>2. k + 1 \in 1 .. n BY <2>0
  <2>3. f[k + 1] \in Seq(V) /\ ss[k + 2] \in Seq(V) BY <2>2
  <2>4. f[k + 2] = Cat(f[k + 1], ss[k + 2])
    <3>1. k + 2 \in 2 .. n /\ (k + 2) - 1 = k + 1 BY <2>0
    <3>2. f[k + 2] = Cat(f[(k + 2) - 1], ss[k + 2]) BY <1>1, <3>1, Zenon
    <3>3. QED BY <3>1, <3>2, Zenon
  <2>5. QED BY <2>3, <2>4, CatType
<1>4. N = Nat
  <2>1. N \in SUBSET Nat OBVIOUS
  <2> HIDE DEF N
  <2> QED BY <1>2, <1>3, <2>1, SetInduction
<1>5. ASSUME NEW i \in 1 .. n PROVE f[i] \in Seq(V)
  <2>1. i - 1 \in Nat /\ (i - 1) + 1 = i OBVIOUS
  <2>2. i - 1 \in N BY <2>1, <1>4
  <2>3. QED BY <2>1, <2>2
<1>6. QED BY <1>1, <1>5

LEMMA EmptyIsSeq == ASSUME NEW V PROVE <<>> \in Seq(V) /\ Len(<<>>) = 0
OBVIOUS

LEMMA FlattenEmpty == FlattenSeq(<<>>) = <<>>
BY DEF FlattenSeq

LEMMA FlattenType == ASSUME NEW V, NEW ss \in Seq(Seq(V)) PROVE FlattenSeq(ss) \in Seq(V)
<1>0. Len(ss) \in Nat /\ \A i \in 1 .. Len(ss) : ss[i] \in Seq(V) OBVIOUS
<1>1. CASE Len(ss) = 0
  <2>1. ss = <<>> BY <1>1
  <2>2. QED BY <2>1, FlattenEmpty, EmptyIsSeq
<1>2. CASE Len(ss) # 0
  <2>1. PICK f : Flattens(ss, Len(ss), f) /\ FlattenSeq(ss) = f[Len(ss)] BY <1>0, <1>2, FlattenValue
  <2>2. \A i \in 1 .. Len(ss) : f[i] \in Seq(V)
    <3>1. FlattensOver(V, ss, Len(ss), f) BY <1>0, <1>2, <2>1 DEF FlattensOver
    <3>2. QED BY <3>1, FlattensSteps
  <2>3. QED BY <1>0, <1>2, <2>1, <2>2
<1>3. QED BY <1>1, <1>2

(* The smallest unused number. *)
LEMMA FreshIsUnused ==
  ASSUME NEW f, DOMAIN f \subseteq Nat, Unused(f) # {}
  PROVE  Fresh(f) \in Unused(f)
<1>1. Unused(f) \in SUBSET Nat BY DEF Unused
<1>2. \E i \in Unused(f) : \A j \in Unused(f) : i <= j BY <1>1, NatMin
<1>3. QED BY <1>2 DEF Fresh

(* What occurs in a sequence. *)
In(x, s) == \E i \in DOMAIN s : s[i] = x

LEMMA InElements ==
  ASSUME NEW V, NEW s \in Seq(V)
  PROVE  /\ \A x : In(x, s) <=> \E i \in 1 .. Len(s) : s[i] = x
         /\ \A x : In(x, s) => x \in V
         /\ \A x : In(x, s) <=> x \in ToSet(s)
         /\ \A x : In(x, s) <=> Contains(s, x)
         /\ s = <<>> <=> \A x : ~In(x, s)
<1>1. DOMAIN s = 1 .. Len(s) /\ Len(s) \in Nat /\ \A i \in 1 .. Len(s) : s[i] \in V BY LenProperties
<1>2. s # <<>> => s[1] \in V /\ 1 \in DOMAIN s BY <1>1, EmptySeq
<1>3. \A x : In(x, s) <=> \E i \in 1 .. Len(s) : s[i] = x BY <1>1 DEF In
<1>4. \A x : In(x, s) => x \in V BY <1>1, <1>3
<1>5. \A x : In(x, s) <=> x \in ToSet(s) BY <1>1, <1>3 DEF ToSet
<1>6. \A x : In(x, s) <=> Contains(s, x) BY <1>3 DEF Contains
<1>7. s = <<>> <=> \A x : ~In(x, s)
  <2>1. s = <<>> => \A x : ~In(x, s) BY DEF In
  <2>2. s # <<>> => In(s[1], s) BY <1>2 DEF In
  <2>3. QED BY <2>1, <2>2
<1>8. QED BY <1>3, <1>4, <1>5, <1>6, <1>7

LEMMA CatIn ==
  ASSUME NEW V, NEW s \in Seq(V), NEW t \in Seq(V)
  PROVE  /\ Cat(s, t) \in Seq(V)
         /\ \A x : In(x, Cat(s, t)) <=> In(x, s) \/ In(x, t)
<1>1. PICK c \in Seq(V) : c = Cat(s, t) BY CatType
<1>2. /\ Len(c) = Len(s) + Len(t)
      /\ \A i \in 1 .. Len(s) + Len(t) : c[i] = IF i <= Len(s) THEN s[i] ELSE t[i - Len(s)]
  BY <1>1, ConcatProperties DEF Cat
<1>3. Len(s) \in Nat /\ Len(t) \in Nat OBVIOUS
<1>4. ASSUME NEW x, NEW i \in 1 .. Len(c), c[i] = x
      PROVE  (\E j \in 1 .. Len(s) : s[j] = x) \/ \E j \in 1 .. Len(t) : t[j] = x
  <2>1. CASE i <= Len(s) BY <2>1, <1>2, <1>3, <1>4
  <2>2. CASE ~(i <= Len(s))
    <3>1. i - Len(s) \in 1 .. Len(t) BY <2>2, <1>2, <1>3
    <3>2. t[i - Len(s)] = x BY <2>2, <1>2, <1>3, <1>4
    <3>3. QED BY <3>1, <3>2
  <2>3. QED BY <2>1, <2>2
<1>5. ASSUME NEW i \in 1 .. Len(s) PROVE i \in 1 .. Len(c) /\ c[i] = s[i] BY <1>2, <1>3
<1>6. ASSUME NEW i \in 1 .. Len(t) PROVE Len(s) + i \in 1 .. Len(c) /\ c[Len(s) + i] = t[i]
  <2>1. Len(s) + i \in 1 .. Len(s) + Len(t) /\ ~(Len(s) + i <= Len(s)) /\ (Len(s) + i) - Len(s) = i BY <1>3
  <2>2. QED BY <2>1, <1>2
<1>7. \A x : In(x, c) <=> In(x, s) \/ In(x, t)
  <2>1. DOMAIN s = 1 .. Len(s) /\ DOMAIN t = 1 .. Len(t) /\ DOMAIN c = 1 .. Len(c) BY LenProperties
  <2>2. QED BY <2>1, <1>4, <1>5, <1>6 DEF In
<1>8. QED BY <1>1, <1>7

LEMMA OneIn == ASSUME NEW V, NEW y \in V PROVE <<y>> \in Seq(V) /\ \A x : In(x, <<y>>) <=> x = y
BY DEF In

LEMMA NoneIn == ASSUME NEW V PROVE <<>> \in Seq(V) /\ \A x : ~In(x, <<>>)
BY DEF In

(* Which may stand before which. *)
Ordered(s, R) == \A i, j \in DOMAIN s : i < j => <<s[i], s[j]>> \in R

LEMMA CatOrdered ==
  ASSUME NEW V, NEW s \in Seq(V), NEW t \in Seq(V), NEW R
  PROVE  Ordered(Cat(s, t), R) <=>
           /\ Ordered(s, R) /\ Ordered(t, R)
           /\ \A x, y : In(x, s) /\ In(y, t) => <<x, y>> \in R
<1>1. PICK c \in Seq(V) : c = Cat(s, t) BY CatType
<1>2. /\ Len(c) = Len(s) + Len(t)
      /\ \A i \in 1 .. Len(s) + Len(t) : c[i] = IF i <= Len(s) THEN s[i] ELSE t[i - Len(s)]
  BY <1>1, ConcatProperties DEF Cat
<1>3. /\ Len(s) \in Nat /\ Len(t) \in Nat
      /\ DOMAIN s = 1 .. Len(s) /\ DOMAIN t = 1 .. Len(t) /\ DOMAIN c = 1 .. Len(c)
  BY LenProperties
<1>4. ASSUME NEW i \in 1 .. Len(s) PROVE i \in 1 .. Len(c) /\ c[i] = s[i] BY <1>2, <1>3
<1>5. ASSUME NEW i \in 1 .. Len(t) PROVE Len(s) + i \in 1 .. Len(c) /\ c[Len(s) + i] = t[i]
  <2>1. Len(s) + i \in 1 .. Len(s) + Len(t) /\ ~(Len(s) + i <= Len(s)) /\ (Len(s) + i) - Len(s) = i BY <1>3
  <2>2. QED BY <2>1, <1>2
<1>6. ASSUME Ordered(c, R)
      PROVE  /\ Ordered(s, R) /\ Ordered(t, R)
             /\ \A x, y : In(x, s) /\ In(y, t) => <<x, y>> \in R
  <2>1. Ordered(s, R) BY <1>3, <1>4, <1>6 DEF Ordered
  <2>2. ASSUME NEW i \in 1 .. Len(t), NEW j \in 1 .. Len(t), i < j PROVE <<t[i], t[j]>> \in R
    <3>1. Len(s) + i < Len(s) + j BY <2>2, <1>3
    <3>2. QED BY <3>1, <1>3, <1>5, <1>6 DEF Ordered
  <2>3. ASSUME NEW i \in 1 .. Len(s), NEW j \in 1 .. Len(t) PROVE <<s[i], t[j]>> \in R
    <3>1. i < Len(s) + j BY <1>3
    <3>2. QED BY <3>1, <1>3, <1>4, <1>5, <1>6 DEF Ordered
  <2>4. QED BY <2>1, <2>2, <2>3, <1>3 DEF Ordered, In
<1>7. ASSUME Ordered(s, R), Ordered(t, R), \A x, y : In(x, s) /\ In(y, t) => <<x, y>> \in R
      PROVE  Ordered(c, R)
  <2>1. SUFFICES ASSUME NEW i \in 1 .. Len(c), NEW j \in 1 .. Len(c), i < j
                 PROVE  <<c[i], c[j]>> \in R
    BY <1>3 DEF Ordered
  <2>2. CASE j <= Len(s)
    <3>1. c[i] = s[i] /\ c[j] = s[j] /\ i \in 1 .. Len(s) /\ j \in 1 .. Len(s) BY <2>1, <2>2, <1>2, <1>3
    <3>2. QED BY <3>1, <2>1, <1>3, <1>7 DEF Ordered
  <2>3. CASE ~(j <= Len(s))
    <3>0. PICK l : l = j - Len(s) OBVIOUS
    <3>1. c[j] = t[l] /\ l \in 1 .. Len(t) BY <3>0, <2>3, <1>2, <1>3
    <3>2. CASE i <= Len(s)
      <4>1. c[i] = s[i] /\ i \in 1 .. Len(s) BY <3>2, <1>2, <1>3
      <4>2. QED BY <4>1, <3>1, <1>3, <1>7 DEF In
    <3>3. CASE ~(i <= Len(s))
      <4>0. PICK k : k = i - Len(s) OBVIOUS
      <4>1. c[i] = t[k] /\ k \in 1 .. Len(t) /\ k < l BY <4>0, <3>0, <3>3, <2>1, <1>2, <1>3
      <4>2. QED BY <4>1, <3>1, <1>3, <1>7 DEF Ordered
    <3>4. QED BY <3>2, <3>3
  <2>4. QED BY <2>2, <2>3
<1>8. QED BY <1>1, <1>6, <1>7

LEMMA ShortOrdered == ASSUME NEW R, NEW x PROVE Ordered(<<>>, R) /\ Ordered(<<x>>, R)
BY DEF Ordered

LEMMA OrderedBy ==
  ASSUME NEW V, NEW s \in Seq(V), NEW R, NEW Q, Ordered(s, R),
         \A x, y : In(x, s) /\ In(y, s) /\ <<x, y>> \in R => <<x, y>> \in Q
  PROVE  Ordered(s, Q)
BY DEF Ordered, In

(* A sequence in which nothing occurs twice. *)
Apart(V) == {e \in V \X V : e[1] # e[2]}

LEMMA InjectiveIsOrdered ==
  ASSUME NEW V, NEW s \in Seq(V)
  PROVE  IsInjective(s) <=> Ordered(s, Apart(V))
<1>1. DOMAIN s = 1 .. Len(s) /\ Len(s) \in Nat /\ \A i \in 1 .. Len(s) : s[i] \in V BY LenProperties
<1>2. ASSUME IsInjective(s), NEW i \in 1 .. Len(s), NEW j \in 1 .. Len(s), i < j
      PROVE  <<s[i], s[j]>> \in Apart(V)
  <2>1. s[i] # s[j] BY <1>1, <1>2 DEF IsInjective
  <2>2. QED BY <2>1, <1>1 DEF Apart
<1>3. ASSUME Ordered(s, Apart(V)), NEW i \in 1 .. Len(s), NEW j \in 1 .. Len(s), s[i] = s[j]
      PROVE  i = j
  <2>1. ~(i < j) /\ ~(j < i) BY <1>1, <1>3 DEF Ordered, Apart
  <2>2. QED BY <2>1
<1>4. IsInjective(s) => Ordered(s, Apart(V)) BY <1>1, <1>2 DEF Ordered
<1>5. Ordered(s, Apart(V)) => IsInjective(s) BY <1>1, <1>3 DEF IsInjective
<1>6. QED BY <1>4, <1>5

LEMMA CatInjective ==
  ASSUME NEW V, NEW s \in Seq(V), NEW t \in Seq(V)
  PROVE  IsInjective(Cat(s, t)) <=>
           IsInjective(s) /\ IsInjective(t) /\ \A x : ~(In(x, s) /\ In(x, t))
<1>1. Cat(s, t) \in Seq(V) BY CatType
<1>2. ASSUME NEW x, NEW y, In(x, s), In(y, t) PROVE <<x, y>> \in Apart(V) <=> x # y
  BY <1>2, InElements DEF Apart
<1>3. (\A x, y : In(x, s) /\ In(y, t) => <<x, y>> \in Apart(V)) <=> \A x : ~(In(x, s) /\ In(x, t))
  BY <1>2
<1>4. QED BY <1>1, <1>3, CatOrdered, InjectiveIsOrdered

LEMMA ShortInjective == ASSUME NEW x PROVE IsInjective(<<x>>) /\ IsInjective(<<>>)
BY DEF IsInjective

(* x in front of a sequence, and behind it. *)
LEMMA ConsSeq ==
  ASSUME NEW V, NEW s \in Seq(V), NEW x \in V
  PROVE  /\ Cat(<<x>>, s) \in Seq(V) /\ Cat(<<x>>, s) # <<>>
         /\ \A y : In(y, Cat(<<x>>, s)) <=> y = x \/ In(y, s)
         /\ IsInjective(Cat(<<x>>, s)) <=> IsInjective(s) /\ ~In(x, s)
         /\ \A R : Ordered(Cat(<<x>>, s), R) <=> Ordered(s, R) /\ \A y : In(y, s) => <<x, y>> \in R
<1>1. <<x>> \in Seq(V) /\ \A y : In(y, <<x>>) <=> y = x BY OneIn
<1>2. PICK o : o = <<x>> OBVIOUS
<1>3. o \in Seq(V) /\ IsInjective(o) /\ \A R : Ordered(o, R) BY <1>1, <1>2, ShortInjective, ShortOrdered
<1>4. \A y : In(y, o) <=> y = x BY <1>1, <1>2
<1>5. Cat(o, s) \in Seq(V) /\ \A y : In(y, Cat(o, s)) <=> y = x \/ In(y, s) BY <1>3, <1>4, CatIn
<1>6. IsInjective(Cat(o, s)) <=> IsInjective(s) /\ ~In(x, s) BY <1>3, <1>4, CatInjective
<1>7. ASSUME NEW R PROVE Ordered(Cat(o, s), R) <=> Ordered(s, R) /\ \A y : In(y, s) => <<x, y>> \in R
  BY <1>3, <1>4, CatOrdered
<1>8. Cat(o, s) # <<>> BY <1>5, InElements
<1>9. QED BY <1>2, <1>5, <1>6, <1>7, <1>8

LEMMA AppendSeq ==
  ASSUME NEW V, NEW s \in Seq(V), NEW x \in V
  PROVE  /\ Append(s, x) \in Seq(V)
         /\ \A y : In(y, Append(s, x)) <=> y = x \/ In(y, s)
         /\ IsInjective(Append(s, x)) <=> IsInjective(s) /\ ~In(x, s)
<1>1. <<x>> \in Seq(V) /\ \A y : In(y, <<x>>) <=> y = x BY OneIn
<1>2. PICK o : o = <<x>> OBVIOUS
<1>3. o \in Seq(V) /\ IsInjective(o) BY <1>1, <1>2, ShortInjective
<1>4. \A y : In(y, o) <=> y = x BY <1>1, <1>2
<1>5. Append(s, x) = Cat(s, o)
  <2>1. Append(s, x) = s \o <<x>> BY AppendIsConcat
  <2>2. QED BY <2>1, <1>2, Zenon DEF Cat
<1>6. Cat(s, o) \in Seq(V) /\ \A y : In(y, Cat(s, o)) <=> y = x \/ In(y, s) BY <1>3, <1>4, CatIn
<1>7. IsInjective(Cat(s, o)) <=> IsInjective(s) /\ ~In(x, s) BY <1>3, <1>4, CatInjective
<1>8. QED BY <1>5, <1>6, <1>7

(* A sequence is its head in front of its tail. *)
LEMMA HeadFirst ==
  ASSUME NEW V, NEW s \in Seq(V), s # <<>>
  PROVE  Head(s) \in V /\ Tail(s) \in Seq(V) /\ s = Cat(<<Head(s)>>, Tail(s))
<1>1. /\ Head(s) \in V /\ Tail(s) \in Seq(V) /\ Len(Tail(s)) = Len(s) - 1
      /\ \A i \in 1 .. Len(Tail(s)) : Tail(s)[i] = s[i + 1]
  BY HeadTailProperties
<1>2. Head(s) = s[1] /\ Len(s) \in Nat /\ Len(s) # 0 BY EmptySeq
<1>3. PICK o \in Seq(V), t \in Seq(V) : o = <<Head(s)>> /\ t = Tail(s) BY <1>1, OneIn
<1>4. Len(o) = 1 /\ o[1] = s[1] /\ Len(t) = Len(s) - 1 /\ \A i \in 1 .. Len(t) : t[i] = s[i + 1]
  BY <1>1, <1>2, <1>3
<1>5. /\ o \o t \in Seq(V) /\ Len(o \o t) = Len(o) + Len(t)
      /\ \A i \in 1 .. Len(o) + Len(t) : (o \o t)[i] = IF i <= Len(o) THEN o[i] ELSE t[i - Len(o)]
  BY ConcatProperties
<1>6. ASSUME NEW i \in 1 .. Len(s) PROVE s[i] = (o \o t)[i]
  <2>1. (o \o t)[i] = IF i <= 1 THEN o[i] ELSE t[i - 1] BY <1>2, <1>4, <1>5
  <2>2. CASE i = 1 BY <2>1, <2>2, <1>4
  <2>3. CASE i # 1
    <3>1. i - 1 \in 1 .. Len(t) /\ (i - 1) + 1 = i BY <2>3, <1>2, <1>4
    <3>2. t[i - 1] = s[i] BY <3>1, <1>4
    <3>3. QED BY <3>2, <2>1, <2>3
  <2>4. QED BY <2>2, <2>3
<1>7. s = o \o t
  <2>1. Len(s) = Len(o \o t) BY <1>2, <1>4, <1>5
  <2>2. QED BY <2>1, <1>5, <1>6, SeqEqual
<1>8. QED BY <1>1, <1>3, <1>7 DEF Cat

LEMMA TailSeq ==
  ASSUME NEW V, NEW s \in Seq(V), s # <<>>
  PROVE  /\ Head(s) \in V /\ Tail(s) \in Seq(V) /\ In(Head(s), s)
         /\ \A y : In(y, s) <=> y = Head(s) \/ In(y, Tail(s))
         /\ IsInjective(s) => IsInjective(Tail(s)) /\ ~In(Head(s), Tail(s))
         /\ \A R : Ordered(s, R) <=> Ordered(Tail(s), R) /\ \A y : In(y, Tail(s)) => <<Head(s), y>> \in R
<1>1. Head(s) \in V /\ Tail(s) \in Seq(V) /\ s = Cat(<<Head(s)>>, Tail(s)) BY HeadFirst
<1>2. PICK x \in V, t \in Seq(V) : x = Head(s) /\ t = Tail(s) /\ s = Cat(<<x>>, t) BY <1>1
<1>3. /\ \A y : In(y, s) <=> y = x \/ In(y, t)
      /\ IsInjective(s) => IsInjective(t) /\ ~In(x, t)
      /\ \A R : Ordered(s, R) <=> Ordered(t, R) /\ \A y : In(y, t) => <<x, y>> \in R
  <2>1. \A y : In(y, Cat(<<x>>, t)) <=> y = x \/ In(y, t) BY ConsSeq
  <2>2. IsInjective(Cat(<<x>>, t)) <=> IsInjective(t) /\ ~In(x, t) BY ConsSeq
  <2>3. \A R : Ordered(Cat(<<x>>, t), R) <=> Ordered(t, R) /\ \A y : In(y, t) => <<x, y>> \in R
    BY ConsSeq
  <2>4. QED BY <1>2, <2>1, <2>2, <2>3, Zenon
<1>4. QED BY <1>2, <1>3

(* A sequence of different things without one of them. *)
LEMMA RemoveSeq ==
  ASSUME NEW V, NEW s \in Seq(V), NEW i \in DOMAIN s
  PROVE  /\ RemoveAt(s, i) \in Seq(V)
         /\ \A y : In(y, RemoveAt(s, i)) => In(y, s)
         /\ IsInjective(s) =>
              /\ IsInjective(RemoveAt(s, i))
              /\ \A y : In(y, RemoveAt(s, i)) <=> In(y, s) /\ y # s[i]
<1>1. i \in 1 .. Len(s) /\ Len(s) \in Nat /\ s[i] \in V BY LenProperties
<1>2. PICK l : l = SubSeq(s, 1, i - 1) OBVIOUS
<1>3. PICK r : r = SubSeq(s, i + 1, Len(s)) OBVIOUS
<1>4. PICK m : m = SubSeq(s, i, Len(s)) OBVIOUS
<1>5. l \in Seq(V) /\ r \in Seq(V) /\ m \in Seq(V)
  <2>1. \A j \in 1 .. Len(s) : s[j] \in V OBVIOUS
  <2>2. /\ \A j \in 1 .. i - 1 : s[j] \in V
        /\ \A j \in i + 1 .. Len(s) : s[j] \in V
        /\ \A j \in i .. Len(s) : s[j] \in V
    BY <1>1, <2>1
  <2>3. l \in Seq(V) BY <1>1, <1>2, <2>2, SubSeqProperties
  <2>4. r \in Seq(V) BY <1>1, <1>3, <2>2, SubSeqProperties
  <2>5. m \in Seq(V) BY <1>1, <1>4, <2>2, SubSeqProperties
  <2>6. QED BY <2>3, <2>4, <2>5
<1>6. m = Cat(<<s[i]>>, r)
  <2>1. i \in 1 .. Len(s) /\ Len(s) \in i .. Len(s) BY <1>1
  <2>2. SubSeq(s, i, Len(s)) = <<s[i]>> \o SubSeq(s, i + 1, Len(s)) BY <2>1, SubSeqRecursiveFirst
  <2>3. QED BY <2>2, <1>3, <1>4 DEF Cat
<1>7. s = Cat(l, m)
  <2>1. 1 \in 1 .. Len(s) + 1 /\ i - 1 \in 1 - 1 .. Len(s) /\ Len(s) \in i - 1 .. Len(s) /\ (i - 1) + 1 = i BY <1>1
  <2>2. SubSeq(s, 1, i - 1) \o SubSeq(s, (i - 1) + 1, Len(s)) = SubSeq(s, 1, Len(s))
    BY <2>1, ConcatAdjacentSubSeq
  <2>3. SubSeq(s, 1, Len(s)) = s BY SubSeqFull
  <2>4. QED BY <2>1, <2>2, <2>3, <1>2, <1>4 DEF Cat
<1>8. RemoveAt(s, i) = Cat(l, r) BY <1>2, <1>3 DEF RemoveAt, Cat
<1>9. PICK x \in V : x = s[i] BY <1>1
<1>10. /\ Cat(l, r) \in Seq(V)
       /\ \A y : In(y, Cat(l, r)) <=> In(y, l) \/ In(y, r)
       /\ IsInjective(Cat(l, r)) <=> IsInjective(l) /\ IsInjective(r) /\ \A y : ~(In(y, l) /\ In(y, r))
  BY <1>5, CatIn, CatInjective
<1>11. /\ \A y : In(y, m) <=> y = x \/ In(y, r)
       /\ IsInjective(m) <=> IsInjective(r) /\ ~In(x, r)
  BY <1>5, <1>6, <1>9, ConsSeq
<1>12. /\ \A y : In(y, Cat(l, m)) <=> In(y, l) \/ In(y, m)
       /\ IsInjective(Cat(l, m)) <=> IsInjective(l) /\ IsInjective(m) /\ \A y : ~(In(y, l) /\ In(y, m))
  BY <1>5, CatIn, CatInjective
<1>13. \A y : In(y, RemoveAt(s, i)) => In(y, s) BY <1>7, <1>8, <1>10, <1>11, <1>12
<1>14. ASSUME IsInjective(s)
       PROVE  /\ IsInjective(RemoveAt(s, i))
              /\ \A y : In(y, RemoveAt(s, i)) <=> In(y, s) /\ y # x
  BY <1>7, <1>8, <1>10, <1>11, <1>12, <1>14
<1>15. QED BY <1>8, <1>9, <1>10, <1>13, <1>14

LEMMA UnlinkSeq ==
  ASSUME NEW V, NEW s \in Seq(V), IsInjective(s), NEW x
  PROVE  /\ Unlink(s, x) \in Seq(V) /\ IsInjective(Unlink(s, x))
         /\ \A y : In(y, Unlink(s, x)) <=> In(y, s) /\ y # x
<1>1. CASE ~Contains(s, x) BY <1>1, InElements DEF Unlink
<1>2. CASE Contains(s, x)
  <2>1. DOMAIN s = 1 .. Len(s) /\ Len(s) \in Nat BY LenProperties
  <2> DEFINE T == {i \in DOMAIN s : s[i] = x}
  <2>2. T \in SUBSET Nat /\ T # {} BY <1>2, <2>1 DEF Contains
  <2>3. PICK i \in T : \A j \in T : i <= j
    <3> HIDE DEF T
    <3> QED BY <2>2, NatMin
  <2>4. \A j \in 1 .. i - 1 : s[j] # x BY <2>1, <2>3
  <2>5. \E k \in DOMAIN s : s[k] = x /\ \A j \in 1 .. k - 1 : s[j] # x BY <2>3, <2>4
  <2>6. FirstPlace(s, x) \in DOMAIN s /\ s[FirstPlace(s, x)] = x BY <2>5 DEF FirstPlace
  <2>7. Unlink(s, x) = RemoveAt(s, FirstPlace(s, x)) BY <1>2 DEF Unlink
  <2>8. PICK k \in DOMAIN s : s[k] = x /\ Unlink(s, x) = RemoveAt(s, k) BY <2>6, <2>7
  <2>9. QED BY <2>8, RemoveSeq
<1>3. QED BY <1>1, <1>2

(***************************************************************************)
(* Tables                                                                  *)
(***************************************************************************)
Entries == [key : Keys, val : Texts]

LEMMA TablesAreSequences == TableTypes = Seq(Entries)
BY DEF TableTypes, Entries

LEMMA ThoseOf == ASSUME NEW V, NEW t \in Seq(V), NEW I PROVE Those(t, I) \in Seq(V)
<1>1. PICK ss : ss = [i \in DOMAIN t |-> IF i \in I THEN <<t[i]>> ELSE <<>>] OBVIOUS
<1>2. DOMAIN t = 1 .. Len(t) /\ Len(t) \in Nat /\ \A i \in DOMAIN t : t[i] \in V BY LenProperties
<1>3. \A i \in DOMAIN t : (IF i \in I THEN <<t[i]>> ELSE <<>>) \in Seq(V) BY <1>2
<1>4. ss \in [1 .. Len(t) -> Seq(V)] BY <1>1, <1>2, <1>3
<1>5. ss \in Seq(Seq(V)) BY <1>2, <1>4
<1>6. FlattenSeq(ss) \in Seq(V) BY <1>5, FlattenType
<1>7. QED BY <1>1, <1>6 DEF Those

LEMMA TextItems ==
  ASSUME NEW w \in Texts
  PROVE  w \in Seq(Items) /\ w[1] \in Items /\ Len(w) \in Nat \ {0}
<1>1. w \in Seq(Items) /\ w # <<>> BY DEF Texts
<1>2. Len(w) \in Nat \ {0} BY <1>1, EmptySeq
<1>3. w[1] \in Items BY <1>1, <1>2
<1>4. QED BY <1>1, <1>2, <1>3

LEMMA LedText == ASSUME NEW w \in Texts PROVE Led(w) \in Texts
<1>1. w \in Seq(Items) /\ w # <<>> /\ w[1] \in Items BY TextItems DEF Texts
<1>2. [w[1] EXCEPT !.lead = TRUE] \in Items BY <1>1 DEF Items
<1>3. PICK x \in Items : x = [w[1] EXCEPT !.lead = TRUE] BY <1>2
<1>4. Tail(w) \in Seq(Items) BY <1>1, HeadTailProperties
<1>5. Cat(<<x>>, Tail(w)) \in Seq(Items) /\ Cat(<<x>>, Tail(w)) # <<>> BY <1>4, ConsSeq
<1>6. Led(w) = Cat(<<x>>, Tail(w)) BY <1>3 DEF Led, Cat
<1>7. QED BY <1>5, <1>6 DEF Texts

(* Texts that are not empty are not empty when appended. *)
LEMMA CatText ==
  ASSUME NEW v \in Seq(Items), NEW w \in Seq(Items), v # <<>> \/ w # <<>>
  PROVE  Cat(v, w) \in Texts
<1>1. Cat(v, w) \in Seq(Items) BY CatType
<1>2. Cat(v, w) # <<>> BY ConcatEqualIffEmpty DEF Cat
<1>3. QED BY <1>1, <1>2 DEF Texts

LEMMA JoinedText == ASSUME NEW v \in Texts, NEW w \in Texts PROVE Joined(v, w) \in Texts
<1>1. Led(w) \in Texts BY LedText
<1>2. Cat(v, Led(w)) \in Texts BY <1>1, CatText DEF Texts
<1>3. QED BY <1>2 DEF Joined, Cat

(* Joined one after the other, the first of them as it is. *)
LEMMA FlattenText ==
  ASSUME NEW ss \in Seq(Texts), ss # <<>>
  PROVE  FlattenSeq(ss) \in Texts
<1>1. Len(ss) \in Nat \ {0} /\ \A i \in 1 .. Len(ss) : ss[i] \in Texts BY EmptySeq
<1>2. \A i \in 1 .. Len(ss) : ss[i] \in Seq(Items) BY <1>1 DEF Texts
<1>3. PICK f : Flattens(ss, Len(ss), f) /\ FlattenSeq(ss) = f[Len(ss)] BY <1>1, FlattenValue
<1>4. FlattensOver(Items, ss, Len(ss), f) BY <1>1, <1>2, <1>3 DEF FlattensOver
<1>5. /\ \A i \in 1 .. Len(ss) : f[i] \in Seq(Items)
      /\ f[1] = ss[1]
      /\ \A i \in 2 .. Len(ss) : f[i] = Cat(f[i - 1], ss[i])
  BY <1>4, FlattensSteps
<1>6. CASE Len(ss) = 1 BY <1>6, <1>1, <1>3, <1>5
<1>7. CASE Len(ss) # 1
  <2>0. PICK n \in Nat : n = Len(ss) /\ n # 0 /\ n # 1 BY <1>1, <1>7
  <2>1. Len(ss) \in 2 .. Len(ss) /\ Len(ss) - 1 \in 1 .. Len(ss) /\ Len(ss) \in 1 .. Len(ss)
    <3>1. n \in 2 .. n /\ n - 1 \in 1 .. n /\ n \in 1 .. n BY <2>0
    <3>2. QED BY <2>0, <3>1
  <2>2. f[Len(ss)] = Cat(f[Len(ss) - 1], ss[Len(ss)]) BY <2>1, <1>5
  <2>3. f[Len(ss) - 1] \in Seq(Items) /\ ss[Len(ss)] \in Seq(Items) /\ ss[Len(ss)] # <<>>
    BY <2>1, <1>1, <1>2, <1>5 DEF Texts
  <2>4. QED BY <2>2, <2>3, <1>3, CatText
<1>8. QED BY <1>6, <1>7

LEMMA FirstPlaceOf ==
  ASSUME NEW t \in Seq(Entries), NEW k, Has(t, k)
  PROVE  FirstAt(t, k) \in 1 .. Len(t)
<1>1. DOMAIN t = 1 .. Len(t) BY LenProperties
<1>2. PlacesOf(t, k) \in SUBSET Nat /\ PlacesOf(t, k) # {} /\ PlacesOf(t, k) \subseteq 1 .. Len(t)
  BY <1>1 DEF PlacesOf, Has
<1>3. \E i \in PlacesOf(t, k) : \A j \in PlacesOf(t, k) : i <= j BY <1>2, NatMin
<1>4. FirstAt(t, k) \in PlacesOf(t, k) BY <1>3 DEF FirstAt
<1>5. QED BY <1>2, <1>4

LEMMA AddTable ==
  ASSUME NEW t \in Seq(Entries), NEW k \in Keys, NEW v \in Texts
  PROVE  apr_table_add(t, k, v) \in Seq(Entries)
<1>1. Entry(k, v) \in Entries BY DEF Entry, Entries
<1>2. QED BY <1>1, AppendProperties DEF apr_table_add

LEMMA UnsetTable == ASSUME NEW t \in Seq(Entries), NEW k PROVE apr_table_unset(t, k) \in Seq(Entries)
BY ThoseOf DEF apr_table_unset

LEMMA SetTable ==
  ASSUME NEW t \in Seq(Entries), NEW k \in Keys, NEW v \in Texts
  PROVE  apr_table_set(t, k, v) \in Seq(Entries)
<1>1. CASE ~Has(t, k) BY <1>1, AddTable DEF apr_table_set
<1>2. CASE Has(t, k)
  <2>1. PICK i \in 1 .. Len(t) : i = FirstAt(t, k) BY <1>2, FirstPlaceOf
  <2>2. Len(t) \in Nat /\ \A j \in 1 .. Len(t) : t[j] \in Entries OBVIOUS
  <2>3. (\A j \in 1 .. i - 1 : t[j] \in Entries) /\ \A j \in i + 1 .. Len(t) : t[j] \in Entries BY <2>2
  <2>4. SubSeq(t, 1, i - 1) \in Seq(Entries) BY <2>2, <2>3, SubSeqProperties
  <2>5. SubSeq(t, i + 1, Len(t)) \in Seq(Entries) BY <2>2, <2>3, SubSeqProperties
  <2>6. t[i].key \in Keys BY <2>2 DEF Entries
  <2>7. <<Entry(t[i].key, v)>> \in Seq(Entries)
    <3>1. Entry(t[i].key, v) \in Entries BY <2>6 DEF Entry, Entries
    <3>2. QED BY <3>1, OneIn
  <2>8. apr_table_unset(SubSeq(t, i + 1, Len(t)), k) \in Seq(Entries) BY <2>5, UnsetTable
  <2>9. Cat(Cat(SubSeq(t, 1, i - 1), <<Entry(t[i].key, v)>>), apr_table_unset(SubSeq(t, i + 1, Len(t)), k))
          \in Seq(Entries)
    BY <2>4, <2>7, <2>8, CatType
  <2>10. apr_table_set(t, k, v)
           = Cat(Cat(SubSeq(t, 1, i - 1), <<Entry(t[i].key, v)>>), apr_table_unset(SubSeq(t, i + 1, Len(t)), k))
    BY <1>2, <2>1, Zenon DEF apr_table_set, Cat
  <2>11. QED BY <2>9, <2>10
<1>3. QED BY <1>1, <1>2

LEMMA MergeTable ==
  ASSUME NEW t \in Seq(Entries), NEW k \in Keys, NEW v \in Texts
  PROVE  apr_table_merge(t, k, v) \in Seq(Entries)
<1>1. CASE ~Has(t, k) BY <1>1, AddTable DEF apr_table_merge
<1>2. CASE Has(t, k)
  <2>1. PICK i \in 1 .. Len(t) : i = FirstAt(t, k) BY <1>2, FirstPlaceOf
  <2>2. t[i] \in Entries OBVIOUS
  <2>3. PICK w \in Texts : w = Joined(t[i].val, v) BY <2>2, JoinedText DEF Entries
  <2>4. [t[i] EXCEPT !.val = w] \in Entries BY <2>2 DEF Entries
  <2>5. [t EXCEPT ![i].val = w] \in Seq(Entries)
    <3>1. [t EXCEPT ![i] = [t[i] EXCEPT !.val = w]] \in Seq(Entries) BY <2>4, ExceptSeq
    <3>2. QED BY <3>1
  <2>6. apr_table_merge(t, k, v) = [t EXCEPT ![i].val = w] BY <1>2, <2>1, <2>3 DEF apr_table_merge
  <2>7. QED BY <2>5, <2>6
<1>3. QED BY <1>1, <1>2

LEMMA FlattenSome ==
  ASSUME NEW V, NEW ss \in Seq(Seq(V)), NEW i \in 1 .. Len(ss), ss[i] # <<>>
  PROVE  FlattenSeq(ss) # <<>>
<1>0. PICK n \in Nat : n = Len(ss) /\ n # 0 /\ i \in 1 .. n OBVIOUS
<1>1. \A j \in 1 .. n : ss[j] \in Seq(V) BY <1>0
<1>2. PICK f : Flattens(ss, n, f) /\ FlattenSeq(ss) = f[n] BY <1>0, FlattenValue
<1>3. FlattensOver(V, ss, n, f) BY <1>0, <1>1, <1>2 DEF FlattensOver
<1>4. /\ \A j \in 1 .. n : f[j] \in Seq(V)
      /\ f[1] = ss[1]
      /\ \A j \in 2 .. n : f[j] = Cat(f[j - 1], ss[j])
  BY <1>3, FlattensSteps
<1> DEFINE N == {k \in Nat : i + k <= n => f[i + k] # <<>>}
<1>5. 0 \in N
  <2>1. CASE i = 1 BY <2>1, <1>4
  <2>2. CASE i # 1
    <3>1. i \in 2 .. n /\ i - 1 \in 1 .. n BY <2>2, <1>0
    <3>2. f[i] = Cat(f[i - 1], ss[i]) /\ f[i - 1] \in Seq(V) /\ ss[i] \in Seq(V) BY <3>1, <1>1, <1>4
    <3>3. f[i] # <<>> BY <3>2, ConcatEqualIffEmpty DEF Cat
    <3>4. QED BY <3>3
  <2>3. QED BY <2>1, <2>2
<1>6. ASSUME NEW k \in N PROVE k + 1 \in N
  <2>1. SUFFICES ASSUME i + (k + 1) <= n PROVE f[i + (k + 1)] # <<>> OBVIOUS
  <2>2. PICK j \in Nat : j = i + (k + 1) /\ j \in 2 .. n /\ j - 1 = i + k /\ j - 1 \in 1 .. n BY <2>1, <1>0
  <2>3. f[j] = Cat(f[j - 1], ss[j]) /\ f[j - 1] \in Seq(V) /\ ss[j] \in Seq(V) BY <2>2, <1>1, <1>4
  <2>4. f[j - 1] # <<>> BY <2>2
  <2>5. f[j] # <<>> BY <2>3, <2>4, ConcatEqualIffEmpty DEF Cat
  <2>6. QED BY <2>2, <2>5
<1>7. N = Nat
  <2>1. N \in SUBSET Nat OBVIOUS
  <2> HIDE DEF N
  <2> QED BY <1>5, <1>6, <2>1, SetInduction
<1>8. PICK k \in Nat : k = n - i /\ i + k = n
  <2>1. i \in 1 .. n BY <1>0
  <2>2. n - i \in Nat /\ i + (n - i) = n BY <2>1
  <2>3. QED BY <2>2
<1>9. k \in N BY <1>7
<1>10. f[i + k] # <<>> BY <1>8, <1>9
<1>11. QED BY <1>2, <1>8, <1>10

LEMMA ThoseSome ==
  ASSUME NEW V, NEW t \in Seq(V), NEW I, NEW i \in DOMAIN t, i \in I
  PROVE  Those(t, I) # <<>>
<1>1. PICK ss : ss = [j \in DOMAIN t |-> IF j \in I THEN <<t[j]>> ELSE <<>>] OBVIOUS
<1>2. DOMAIN t = 1 .. Len(t) /\ Len(t) \in Nat /\ \A j \in DOMAIN t : t[j] \in V BY LenProperties
<1>3. \A j \in DOMAIN t : (IF j \in I THEN <<t[j]>> ELSE <<>>) \in Seq(V) BY <1>2
<1>4. ss \in [1 .. Len(t) -> Seq(V)] BY <1>1, <1>2, <1>3
<1>5. ss \in Seq(Seq(V)) /\ i \in 1 .. Len(ss) BY <1>2, <1>4
<1>6. ss[i] = <<t[i]>> /\ <<t[i]>> # <<>> BY <1>1
<1>7. FlattenSeq(ss) # <<>> BY <1>5, <1>6, FlattenSome
<1>8. QED BY <1>1, <1>7 DEF Those

(* What compress() leaves of the entries of a key. *)
LastOf(t, k) == Last(EntriesOf(t, k)).val
JoinedOf(t, k) ==
  FlattenSeq([i \in DOMAIN EntriesOf(t, k) |->
                IF i = 1 THEN EntriesOf(t, k)[i].val ELSE Led(EntriesOf(t, k)[i].val)])

LEMMA LeftText ==
  ASSUME NEW t \in Seq(Entries), NEW i \in DOMAIN t
  PROVE  LastOf(t, t[i].key) \in Texts /\ JoinedOf(t, t[i].key) \in Texts
<1>1. PICK es : es = EntriesOf(t, t[i].key) OBVIOUS
<1>2. es \in Seq(Entries) BY <1>1, ThoseOf DEF EntriesOf
<1>3. es # <<>>
  <2>1. i \in PlacesOf(t, t[i].key) BY DEF PlacesOf, SameKey
  <2>2. QED BY <2>1, <1>1, ThoseSome DEF EntriesOf
<1>4. Len(es) \in Nat \ {0} /\ DOMAIN es = 1 .. Len(es) /\ \A j \in DOMAIN es : es[j] \in Entries
  BY <1>2, <1>3, EmptySeq, LenProperties
<1>5. \A j \in DOMAIN es : es[j].val \in Texts BY <1>4 DEF Entries
<1>6. LastOf(t, t[i].key) \in Texts
  <2>1. LastOf(t, t[i].key) = es[Len(es)].val BY <1>1 DEF LastOf, Last
  <2>2. QED BY <2>1, <1>4, <1>5
<1>7. JoinedOf(t, t[i].key) \in Texts
  <2>1. PICK ss : ss = [j \in DOMAIN es |-> IF j = 1 THEN es[j].val ELSE Led(es[j].val)] OBVIOUS
  <2>2. \A j \in DOMAIN es : (IF j = 1 THEN es[j].val ELSE Led(es[j].val)) \in Texts BY <1>5, LedText
  <2>3. ss \in [1 .. Len(es) -> Texts] BY <2>1, <2>2, <1>4
  <2>4. ss \in Seq(Texts) /\ Len(ss) = Len(es) BY <2>3, <1>4
  <2>5. ss # <<>> BY <2>4, <1>4, EmptySeq
  <2>6. JoinedOf(t, t[i].key) = FlattenSeq(ss) BY <1>1, <2>1 DEF JoinedOf
  <2>7. QED BY <2>4, <2>5, <2>6, FlattenText
<1>8. QED BY <1>6, <1>7

LEMMA CompressTable ==
  ASSUME NEW t \in Seq(Entries), NEW merge
  PROVE  apr_table_compress(t, merge) \in Seq(Entries)
<1> DEFINE left(k) == IF merge THEN JoinedOf(t, k) ELSE LastOf(t, k)
           u == [i \in DOMAIN t |-> Entry(t[i].key, left(t[i].key))]
<1>1. DOMAIN t = 1 .. Len(t) /\ Len(t) \in Nat /\ \A i \in DOMAIN t : t[i] \in Entries BY LenProperties
<1>2. \A i \in DOMAIN t : Entry(t[i].key, left(t[i].key)) \in Entries
  <2>1. \A i \in DOMAIN t : t[i].key \in Keys BY <1>1 DEF Entries
  <2>2. \A i \in DOMAIN t : left(t[i].key) \in Texts BY LeftText
  <2> HIDE DEF left
  <2>3. QED BY <2>1, <2>2 DEF Entry, Entries
<1>3. u \in Seq(Entries) BY <1>1, <1>2
<1>4. apr_table_compress(t, merge) = Those(u, {i \in DOMAIN t : FirstAt(t, t[i].key) = i})
  BY DEF apr_table_compress, JoinedOf, LastOf
<1> HIDE DEF u
<1>5. QED BY <1>3, <1>4, ThoseOf

(* A method makes tables of tables. *)
LEMMA MethodsTable ==
  ASSUME NEW t \in TableTypes, NEW u \in tableMethods(t, Values)
  PROVE  u \in TableTypes
<1>1. t \in Seq(Entries) BY TablesAreSequences
<1>2. \A v \in Values : v \in Texts BY RecordsAssumption
<1>3. \/ u \in {tableClear(t), tableDedupeKeys(t), tableCompress(t)}
      \/ \E k \in Keys : u = tableUnset(t, k)
      \/ \E k \in Keys, v \in Values : u \in {tableAdd(t, k, v), tableMerge(t, k, v), tableSet(t, k, v)}
  BY DEF tableMethods
<1>4. CASE u \in {tableClear(t), tableDedupeKeys(t), tableCompress(t)}
  <2>1. tableClear(t) \in Seq(Entries) BY EmptySeq DEF tableClear
  <2>2. tableDedupeKeys(t) \in Seq(Entries) BY <1>1, CompressTable DEF tableDedupeKeys
  <2>3. tableCompress(t) \in Seq(Entries) BY <1>1, CompressTable DEF tableCompress
  <2>4. QED BY <1>4, <2>1, <2>2, <2>3, TablesAreSequences
<1>5. CASE \E k \in Keys : u = tableUnset(t, k)
  BY <1>1, <1>5, UnsetTable, TablesAreSequences DEF tableUnset
<1>6. ASSUME NEW k \in Keys, NEW v \in Values, u \in {tableAdd(t, k, v), tableMerge(t, k, v), tableSet(t, k, v)}
      PROVE  u \in Seq(Entries)
  <2>1. tableAdd(t, k, v) \in Seq(Entries) BY <1>1, <1>2, AddTable DEF tableAdd
  <2>2. tableMerge(t, k, v) \in Seq(Entries) BY <1>1, <1>2, MergeTable DEF tableMerge
  <2>3. tableSet(t, k, v) \in Seq(Entries) BY <1>1, <1>2, SetTable DEF tableSet
  <2>4. QED BY <1>6, <2>1, <2>2, <2>3
<1>7. QED BY <1>3, <1>4, <1>5, <1>6, TablesAreSequences

(***************************************************************************)
(* Reading tables                                                          *)
(***************************************************************************)
(* Induction up to a bound. *)
LEMMA BoundInduction ==
  ASSUME NEW n \in Nat, NEW T, 0 \in T, \A k \in 0 .. n : k # n /\ k \in T => k + 1 \in T
  PROVE  0 .. n \subseteq T
<1> DEFINE S == {k \in Nat : k <= n => k \in T}
<1>1. 0 \in S OBVIOUS
<1>2. ASSUME NEW k \in S PROVE k + 1 \in S
  <2>1. SUFFICES ASSUME k + 1 <= n PROVE k + 1 \in T OBVIOUS
  <2>2. k \in 0 .. n /\ k # n /\ k \in T BY <2>1
  <2>3. QED BY <2>2
<1>3. S \in SUBSET Nat OBVIOUS
<1> HIDE DEF S
<1>4. S = Nat BY <1>1, <1>2, <1>3, SetInduction
<1>5. QED BY <1>4 DEF S

(* The sequences g[1], ..., g[n] one after the other. *)
Joins(g, n) == FlattenSeq([i \in 1 .. n |-> g[i]])

(* They can be taken one at a time. *)
LEMMA JoinsSteps ==
  ASSUME NEW V, NEW g, NEW n \in Nat, \A i \in 1 .. n : g[i] \in Seq(V)
  PROVE  /\ Joins(g, 0) = <<>>
         /\ \A k \in 0 .. n : Joins(g, k) \in Seq(V)
         /\ \A k \in 1 .. n : Joins(g, k) = Cat(Joins(g, k - 1), g[k])
<1>1. Joins(g, 0) = <<>>
  <2>1. [i \in 1 .. 0 |-> g[i]] = <<>> OBVIOUS
  <2>2. QED BY <2>1, FlattenEmpty DEF Joins
<1> DEFINE ss(k) == [i \in 1 .. k |-> g[i]]
<1>2. ASSUME NEW k \in 1 .. n
      PROVE  \E f : FlattensOver(V, ss(k), k, f) /\ Joins(g, k) = f[k]
  <2>1. k \in Nat /\ k # 0 /\ ss(k) \in Seq(Seq(V)) /\ Len(ss(k)) = k OBVIOUS
  <2>2. PICK f : Flattens(ss(k), Len(ss(k)), f) /\ FlattenSeq(ss(k)) = f[Len(ss(k))]
    BY <2>1, FlattenValue
  <2>3. \A i \in 1 .. k : ss(k)[i] \in Seq(V) BY <2>1
  <2>4. Flattens(ss(k), k, f) /\ Joins(g, k) = f[k] BY <2>1, <2>2 DEF Joins
  <2> HIDE DEF ss
  <2>5. QED BY <2>1, <2>3, <2>4 DEF FlattensOver
<1>3. ASSUME NEW k \in 1 .. n, NEW f, FlattensOver(V, ss(k), k, f)
      PROVE  /\ \A i \in 1 .. k : f[i] \in Seq(V)
             /\ f[1] = g[1]
             /\ \A i \in 2 .. k : f[i] = Cat(f[i - 1], g[i])
  <2>1. /\ \A i \in 1 .. k : f[i] \in Seq(V)
        /\ f[1] = ss(k)[1]
        /\ \A i \in 2 .. k : f[i] = Cat(f[i - 1], ss(k)[i])
    <3> HIDE DEF ss
    <3> QED BY <1>3, FlattensSteps
  <2>2. \A i \in 1 .. k : ss(k)[i] = g[i] OBVIOUS
  <2>3. 1 \in 1 .. k /\ \A i \in 2 .. k : i \in 1 .. k OBVIOUS
  <2> HIDE DEF ss
  <2>4. QED BY <2>1, <2>2, <2>3
<1> HIDE DEF ss
<1>4. \A k \in 0 .. n : Joins(g, k) \in Seq(V)
  <2>1. ASSUME NEW k \in 1 .. n PROVE Joins(g, k) \in Seq(V)
    <3>1. PICK f : FlattensOver(V, ss(k), k, f) /\ Joins(g, k) = f[k] BY <1>2
    <3>2. QED BY <3>1, <1>3
  <2>2. Joins(g, 0) \in Seq(V) BY <1>1, EmptyIsSeq
  <2>3. \A k \in 0 .. n : k = 0 \/ k \in 1 .. n OBVIOUS
  <2>4. QED BY <2>1, <2>2, <2>3
<1>5. ASSUME NEW k \in 1 .. n PROVE Joins(g, k) = Cat(Joins(g, k - 1), g[k])
  <2>1. PICK f : FlattensOver(V, ss(k), k, f) /\ Joins(g, k) = f[k] BY <1>2
  <2>2. CASE k = 1
    <3>1. Joins(g, k) = g[1] /\ g[1] \in Seq(V) BY <2>1, <2>2, <1>3
    <3>2. Cat(<<>>, g[1]) = g[1] BY <3>1, ConcatEmptySeq DEF Cat
    <3>3. QED BY <3>1, <3>2, <2>2, <1>1
  <2>3. CASE k # 1
    <3>1. PICK l \in 1 .. n : l = k - 1 /\ k - 1 = l /\ l < k BY <2>3
    <3>2. PICK h : FlattensOver(V, ss(l), l, h) /\ Joins(g, l) = h[l] BY <1>2
    <3>3. f[1] = h[1] /\ \A i \in 2 .. l : f[i] = Cat(f[i - 1], g[i]) /\ h[i] = Cat(h[i - 1], g[i])
      BY <2>1, <3>1, <3>2, <1>3
    <3>4. \A i \in Nat : i + 1 \in 1 .. l => f[i + 1] = h[i + 1]
      <4> DEFINE N == {i \in Nat : i + 1 \in 1 .. l => f[i + 1] = h[i + 1]}
      <4>1. 0 \in N BY <3>3
      <4>2. ASSUME NEW i \in N PROVE i + 1 \in N
        <5>1. SUFFICES ASSUME (i + 1) + 1 \in 1 .. l PROVE f[(i + 1) + 1] = h[(i + 1) + 1] OBVIOUS
        <5>2. PICK j \in 2 .. l : j = (i + 1) + 1 /\ j - 1 = i + 1 /\ i + 1 \in 1 .. l BY <5>1
        <5>3. f[j - 1] = h[j - 1] BY <5>2
        <5>4. f[j] = h[j] BY <5>3, <3>3
        <5>5. QED BY <5>2, <5>4
      <4>3. N \in SUBSET Nat OBVIOUS
      <4> HIDE DEF N
      <4>4. N = Nat BY <4>1, <4>2, <4>3, SetInduction
      <4>5. QED BY <4>4 DEF N
    <3>5. f[l] = h[l]
      <4>1. PICK i \in Nat : i + 1 = l
        <5>1. l - 1 \in Nat /\ (l - 1) + 1 = l OBVIOUS
        <5>2. QED BY <5>1
      <4>2. l \in 1 .. l /\ \A j \in Nat : j + 1 \in 1 .. l => f[j + 1] = h[j + 1] BY <3>4
      <4>3. QED BY <4>1, <4>2
    <3>6. k \in 2 .. k BY <2>3
    <3>7. f[k] = Cat(f[k - 1], g[k]) BY <3>6, <2>1, <1>3
    <3>8. f[k - 1] = f[l] BY <3>1
    <3>9. Joins(g, k - 1) = Joins(g, l) BY <3>1
    <3>10. QED BY <2>1, <3>2, <3>5, <3>7, <3>8, <3>9
  <2>4. QED BY <2>2, <2>3
<1>6. QED BY <1>1, <1>4, <1>5

(* s holds what t has at the places J, in order: f leads to them. *)
Enumerates(s, t, J, f) ==
  /\ f \in [DOMAIN s -> J]
  /\ \A i, j \in DOMAIN s : i < j => f[i] < f[j]
  /\ \A j \in J : \E i \in DOMAIN s : f[i] = j
  /\ \A i \in DOMAIN s : s[i] = t[f[i]]

LEMMA EnumerateNext ==
  ASSUME NEW V, NEW s \in Seq(V), NEW t \in Seq(V), NEW n \in Nat, n + 1 \in 1 .. Len(t),
         NEW J \in SUBSET (1 .. n), NEW f, Enumerates(s, t, J, f)
  PROVE  \E h : Enumerates(Append(s, t[n + 1]), t, J \cup {n + 1}, h)
<1>1. PICK m \in Nat : m = Len(s) /\ DOMAIN s = 1 .. m BY LenProperties
<1>2. PICK a : a = Append(s, t[n + 1]) OBVIOUS
<1>3. /\ DOMAIN a = 1 .. m + 1
      /\ \A i \in 1 .. m : a[i] = s[i]
      /\ a[m + 1] = t[n + 1]
  BY <1>1, <1>2
<1>4. PICK h : h = [i \in 1 .. m + 1 |-> IF i = m + 1 THEN n + 1 ELSE f[i]] OBVIOUS
<1>5. h[m + 1] = n + 1 /\ \A i \in 1 .. m : h[i] = f[i] /\ f[i] \in J /\ f[i] \in 1 .. n /\ f[i] < n + 1
  <2>1. \A i \in 1 .. m : f[i] \in J BY <1>1 DEF Enumerates
  <2>2. \A j \in J : j \in 1 .. n /\ j < n + 1 OBVIOUS
  <2>3. m + 1 \in 1 .. m + 1 /\ \A i \in 1 .. m : i \in 1 .. m + 1 /\ i # m + 1 BY <1>1
  <2>4. QED BY <2>1, <2>2, <2>3, <1>4
<1>6. \A i \in 1 .. m + 1 : i = m + 1 \/ i \in 1 .. m BY <1>1
<1>7. h \in [1 .. m + 1 -> J \cup {n + 1}] BY <1>4, <1>5, <1>6
<1>8. \A i, j \in 1 .. m + 1 : i < j => h[i] < h[j]
  <2>1. ASSUME NEW i \in 1 .. m + 1, NEW j \in 1 .. m + 1, i < j PROVE h[i] < h[j]
    <3>1. i \in 1 .. m BY <2>1, <1>1
    <3>2. CASE j = m + 1 BY <3>1, <3>2, <1>5
    <3>3. CASE j \in 1 .. m BY <3>1, <3>3, <2>1, <1>1, <1>5 DEF Enumerates
    <3>4. QED BY <3>2, <3>3, <1>6
  <2>2. QED BY <2>1
<1>9. \A j \in J \cup {n + 1} : \E i \in 1 .. m + 1 : h[i] = j
  <2>1. m + 1 \in 1 .. m + 1 /\ \A i \in 1 .. m : i \in 1 .. m + 1 BY <1>1
  <2>2. \A j \in J : \E i \in 1 .. m : f[i] = j BY <1>1 DEF Enumerates
  <2>3. QED BY <2>1, <2>2, <1>5
<1>10. \A i \in 1 .. m + 1 : a[i] = t[h[i]]
  <2>1. \A i \in 1 .. m : s[i] = t[f[i]] BY <1>1 DEF Enumerates
  <2>2. QED BY <2>1, <1>3, <1>5, <1>6
<1>11. Enumerates(a, t, J \cup {n + 1}, h)
  BY <1>3, <1>7, <1>8, <1>9, <1>10 DEF Enumerates
<1>12. QED BY <1>2, <1>11

(* What Those() takes of a sequence is what it has at the places, in order. *)
LEMMA ThoseEnumerated ==
  ASSUME NEW V, NEW t \in Seq(V), NEW I
  PROVE  /\ Those(t, I) \in Seq(V)
         /\ \E f : Enumerates(Those(t, I), t, I \cap DOMAIN t, f)
<1>1. PICK n \in Nat : n = Len(t) /\ DOMAIN t = 1 .. n /\ \A i \in 1 .. n : t[i] \in V BY LenProperties
<1>2. PICK g : g = [i \in DOMAIN t |-> IF i \in I THEN <<t[i]>> ELSE <<>>] OBVIOUS
<1>3. \A i \in 1 .. n : g[i] = IF i \in I THEN <<t[i]>> ELSE <<>> BY <1>1, <1>2
<1>4. \A i \in 1 .. n : g[i] \in Seq(V)
  <2>1. \A i \in 1 .. n : <<t[i]>> \in Seq(V) BY <1>1, OneIn
  <2>2. QED BY <2>1, <1>3, EmptyIsSeq
<1>5. /\ Joins(g, 0) = <<>>
      /\ \A k \in 0 .. n : Joins(g, k) \in Seq(V)
      /\ \A k \in 1 .. n : Joins(g, k) = Cat(Joins(g, k - 1), g[k])
  BY <1>1, <1>4, JoinsSteps
<1> DEFINE T == {k \in 0 .. n : \E f : Enumerates(Joins(g, k), t, I \cap (1 .. k), f)}
<1>6. 0 \in T
  <2>1. I \cap (1 .. 0) = {} OBVIOUS
  <2>2. Enumerates(<<>>, t, {}, <<>>) BY DEF Enumerates
  <2>3. QED BY <2>1, <2>2, <1>1, <1>5
<1>7. ASSUME NEW k \in 0 .. n, k # n, k \in T PROVE k + 1 \in T
  <2>1. k \in Nat /\ k + 1 \in 1 .. n /\ k + 1 \in 0 .. n /\ (k + 1) - 1 = k BY <1>1, <1>7
  <2>2. Joins(g, k) \in Seq(V) /\ t[k + 1] \in V BY <2>1, <1>1, <1>5
  <2>3. Joins(g, k + 1) = Cat(Joins(g, k), g[k + 1]) BY <2>1, <1>5
  <2>4. PICK f : Enumerates(Joins(g, k), t, I \cap (1 .. k), f) BY <1>7
  <2>5. CASE k + 1 \in I
    <3>1. g[k + 1] = <<t[k + 1]>> BY <2>1, <2>5, <1>3
    <3>2. Append(Joins(g, k), t[k + 1]) = Joins(g, k + 1)
      BY <2>2, <2>3, <3>1, AppendIsConcat DEF Cat
    <3>3. I \cap (1 .. k + 1) = (I \cap (1 .. k)) \cup {k + 1} BY <2>1, <2>5
    <3>4. \E h : Enumerates(Append(Joins(g, k), t[k + 1]), t, (I \cap (1 .. k)) \cup {k + 1}, h)
      BY <2>1, <2>2, <2>4, <1>1, EnumerateNext
    <3>5. QED BY <2>1, <3>2, <3>3, <3>4
  <2>6. CASE k + 1 \notin I
    <3>1. g[k + 1] = <<>> BY <2>1, <2>6, <1>3
    <3>2. Joins(g, k + 1) = Joins(g, k) BY <2>2, <2>3, <3>1, ConcatEmptySeq DEF Cat
    <3>3. I \cap (1 .. k + 1) = I \cap (1 .. k) BY <2>1, <2>6
    <3>4. QED BY <2>1, <2>4, <3>2, <3>3
  <2>7. QED BY <2>5, <2>6
<1>8. n \in T
  <2> HIDE DEF T
  <2>1. 0 .. n \subseteq T BY <1>6, <1>7, BoundInduction
  <2>2. n \in 0 .. n BY <1>1
  <2>3. QED BY <2>1, <2>2
<1>9. Joins(g, n) = Those(t, I)
  <2>1. [i \in 1 .. n |-> g[i]] = g BY <1>1, <1>2
  <2>2. QED BY <2>1, <1>2 DEF Joins, Those
<1>10. n \in 0 .. n BY <1>1
<1>11. QED BY <1>1, <1>5, <1>8, <1>9, <1>10

(* What follows from that. *)
LEMMA EnumeratedElements ==
  ASSUME NEW V, NEW t \in Seq(V), NEW s \in Seq(V), NEW J \in SUBSET (DOMAIN t), NEW f,
         Enumerates(s, t, J, f)
  PROVE  /\ IsFiniteSet(J) /\ Len(s) = Cardinality(J)
         /\ \A x : In(x, s) <=> \E j \in J : t[j] = x
         /\ \A j \in J : (\A k \in J : j <= k) => s # <<>> /\ s[1] = t[j]
<1>1. PICK m \in Nat : m = Len(s) /\ DOMAIN s = 1 .. m BY LenProperties
<1>2. /\ f \in [1 .. m -> J]
      /\ \A i, j \in 1 .. m : i < j => f[i] < f[j]
      /\ \A j \in J : \E i \in 1 .. m : f[i] = j
      /\ \A i \in 1 .. m : s[i] = t[f[i]]
  BY <1>1 DEF Enumerates
<1>3. J \subseteq Nat
  <2>1. DOMAIN t = 1 .. Len(t) BY LenProperties
  <2>2. QED BY <2>1
<1>4. IsFiniteSet(J) /\ m = Cardinality(J)
  <2>1. \A i, j \in 1 .. m : f[i] = f[j] => i = j
    <3>1. ASSUME NEW i \in 1 .. m, NEW j \in 1 .. m, f[i] = f[j] PROVE i = j
      <4>1. f[i] \in Nat /\ f[j] \in Nat BY <1>2, <1>3
      <4>2. ~(i < j) /\ ~(j < i) BY <4>1, <3>1, <1>2
      <4>3. QED BY <4>2
    <3>2. QED BY <3>1
  <2>2. f \in Bijection(1 .. m, J) BY <2>1, <1>2 DEF Bijection, Injection, Surjection, IsInjective
  <2>3. ExistsBijection(1 .. m, J) BY <2>2 DEF ExistsBijection
  <2>4. IsFiniteSet(1 .. m) /\ Cardinality(1 .. m) = m
    <3>1. IsFiniteSet(1 .. m) /\ Cardinality(1 .. m) = IF 1 > m THEN 0 ELSE m - 1 + 1 BY FS_Interval
    <3>2. QED BY <3>1
  <2>5. QED BY <2>3, <2>4, FS_Bijection
<1>5. \A x : In(x, s) <=> \E j \in J : t[j] = x BY <1>1, <1>2 DEF In
<1>6. ASSUME NEW j \in J, \A k \in J : j <= k PROVE s # <<>> /\ s[1] = t[j]
  <2>1. PICK i \in 1 .. m : f[i] = j BY <1>2
  <2>2. 1 \in 1 .. m /\ f[1] \in J BY <2>1, <1>2
  <2>3. f[1] = j
    <3>1. f[1] \in Nat /\ j \in Nat BY <2>2, <1>3
    <3>2. j <= f[1] BY <2>2, <1>6
    <3>3. i = 1 \/ 1 < i BY <2>1
    <3>4. ~(j < f[1]) BY <3>1, <3>3, <2>1, <2>2, <1>2
    <3>5. QED BY <3>1, <3>2, <3>4
  <2>4. s # <<>> BY <2>2, <1>1
  <2>5. QED BY <2>2, <2>3, <2>4, <1>2
<1>7. QED BY <1>1, <1>4, <1>5, <1>6

LEMMA ThoseElements ==
  ASSUME NEW V, NEW t \in Seq(V), NEW I \in SUBSET (DOMAIN t)
  PROVE  /\ Those(t, I) \in Seq(V)
         /\ IsFiniteSet(I) /\ Len(Those(t, I)) = Cardinality(I)
         /\ \A x : In(x, Those(t, I)) <=> \E j \in I : t[j] = x
         /\ \A j \in I : (\A k \in I : j <= k) => Those(t, I) # <<>> /\ Those(t, I)[1] = t[j]
<1>1. I \cap DOMAIN t = I OBVIOUS
<1>2. PICK f : Enumerates(Those(t, I), t, I, f) /\ Those(t, I) \in Seq(V) BY <1>1, ThoseEnumerated
<1>3. QED BY <1>2, EnumeratedElements

(* The entries of a key. *)
LEMMA KeyEntries ==
  ASSUME NEW t \in Seq(Entries), NEW k
  PROVE  /\ EntriesOf(t, k) \in Seq(Entries)
         /\ PlacesOf(t, k) \in SUBSET (1 .. Len(t)) /\ IsFiniteSet(PlacesOf(t, k))
         /\ Len(EntriesOf(t, k)) = Cardinality(PlacesOf(t, k))
         /\ \A x : In(x, EntriesOf(t, k)) <=> \E j \in PlacesOf(t, k) : t[j] = x
         /\ Has(t, k) => /\ FirstAt(t, k) \in PlacesOf(t, k)
                         /\ \A j \in PlacesOf(t, k) : FirstAt(t, k) <= j
                         /\ EntriesOf(t, k) # <<>> /\ EntriesOf(t, k)[1] = t[FirstAt(t, k)]
         /\ ~Has(t, k) => EntriesOf(t, k) = <<>>
<1>1. PICK I : I = PlacesOf(t, k) OBVIOUS
<1>2. DOMAIN t = 1 .. Len(t) /\ Len(t) \in Nat BY LenProperties
<1>3. I \in SUBSET (DOMAIN t) /\ I \in SUBSET Nat BY <1>1, <1>2 DEF PlacesOf
<1>4. PICK s : s = Those(t, I) OBVIOUS
<1>5. /\ s \in Seq(Entries)
      /\ IsFiniteSet(I) /\ Len(s) = Cardinality(I)
      /\ \A x : In(x, s) <=> \E j \in I : t[j] = x
      /\ \A j \in I : (\A i \in I : j <= i) => s # <<>> /\ s[1] = t[j]
  BY <1>3, <1>4, ThoseElements
<1>6. s = EntriesOf(t, k) BY <1>1, <1>4 DEF EntriesOf
<1>7. ASSUME I # {}
      PROVE  FirstAt(t, k) \in I /\ \A j \in I : FirstAt(t, k) <= j
  <2>1. \E i \in I : \A j \in I : i <= j BY <1>3, <1>7, NatMin
  <2>2. QED BY <2>1, <1>1 DEF FirstAt
<1>8. I = {} => s = <<>> BY <1>5, InElements
<1>9. QED BY <1>1, <1>2, <1>3, <1>5, <1>6, <1>7, <1>8 DEF Has

(* A function of the items of a text keeps to the parts of the text. *)
MapCooked(s) == [i \in DOMAIN s |-> Cooked(s[i])]

LEMMA CookedItem == ASSUME NEW x \in Items PROVE Cooked(x) \in Items
BY TableAssumption DEF Cooked, Item, Items

LEMMA MapCookedType ==
  ASSUME NEW s \in Seq(Items)
  PROVE  MapCooked(s) \in Seq(Items) /\ Len(MapCooked(s)) = Len(s)
<1>1. DOMAIN s = 1 .. Len(s) /\ Len(s) \in Nat /\ \A i \in DOMAIN s : s[i] \in Items BY LenProperties
<1>2. \A i \in DOMAIN s : Cooked(s[i]) \in Items BY <1>1, CookedItem
<1>3. MapCooked(s) \in [1 .. Len(s) -> Items] BY <1>1, <1>2 DEF MapCooked
<1>4. QED BY <1>1, <1>3

LEMMA MapCookedCat ==
  ASSUME NEW a \in Seq(Items), NEW b \in Seq(Items)
  PROVE  MapCooked(Cat(a, b)) = Cat(MapCooked(a), MapCooked(b))
<1>1. PICK c \in Seq(Items) : c = Cat(a, b) BY CatType
<1>2. /\ Len(c) = Len(a) + Len(b)
      /\ \A i \in 1 .. Len(a) + Len(b) : c[i] = IF i <= Len(a) THEN a[i] ELSE b[i - Len(a)]
  BY <1>1, ConcatProperties DEF Cat
<1>3. PICK x \in Seq(Items) : x = MapCooked(a) /\ Len(x) = Len(a) BY MapCookedType
<1>4. PICK y \in Seq(Items) : y = MapCooked(b) /\ Len(y) = Len(b) BY MapCookedType
<1>5. PICK z \in Seq(Items) : z = MapCooked(c) /\ Len(z) = Len(c) BY MapCookedType
<1>6. PICK w \in Seq(Items) : w = Cat(x, y) BY CatType
<1>7. /\ Len(w) = Len(a) + Len(b)
      /\ \A i \in 1 .. Len(a) + Len(b) : w[i] = IF i <= Len(a) THEN x[i] ELSE y[i - Len(a)]
  BY <1>3, <1>4, <1>6, ConcatProperties DEF Cat
<1>8. /\ Len(a) \in Nat /\ Len(b) \in Nat /\ DOMAIN c = 1 .. Len(c)
      /\ DOMAIN a = 1 .. Len(a) /\ DOMAIN b = 1 .. Len(b)
  BY LenProperties
<1>9. ASSUME NEW i \in 1 .. Len(z) PROVE z[i] = w[i]
  <2>1. i \in 1 .. Len(a) + Len(b) /\ i \in DOMAIN c BY <1>2, <1>5, <1>8
  <2>2. z[i] = Cooked(c[i]) BY <2>1, <1>5 DEF MapCooked
  <2>3. CASE i <= Len(a)
    <3>1. i \in DOMAIN a /\ c[i] = a[i] /\ w[i] = x[i] BY <2>1, <2>3, <1>2, <1>7, <1>8
    <3>2. QED BY <3>1, <2>2, <1>3 DEF MapCooked
  <2>4. CASE ~(i <= Len(a))
    <3>1. i - Len(a) \in DOMAIN b BY <2>1, <2>4, <1>8
    <3>2. c[i] = b[i - Len(a)] /\ w[i] = y[i - Len(a)] BY <2>1, <2>4, <1>2, <1>7
    <3>3. QED BY <3>1, <3>2, <2>2, <1>4 DEF MapCooked
  <2>5. QED BY <2>3, <2>4
<1>10. z = w BY <1>2, <1>5, <1>7, <1>9, SeqEqual
<1>11. QED BY <1>1, <1>3, <1>4, <1>5, <1>6, <1>10

(* The items of one value of mget(). *)
LEMMA ScannedItems ==
  ASSUME NEW v \in Texts
  PROVE  /\ Scanned(v) \in Seq(Items) /\ Scanned(v) # <<>> /\ Scanned(v)[1] = v[1]
         /\ Scanned(v) = v <=> ~(Len(v) > 1 /\ Last(v) = Item(NoWord))
<1>1. v \in Seq(Items) /\ v[1] \in Items /\ Len(v) \in Nat \ {0} BY TextItems
<1>2. CASE Len(v) > 1 /\ Last(v) = Item(NoWord)
  <2>1. Scanned(v) = SubSeq(v, 1, Len(v) - 1) BY <1>2 DEF Scanned, Front
  <2>2. Len(v) - 1 \in Int /\ \A i \in 1 .. Len(v) - 1 : v[i] \in Items BY <1>1
  <2>3. PICK s : s = SubSeq(v, 1, Len(v) - 1) OBVIOUS
  <2>4. /\ s \in Seq(Items) /\ Len(s) = IF 1 <= Len(v) - 1 THEN Len(v) - 1 - 1 + 1 ELSE 0
        /\ \A i \in 1 .. Len(v) - 1 - 1 + 1 : s[i] = v[1 + i - 1]
    BY <2>2, <2>3, SubSeqProperties
  <2>5. Len(s) = Len(v) - 1 /\ Len(s) # 0 /\ Len(s) # Len(v) BY <2>4, <1>1, <1>2
  <2>6. s[1] = v[1]
    <3>1. 1 \in 1 .. Len(v) - 1 - 1 + 1 /\ 1 + 1 - 1 = 1 BY <1>1, <1>2
    <3>2. QED BY <3>1, <2>4
  <2>7. s # <<>> /\ s # v BY <2>5
  <2>8. QED BY <2>1, <2>3, <2>4, <2>6, <2>7, <1>2
<1>3. CASE ~(Len(v) > 1 /\ Last(v) = Item(NoWord))
  <2>1. Scanned(v) = v BY <1>3 DEF Scanned
  <2>2. QED BY <2>1, <1>1, <1>3 DEF Texts
<1>4. QED BY <1>2, <1>3

LEMMA MgetItems ==
  ASSUME NEW v \in Texts
  PROVE  /\ tableMgetCB(v) \in Seq(Items) /\ tableMgetCB(v) # <<>> /\ tableMgetCB(v)[1] = Cooked(v[1])
         /\ tableMgetCB(v) = MapCooked(Scanned(v))
<1>1. PICK s \in Seq(Items) : s = Scanned(v) /\ s # <<>> /\ s[1] = v[1] BY ScannedItems
<1>2. tableMgetCB(v) = MapCooked(s) BY <1>1 DEF tableMgetCB, MapCooked
<1>3. MapCooked(s) \in Seq(Items) /\ Len(MapCooked(s)) = Len(s) BY MapCookedType
<1>4. Len(s) \in Nat \ {0} /\ DOMAIN s = 1 .. Len(s) BY <1>1, EmptySeq, LenProperties
<1>5. MapCooked(s) # <<>> BY <1>3, <1>4
<1>6. MapCooked(s)[1] = Cooked(s[1]) BY <1>4 DEF MapCooked
<1>7. QED BY <1>1, <1>2, <1>3, <1>5, <1>6

(* The first and the last item of what is joined. *)
LEMMA JoinsFirst ==
  ASSUME NEW V, NEW g, NEW n \in Nat, n # 0, \A i \in 1 .. n : g[i] \in Seq(V), g[1] # <<>>
  PROVE  Joins(g, n) \in Seq(V) /\ Joins(g, n) # <<>> /\ Joins(g, n)[1] = g[1][1]
<1>1. /\ Joins(g, 0) = <<>>
      /\ \A k \in 0 .. n : Joins(g, k) \in Seq(V)
      /\ \A k \in 1 .. n : Joins(g, k) = Cat(Joins(g, k - 1), g[k])
  BY JoinsSteps
<1> DEFINE T == {k \in 0 .. n : k # 0 => Joins(g, k) # <<>> /\ Joins(g, k)[1] = g[1][1]}
<1>2. 0 \in T OBVIOUS
<1>3. ASSUME NEW k \in 0 .. n, k # n, k \in T PROVE k + 1 \in T
  <2>1. k \in Nat /\ k + 1 \in 1 .. n /\ k + 1 \in 0 .. n /\ (k + 1) - 1 = k BY <1>3
  <2>2. PICK a \in Seq(V) : a = Joins(g, k) BY <2>1, <1>1
  <2>3. PICK b \in Seq(V) : b = g[k + 1] BY <2>1
  <2>4. Joins(g, k + 1) = Cat(a, b) BY <2>1, <2>2, <2>3, <1>1
  <2>5. CASE k = 0
    <3>1. a = <<>> /\ b = g[1] BY <2>2, <2>3, <2>5, <1>1
    <3>2. Cat(a, b) = b BY <3>1, ConcatEmptySeq DEF Cat
    <3>3. QED BY <3>1, <3>2, <2>1, <2>4
  <2>6. CASE k # 0
    <3>1. a # <<>> /\ a[1] = g[1][1] BY <2>2, <2>6, <1>3
    <3>2. Cat(a, b) # <<>> BY <3>1, ConcatEqualIffEmpty DEF Cat
    <3>3. Len(a) \in Nat \ {0} /\ Len(b) \in Nat BY <3>1, EmptySeq
    <3>4. 1 \in 1 .. Len(a) + Len(b) /\ 1 <= Len(a) BY <3>3
    <3>5. Cat(a, b)[1] = a[1] BY <3>4, ConcatProperties DEF Cat
    <3>6. QED BY <3>1, <3>2, <3>5, <2>1, <2>4
  <2>7. QED BY <2>5, <2>6
<1>4. n \in T
  <2> HIDE DEF T
  <2>1. 0 .. n \subseteq T BY <1>2, <1>3, BoundInduction
  <2>2. QED BY <2>1
<1>5. n \in 0 .. n OBVIOUS
<1>6. QED BY <1>1, <1>4, <1>5

LEMMA JoinsLast ==
  ASSUME NEW V, NEW g, NEW n \in Nat, n # 0, \A i \in 1 .. n : g[i] \in Seq(V), g[n] # <<>>
  PROVE  Last(Joins(g, n)) = Last(g[n])
<1>1. PICK a \in Seq(V) : a = Joins(g, n - 1)
  <2>1. n - 1 \in 0 .. n OBVIOUS
  <2>2. QED BY <2>1, JoinsSteps
<1>2. PICK b \in Seq(V) : b = g[n] OBVIOUS
<1>3. Joins(g, n) = Cat(a, b)
  <2>1. n \in 1 .. n OBVIOUS
  <2>2. QED BY <2>1, <1>1, <1>2, JoinsSteps
<1>4. Len(a) \in Nat /\ Len(b) \in Nat \ {0} BY <1>2, EmptySeq
<1>5. /\ Len(Cat(a, b)) = Len(a) + Len(b)
      /\ \A i \in 1 .. Len(a) + Len(b) : Cat(a, b)[i] = IF i <= Len(a) THEN a[i] ELSE b[i - Len(a)]
  BY ConcatProperties DEF Cat
<1>6. PICK l : l = Len(a) + Len(b) OBVIOUS
<1>7. l \in 1 .. Len(a) + Len(b) /\ ~(l <= Len(a)) /\ l - Len(a) = Len(b) BY <1>4, <1>6
<1>8. Cat(a, b)[l] = b[Len(b)] BY <1>5, <1>7
<1>9. QED BY <1>2, <1>3, <1>5, <1>6, <1>8 DEF Last

LEMMA JoinsCooked ==
  ASSUME NEW g, NEW h, NEW n \in Nat, \A i \in 1 .. n : g[i] \in Seq(Items) /\ h[i] = MapCooked(g[i])
  PROVE  Joins(g, n) \in Seq(Items) /\ Joins(h, n) = MapCooked(Joins(g, n))
<1>1. /\ Joins(g, 0) = <<>>
      /\ \A k \in 0 .. n : Joins(g, k) \in Seq(Items)
      /\ \A k \in 1 .. n : Joins(g, k) = Cat(Joins(g, k - 1), g[k])
  BY JoinsSteps
<1>2. \A i \in 1 .. n : h[i] \in Seq(Items) BY MapCookedType
<1>3. Joins(h, 0) = <<>> /\ \A k \in 1 .. n : Joins(h, k) = Cat(Joins(h, k - 1), h[k])
  BY <1>2, JoinsSteps
<1> DEFINE T == {k \in 0 .. n : Joins(h, k) = MapCooked(Joins(g, k))}
<1>4. 0 \in T
  <2>1. MapCooked(<<>>) = <<>> BY DEF MapCooked
  <2>2. QED BY <2>1, <1>1, <1>3
<1>5. ASSUME NEW k \in 0 .. n, k # n, k \in T PROVE k + 1 \in T
  <2>1. k \in Nat /\ k + 1 \in 1 .. n /\ k + 1 \in 0 .. n /\ (k + 1) - 1 = k BY <1>5
  <2>2. Joins(g, k) \in Seq(Items) /\ g[k + 1] \in Seq(Items) BY <2>1, <1>1
  <2>3. MapCooked(Cat(Joins(g, k), g[k + 1])) = Cat(MapCooked(Joins(g, k)), MapCooked(g[k + 1]))
    BY <2>2, MapCookedCat
  <2>4. Joins(h, k) = MapCooked(Joins(g, k)) BY <1>5
  <2>5. Joins(h, k + 1) = Cat(Joins(h, k), h[k + 1]) BY <2>1, <1>3
  <2>6. Joins(g, k + 1) = Cat(Joins(g, k), g[k + 1]) BY <2>1, <1>1
  <2>7. QED BY <2>1, <2>3, <2>4, <2>5, <2>6
<1>6. n \in T
  <2> HIDE DEF T
  <2>1. 0 .. n \subseteq T BY <1>4, <1>5, BoundInduction
  <2>2. QED BY <2>1
<1>7. n \in 0 .. n OBVIOUS
<1>8. QED BY <1>1, <1>6, <1>7

LEMMA JoinsOne == ASSUME NEW V, NEW g, g[1] \in Seq(V) PROVE Joins(g, 1) = g[1]
<1>1. \A i \in 1 .. 1 : g[i] \in Seq(V) OBVIOUS
<1>2. Joins(g, 0) = <<>> /\ \A k \in 1 .. 1 : Joins(g, k) = Cat(Joins(g, k - 1), g[k]) BY <1>1, JoinsSteps
<1>3. Joins(g, 1) = Cat(<<>>, g[1])
  <2>1. 1 \in 1 .. 1 /\ 1 - 1 = 0 OBVIOUS
  <2>2. Joins(g, 1) = Cat(Joins(g, 1 - 1), g[1]) BY <2>1, <1>2, Zenon
  <2>3. QED BY <2>1, <2>2, <1>2, Zenon
<1>4. QED BY <1>3, ConcatEmptySeq DEF Cat

LEMMA MgetParts ==
  ASSUME NEW t \in Seq(Entries), NEW k
  PROVE  \E n, h :
           /\ n \in Nat /\ n = Len(EntriesOf(t, k)) /\ DOMAIN h = 1 .. n
           /\ \A i \in 1 .. n : EntriesOf(t, k)[i].val \in Texts
           /\ \A i \in 1 .. n : h[i] = tableMgetCB(EntriesOf(t, k)[i].val)
           /\ \A i \in 1 .. n : h[i] \in Seq(Items)
           /\ tableMget(t, k) = Joins(h, n)
<1>1. PICK es \in Seq(Entries) : es = EntriesOf(t, k) BY KeyEntries
<1>2. PICK n \in Nat : n = Len(es) /\ DOMAIN es = 1 .. n /\ \A i \in 1 .. n : es[i] \in Entries BY LenProperties
<1>3. \A i \in 1 .. n : es[i].val \in Texts BY <1>2 DEF Entries
<1>4. PICK h : h = [i \in 1 .. n |-> tableMgetCB(es[i].val)] OBVIOUS
<1>5. \A i \in 1 .. n : h[i] = tableMgetCB(es[i].val) /\ h[i] \in Seq(Items) BY <1>3, <1>4, MgetItems
<1>6. DOMAIN h = 1 .. n /\ h = [i \in 1 .. n |-> h[i]] BY <1>4
<1>7. tableMget(t, k) = FlattenSeq(h) BY <1>1, <1>2, <1>4 DEF tableMget
<1>8. tableMget(t, k) = Joins(h, n) BY <1>6, <1>7 DEF Joins
<1>9. QED BY <1>1, <1>2, <1>3, <1>5, <1>6, <1>8

(* get() is the first item of mget(). *)
LEMMA GetFirst ==
  ASSUME NEW t \in Seq(Entries), NEW k
  PROVE  [i \in DOMAIN tableGet(t, k) |-> Cooked(tableGet(t, k)[i])]
           = SubSeq(tableMget(t, k), 1, IF Has(t, k) THEN 1 ELSE 0)
<1>1. CASE ~Has(t, k)
  <2>1. SubSeq(tableMget(t, k), 1, 0) = <<>> BY SubSeqEmpty
  <2>2. tableGet(t, k) = <<>> BY <1>1 DEF tableGet
  <2>3. [i \in DOMAIN tableGet(t, k) |-> Cooked(tableGet(t, k)[i])] = <<>> BY <2>2
  <2>4. QED BY <2>1, <2>3, <1>1
<1>2. CASE Has(t, k)
  <2>1. PICK n, h :
           /\ n \in Nat /\ n = Len(EntriesOf(t, k)) /\ DOMAIN h = 1 .. n
           /\ \A i \in 1 .. n : EntriesOf(t, k)[i].val \in Texts
           /\ \A i \in 1 .. n : h[i] = tableMgetCB(EntriesOf(t, k)[i].val)
           /\ \A i \in 1 .. n : h[i] \in Seq(Items)
           /\ tableMget(t, k) = Joins(h, n)
    BY MgetParts
  <2>2. EntriesOf(t, k) \in Seq(Entries) /\ EntriesOf(t, k) # <<>> /\ EntriesOf(t, k)[1] = t[FirstAt(t, k)]
    BY <1>2, KeyEntries
  <2>3. n # 0 /\ 1 \in 1 .. n BY <2>1, <2>2, EmptySeq
  <2>4. PICK v \in Texts : v = t[FirstAt(t, k)].val BY <2>1, <2>2, <2>3
  <2>5. h[1] = tableMgetCB(v) BY <2>1, <2>2, <2>3, <2>4
  <2>6. h[1] # <<>> /\ h[1][1] = Cooked(v[1]) BY <2>5, MgetItems
  <2>7. PICK m \in Seq(Items) : m = tableMget(t, k) /\ m # <<>> /\ m[1] = Cooked(v[1])
    BY <2>1, <2>3, <2>6, JoinsFirst
  <2>8. SubSeq(m, 1, 1) = <<m[1]>>
    <3>1. Len(m) \in Nat \ {0} BY <2>7, EmptySeq
    <3>2. m[1] \in Items BY <3>1
    <3>3. \A i \in 1 .. 1 : m[i] \in Items BY <3>2
    <3>4. PICK x : x = SubSeq(m, 1, 1) OBVIOUS
    <3>5. x \in Seq(Items) /\ Len(x) = (IF 1 <= 1 THEN 1 - 1 + 1 ELSE 0) /\ \A i \in 1 .. 1 - 1 + 1 : x[i] = m[1 + i - 1]
      BY <3>3, <3>4, SubSeqProperties
    <3>6. Len(x) = 1 /\ x[1] = m[1] BY <3>5
    <3>7. x = <<m[1]>> BY <3>5, <3>6
    <3>8. QED BY <3>4, <3>7
  <2>9. PICK y : y = v[1] OBVIOUS
  <2>10. tableGet(t, k) = <<y>> BY <2>4, <2>9, <1>2 DEF tableGet
  <2>11. [i \in DOMAIN <<y>> |-> Cooked(<<y>>[i])] = <<Cooked(y)>> OBVIOUS
  <2>12. QED BY <2>7, <2>8, <2>9, <2>10, <2>11, <1>2
<1>3. QED BY <1>1, <1>2

LEMMA LedItems ==
  ASSUME NEW w \in Texts
  PROVE  /\ Led(w) \in Texts /\ Len(Led(w)) = Len(w)
         /\ Last(w) # Item(NoWord) => Last(Led(w)) # Item(NoWord)
         /\ Len(w) = 1 => Last(Led(w)) # Item(NoWord)
         /\ MapCooked(Led(w)) = MapCooked(w)
<1>1. w \in Seq(Items) /\ w # <<>> /\ w[1] \in Items /\ Len(w) \in Nat \ {0} BY TextItems DEF Texts
<1>2. PICK x \in Items : x = [w[1] EXCEPT !.lead = TRUE] BY <1>1 DEF Items
<1>3. /\ Tail(w) \in Seq(Items) /\ Len(Tail(w)) = Len(w) - 1
      /\ \A i \in 1 .. Len(Tail(w)) : Tail(w)[i] = w[i + 1]
  BY <1>1, HeadTailProperties
<1>4. <<x>> \in Seq(Items) /\ Len(<<x>>) = 1 /\ <<x>>[1] = x OBVIOUS
<1>5. PICK l \in Texts : l = Led(w) BY LedText
<1>6. l = <<x>> \o Tail(w) BY <1>2, <1>5 DEF Led
<1>7. /\ Len(l) = 1 + Len(Tail(w))
      /\ \A i \in 1 .. 1 + Len(Tail(w)) : l[i] = IF i <= 1 THEN <<x>>[i] ELSE Tail(w)[i - 1]
  BY <1>3, <1>4, <1>6, ConcatProperties
<1>8. Len(l) = Len(w) BY <1>1, <1>3, <1>7
<1>9. l[1] = x
  <2>1. 1 \in 1 .. 1 + Len(Tail(w)) BY <1>1, <1>3
  <2>2. QED BY <2>1, <1>4, <1>7
<1>10. ASSUME NEW i \in 2 .. Len(w) PROVE l[i] = w[i]
  <2>1. i \in 1 .. 1 + Len(Tail(w)) /\ ~(i <= 1) /\ i - 1 \in 1 .. Len(Tail(w)) /\ (i - 1) + 1 = i BY <1>1, <1>3
  <2>2. l[i] = Tail(w)[i - 1] BY <2>1, <1>7
  <2>3. Tail(w)[i - 1] = w[(i - 1) + 1] BY <2>1, <1>3
  <2>4. QED BY <2>1, <2>2, <2>3
<1>11. x.lead = TRUE /\ x.word = w[1].word /\ x.trail = w[1].trail BY <1>1, <1>2 DEF Items
<1>12. x # Item(NoWord) BY <1>11 DEF Item
<1>13. Len(w) = 1 => Last(l) # Item(NoWord) BY <1>8, <1>9, <1>12 DEF Last
<1>14. Last(w) # Item(NoWord) => Last(l) # Item(NoWord)
  <2>1. CASE Len(w) = 1 BY <2>1, <1>13
  <2>2. CASE Len(w) # 1
    <3>1. Len(w) \in 2 .. Len(w)
      <4>1. PICK n \in Nat : n = Len(w) /\ n # 0 /\ n # 1 BY <2>2, <1>1
      <4>2. n \in 2 .. n BY <4>1
      <4>3. QED BY <4>1, <4>2
    <3>2. QED BY <3>1, <1>8, <1>10 DEF Last
  <2>3. QED BY <2>1, <2>2
<1>15. MapCooked(l) = MapCooked(w)
  <2>1. Cooked(x) = Cooked(w[1])
    <3>1. CASE w[1].word = NoWord BY <3>1, <1>11 DEF Cooked
    <3>2. CASE w[1].word # NoWord
      <4>1. [x EXCEPT !.lead = FALSE] = [w[1] EXCEPT !.lead = FALSE] BY <1>1, <1>2 DEF Items
      <4>2. QED BY <4>1, <3>2, <1>11 DEF Cooked
    <3>3. QED BY <3>1, <3>2
  <2>2. DOMAIN l = DOMAIN w /\ DOMAIN w = 1 .. Len(w) BY <1>1, <1>8, LenProperties DEF Texts
  <2>3. \A i \in DOMAIN w : Cooked(l[i]) = Cooked(w[i])
    <3>1. \A i \in 1 .. Len(w) : i = 1 \/ i \in 2 .. Len(w) BY <1>1
    <3>2. QED BY <3>1, <2>1, <2>2, <1>9, <1>10
  <2>4. QED BY <2>2, <2>3 DEF MapCooked
<1>16. QED BY <1>5, <1>8, <1>9, <1>11, <1>13, <1>14, <1>15

(* The values of a key joined have the items that they have apart. *)
LEMMA MgetJoined ==
  ASSUME NEW t \in Seq(Entries), \A e \in ToSet(t) : Scanned(e.val) = e.val, NEW k, Has(t, k)
  PROVE  tableMgetCB(JoinedOf(t, k)) = tableMget(t, k)
<1>1. PICK es \in Seq(Entries) : es = EntriesOf(t, k) /\ es # <<>> BY KeyEntries
<1>2. PICK n \in Nat : n = Len(es) /\ n # 0 /\ DOMAIN es = 1 .. n /\ \A i \in 1 .. n : es[i] \in Entries
  BY <1>1, LenProperties, EmptySeq
<1>3. PICK h : /\ DOMAIN h = 1 .. n
               /\ \A i \in 1 .. n : h[i] = tableMgetCB(es[i].val)
               /\ tableMget(t, k) = Joins(h, n)
  BY <1>1, <1>2, MgetParts
<1>4. ASSUME NEW i \in 1 .. n
      PROVE  es[i].val \in Texts /\ Scanned(es[i].val) = es[i].val
  <2>1. In(es[i], es) BY <1>2 DEF In
  <2>2. \E j \in PlacesOf(t, k) : t[j] = es[i] BY <2>1, <1>1, KeyEntries
  <2>3. es[i] \in ToSet(t) BY <2>2 DEF PlacesOf, ToSet
  <2>4. QED BY <2>3, <1>2 DEF Entries
<1>5. PICK g : g = [i \in 1 .. n |-> IF i = 1 THEN es[i].val ELSE Led(es[i].val)] OBVIOUS
<1>6. ASSUME NEW i \in 1 .. n
      PROVE  g[i] \in Texts /\ g[i] \in Seq(Items) /\ g[i] # <<>> /\ h[i] = MapCooked(g[i])
  <2>1. es[i].val \in Texts /\ Scanned(es[i].val) = es[i].val BY <1>4
  <2>2. h[i] = MapCooked(es[i].val) BY <2>1, <1>3, MgetItems
  <2>3. Led(es[i].val) \in Texts /\ MapCooked(Led(es[i].val)) = MapCooked(es[i].val) BY <2>1, LedItems
  <2>4. g[i] = IF i = 1 THEN es[i].val ELSE Led(es[i].val) BY <1>5
  <2>5. QED BY <2>1, <2>2, <2>3, <2>4 DEF Texts
<1>7. JoinedOf(t, k) = Joins(g, n)
  <2>1. [i \in 1 .. n |-> g[i]] = g BY <1>5
  <2>2. QED BY <2>1, <1>1, <1>2, <1>5 DEF JoinedOf, Joins
<1>8. PICK v : v = Joins(g, n) OBVIOUS
<1>9. v \in Seq(Items) /\ Joins(h, n) = MapCooked(v)
  <2>1. \A i \in 1 .. n : g[i] \in Seq(Items) /\ h[i] = MapCooked(g[i]) BY <1>6
  <2>2. QED BY <2>1, <1>8, JoinsCooked
<1>10. v # <<>> /\ Last(v) = Last(g[n])
  <2>1. (\A i \in 1 .. n : g[i] \in Seq(Items)) /\ g[1] # <<>> /\ g[n] # <<>>
    <3>1. 1 \in 1 .. n /\ n \in 1 .. n BY <1>2
    <3>2. QED BY <3>1, <1>6
  <2>2. v # <<>> BY <2>1, <1>2, <1>8, JoinsFirst
  <2>3. Last(v) = Last(g[n]) BY <2>1, <1>2, <1>8, JoinsLast
  <2>4. QED BY <2>2, <2>3
<1>11. v \in Texts BY <1>9, <1>10 DEF Texts
<1>12. Scanned(v) = v
  <2>1. PICK w \in Texts : w = es[n].val /\ Scanned(w) = w
    <3>1. n \in 1 .. n BY <1>2
    <3>2. QED BY <3>1, <1>4
  <2>2. ~(Len(w) > 1 /\ Last(w) = Item(NoWord)) BY <2>1, ScannedItems
  <2>3. CASE n = 1
    <3>1. 1 \in 1 .. n BY <1>2
    <3>2. g[1] = w BY <3>1, <2>1, <2>3, <1>5
    <3>3. g[1] \in Seq(Items) BY <3>1, <1>6
    <3>4. v = w BY <3>2, <3>3, <2>3, <1>8, JoinsOne
    <3>5. QED BY <3>4, <2>1
  <2>4. CASE n # 1
    <3>1. g[n] = Led(w)
      <4>1. n \in 1 .. n BY <1>2
      <4>2. QED BY <4>1, <2>1, <2>4, <1>5
    <3>2. Len(w) \in Nat \ {0} BY TextItems
    <3>3. Last(Led(w)) # Item(NoWord)
      <4>1. CASE Len(w) = 1 BY <4>1, LedItems
      <4>2. CASE Len(w) # 1
        <5>0. Len(w) > 1
          <6>1. PICK l \in Nat : l = Len(w) /\ l # 0 /\ l # 1 BY <4>2, <3>2
          <6>2. l > 1 BY <6>1
          <6>3. QED BY <6>1, <6>2
        <5>1. Last(w) # Item(NoWord) BY <5>0, <2>2
        <5>2. QED BY <5>1, LedItems
      <4>3. QED BY <4>1, <4>2
    <3>4. Last(v) # Item(NoWord) BY <3>1, <3>3, <1>10
    <3>5. QED BY <3>4, <1>11, ScannedItems
  <2>5. QED BY <2>3, <2>4
<1>13. tableMgetCB(v) = MapCooked(v) BY <1>11, <1>12, MgetItems
<1>14. QED BY <1>3, <1>7, <1>8, <1>9, <1>13

LEMMA SameEntries ==
  ASSUME NEW t, NEW k, NEW j, SameKey(j, k)
  PROVE  /\ PlacesOf(t, j) = PlacesOf(t, k) /\ EntriesOf(t, j) = EntriesOf(t, k)
         /\ FirstAt(t, j) = FirstAt(t, k) /\ JoinedOf(t, j) = JoinedOf(t, k)
<1>1. PlacesOf(t, j) = PlacesOf(t, k) BY DEF PlacesOf, SameKey
<1>2. EntriesOf(t, j) = EntriesOf(t, k) BY <1>1 DEF EntriesOf
<1>3. QED BY <1>1, <1>2 DEF FirstAt, JoinedOf

(* compress() leaves one entry of a key, with its values joined. *)
LEMMA Compressed ==
  ASSUME NEW t \in Seq(Entries), NEW k
  PROVE  /\ tableCompress(t) \in Seq(Entries)
         /\ ~Has(t, k) => EntriesOf(tableCompress(t), k) = <<>>
         /\ Has(t, k) => /\ Len(EntriesOf(tableCompress(t), k)) = 1
                         /\ EntriesOf(tableCompress(t), k)[1].val = JoinedOf(t, k)
                         /\ JoinedOf(t, k) \in Texts
<1> DEFINE u == [i \in DOMAIN t |-> Entry(t[i].key, JoinedOf(t, t[i].key))]
           I == {i \in DOMAIN t : FirstAt(t, t[i].key) = i}
<1>1. DOMAIN t = 1 .. Len(t) /\ Len(t) \in Nat /\ \A i \in DOMAIN t : t[i] \in Entries BY LenProperties
<1>2. \A i \in DOMAIN t : Entry(t[i].key, JoinedOf(t, t[i].key)) \in Entries
  <2>1. \A i \in DOMAIN t : t[i].key \in Keys BY <1>1 DEF Entries
  <2>2. \A i \in DOMAIN t : JoinedOf(t, t[i].key) \in Texts BY LeftText
  <2>3. QED BY <2>1, <2>2 DEF Entry, Entries
<1>3. u \in Seq(Entries) /\ DOMAIN u = DOMAIN t BY <1>1, <1>2
<1>4. \A i \in DOMAIN t : u[i].key = t[i].key /\ u[i].val = JoinedOf(t, t[i].key) BY DEF Entry
<1>5. PICK c : c = tableCompress(t) OBVIOUS
<1>6. c = Those(u, I) BY <1>5 DEF tableCompress, apr_table_compress, JoinedOf
<1>7. I \in SUBSET (DOMAIN u) /\ I \cap DOMAIN u = I BY <1>3
<1>8. \A i \in I : i \in DOMAIN t /\ FirstAt(t, t[i].key) = i OBVIOUS
<1>9. \A i \in DOMAIN t : FirstAt(t, t[i].key) = i => i \in I OBVIOUS
<1> HIDE DEF u, I
<1>10. c \in Seq(Entries) /\ \E f : Enumerates(c, u, I, f) BY <1>3, <1>6, <1>7, ThoseEnumerated
<1>11. PICK f : Enumerates(c, u, I, f) BY <1>10
<1>12. /\ f \in [DOMAIN c -> I]
       /\ \A i, j \in DOMAIN c : i < j => f[i] < f[j]
       /\ \A j \in I : \E i \in DOMAIN c : f[i] = j
       /\ \A i \in DOMAIN c : c[i] = u[f[i]]
  BY <1>11 DEF Enumerates
<1>13. DOMAIN c = 1 .. Len(c) /\ Len(c) \in Nat BY <1>10, LenProperties
<1>14. ASSUME NEW i \in PlacesOf(c, k)
       PROVE  /\ i \in DOMAIN c /\ f[i] \in PlacesOf(t, k) /\ Has(t, k) /\ f[i] = FirstAt(t, k)
  <2>1. i \in DOMAIN c /\ SameKey(c[i].key, k) BY DEF PlacesOf
  <2>2. f[i] \in I /\ f[i] \in DOMAIN t /\ FirstAt(t, t[f[i]].key) = f[i] BY <2>1, <1>8, <1>12
  <2>3. SameKey(t[f[i]].key, k) BY <2>1, <2>2, <1>4, <1>12
  <2>4. f[i] \in PlacesOf(t, k) BY <2>2, <2>3 DEF PlacesOf
  <2>5. FirstAt(t, t[f[i]].key) = FirstAt(t, k) BY <2>3, SameEntries
  <2>6. QED BY <2>1, <2>2, <2>4, <2>5 DEF Has
<1>15. ASSUME ~Has(t, k) PROVE EntriesOf(c, k) = <<>>
  <2>1. PlacesOf(c, k) = {} BY <1>14, <1>15
  <2>2. ~Has(c, k) BY <2>1 DEF Has
  <2>3. QED BY <2>2, <1>10, KeyEntries
<1>16. ASSUME Has(t, k)
       PROVE  Len(EntriesOf(c, k)) = 1 /\ EntriesOf(c, k)[1].val = JoinedOf(t, k) /\ JoinedOf(t, k) \in Texts
  <2>1. PICK m : m = FirstAt(t, k) /\ m \in PlacesOf(t, k) BY <1>16, KeyEntries
  <2>2. m \in DOMAIN t /\ SameKey(t[m].key, k) BY <2>1 DEF PlacesOf
  <2>3. FirstAt(t, t[m].key) = m /\ JoinedOf(t, t[m].key) = JoinedOf(t, k) BY <2>1, <2>2, SameEntries
  <2>4. m \in I BY <2>2, <2>3, <1>9
  <2>5. PICK j \in DOMAIN c : f[j] = m BY <2>4, <1>12
  <2>6. c[j] = u[m] BY <2>5, <1>12
  <2>7. c[j].key = t[m].key /\ c[j].val = JoinedOf(t, k) BY <2>2, <2>3, <2>6, <1>4
  <2>8. j \in PlacesOf(c, k) BY <2>2, <2>7 DEF PlacesOf
  <2>9. ASSUME NEW i \in PlacesOf(c, k) PROVE i = j
    <3>1. i \in DOMAIN c /\ f[i] = f[j] /\ f[i] \in DOMAIN t BY <2>1, <2>5, <1>8, <1>12, <1>14
    <3>2. f[i] \in Nat /\ i \in Nat /\ j \in Nat BY <3>1, <1>1, <1>13
    <3>3. ~(f[i] < f[j]) /\ ~(f[j] < f[i]) BY <3>1, <3>2
    <3>4. ~(i < j) /\ ~(j < i) BY <3>1, <3>3, <1>12
    <3>5. QED BY <3>2, <3>4
  <2>10. PlacesOf(c, k) = {j} BY <2>8, <2>9
  <2>11. Has(c, k) BY <2>8 DEF Has
  <2>12. FirstAt(c, k) = j BY <2>10, <2>11, <1>10, KeyEntries
  <2>13. EntriesOf(c, k)[1] = c[j] BY <2>11, <2>12, <1>10, KeyEntries
  <2>14. Len(EntriesOf(c, k)) = 1
    <3>1. Len(EntriesOf(c, k)) = Cardinality(PlacesOf(c, k)) BY <1>10, KeyEntries
    <3>2. QED BY <3>1, <2>10, FS_Singleton
  <2>15. JoinedOf(t, k) \in Texts BY <2>2, <2>3, LeftText
  <2>16. QED BY <2>7, <2>13, <2>14, <2>15
<1>17. QED BY <1>5, <1>10, <1>15, <1>16

LEMMA MgetAfterCompress ==
  ASSUME NEW t \in Seq(Entries), \A e \in ToSet(t) : Scanned(e.val) = e.val, NEW k
  PROVE  tableMget(tableCompress(t), k) = tableMget(t, k)
<1>1. PICK c \in Seq(Entries) : c = tableCompress(t) BY Compressed
<1>2. CASE ~Has(t, k)
  <2>1. EntriesOf(c, k) = <<>> BY <1>1, <1>2, Compressed
  <2>2. EntriesOf(t, k) = <<>> BY <1>2, KeyEntries
  <2>3. QED BY <2>1, <2>2, <1>1 DEF tableMget
<1>3. CASE Has(t, k)
  <2>1. /\ Len(EntriesOf(c, k)) = 1 /\ EntriesOf(c, k)[1].val = JoinedOf(t, k)
        /\ JoinedOf(t, k) \in Texts
    BY <1>1, <1>3, Compressed
  <2>2. PICK n, h :
           /\ n \in Nat /\ n = Len(EntriesOf(c, k))
           /\ \A i \in 1 .. n : h[i] = tableMgetCB(EntriesOf(c, k)[i].val)
           /\ \A i \in 1 .. n : h[i] \in Seq(Items)
           /\ tableMget(c, k) = Joins(h, n)
    BY <1>1, MgetParts
  <2>3. n = 1 /\ 1 \in 1 .. n BY <2>1, <2>2
  <2>4. h[1] = tableMgetCB(JoinedOf(t, k)) /\ h[1] \in Seq(Items) BY <2>1, <2>2, <2>3
  <2>5. tableMget(c, k) = h[1] BY <2>2, <2>3, <2>4, JoinsOne
  <2>6. tableMgetCB(JoinedOf(t, k)) = tableMget(t, k) BY <1>3, MgetJoined
  <2>7. QED BY <2>4, <2>5, <2>6, <1>1
<1>4. QED BY <1>2, <1>3

(* The keys of the first entries. *)
KeysOf(t, n) == {t[i].key : i \in 1 .. n}

HasKeys(t, n, ks) == ks \in Seq(Keys) /\ IsInjective(ks) /\ \A x : In(x, ks) <=> x \in KeysOf(t, n)

LEMMA KeysNext ==
  ASSUME NEW t \in Seq(Entries), NEW n \in Nat, n + 1 \in 1 .. Len(t), NEW ks, HasKeys(t, n, ks)
  PROVE  HasKeys(t, n + 1, tableKeysCB(ks, t[n + 1].key))
<1>1. PICK x \in Keys : x = t[n + 1].key
  <2>1. t[n + 1] \in Entries OBVIOUS
  <2>2. QED BY <2>1 DEF Entries
<1>2. KeysOf(t, n + 1) = KeysOf(t, n) \cup {x}
  <2>1. 1 .. n + 1 = (1 .. n) \cup {n + 1} OBVIOUS
  <2>2. QED BY <2>1, <1>1 DEF KeysOf
<1>3. ks \in Seq(Keys) /\ IsInjective(ks) /\ \A y : In(y, ks) <=> y \in KeysOf(t, n) BY DEF HasKeys
<1>4. Contains(ks, x) <=> In(x, ks) BY <1>3, InElements
<1>5. CASE In(x, ks)
  <2>1. tableKeysCB(ks, x) = ks BY <1>4, <1>5 DEF tableKeysCB
  <2>2. KeysOf(t, n + 1) = KeysOf(t, n) BY <1>2, <1>3, <1>5
  <2>3. QED BY <2>1, <2>2, <1>1 DEF HasKeys
<1>6. CASE ~In(x, ks)
  <2>1. tableKeysCB(ks, x) = Append(ks, x) BY <1>4, <1>6 DEF tableKeysCB
  <2>2. PICK a : a = Append(ks, x) OBVIOUS
  <2>3. a \in Seq(Keys) /\ IsInjective(a) /\ \A y : In(y, a) <=> y = x \/ In(y, ks)
    BY <2>2, <1>3, <1>6, AppendSeq
  <2>4. \A y : In(y, a) <=> y \in KeysOf(t, n + 1) BY <2>3, <1>2, <1>3
  <2>5. QED BY <2>1, <2>2, <2>3, <2>4, <1>1 DEF HasKeys
<1>7. QED BY <1>5, <1>6

(* The function that tableKeys() is defined with, up to n entries. *)
KeysUpTo(t, n, f) ==
  f = [i \in 0 .. n |-> IF i = 0 THEN <<>> ELSE tableKeysCB(f[i - 1], t[i].key)]

LEMMA KeysUpToExists == ASSUME NEW t, NEW n \in Nat PROVE \E f : KeysUpTo(t, n, f)
<1> DEFINE N == {k \in Nat : \E f : KeysUpTo(t, k, f)}
<1>1. 0 \in N
  <2>1. KeysUpTo(t, 0, [i \in 0 .. 0 |-> <<>>]) BY DEF KeysUpTo
  <2>2. QED BY <2>1
<1>2. ASSUME NEW k \in N PROVE k + 1 \in N
  <2>1. PICK f : KeysUpTo(t, k, f) OBVIOUS
  <2> DEFINE x == tableKeysCB(f[k], t[k + 1].key)
             g == [i \in 0 .. k + 1 |-> IF i = k + 1 THEN x ELSE f[i]]
  <2>2. \A i \in 0 .. k : f[i] = IF i = 0 THEN <<>> ELSE tableKeysCB(f[i - 1], t[i].key)
    BY <2>1 DEF KeysUpTo
  <2>3. \A i \in 0 .. k + 1 : g[i] = IF i = 0 THEN <<>> ELSE tableKeysCB(g[i - 1], t[i].key)
    <3> TAKE i \in 0 .. k + 1
    <3>1. CASE i = k + 1
      <4>1. i # 0 /\ i - 1 = k /\ k \in 0 .. k + 1 /\ k # k + 1 BY <3>1
      <4>2. g[i] = x /\ g[i - 1] = f[k] BY <4>1, <3>1
      <4>3. QED BY <4>1, <4>2, <3>1
    <3>2. CASE i \in 0 .. k
      <4>1. g[i] = f[i] /\ (i # 0 => g[i - 1] = f[i - 1]) BY <3>2
      <4>2. QED BY <4>1, <3>2, <2>2
    <3>3. QED BY <3>1, <3>2
  <2>4. g = [i \in 0 .. k + 1 |-> IF i = 0 THEN <<>> ELSE tableKeysCB(g[i - 1], t[i].key)]
    <3>1. DOMAIN g = 0 .. k + 1 OBVIOUS
    <3>2. g = [i \in 0 .. k + 1 |-> g[i]] OBVIOUS
    <3> HIDE DEF g
    <3> QED BY <3>1, <3>2, <2>3
  <2>5. KeysUpTo(t, k + 1, g)
    <3> HIDE DEF g
    <3> QED BY <2>4 DEF KeysUpTo
  <2>6. QED BY <2>5
<1>3. N = Nat
  <2>1. N \in SUBSET Nat OBVIOUS
  <2> HIDE DEF N
  <2> QED BY <1>1, <1>2, <2>1, SetInduction
<1>4. QED BY <1>3

(* keys() has each key of the table once. *)
LEMMA KeysOfTable == ASSUME NEW t \in Seq(Entries) PROVE HasKeys(t, Len(t), tableKeys(t))
<1>1. PICK n \in Nat : n = Len(t) BY LenProperties
<1> DEFINE f == CHOOSE g : KeysUpTo(t, n, g)
<1>2. KeysUpTo(t, n, f) BY KeysUpToExists
<1>3. tableKeys(t) = f[n] BY <1>1 DEF tableKeys, KeysUpTo
<1> HIDE DEF f
<1>4. \A i \in 0 .. n : f[i] = IF i = 0 THEN <<>> ELSE tableKeysCB(f[i - 1], t[i].key)
  BY <1>2 DEF KeysUpTo
<1> DEFINE T == {k \in 0 .. n : HasKeys(t, k, f[k])}
<1>5. 0 \in T
  <2>1. f[0] = <<>> BY <1>4
  <2>2. KeysOf(t, 0) = {} BY DEF KeysOf
  <2>3. <<>> \in Seq(Keys) /\ IsInjective(<<>>) /\ \A x : ~In(x, <<>>) BY NoneIn, ShortInjective
  <2>4. PICK e : e = <<>> OBVIOUS
  <2>5. HasKeys(t, 0, e) BY <2>2, <2>3, <2>4, Zenon DEF HasKeys
  <2>6. QED BY <2>1, <2>4, <2>5
<1>6. ASSUME NEW k \in 0 .. n, k # n, k \in T PROVE k + 1 \in T
  <2>1. k \in Nat /\ k + 1 \in 1 .. Len(t) /\ k + 1 \in 0 .. n /\ (k + 1) - 1 = k /\ k + 1 # 0 BY <1>1, <1>6
  <2>2. HasKeys(t, k + 1, tableKeysCB(f[k], t[k + 1].key)) BY <2>1, <1>6, KeysNext
  <2>3. f[k + 1] = tableKeysCB(f[k], t[k + 1].key) BY <2>1, <1>4
  <2>4. QED BY <2>1, <2>2, <2>3
<1>7. n \in T
  <2> HIDE DEF T
  <2>1. 0 .. n \subseteq T BY <1>5, <1>6, BoundInduction
  <2>2. QED BY <2>1
<1>8. QED BY <1>1, <1>3, <1>7

LEMMA RawMgetOf ==
  ASSUME NEW t \in Seq(Entries), NEW k
  PROVE  /\ tableRawMget(t, k) \in Seq(Texts)
         /\ Len(tableRawMget(t, k)) = Cardinality(PlacesOf(t, k))
         /\ \A j \in PlacesOf(t, k) : Contains(tableRawMget(t, k), t[j].val)
<1>1. PICK es \in Seq(Entries) : es = EntriesOf(t, k) BY KeyEntries
<1>2. PICK n \in Nat : n = Len(es) /\ DOMAIN es = 1 .. n /\ \A i \in 1 .. n : es[i] \in Entries BY LenProperties
<1>3. \A i \in 1 .. n : es[i].val \in Texts BY <1>2 DEF Entries
<1>4. PICK vs : vs = [i \in 1 .. n |-> es[i].val] OBVIOUS
<1>5. vs = tableRawMget(t, k) BY <1>1, <1>2, <1>4 DEF tableRawMget
<1>6. vs \in Seq(Texts) /\ Len(vs) = n BY <1>3, <1>4
<1>7. n = Cardinality(PlacesOf(t, k)) BY <1>1, <1>2, KeyEntries
<1>8. ASSUME NEW j \in PlacesOf(t, k) PROVE Contains(vs, t[j].val)
  <2>1. In(t[j], es) BY <1>1, KeyEntries
  <2>2. PICK i \in 1 .. n : es[i] = t[j] BY <2>1, <1>2 DEF In
  <2>3. vs[i] = t[j].val /\ i \in DOMAIN vs BY <2>2, <1>4
  <2>4. In(t[j].val, vs) BY <2>3 DEF In
  <2>5. QED BY <2>4, <1>6, InElements
<1>9. QED BY <1>5, <1>6, <1>7, <1>8

(* The places of the first keys. *)
PlacesOfKeys(t, ks, n) == UNION {PlacesOf(t, ks[i]) : i \in 1 .. n}

(* If no two keys differ in case only, what raw_mget() finds for all keys  *)
(* is as much as there are entries.                                        *)
LEMMA FoundOnce ==
  ASSUME NEW t \in Seq(Entries), NEW ks, HasKeys(t, Len(t), ks),
         IsInjective([i \in DOMAIN ks |-> CaseOf[ks[i]]])
  PROVE  Len(FlattenSeq([i \in DOMAIN ks |-> tableRawMget(t, ks[i])])) = Len(t)
<1>1. PICK n \in Nat : n = Len(ks) /\ DOMAIN ks = 1 .. n /\ \A i \in 1 .. n : ks[i] \in Keys
  BY LenProperties DEF HasKeys
<1>2. PICK h : h = [i \in 1 .. n |-> tableRawMget(t, ks[i])] OBVIOUS
<1>3. \A i \in 1 .. n : h[i] \in Seq(Texts) /\ Len(h[i]) = Cardinality(PlacesOf(t, ks[i]))
  BY <1>2, RawMgetOf
<1>4. /\ Joins(h, 0) = <<>>
      /\ \A k \in 0 .. n : Joins(h, k) \in Seq(Texts)
      /\ \A k \in 1 .. n : Joins(h, k) = Cat(Joins(h, k - 1), h[k])
  <2>1. \A i \in 1 .. n : h[i] \in Seq(Texts) BY <1>3
  <2>2. QED BY <2>1, JoinsSteps
<1>5. ASSUME NEW i \in 1 .. n, NEW j \in 1 .. n, i # j
      PROVE  PlacesOf(t, ks[i]) \cap PlacesOf(t, ks[j]) = {}
  <2>1. CaseOf[ks[i]] # CaseOf[ks[j]] BY <1>1, <1>5 DEF IsInjective
  <2>2. QED BY <2>1 DEF PlacesOf, SameKey
<1> DEFINE U(k) == PlacesOfKeys(t, ks, k)
           T == {k \in 0 .. n : IsFiniteSet(U(k)) /\ Len(Joins(h, k)) = Cardinality(U(k))}
<1>6. 0 \in T
  <2>1. U(0) = {} BY DEF PlacesOfKeys
  <2>2. QED BY <2>1, <1>4, FS_EmptySet
<1>7. ASSUME NEW k \in 0 .. n, k # n, k \in T PROVE k + 1 \in T
  <2>1. k \in Nat /\ k + 1 \in 1 .. n /\ k + 1 \in 0 .. n /\ (k + 1) - 1 = k BY <1>7
  <2>2. PICK P : P = PlacesOf(t, ks[k + 1]) /\ IsFiniteSet(P) BY KeyEntries
  <2>3. U(k + 1) = U(k) \cup P
    <3>1. 1 .. k + 1 = (1 .. k) \cup {k + 1} BY <2>1
    <3>2. QED BY <3>1, <2>2 DEF PlacesOfKeys
  <2>4. U(k) \cap P = {}
    <3>1. \A i \in 1 .. k : i \in 1 .. n /\ i # k + 1 BY <2>1
    <3>2. ASSUME NEW i \in 1 .. k PROVE PlacesOf(t, ks[i]) \cap P = {} BY <3>1, <2>1, <2>2, <1>5
    <3>3. QED BY <3>2 DEF PlacesOfKeys
  <2>5. IsFiniteSet(U(k)) /\ Len(Joins(h, k)) = Cardinality(U(k)) BY <1>7
  <2>6. PICK A : A = U(k) OBVIOUS
  <2>7. /\ IsFiniteSet(A \cup P)
        /\ Cardinality(A \cup P) = Cardinality(A) + Cardinality(P) - Cardinality(A \cap P)
    <3>1. IsFiniteSet(A) BY <2>5, <2>6
    <3>2. QED BY <3>1, <2>2, FS_Union
  <2>8. Cardinality(A \cap P) = 0 BY <2>4, <2>6, FS_EmptySet
  <2>9. Cardinality(A) \in Nat /\ Cardinality(P) \in Nat
    <3>1. IsFiniteSet(A) BY <2>5, <2>6
    <3>2. QED BY <3>1, <2>2, FS_CardinalityType
  <2>10. Len(Joins(h, k + 1)) = Len(Joins(h, k)) + Len(h[k + 1])
    <3>1. Joins(h, k) \in Seq(Texts) /\ h[k + 1] \in Seq(Texts) BY <2>1, <1>3, <1>4
    <3>2. Joins(h, k + 1) = Joins(h, k) \o h[k + 1] BY <2>1, <1>4 DEF Cat
    <3>3. QED BY <3>1, <3>2, ConcatProperties
  <2>11. Len(h[k + 1]) = Cardinality(P) BY <2>1, <2>2, <1>3
  <2>12. Len(Joins(h, k + 1)) = Cardinality(A \cup P) BY <2>5, <2>6, <2>7, <2>8, <2>9, <2>10, <2>11
  <2>13. U(k + 1) = A \cup P BY <2>3, <2>6
  <2> HIDE DEF U
  <2>14. QED BY <2>1, <2>7, <2>12, <2>13
<1>8. n \in T
  <2> HIDE DEF T
  <2>1. 0 .. n \subseteq T BY <1>6, <1>7, BoundInduction
  <2>2. QED BY <2>1
<1>9. U(n) = 1 .. Len(t)
  <2>1. DOMAIN t = 1 .. Len(t) BY LenProperties
  <2>2. \A i \in 1 .. n : PlacesOf(t, ks[i]) \subseteq 1 .. Len(t) BY <2>1 DEF PlacesOf
  <2>3. ASSUME NEW j \in 1 .. Len(t) PROVE \E i \in 1 .. n : j \in PlacesOf(t, ks[i])
    <3>1. t[j].key \in KeysOf(t, Len(t)) BY DEF KeysOf
    <3>2. In(t[j].key, ks) BY <3>1 DEF HasKeys
    <3>3. PICK i \in 1 .. n : ks[i] = t[j].key BY <3>2, <1>1 DEF In
    <3>4. QED BY <3>3, <2>1 DEF PlacesOf, SameKey
  <2>4. QED BY <2>2, <2>3 DEF PlacesOfKeys
<1>10. Cardinality(1 .. Len(t)) = Len(t)
  <2>1. PICK l \in Nat : l = Len(t) BY LenProperties
  <2>2. Cardinality(1 .. l) = IF 1 > l THEN 0 ELSE l - 1 + 1 BY FS_Interval
  <2>3. QED BY <2>1, <2>2
<1>11. FlattenSeq([i \in DOMAIN ks |-> tableRawMget(t, ks[i])]) = Joins(h, n)
  <2>1. [i \in 1 .. n |-> h[i]] = h BY <1>2
  <2>2. QED BY <2>1, <1>1, <1>2 DEF Joins
<1>12. Len(Joins(h, n)) = Cardinality(U(n)) BY <1>8
<1>13. QED BY <1>9, <1>10, <1>11, <1>12

(* What the calls that read a table find. *)
LEMMA TableReads ==
  ASSUME NEW t \in Seq(Entries)
  PROVE  /\ IsInjective(tableKeys(t))
         /\ \A e \in ToSet(t) : Contains(tableKeys(t), e.key) /\ Contains(tableRawMget(t, e.key), e.val)
         /\ IsInjective([i \in DOMAIN tableKeys(t) |-> CaseOf[tableKeys(t)[i]]])
              => Len(FlattenSeq([i \in DOMAIN tableKeys(t) |-> tableRawMget(t, tableKeys(t)[i])])) = tableLen(t)
<1>1. PICK ks : ks = tableKeys(t) OBVIOUS
<1>2. HasKeys(t, Len(t), ks) BY <1>1, KeysOfTable
<1>3. ks \in Seq(Keys) /\ IsInjective(ks) /\ \A x : In(x, ks) <=> x \in KeysOf(t, Len(t)) BY <1>2 DEF HasKeys
<1>4. ASSUME NEW e \in ToSet(t)
      PROVE  Contains(ks, e.key) /\ Contains(tableRawMget(t, e.key), e.val)
  <2>1. DOMAIN t = 1 .. Len(t) BY LenProperties
  <2>2. PICK j \in DOMAIN t : t[j] = e BY DEF ToSet
  <2>3. e.key \in KeysOf(t, Len(t)) BY <2>1, <2>2 DEF KeysOf
  <2>4. Contains(ks, e.key) BY <2>3, <1>3, InElements
  <2>5. j \in PlacesOf(t, e.key) BY <2>2 DEF PlacesOf, SameKey
  <2>6. QED BY <2>2, <2>4, <2>5, RawMgetOf
<1>5. IsInjective([i \in DOMAIN ks |-> CaseOf[ks[i]]])
        => Len(FlattenSeq([i \in DOMAIN ks |-> tableRawMget(t, ks[i])])) = tableLen(t)
  BY <1>2, FoundOnce DEF tableLen
<1>6. QED BY <1>1, <1>3, <1>4, <1>5

(***************************************************************************)
(* The inductive invariant, of any pools, objects and calls.               *)
(***************************************************************************)
PoolCall(p) == <<"apr_pool_destroy", p>>
DeleteCall(o) == <<"delete", o>>
DtorCall(o) == <<"~PoolAllocated", o>>
ClearCall(o) == <<"clear", o>>

ObjectCalls(o) == {DeleteCall(o), DtorCall(o), ClearCall(o)}

Alive(ps, p) == ps[p] # None
Made(os, o) == os[o] # None
Up(ps, p) == ps[p].above

(* The calls of an object, and the object a call is of. *)
OnObject(c) == \E o \in Objs : c \in ObjectCalls(o)
PoolOf(os, c) == IF c[1] = "apr_pool_destroy" THEN c[2] ELSE os[c[2]].objPool

Going(w, p) == In(PoolCall(p), w)
Busy(w, o) == In(DeleteCall(o), w) \/ In(DtorCall(o), w) \/ In(ClearCall(o), w)

Registered(os, o) == os[o].destroyerPool # None
Elem(os, c, o) == In(o, os[c].elems)
Owns(os, c, o) == Made(os, c) /\ Elem(os, c, o)

(* A pool whose objects still wait for its cleanups. *)
Keeps(os, p) == \E o \in Objs : Made(os, o) /\ os[o].destroyerPool = p

(* A pool that goes, after its cleanups. *)
Emptied(os, w, p) == Going(w, p) /\ ~Keeps(os, p)

Typed(ps, os, w) ==
  /\ ps \in [Pools -> PoolTypes \cup {None}]
  /\ os \in [Objs -> ObjTypes \cup {None}]
  /\ w \in Seq(Calls)

(* The pools are a tree. *)
Tree(ps) ==
  \A p \in Pools : Alive(ps, p) =>
    /\ p \in Up(ps, p) /\ pconf \in Up(ps, p)
    /\ \A q \in Up(ps, p) :
         /\ Alive(ps, q) /\ Up(ps, q) \subseteq Up(ps, p)
         /\ p \in Up(ps, q) => p = q
         /\ q # p => \E r \in Up(ps, p) : In(r, ps[q].child)
    /\ IsInjective(ps[p].child)
    /\ \A r \in Pools : In(r, ps[p].child) =>
         Alive(ps, r) /\ Up(ps, r) = {r} \cup Up(ps, p) /\ r \notin Up(ps, p)

(* An object is in its pool or in one of its own below. *)
Placed(ps, os, o) ==
  /\ Alive(ps, os[o].objPool) /\ Alive(ps, os[o].pool)
  /\ os[o].pool # subPool(o)
  /\ \/ os[o].objPool = os[o].pool /\ ~os[o].usage
     \/ os[o].objPool = subPool(o) /\ Up(ps, subPool(o)) = {subPool(o)} \cup Up(ps, os[o].pool)
  /\ os[o].kind # "TmpPool" => os[o].tmp = None
  /\ os[o].kind = "TmpPool" =>
       /\ os[o].tmp = tmpPool(o)
       /\ Alive(ps, tmpPool(o)) =>
            /\ Up(ps, tmpPool(o)) = {tmpPool(o)} \cup Up(ps, os[o].objPool)
            /\ tmpPool(o) \notin Up(ps, os[o].objPool)
  /\ os[o].kind \notin Owners => os[o].elems = <<>>
  /\ \A x : In(x, os[o].strs) => x \in Up(ps, os[o].objPool)

AllPlaced(ps, os) == \A o \in Objs : Made(os, o) => Placed(ps, os, o)

(* A cleanup is that of an object that exists, and the other way round     *)
(* unless the object is being deleted.                                     *)
CleanupsSound(ps, os, w) ==
  /\ \A p \in Pools : Alive(ps, p) =>
       /\ IsInjective(ps[p].cleanups)
       /\ \A o \in Objs : In(o, ps[p].cleanups) => Made(os, o) /\ os[o].destroyerPool = p
  /\ \A o \in Objs : Made(os, o) /\ Registered(os, o) =>
       /\ os[o].destroyerPool = os[o].objPool
       /\ os[o].managed
       /\ Busy(w, o) \/ In(o, ps[os[o].objPool].cleanups)

(* What keeps the pool of an object, or of the users of a TmpPool. *)
PoolsOwned(ps, os, w) ==
  \A o \in Objs :
    /\ Alive(ps, subPool(o)) =>
         Going(w, subPool(o)) \/ (Made(os, o) /\ os[o].objPool = subPool(o) /\ os[o].usage)
    /\ Alive(ps, tmpPool(o)) =>
         Going(w, tmpPool(o)) \/ (Made(os, o) /\ os[o].kind = "TmpPool" /\ os[o].dtors = 0)

(* An object o that is being deleted, and a call that waits for that and   *)
(* is not of o.                                                            *)
ObjectAbove(ps, os, o, b) ==
  /\ os[o].usage => os[o].objPool \notin Up(ps, PoolOf(os, b))
  /\ Registered(os, o) /\ os[o].objPool \in Up(ps, PoolOf(os, b)) => b = PoolCall(os[o].objPool)
  /\ os[o].kind # "plain" =>
       /\ \A q \in Up(ps, PoolOf(os, b)) :
            os[o].objPool \in Up(ps, q) /\ q # os[o].objPool => OnObject(b) /\ q = subPool(b[2])
       /\ b = PoolCall(os[o].objPool) => Keeps(os, os[o].objPool)
  /\ OnObject(b) => ~Elem(os, o, b[2])

(* Call a, and call b that waits for it. *)
CanBeAbove(ps, os, a, b) ==
  /\ OnObject(a) /\ OnObject(b) /\ a[2] = b[2] => a = ClearCall(b[2]) /\ b = DtorCall(b[2])
  /\ ~OnObject(a) => a[2] \notin Up(ps, PoolOf(os, b))
  /\ OnObject(a) /\ ~(OnObject(b) /\ a[2] = b[2]) => ObjectAbove(ps, os, a[2], b)
  /\ ~OnObject(b) /\ (OnObject(a) => os[a[2]].kind # "plain" \/ os[a[2]].usage) => b[2] \in Up(ps, PoolOf(os, a))

MayStand(ps, os) == {e \in Calls \X Calls : CanBeAbove(ps, os, e[1], e[2])}

(* Why a pool goes. *)
HasReason(ps, os, w, p) ==
  \/ p = pconf
  \/ \E i \in Recs : p = recordPool(i)
  \/ \E o \in Objs : p = subPool(o) /\ ~Made(os, o)
  \/ \E o \in Objs : p = tmpPool(o) /\ In(DtorCall(o), w) /\ os[o].kind = "TmpPool"
  \/ \E r \in Pools : Emptied(os, w, r) /\ Alive(ps, r) /\ In(p, ps[r].child)

CallsSound(ps, os, w) ==
  /\ \A o \in Objs :
       /\ In(DeleteCall(o), w) => Made(os, o) /\ os[o].dtors = 0
       /\ In(DtorCall(o), w) => Made(os, o) /\ os[o].dtors = 1
       /\ In(ClearCall(o), w) => Made(os, o) /\ os[o].kind = "StrPtrMap" /\ In(DtorCall(o), w)
       /\ Made(os, o) => os[o].dtors = 0 \/ In(DtorCall(o), w)
  /\ \A p \in Pools : Going(w, p) => Alive(ps, p) /\ HasReason(ps, os, w, p)

(* Its elements are still to be deleted. *)
Ready(os, w, c) == os[c].dtors = 0 \/ In(ClearCall(c), w)

ContainerSound(ps, os, w, c) ==
  /\ IsInjective(os[c].elems)
  /\ os[c].kind = "TmpPool" /\ os[c].dtors = 0 => Alive(ps, tmpPool(c)) \/ Emptied(os, w, os[c].objPool)

(* Container c and what it points to. *)
ElementSound(os, w, c, o) ==
  /\ \A d \in Objs : Owns(os, d, o) => d = c
  /\ Made(os, o) =>
       /\ ~Registered(os, o) /\ os[o].managed = os[c].managed
       /\ \/ os[o].pool = os[c].objPool
          \/ os[o].pool = os[c].pool /\ os[o].objPool = os[c].pool /\ os[o].kind = "plain" /\ ~os[o].usage
  /\ Ready(os, w, c) /\ ~Emptied(os, w, os[c].objPool) => Made(os, o) /\ os[o].dtors = 0 /\ ~Busy(w, o)
  /\ ~Ready(os, w, c) /\ Made(os, o) => Busy(w, o)

OwnersSound(ps, os, w) ==
  /\ \A c \in Objs : Made(os, c) => ContainerSound(ps, os, w, c)
  /\ \A c, o \in Objs : Owns(os, c, o) => ElementSound(os, w, c, o)

(* No container owns itself, by whatever others. *)
Acyclic(os) == \A X \in SUBSET Objs : X # {} => \E o \in X : \A c \in X : ~Owns(os, c, o)

(* An object with its container in another pool than its own. *)
Elsewhere(os, o) ==
  /\ os[o].kind = "plain"
  /\ \E c \in Objs : Owns(os, c, o) /\ os[c].pool = os[o].objPool /\ os[c].objPool # os[o].objPool

(* Who deletes an object that is to be deleted. *)
ManagedSound(os, w) ==
  \A o \in Objs : Made(os, o) /\ os[o].managed =>
    /\ Registered(os, o) \/ Busy(w, o) \/ \E c \in Objs : Owns(os, c, o)
    /\ Emptied(os, w, os[o].objPool) => (os[o].kind = "plain" /\ Busy(w, o)) \/ Elsewhere(os, o)

Standing(ps, os, w) ==
  /\ Typed(ps, os, w)
  /\ Tree(ps)
  /\ AllPlaced(ps, os)
  /\ CleanupsSound(ps, os, w)
  /\ Ordered(w, MayStand(ps, os))
  /\ CallsSound(ps, os, w)
  /\ OwnersSound(ps, os, w)
  /\ Acyclic(os)
  /\ ManagedSound(os, w)

Sound(ps, os, w) == Standing(ps, os, w) /\ PoolsOwned(ps, os, w)

(***************************************************************************)
(* Names, calls and types                                                  *)
(***************************************************************************)
LEMMA PoolNames ==
  /\ pconf \in Pools
  /\ \A i \in Recs : recordPool(i) \in Pools /\ recordPool(i) # pconf
  /\ \A i, j \in Recs : recordPool(i) = recordPool(j) => i = j
  /\ \A o \in Objs : subPool(o) \in Pools /\ tmpPool(o) \in Pools /\ subPool(o) # pconf /\ tmpPool(o) # pconf
  /\ \A o, x \in Objs : /\ subPool(o) = subPool(x) => o = x
                        /\ tmpPool(o) = tmpPool(x) => o = x
                        /\ subPool(o) # tmpPool(x)
  /\ \A o \in Objs, i \in Recs : recordPool(i) # subPool(o) /\ recordPool(i) # tmpPool(o)
BY DEF Pools, pconf, recordPool, subPool, tmpPool

LEMMA PoolKinds ==
  ASSUME NEW p \in Pools
  PROVE  \/ p = pconf
         \/ \E i \in Recs : p = recordPool(i)
         \/ \E o \in Objs : p = subPool(o) \/ p = tmpPool(o)
BY DEF Pools, pconf, recordPool, subPool, tmpPool

LEMMA NoNone ==
  /\ None \notin Pools /\ None \notin Objs /\ None \notin Recs
  /\ None \notin PoolTypes /\ None \notin ObjTypes
BY NoneAssumption

LEMMA CallNames ==
  /\ \A o \in Objs : /\ DeleteCall(o) \in Calls /\ DtorCall(o) \in Calls /\ ClearCall(o) \in Calls
                     /\ DeleteCall(o) # DtorCall(o) /\ DeleteCall(o) # ClearCall(o) /\ DtorCall(o) # ClearCall(o)
  /\ \A p \in Pools : PoolCall(p) \in Calls /\ ~OnObject(PoolCall(p))
  /\ \A p, q : PoolCall(p) = PoolCall(q) => p = q
  /\ \A o, x : \A a \in ObjectCalls(o) : a \in ObjectCalls(x) => o = x
  /\ \A o, p : PoolCall(p) \notin ObjectCalls(o)
  /\ \A o : \A a \in ObjectCalls(o) : a[2] = o
  /\ \A o \in Objs : \A a \in ObjectCalls(o) : a \in Calls /\ OnObject(a)
  /\ \A p : PoolCall(p)[2] = p
BY DEF Calls, PoolCall, DeleteCall, DtorCall, ClearCall, ObjectCalls, OnObject

LEMMA CallKinds ==
  ASSUME NEW c \in Calls
  PROVE  \/ \E o \in Objs : c \in ObjectCalls(o)
         \/ \E p \in Pools : c = PoolCall(p)
BY DEF Calls, PoolCall, DeleteCall, DtorCall, ClearCall, ObjectCalls

LEMMA CallPools ==
  /\ \A os, p : PoolOf(os, PoolCall(p)) = p
  /\ \A os, o : \A a \in ObjectCalls(o) : PoolOf(os, a) = os[o].objPool
BY DEF PoolOf, PoolCall, DeleteCall, DtorCall, ClearCall, ObjectCalls

(* An object o that is being called, and a call that waits for it and is   *)
(* not of o.                                                               *)
StandsOver(ps, os, o, b) ==
  /\ ObjectAbove(ps, os, o, b)
  /\ \A p : b = PoolCall(p) /\ (os[o].kind # "plain" \/ os[o].usage) => p \in Up(ps, os[o].objPool)

LEMMA ObjectStands ==
  ASSUME NEW ps, NEW os, NEW o \in Objs, NEW a \in ObjectCalls(o), NEW b \in Calls
  PROVE  /\ <<a, b>> \in MayStand(ps, os) /\ b \in ObjectCalls(o) => a = ClearCall(o) /\ b = DtorCall(o)
         /\ b \notin ObjectCalls(o) => (<<a, b>> \in MayStand(ps, os) <=> StandsOver(ps, os, o, b))
         /\ <<ClearCall(o), DtorCall(o)>> \in MayStand(ps, os)
<1>1. a \in Calls /\ OnObject(a) /\ a[2] = o BY CallNames
<1>2. \A c, d : <<c, d>> \in MayStand(ps, os) <=> c \in Calls /\ d \in Calls /\ CanBeAbove(ps, os, c, d)
  BY DEF MayStand
<1>3. ASSUME <<a, b>> \in MayStand(ps, os), b \in ObjectCalls(o) PROVE a = ClearCall(o) /\ b = DtorCall(o)
  BY <1>1, <1>2, <1>3, CallNames DEF CanBeAbove
<1>4. ASSUME b \notin ObjectCalls(o) PROVE CanBeAbove(ps, os, a, b) <=> StandsOver(ps, os, o, b)
  <2>1. ~(OnObject(b) /\ a[2] = b[2]) BY <1>1, <1>4, CallNames DEF OnObject
  <2>2. PoolOf(os, a) = os[o].objPool BY CallPools
  <2>3. (\E p : b = PoolCall(p)) <=> ~OnObject(b) BY CallKinds, CallNames
  <2>4. \A p : b = PoolCall(p) => b[2] = p BY CallNames
  <2>5. (~OnObject(b) /\ (os[o].kind # "plain" \/ os[o].usage) => b[2] \in Up(ps, os[o].objPool))
          <=> \A p : b = PoolCall(p) /\ (os[o].kind # "plain" \/ os[o].usage) => p \in Up(ps, os[o].objPool)
    BY <2>3, <2>4
  <2>6. CanBeAbove(ps, os, a, b)
          <=> /\ ObjectAbove(ps, os, o, b)
              /\ ~OnObject(b) /\ (os[o].kind # "plain" \/ os[o].usage) => b[2] \in Up(ps, os[o].objPool)
    BY <1>1, <2>1, <2>2 DEF CanBeAbove
  <2>7. QED BY <2>5, <2>6 DEF StandsOver
<1>5. CanBeAbove(ps, os, ClearCall(o), DtorCall(o))
  <2>1. /\ OnObject(ClearCall(o)) /\ OnObject(DtorCall(o))
        /\ ClearCall(o)[2] = o /\ DtorCall(o)[2] = o
    BY CallNames DEF ObjectCalls
  <2>2. QED BY <2>1 DEF CanBeAbove
<1>6. ClearCall(o) \in Calls /\ DtorCall(o) \in Calls BY CallNames
<1>7. QED BY <1>1, <1>2, <1>3, <1>4, <1>5, <1>6

LEMMA PoolStands ==
  ASSUME NEW ps, NEW os, NEW p \in Pools, NEW b \in Calls
  PROVE  <<PoolCall(p), b>> \in MayStand(ps, os)
           <=> p \notin Up(ps, PoolOf(os, b)) /\ \A q : b = PoolCall(q) => q \in Up(ps, p)
<1>1. PoolCall(p) \in Calls /\ ~OnObject(PoolCall(p)) /\ PoolCall(p)[2] = p BY CallNames
<1>2. PoolOf(os, PoolCall(p)) = p BY CallPools
<1>3. <<PoolCall(p), b>> \in MayStand(ps, os) <=> CanBeAbove(ps, os, PoolCall(p), b) BY <1>1 DEF MayStand
<1>4. CanBeAbove(ps, os, PoolCall(p), b) <=> p \notin Up(ps, PoolOf(os, b)) /\ (~OnObject(b) => b[2] \in Up(ps, p))
  BY <1>1, <1>2 DEF CanBeAbove
<1>5. (\E q : b = PoolCall(q)) <=> ~OnObject(b) BY CallKinds, CallNames
<1>6. \A q : b = PoolCall(q) => b[2] = q BY CallNames
<1>7. QED BY <1>3, <1>4, <1>5, <1>6

LEMMA TypedPools ==
  ASSUME NEW ps, NEW os, NEW w, Typed(ps, os, w), NEW p \in Pools, Alive(ps, p)
  PROVE  /\ ps[p] \in PoolTypes /\ Up(ps, p) \subseteq Pools
         /\ ps[p].child \in Seq(Pools) /\ \A x : In(x, ps[p].child) => x \in Pools
         /\ ps[p].cleanups \in Seq(Objs) /\ \A x : In(x, ps[p].cleanups) => x \in Objs
<1>1. ps[p] \in PoolTypes BY DEF Typed, Alive
<1>2. Up(ps, p) \subseteq Pools /\ ps[p].child \in Seq(Pools) /\ ps[p].cleanups \in Seq(Objs)
  BY <1>1 DEF PoolTypes, Up
<1>3. QED BY <1>1, <1>2, InElements

LEMMA TypedObjs ==
  ASSUME NEW ps, NEW os, NEW w, Typed(ps, os, w), NEW o \in Objs, Made(os, o)
  PROVE  /\ os[o] \in ObjTypes /\ os[o].kind \in Kinds
         /\ os[o].pool \in Pools /\ os[o].objPool \in Pools
         /\ os[o].usage \in BOOLEAN /\ os[o].managed \in BOOLEAN /\ os[o].dtors \in 0 .. 2
         /\ os[o].destroyerPool \in Pools \cup {None} /\ os[o].tmp \in Pools \cup {None}
         /\ os[o].elems \in Seq(Objs) /\ os[o].strs \in Seq(Pools)
         /\ \A x : Elem(os, o, x) => x \in Objs
<1>1. os[o] \in ObjTypes BY DEF Typed, Made
<1>2. os[o].elems \in Seq(Objs) /\ os[o].strs \in Seq(Pools) BY <1>1 DEF ObjTypes
<1>3. /\ os[o].kind \in Kinds /\ os[o].pool \in Pools /\ os[o].objPool \in Pools
      /\ os[o].usage \in BOOLEAN /\ os[o].managed \in BOOLEAN /\ os[o].dtors \in 0 .. 2
      /\ os[o].destroyerPool \in Pools \cup {None} /\ os[o].tmp \in Pools \cup {None}
  BY <1>1 DEF ObjTypes
<1>4. \A x : Elem(os, o, x) => x \in Objs BY <1>2, InElements DEF Elem
<1>5. QED BY <1>1, <1>2, <1>3, <1>4

LEMMA TypedCalls ==
  ASSUME NEW ps, NEW os, NEW w, Typed(ps, os, w), NEW c, In(c, w)
  PROVE  c \in Calls
BY InElements DEF Typed

(* The pools above one. *)
LEMMA TreeUp ==
  ASSUME NEW ps, NEW os, NEW w, Typed(ps, os, w), Tree(ps), NEW p \in Pools, Alive(ps, p), NEW q \in Up(ps, p)
  PROVE  /\ q \in Pools /\ Alive(ps, q) /\ Up(ps, q) \subseteq Up(ps, p) /\ q \in Up(ps, q)
         /\ p \in Up(ps, q) => p = q
<1>1. q \in Pools BY TypedPools
<1>2. Alive(ps, q) /\ Up(ps, q) \subseteq Up(ps, p) /\ (p \in Up(ps, q) => p = q) BY DEF Tree
<1>3. q \in Up(ps, q) BY <1>1, <1>2 DEF Tree
<1>4. QED BY <1>1, <1>2, <1>3

LEMMA TreeSelf ==
  ASSUME NEW ps, Tree(ps), NEW p \in Pools, Alive(ps, p)
  PROVE  p \in Up(ps, p) /\ pconf \in Up(ps, p)
BY DEF Tree

LEMMA TreeChild ==
  ASSUME NEW ps, NEW os, NEW w, Typed(ps, os, w), Tree(ps), NEW p \in Pools, Alive(ps, p), NEW r, In(r, ps[p].child)
  PROVE  r \in Pools /\ Alive(ps, r) /\ Up(ps, r) = {r} \cup Up(ps, p) /\ r \notin Up(ps, p) /\ r # p
<1>1. r \in Pools BY TypedPools
<1>2. Alive(ps, r) /\ Up(ps, r) = {r} \cup Up(ps, p) /\ r \notin Up(ps, p) BY <1>1 DEF Tree
<1>3. p \in Up(ps, p) BY TreeSelf
<1>4. QED BY <1>1, <1>2, <1>3

(* Where an object's pool is. *)
LEMMA PlacedUp ==
  ASSUME NEW ps, NEW os, NEW w, Typed(ps, os, w), Tree(ps), NEW o \in Objs, Made(os, o), Placed(ps, os, o)
  PROVE  /\ os[o].objPool \in Pools /\ os[o].pool \in Pools
         /\ Alive(ps, os[o].objPool) /\ Alive(ps, os[o].pool)
         /\ os[o].objPool \in Up(ps, os[o].objPool) /\ os[o].pool \in Up(ps, os[o].objPool)
         /\ os[o].pool # subPool(o)
         /\ os[o].usage => os[o].objPool = subPool(o)
         /\ os[o].objPool = os[o].pool \/ os[o].objPool = subPool(o)
         /\ os[o].objPool = subPool(o) =>
              Up(ps, subPool(o)) = {subPool(o)} \cup Up(ps, os[o].pool) /\ subPool(o) \notin Up(ps, os[o].pool)
<1>1. os[o].objPool \in Pools /\ os[o].pool \in Pools BY TypedObjs
<1>2. /\ Alive(ps, os[o].objPool) /\ Alive(ps, os[o].pool) /\ os[o].pool # subPool(o)
      /\ \/ os[o].objPool = os[o].pool /\ ~os[o].usage
         \/ os[o].objPool = subPool(o) /\ Up(ps, subPool(o)) = {subPool(o)} \cup Up(ps, os[o].pool)
  BY DEF Placed
<1>3. os[o].objPool \in Up(ps, os[o].objPool) /\ os[o].pool \in Up(ps, os[o].pool) BY <1>1, <1>2, TreeSelf
<1>4. os[o].pool \in Up(ps, os[o].objPool) BY <1>2, <1>3
<1>5. ASSUME os[o].objPool = subPool(o) PROVE subPool(o) \notin Up(ps, os[o].pool)
  BY <1>1, <1>2, <1>4, <1>5, TreeUp
<1>6. QED BY <1>1, <1>2, <1>3, <1>4, <1>5

(* The call t on top of rest. *)
Stacked(w, t, rest) ==
  /\ w \in Seq(Calls) /\ t \in Calls /\ rest \in Seq(Calls)
  /\ \A c : In(c, w) <=> c = t \/ In(c, rest)
  /\ \A R : Ordered(w, R) <=> Ordered(rest, R) /\ \A c : In(c, rest) => <<t, c>> \in R

LEMMA PushStacked == ASSUME NEW rest \in Seq(Calls), NEW t \in Calls PROVE Stacked(Cat(<<t>>, rest), t, rest)
<1>1. PICK w : w = Cat(<<t>>, rest) OBVIOUS
<1>2. /\ w \in Seq(Calls)
      /\ \A c : In(c, w) <=> c = t \/ In(c, rest)
      /\ \A R : Ordered(w, R) <=> Ordered(rest, R) /\ \A c : In(c, rest) => <<t, c>> \in R
  BY <1>1, ConsSeq
<1>3. QED BY <1>1, <1>2 DEF Stacked

LEMMA HeadStacked == ASSUME NEW w \in Seq(Calls), w # <<>> PROVE Stacked(w, Head(w), Tail(w))
BY TailSeq DEF Stacked

(* What a call of an object, and of a pool, stands over. *)
LEMMA ObjectOnTop ==
  ASSUME NEW ps, NEW os, NEW w, NEW t, NEW rest, Stacked(w, t, rest), Ordered(w, MayStand(ps, os)),
         NEW o \in Objs, t \in ObjectCalls(o), NEW b, In(b, rest)
  PROVE  /\ b \in ObjectCalls(o) => t = ClearCall(o) /\ b = DtorCall(o)
         /\ b \notin ObjectCalls(o) => StandsOver(ps, os, o, b)
<1>1. b \in Calls BY InElements DEF Stacked
<1>2. <<t, b>> \in MayStand(ps, os) BY DEF Stacked
<1>3. QED BY <1>1, <1>2, ObjectStands

LEMMA PoolOnTop ==
  ASSUME NEW ps, NEW os, NEW w, NEW p \in Pools, NEW rest, Stacked(w, PoolCall(p), rest),
         Ordered(w, MayStand(ps, os)), NEW b, In(b, rest)
  PROVE  p \notin Up(ps, PoolOf(os, b)) /\ \A q : b = PoolCall(q) => q \in Up(ps, p)
<1>1. b \in Calls BY InElements DEF Stacked
<1>2. <<PoolCall(p), b>> \in MayStand(ps, os) BY DEF Stacked
<1>3. QED BY <1>1, <1>2, PoolStands

(***************************************************************************)
(* What a step leaves of the calls that wait                               *)
(***************************************************************************)
Kept(os, os2, o) ==
  /\ Made(os, o) /\ Made(os2, o)
  /\ os2[o].kind = os[o].kind /\ os2[o].pool = os[o].pool /\ os2[o].objPool = os[o].objPool
  /\ os2[o].destroyerPool = os[o].destroyerPool /\ os2[o].managed = os[o].managed
  /\ os2[o].tmp = os[o].tmp /\ os2[o].strs = os[o].strs
  /\ os2[o].usage => os[o].usage
  /\ \A x : Elem(os2, o, x) => Elem(os, o, x)

SameUp(ps, ps2, p) == Up(ps2, p) = Up(ps, p) /\ \A q \in Up(ps, p) : Up(ps2, q) = Up(ps, q)

StillCalled(ps, os, ps2, os2, c) ==
  /\ SameUp(ps, ps2, PoolOf(os, c))
  /\ \A o \in Objs : c \in ObjectCalls(o) => Kept(os, os2, o)

(* The pools that waiting containers keep from being emptied. *)
StillKept(os, os2, w) ==
  \A o \in Objs : Busy(w, o) /\ Going(w, os[o].objPool) /\ os[o].kind # "plain" /\ Keeps(os, os[o].objPool)
                    => Keeps(os2, os[o].objPool)

LEMMA BusyCalls == ASSUME NEW w, NEW o PROVE Busy(w, o) <=> \E a \in ObjectCalls(o) : In(a, w)
BY DEF Busy, ObjectCalls

LEMMA SamePoolOf ==
  ASSUME NEW os, NEW os2, NEW c \in Calls, \A o \in Objs : c \in ObjectCalls(o) => os2[o].objPool = os[o].objPool
  PROVE  PoolOf(os2, c) = PoolOf(os, c)
<1>1. CASE \E o \in Objs : c \in ObjectCalls(o)
  <2>1. PICK o \in Objs : c \in ObjectCalls(o) BY <1>1
  <2>2. PoolOf(os, c) = os[o].objPool BY <2>1, CallPools, Zenon
  <2>3. PoolOf(os2, c) = os2[o].objPool BY <2>1, CallPools, Zenon
  <2>4. QED BY <2>1, <2>2, <2>3
<1>2. CASE \E p \in Pools : c = PoolCall(p) BY <1>2, CallPools
<1>3. QED BY <1>1, <1>2, CallKinds

LEMMA StillOrdered ==
  ASSUME NEW ps, NEW os, NEW ps2, NEW os2, NEW w \in Seq(Calls), Ordered(w, MayStand(ps, os)),
         \A c : In(c, w) => StillCalled(ps, os, ps2, os2, c), StillKept(os, os2, w)
  PROVE  Ordered(w, MayStand(ps2, os2))
<1>1. SUFFICES ASSUME NEW a, NEW b, In(a, w), In(b, w), <<a, b>> \in MayStand(ps, os)
               PROVE  <<a, b>> \in MayStand(ps2, os2)
  BY OrderedBy
<1>2. a \in Calls /\ b \in Calls BY <1>1, InElements
<1>3. SameUp(ps, ps2, PoolOf(os, b)) /\ SameUp(ps, ps2, PoolOf(os, a)) BY <1>1 DEF StillCalled
<1>4. PoolOf(os2, b) = PoolOf(os, b)
  <2>1. \A o \in Objs : b \in ObjectCalls(o) => os2[o].objPool = os[o].objPool BY <1>1 DEF StillCalled, Kept
  <2>2. QED BY <1>2, <2>1, SamePoolOf
<1>5. ASSUME NEW p \in Pools, a = PoolCall(p) PROVE <<a, b>> \in MayStand(ps2, os2)
  <2>1. Up(ps2, PoolOf(os2, b)) = Up(ps, PoolOf(os, b)) BY <1>3, <1>4 DEF SameUp
  <2>2. Up(ps2, p) = Up(ps, p) BY <1>3, <1>5, CallPools DEF SameUp
  <2>3. QED BY <1>1, <1>2, <1>5, <2>1, <2>2, PoolStands
<1>6. ASSUME NEW o \in Objs, a \in ObjectCalls(o), b \in ObjectCalls(o) PROVE <<a, b>> \in MayStand(ps2, os2)
  BY <1>1, <1>2, <1>6, ObjectStands
<1>7. ASSUME NEW o \in Objs, a \in ObjectCalls(o), b \notin ObjectCalls(o) PROVE <<a, b>> \in MayStand(ps2, os2)
  <2>1. StandsOver(ps, os, o, b) BY <1>1, <1>2, <1>7, ObjectStands
  <2>2. Kept(os, os2, o) BY <1>1, <1>7 DEF StillCalled
  <2>3. os2[o].objPool = os[o].objPool /\ Registered(os2, o) = Registered(os, o) BY <2>2 DEF Kept, Registered
  <2>4. Up(ps2, PoolOf(os2, b)) = Up(ps, PoolOf(os, b)) /\ \A q \in Up(ps, PoolOf(os, b)) : Up(ps2, q) = Up(ps, q)
    BY <1>3, <1>4 DEF SameUp
  <2>5. Up(ps2, os2[o].objPool) = Up(ps, os[o].objPool) BY <1>3, <1>7, <2>3, CallPools DEF SameUp
  <2>6. os[o].kind # "plain" /\ b = PoolCall(os[o].objPool) => Keeps(os2, os[o].objPool)
    <3>1. SUFFICES ASSUME os[o].kind # "plain", b = PoolCall(os[o].objPool) PROVE Keeps(os2, os[o].objPool)
      OBVIOUS
    <3>2. Keeps(os, os[o].objPool) BY <2>1, <3>1 DEF StandsOver, ObjectAbove
    <3>3. Going(w, os[o].objPool) BY <1>1, <3>1 DEF Going
    <3>4. Busy(w, o) BY <1>1, <1>7, BusyCalls
    <3>5. QED BY <3>1, <3>2, <3>3, <3>4 DEF StillKept
  <2>7. ObjectAbove(ps, os, o, b) BY <2>1 DEF StandsOver
  <2>8. ObjectAbove(ps2, os2, o, b)
    <3>1. os2[o].usage => os2[o].objPool \notin Up(ps2, PoolOf(os2, b))
      BY <2>2, <2>3, <2>4, <2>7 DEF ObjectAbove, Kept
    <3>2. Registered(os2, o) /\ os2[o].objPool \in Up(ps2, PoolOf(os2, b)) => b = PoolCall(os2[o].objPool)
      BY <2>3, <2>4, <2>7 DEF ObjectAbove
    <3>3. os2[o].kind # "plain" =>
            \A q \in Up(ps2, PoolOf(os2, b)) :
              os2[o].objPool \in Up(ps2, q) /\ q # os2[o].objPool => OnObject(b) /\ q = subPool(b[2])
      BY <2>2, <2>3, <2>4, <2>7 DEF ObjectAbove, Kept
    <3>4. os2[o].kind # "plain" /\ b = PoolCall(os2[o].objPool) => Keeps(os2, os2[o].objPool)
      BY <2>2, <2>3, <2>6 DEF Kept
    <3>5. OnObject(b) => ~Elem(os2, o, b[2]) BY <2>2, <2>7 DEF ObjectAbove, Kept
    <3>6. QED BY <3>1, <3>2, <3>3, <3>4, <3>5 DEF ObjectAbove
  <2>9. \A p : b = PoolCall(p) /\ (os2[o].kind # "plain" \/ os2[o].usage) => p \in Up(ps2, os2[o].objPool)
    BY <2>1, <2>2, <2>5 DEF StandsOver, Kept
  <2>10. StandsOver(ps2, os2, o, b) BY <2>8, <2>9 DEF StandsOver
  <2>11. QED BY <1>2, <1>7, <2>10, ObjectStands
<1>8. QED BY <1>2, <1>5, <1>6, <1>7, CallKinds

(***************************************************************************)
(* A pool that goes after its cleanups                                     *)
(***************************************************************************)
(* A pool has one parent. *)
LEMMA OneParent ==
  ASSUME NEW ps, NEW os, NEW w, Typed(ps, os, w), Tree(ps),
         NEW p, NEW q \in Pools, Alive(ps, q), NEW s \in Pools, Alive(ps, s), In(p, ps[s].child),
         Up(ps, p) = {p} \cup Up(ps, q), p \notin Up(ps, q)
  PROVE  q = s
<1>1. Up(ps, p) = {p} \cup Up(ps, s) /\ p \notin Up(ps, s) BY TreeChild
<1>2. q \in Up(ps, q) /\ s \in Up(ps, s) BY TreeSelf
<1>3. q \in Up(ps, s) /\ s \in Up(ps, q) BY <1>1, <1>2
<1>4. QED BY <1>3, TreeUp

WhoDeletes(os, w) ==
  \A o \in Objs : Made(os, o) /\ os[o].managed =>
    Registered(os, o) \/ Busy(w, o) \/ \E c \in Objs : Owns(os, c, o)

LEMMA OwnerOf ==
  ASSUME NEW ps, NEW os, NEW w, Typed(ps, os, w), AllPlaced(ps, os), OwnersSound(ps, os, w),
         NEW c \in Objs, NEW o \in Objs, Owns(os, c, o)
  PROVE  /\ Made(os, c) /\ Placed(ps, os, c) /\ os[c].kind \in Owners /\ os[c].kind # "plain"
         /\ \A d \in Objs : Owns(os, d, o) => d = c
         /\ Made(os, o) =>
              /\ Placed(ps, os, o)
              /\ ~Registered(os, o) /\ os[o].managed = os[c].managed
              /\ \/ os[o].pool = os[c].objPool
                 \/ os[o].pool = os[c].pool /\ os[o].objPool = os[c].pool /\ os[o].kind = "plain" /\ ~os[o].usage
         /\ Ready(os, w, c) /\ ~Emptied(os, w, os[c].objPool) => Made(os, o) /\ os[o].dtors = 0 /\ ~Busy(w, o)
         /\ ~Ready(os, w, c) /\ Made(os, o) => Busy(w, o)
<1>1. Made(os, c) /\ Elem(os, c, o) BY DEF Owns
<1>2. Placed(ps, os, c) BY <1>1 DEF AllPlaced
<1>3. os[c].elems # <<>> BY <1>1, NoneIn DEF Elem
<1>4. os[c].kind \in Owners BY <1>2, <1>3 DEF Placed
<1>5. os[c].kind # "plain" BY <1>4 DEF Owners
<1>6. Made(os, o) => Placed(ps, os, o) BY DEF AllPlaced
<1>7. QED BY <1>1, <1>2, <1>4, <1>5, <1>6 DEF OwnersSound, ElementSound

LEMMA Emptying ==
  ASSUME NEW ps, NEW os, NEW w,
         Typed(ps, os, w), Tree(ps), AllPlaced(ps, os), OwnersSound(ps, os, w), Acyclic(os),
         WhoDeletes(os, w), \A x \in Objs : Made(os, x) /\ Registered(os, x) => os[x].destroyerPool = os[x].objPool,
         NEW p \in Pools, Alive(ps, p), HasReason(ps, os, w, p), ~Keeps(os, p),
         \A x \in Objs : Made(os, x) /\ Busy(w, x) => os[x].objPool # p,
         \A x \in Objs : Made(os, x) /\ os[x].managed /\ os[x].objPool # p /\ Emptied(os, w, os[x].objPool)
                           => os[x].kind = "plain"
  PROVE  \A x \in Objs : Made(os, x) /\ os[x].managed /\ os[x].objPool = p => Elsewhere(os, x)
<1>1. ASSUME NEW x \in Objs, Made(os, x), os[x].managed, os[x].objPool = p, NEW c \in Objs, Owns(os, c, x),
             os[x].pool = os[c].objPool, os[c].objPool # p
      PROVE  FALSE
  <2>1. /\ Made(os, c) /\ os[c].kind # "plain" /\ os[c].managed /\ Placed(ps, os, x)
    BY <1>1, OwnerOf
  <2>2. /\ os[x].pool \in Pools /\ Alive(ps, os[x].pool)
        /\ p = subPool(x) /\ Up(ps, p) = {p} \cup Up(ps, os[x].pool) /\ p \notin Up(ps, os[x].pool)
    BY <1>1, <2>1, PlacedUp
  <2>3. CASE p = pconf \/ (\E i \in Recs : p = recordPool(i)) \/ (\E o \in Objs : p = subPool(o) /\ ~Made(os, o))
             \/ (\E o \in Objs : p = tmpPool(o))
    BY <2>2, <2>3, <1>1, PoolNames
  <2>4. CASE \E r \in Pools : Emptied(os, w, r) /\ Alive(ps, r) /\ In(p, ps[r].child)
    <3>1. PICK r \in Pools : Emptied(os, w, r) /\ Alive(ps, r) /\ In(p, ps[r].child) BY <2>4
    <3>2. r = os[x].pool BY <2>2, <3>1, OneParent
    <3>3. QED BY <1>1, <2>1, <3>1, <3>2
  <2>5. QED BY <2>3, <2>4 DEF HasReason
<1> DEFINE Y == {x \in Objs : Made(os, x) /\ os[x].managed /\ os[x].objPool = p /\ ~Elsewhere(os, x)}
<1>2. SUFFICES ASSUME Y # {} PROVE FALSE OBVIOUS
<1>3. PICK x \in Y : \A c \in Y : ~Owns(os, c, x)
  <2>1. Y \in SUBSET Objs OBVIOUS
  <2> HIDE DEF Y
  <2>2. QED BY <1>2, <2>1 DEF Acyclic
<1>4. ~Registered(os, x)
  <2>1. SUFFICES ASSUME Registered(os, x) PROVE FALSE OBVIOUS
  <2>2. os[x].destroyerPool = p /\ Made(os, x) BY <2>1
  <2>3. QED BY <2>2 DEF Keeps
<1>5. ~Busy(w, x) OBVIOUS
<1>6. PICK c \in Objs : Owns(os, c, x) BY <1>4, <1>5 DEF WhoDeletes
<1>7. /\ Made(os, c) /\ os[c].kind # "plain" /\ os[c].managed
      /\ \/ os[x].pool = os[c].objPool
         \/ os[x].objPool = os[c].pool /\ os[x].kind = "plain"
  BY <1>6, OwnerOf
<1>8. os[c].objPool # p
  <2>1. SUFFICES ASSUME os[c].objPool = p PROVE FALSE OBVIOUS
  <2>2. ~Elsewhere(os, c) BY <1>7 DEF Elsewhere
  <2>3. c \in Y BY <1>7, <2>1, <2>2
  <2>4. QED BY <1>3, <1>6, <2>3
<1>9. os[x].objPool = os[c].pool /\ os[x].kind = "plain" BY <1>1, <1>6, <1>7, <1>8
<1>10. Elsewhere(os, x) BY <1>6, <1>8, <1>9 DEF Elsewhere
<1>11. QED BY <1>10

(* The reason why a pool goes stays one. *)
LEMMA ReasonStays ==
  ASSUME NEW ps, NEW os, NEW w, NEW ps2, NEW os2, NEW w2, NEW p, HasReason(ps, os, w, p),
         \A o \in Objs : ~Made(os, o) => ~Made(os2, o),
         \A o \in Objs : p = tmpPool(o) /\ In(DtorCall(o), w) /\ os[o].kind = "TmpPool"
                           => In(DtorCall(o), w2) /\ os2[o].kind = "TmpPool",
         \A r \in Pools : Emptied(os, w, r) /\ Alive(ps, r) /\ In(p, ps[r].child)
                           => Emptied(os2, w2, r) /\ Alive(ps2, r) /\ In(p, ps2[r].child)
  PROVE  HasReason(ps2, os2, w2, p)
BY DEF HasReason

(* A pool that no waiting call needs is destroyed. *)
LEMMA PushPool ==
  ASSUME NEW ps, NEW os, NEW w, Standing(ps, os, w), NEW p \in Pools, Alive(ps, p), HasReason(ps, os, w, p),
         \A b : In(b, w) => p \notin Up(ps, PoolOf(os, b)) /\ \A q : b = PoolCall(q) => q \in Up(ps, p)
  PROVE  Standing(ps, os, Cat(<<PoolCall(p)>>, w))
<1>1. PICK w2 : w2 = Cat(<<PoolCall(p)>>, w) OBVIOUS
<1>2. Stacked(w2, PoolCall(p), w)
  <2>1. PoolCall(p) \in Calls BY CallNames
  <2>2. w \in Seq(Calls) BY DEF Standing, Typed
  <2>3. QED BY <1>1, <2>1, <2>2, PushStacked
<1>3. /\ \A q : Going(w2, q) <=> q = p \/ Going(w, q)
      /\ \A o \in Objs : \A a \in ObjectCalls(o) : In(a, w2) <=> In(a, w)
  <2>1. \A c : In(c, w2) <=> c = PoolCall(p) \/ In(c, w) BY <1>2 DEF Stacked
  <2>2. \A q : Going(w2, q) <=> q = p \/ Going(w, q) BY <2>1, CallNames DEF Going
  <2>3. \A o \in Objs : \A a \in ObjectCalls(o) : In(a, w2) <=> In(a, w) BY <2>1, CallNames
  <2>4. QED BY <2>2, <2>3
<1>4. \A o \in Objs : /\ Busy(w2, o) <=> Busy(w, o)
                      /\ In(DeleteCall(o), w2) <=> In(DeleteCall(o), w)
                      /\ In(DtorCall(o), w2) <=> In(DtorCall(o), w)
                      /\ In(ClearCall(o), w2) <=> In(ClearCall(o), w)
  BY <1>3, BusyCalls DEF ObjectCalls
<1>5. \A q : Emptied(os, w, q) => Emptied(os, w2, q) BY <1>3 DEF Emptied
<1>6. \A q : Emptied(os, w2, q) => Emptied(os, w, q) \/ (q = p /\ ~Keeps(os, p)) BY <1>3 DEF Emptied
<1>7. Typed(ps, os, w2) BY <1>2 DEF Standing, Typed, Stacked
<1>8. CleanupsSound(ps, os, w2)
  <2>1. CleanupsSound(ps, os, w) BY DEF Standing
  <2>2. QED BY <2>1, <1>4 DEF CleanupsSound
<1>9. Ordered(w2, MayStand(ps, os))
  <2>1. Ordered(w, MayStand(ps, os)) BY DEF Standing
  <2>2. ASSUME NEW b, In(b, w) PROVE <<PoolCall(p), b>> \in MayStand(ps, os)
    <3>1. b \in Calls BY <2>2, InElements DEF Standing, Typed
    <3>2. QED BY <2>2, <3>1, PoolStands
  <2>3. QED BY <1>2, <2>1, <2>2 DEF Stacked
<1>10. CallsSound(ps, os, w2)
  <2>1. CallsSound(ps, os, w) BY DEF Standing
  <2>2. ASSUME NEW q \in Pools, Going(w2, q) PROVE Alive(ps, q) /\ HasReason(ps, os, w2, q)
    <3>1. Alive(ps, q) /\ HasReason(ps, os, w, q) BY <2>1, <2>2, <1>3 DEF CallsSound
    <3>2. HasReason(ps, os, w2, q) BY <3>1, <1>4, <1>5, ReasonStays
    <3>3. QED BY <3>1, <3>2
  <2>3. QED BY <2>1, <2>2, <1>4 DEF CallsSound
<1>11. \A c \in Objs : Ready(os, w2, c) <=> Ready(os, w, c) BY <1>4 DEF Ready
<1>12. OwnersSound(ps, os, w2)
  <2>1. OwnersSound(ps, os, w) BY DEF Standing
  <2>2. QED BY <2>1, <1>4, <1>5, <1>11 DEF OwnersSound, ContainerSound, ElementSound
<1>13. ManagedSound(os, w2)
  <2>1. ManagedSound(os, w) BY DEF Standing
  <2>2. WhoDeletes(os, w) BY <2>1 DEF ManagedSound, WhoDeletes
  <2>3. ASSUME NEW o \in Objs, Made(os, o), os[o].managed, Emptied(os, w2, os[o].objPool)
        PROVE  (os[o].kind = "plain" /\ Busy(w2, o)) \/ Elsewhere(os, o)
    <3>1. CASE Emptied(os, w, os[o].objPool) BY <2>1, <2>3, <3>1, <1>4 DEF ManagedSound
    <3>2. CASE os[o].objPool = p /\ ~Keeps(os, p)
      <4>1. Typed(ps, os, w) /\ Tree(ps) /\ AllPlaced(ps, os) /\ OwnersSound(ps, os, w) /\ Acyclic(os)
        BY DEF Standing
      <4>2. \A x \in Objs : Made(os, x) /\ Registered(os, x) => os[x].destroyerPool = os[x].objPool
        BY DEF Standing, CleanupsSound
      <4>3. ASSUME NEW x \in Objs, Made(os, x), Busy(w, x) PROVE os[x].objPool # p
        <5>1. PICK b \in ObjectCalls(x) : In(b, w) BY <4>3, BusyCalls
        <5>2. p \notin Up(ps, PoolOf(os, b)) BY <5>1
        <5>3. PoolOf(os, b) = os[x].objPool BY CallPools, Zenon
        <5>4. QED BY <5>2, <5>3, <4>1, TreeSelf
      <4>4. \A x \in Objs : Made(os, x) /\ os[x].managed /\ os[x].objPool # p /\ Emptied(os, w, os[x].objPool)
                              => os[x].kind = "plain"
        BY <2>1 DEF ManagedSound, Elsewhere
      <4>5. \A x \in Objs : Made(os, x) /\ os[x].managed /\ os[x].objPool = p => Elsewhere(os, x)
        BY <4>1, <4>2, <2>2, <4>3, <4>4, <3>2, Emptying
      <4>6. QED BY <2>3, <3>2, <4>5
    <3>3. QED BY <2>3, <3>1, <3>2, <1>6
  <2>4. \A o \in Objs : Made(os, o) /\ os[o].managed =>
          Registered(os, o) \/ Busy(w2, o) \/ \E c \in Objs : Owns(os, c, o)
    BY <2>2, <1>4 DEF WhoDeletes
  <2>5. QED BY <2>3, <2>4 DEF ManagedSound
<1>14. Standing(ps, os, w2)
  <2>1. Tree(ps) /\ AllPlaced(ps, os) /\ Acyclic(os) BY DEF Standing
  <2>2. QED BY <2>1, <1>7, <1>8, <1>9, <1>10, <1>12, <1>13 DEF Standing
<1>15. QED BY <1>1, <1>14

(***************************************************************************)
(* A destructor begins                                                     *)
(***************************************************************************)
DtorBegun(os, o) == [os EXCEPT ![o].dtors = IF @ = 2 THEN 2 ELSE @ + 1]

(* Only how often destructors began differs. *)
LikeObjs(os, os2) ==
  \A x \in Objs :
    /\ Made(os2, x) <=> Made(os, x)
    /\ os2[x].kind = os[x].kind /\ os2[x].pool = os[x].pool /\ os2[x].objPool = os[x].objPool
    /\ os2[x].usage = os[x].usage /\ os2[x].destroyerPool = os[x].destroyerPool
    /\ os2[x].tmp = os[x].tmp /\ os2[x].elems = os[x].elems /\ os2[x].strs = os[x].strs
    /\ os2[x].managed = os[x].managed

LEMMA BegunObjs ==
  ASSUME NEW ps, NEW os, NEW w, Typed(ps, os, w), NEW o \in Objs, Made(os, o), os[o].dtors = 0
  PROVE  /\ DtorBegun(os, o) \in [Objs -> ObjTypes \cup {None}]
         /\ LikeObjs(os, DtorBegun(os, o))
         /\ DtorBegun(os, o)[o].dtors = 1
         /\ \A x \in Objs : x # o => DtorBegun(os, o)[x] = os[x]
<1>1. os \in [Objs -> ObjTypes \cup {None}] /\ os[o] \in ObjTypes BY TypedObjs DEF Typed
<1>2. PICK r : r = [os[o] EXCEPT !.dtors = 1] OBVIOUS
<1>3. DtorBegun(os, o) = [os EXCEPT ![o] = r] BY <1>2 DEF DtorBegun
<1>4. /\ r \in ObjTypes /\ r.dtors = 1 /\ r.kind = os[o].kind /\ r.pool = os[o].pool /\ r.objPool = os[o].objPool
      /\ r.usage = os[o].usage /\ r.destroyerPool = os[o].destroyerPool
      /\ r.tmp = os[o].tmp /\ r.elems = os[o].elems /\ r.strs = os[o].strs /\ r.managed = os[o].managed
  BY <1>1, <1>2 DEF ObjTypes
<1>5. r # None BY <1>4, NoNone
<1>6. DtorBegun(os, o) \in [Objs -> ObjTypes \cup {None}] BY <1>1, <1>3, <1>4
<1>7. DtorBegun(os, o)[o] = r /\ \A x \in Objs : x # o => DtorBegun(os, o)[x] = os[x] BY <1>1, <1>3
<1> HIDE DEF Objs
<1>8. QED BY <1>4, <1>5, <1>6, <1>7 DEF LikeObjs, Made

LEMMA LikeFacts ==
  ASSUME NEW os, NEW os2, LikeObjs(os, os2)
  PROVE  /\ \A p : Keeps(os2, p) <=> Keeps(os, p)
         /\ \A w, p : Emptied(os2, w, p) <=> Emptied(os, w, p)
         /\ \A x \in Objs : Registered(os2, x) <=> Registered(os, x)
         /\ \A c \in Objs : \A x : (Owns(os2, c, x) <=> Owns(os, c, x)) /\ (Elem(os2, c, x) <=> Elem(os, c, x))
         /\ \A x \in Objs : Elsewhere(os2, x) <=> Elsewhere(os, x)
         /\ \A ps : AllPlaced(ps, os) => AllPlaced(ps, os2)
         /\ Acyclic(os) => Acyclic(os2)
         /\ \A x \in Objs : Made(os, x) => Kept(os, os2, x)
<1>1. \A p : Keeps(os2, p) <=> Keeps(os, p) BY DEF LikeObjs, Keeps
<1>2. \A w, p : Emptied(os2, w, p) <=> Emptied(os, w, p) BY <1>1 DEF Emptied
<1>3. \A x \in Objs : Registered(os2, x) <=> Registered(os, x) BY DEF LikeObjs, Registered
<1>4. \A c \in Objs : \A x : (Owns(os2, c, x) <=> Owns(os, c, x)) /\ (Elem(os2, c, x) <=> Elem(os, c, x))
  BY DEF LikeObjs, Owns, Elem
<1>5. \A x \in Objs : Elsewhere(os2, x) <=> Elsewhere(os, x) BY <1>4 DEF LikeObjs, Elsewhere
<1>6. ASSUME NEW ps, AllPlaced(ps, os) PROVE AllPlaced(ps, os2)
  <2>1. ASSUME NEW x \in Objs, Made(os2, x) PROVE Placed(ps, os2, x)
    <3>1. Placed(ps, os, x) BY <1>6, <2>1 DEF AllPlaced, LikeObjs
    <3>2. QED BY <3>1 DEF Placed, LikeObjs
  <2>2. QED BY <2>1 DEF AllPlaced
<1>7. Acyclic(os) => Acyclic(os2) BY <1>4 DEF Acyclic
<1>8. \A x \in Objs : Made(os, x) => Kept(os, os2, x) BY <1>4 DEF LikeObjs, Kept
<1>9. QED BY <1>1, <1>2, <1>3, <1>4, <1>5, <1>6, <1>7, <1>8

(* All but what the containers are told about their elements, and what     *)
(* keeps a TmpPool's pool.                                                 *)
Begun(ps, os, w, o) ==
  /\ Typed(ps, os, w) /\ Tree(ps) /\ AllPlaced(ps, os) /\ CleanupsSound(ps, os, w)
  /\ Ordered(w, MayStand(ps, os)) /\ CallsSound(ps, os, w) /\ Acyclic(os) /\ ManagedSound(os, w)
  /\ \A c \in Objs : Made(os, c) => ContainerSound(ps, os, w, c)
  /\ \A c, x \in Objs : Owns(os, c, x) /\ c # o => ElementSound(os, w, c, x)

LEMMA DeleteOnTop ==
  ASSUME NEW ps, NEW os, NEW w, NEW rest, NEW o \in Objs,
         Stacked(w, DeleteCall(o), rest), Ordered(w, MayStand(ps, os)), CallsSound(ps, os, w)
  PROVE  /\ Made(os, o) /\ os[o].dtors = 0 /\ Busy(w, o) /\ ~In(ClearCall(o), w) /\ ~In(DtorCall(o), w)
         /\ \A b : In(b, rest) => b \notin ObjectCalls(o) /\ StandsOver(ps, os, o, b)
<1>1. In(DeleteCall(o), w) BY DEF Stacked
<1>2. Made(os, o) /\ os[o].dtors = 0 /\ Busy(w, o) BY <1>1 DEF CallsSound, Busy
<1>3. DeleteCall(o) \in ObjectCalls(o) /\ DeleteCall(o) # ClearCall(o) /\ DeleteCall(o) # DtorCall(o)
  BY CallNames DEF ObjectCalls
<1>4. \A b : In(b, rest) => b \notin ObjectCalls(o) /\ StandsOver(ps, os, o, b) BY <1>3, ObjectOnTop
<1>5. ClearCall(o) \in ObjectCalls(o) /\ DtorCall(o) \in ObjectCalls(o) BY DEF ObjectCalls
<1>6. QED BY <1>2, <1>3, <1>4, <1>5 DEF Stacked

LEMMA Relabel ==
  ASSUME NEW ps, NEW os, NEW w, NEW rest, NEW o \in Objs,
         Standing(ps, os, w), Stacked(w, DeleteCall(o), rest),
         NEW w1, Stacked(w1, DtorCall(o), rest)
  PROVE  /\ Begun(ps, DtorBegun(os, o), w1, o)
         /\ \A x \in Objs : Busy(w1, x) <=> Busy(w, x)
         /\ \A p : Going(w1, p) <=> Going(w, p)
         /\ \A x \in Objs : In(ClearCall(x), w1) <=> In(ClearCall(x), w)
<1>1. Typed(ps, os, w) /\ Ordered(w, MayStand(ps, os)) /\ CallsSound(ps, os, w) BY DEF Standing
<1>2. /\ Made(os, o) /\ os[o].dtors = 0 /\ Busy(w, o) /\ ~In(ClearCall(o), w)
      /\ \A b : In(b, rest) => b \notin ObjectCalls(o) /\ StandsOver(ps, os, o, b)
  BY <1>1, DeleteOnTop
<1>3. PICK os2 : os2 = DtorBegun(os, o) OBVIOUS
<1>4. /\ os2 \in [Objs -> ObjTypes \cup {None}] /\ LikeObjs(os, os2) /\ os2[o].dtors = 1
      /\ \A x \in Objs : x # o => os2[x] = os[x]
  BY <1>1, <1>2, <1>3, BegunObjs
<1>5. /\ \A p : Keeps(os2, p) <=> Keeps(os, p)
      /\ \A v, p : Emptied(os2, v, p) <=> Emptied(os, v, p)
      /\ \A x \in Objs : Registered(os2, x) <=> Registered(os, x)
      /\ \A c \in Objs : \A x : (Owns(os2, c, x) <=> Owns(os, c, x)) /\ (Elem(os2, c, x) <=> Elem(os, c, x))
      /\ \A x \in Objs : Elsewhere(os2, x) <=> Elsewhere(os, x)
      /\ AllPlaced(ps, os) => AllPlaced(ps, os2)
      /\ Acyclic(os) => Acyclic(os2)
      /\ \A x \in Objs : Made(os, x) => Kept(os, os2, x)
  BY <1>4, LikeFacts
<1>6. \A x \in Objs : Made(os2, x) <=> Made(os, x) BY <1>4 DEF LikeObjs
<1>7. /\ \A c : In(c, w1) <=> c = DtorCall(o) \/ In(c, rest)
      /\ \A c : In(c, w) <=> c = DeleteCall(o) \/ In(c, rest)
  BY DEF Stacked
<1>8. ASSUME NEW x \in Objs, x # o PROVE \A a \in ObjectCalls(x) : In(a, w1) <=> In(a, w)
  <2>1. DtorCall(o) \in ObjectCalls(o) /\ DeleteCall(o) \in ObjectCalls(o) BY DEF ObjectCalls
  <2>2. \A a \in ObjectCalls(x) : a # DtorCall(o) /\ a # DeleteCall(o) BY <2>1, <1>8, CallNames
  <2>3. QED BY <2>2, <1>7
<1>9. \A p : Going(w1, p) <=> Going(w, p)
  <2>1. DtorCall(o) \in ObjectCalls(o) /\ DeleteCall(o) \in ObjectCalls(o) BY DEF ObjectCalls
  <2>2. \A p : PoolCall(p) # DtorCall(o) /\ PoolCall(p) # DeleteCall(o) BY <2>1, CallNames
  <2>3. QED BY <2>2, <1>7 DEF Going
<1>10. \A x \in Objs : Busy(w1, x) <=> Busy(w, x)
  <2>1. Busy(w1, o) BY <1>7 DEF Busy
  <2>2. ASSUME NEW x \in Objs, x # o PROVE Busy(w1, x) <=> Busy(w, x) BY <2>2, <1>8, BusyCalls
  <2>3. QED BY <1>2, <2>1, <2>2
<1>11. \A a \in ObjectCalls(o) : ~In(a, rest) BY <1>2
<1>12. \A x \in Objs : In(DtorCall(x), w1) <=> x = o \/ In(DtorCall(x), w)
  <2>1. ASSUME NEW x \in Objs, x # o PROVE In(DtorCall(x), w1) <=> In(DtorCall(x), w) BY <2>1, <1>8 DEF ObjectCalls
  <2>2. In(DtorCall(o), w1) BY <1>7
  <2>3. QED BY <2>1, <2>2
<1>13. \A x \in Objs : In(ClearCall(x), w1) <=> In(ClearCall(x), w)
  <2>1. ASSUME NEW x \in Objs, x # o PROVE In(ClearCall(x), w1) <=> In(ClearCall(x), w) BY <2>1, <1>8 DEF ObjectCalls
  <2>2. ~In(ClearCall(o), w1)
    <3>1. ClearCall(o) # DtorCall(o) /\ ClearCall(o) \in ObjectCalls(o) BY CallNames DEF ObjectCalls
    <3>2. QED BY <3>1, <1>7, <1>11
  <2>3. QED BY <2>1, <2>2, <1>2
<1>14. \A x \in Objs : In(DeleteCall(x), w1) => x # o /\ In(DeleteCall(x), w)
  <2>1. ASSUME NEW x \in Objs, x # o PROVE In(DeleteCall(x), w1) <=> In(DeleteCall(x), w) BY <2>1, <1>8 DEF ObjectCalls
  <2>2. ~In(DeleteCall(o), w1)
    <3>1. DeleteCall(o) # DtorCall(o) /\ DeleteCall(o) \in ObjectCalls(o) BY CallNames DEF ObjectCalls
    <3>2. QED BY <3>1, <1>7, <1>11
  <2>3. QED BY <2>1, <2>2
<1>15. Typed(ps, os2, w1) BY <1>1, <1>4 DEF Typed, Stacked
<1>16. CleanupsSound(ps, os2, w1)
  <2>1. CleanupsSound(ps, os, w) BY DEF Standing
  <2>2. QED BY <2>1, <1>4, <1>5, <1>10 DEF CleanupsSound, LikeObjs
<1>17. Ordered(w1, MayStand(ps, os2))
  <2>1. rest \in Seq(Calls) /\ Ordered(rest, MayStand(ps, os)) BY <1>1 DEF Stacked
  <2>2. ASSUME NEW c \in Calls, \A x \in Objs : c \in ObjectCalls(x) => Made(os, x)
        PROVE  StillCalled(ps, os, ps, os2, c)
    BY <2>2, <1>5 DEF StillCalled, SameUp
  <2>3. \A c : In(c, w) => c \in Calls BY <1>1, TypedCalls
  <2>4. \A x \in Objs : \A a \in ObjectCalls(x) : In(a, w) => Made(os, x)
    BY <1>1 DEF CallsSound, ObjectCalls
  <2>5. \A c : In(c, rest) => StillCalled(ps, os, ps, os2, c) BY <2>2, <2>3, <2>4, <1>7
  <2>6. StillKept(os, os2, rest) BY <1>5 DEF StillKept
  <2>7. Ordered(rest, MayStand(ps, os2)) BY <2>1, <2>5, <2>6, StillOrdered
  <2>8. ASSUME NEW b, In(b, rest) PROVE <<DtorCall(o), b>> \in MayStand(ps, os2)
    <3>1. b \in Calls /\ DeleteCall(o) \in Calls BY <2>8, <2>3, <1>7, CallNames
    <3>2. b \notin ObjectCalls(o) /\ StandsOver(ps, os, o, b) BY <2>8, <1>2
    <3>3. DtorCall(o) \in ObjectCalls(o) BY DEF ObjectCalls
    <3>4. <<DtorCall(o), b>> \in MayStand(ps, os) BY <3>1, <3>2, <3>3, ObjectStands
    <3>5. PICK two : two = <<DtorCall(o), b>> OBVIOUS
    <3>6. StandsOver(ps, os2, o, b)
      <4>1. PoolOf(os2, b) = PoolOf(os, b) BY <3>1, <1>4, SamePoolOf DEF LikeObjs
      <4>2. QED BY <4>1, <3>2, <1>4, <1>5 DEF StandsOver, ObjectAbove, LikeObjs
    <3>7. QED BY <3>1, <3>2, <3>3, <3>6, ObjectStands
  <2>9. QED BY <2>7, <2>8 DEF Stacked
<1>18. CallsSound(ps, os2, w1)
  <2>1. ASSUME NEW x \in Objs
        PROVE  /\ In(DeleteCall(x), w1) => Made(os2, x) /\ os2[x].dtors = 0
               /\ In(DtorCall(x), w1) => Made(os2, x) /\ os2[x].dtors = 1
               /\ In(ClearCall(x), w1) => Made(os2, x) /\ os2[x].kind = "StrPtrMap" /\ In(DtorCall(x), w1)
               /\ Made(os2, x) => os2[x].dtors = 0 \/ In(DtorCall(x), w1)
    <3>1. CASE x = o BY <3>1, <1>2, <1>4, <1>6, <1>12, <1>13, <1>14
    <3>2. CASE x # o
      <4>1. os2[x] = os[x] BY <3>2, <1>4
      <4>2. QED BY <3>2, <4>1, <1>1, <1>6, <1>12, <1>13, <1>14 DEF CallsSound
    <3>3. QED BY <3>1, <3>2
  <2>2. ASSUME NEW p \in Pools, Going(w1, p) PROVE Alive(ps, p) /\ HasReason(ps, os2, w1, p)
    <3>1. Alive(ps, p) /\ HasReason(ps, os, w, p) BY <2>2, <1>1, <1>9 DEF CallsSound
    <3>2. \A r \in Pools : Emptied(os, w, r) => Emptied(os2, w1, r) BY <1>5, <1>9 DEF Emptied
    <3>3. \A x \in Objs : os2[x].kind = os[x].kind BY <1>4 DEF LikeObjs
    <3>4. HasReason(ps, os2, w1, p) BY <3>1, <3>2, <3>3, <1>6, <1>12, ReasonStays
    <3>5. QED BY <3>1, <3>4
  <2>3. QED BY <2>1, <2>2 DEF CallsSound
<1>19. ManagedSound(os2, w1)
  <2>1. ManagedSound(os, w) BY DEF Standing
  <2>2. \A p : Emptied(os2, w1, p) <=> Emptied(os, w, p) BY <1>5, <1>9 DEF Emptied
  <2>3. QED BY <2>1, <2>2, <1>4, <1>5, <1>10 DEF ManagedSound, LikeObjs
<1>20. /\ \A c \in Objs : Made(os2, c) => ContainerSound(ps, os2, w1, c)
       /\ \A c, x \in Objs : Owns(os2, c, x) /\ c # o => ElementSound(os2, w1, c, x)
  <2>1. OwnersSound(ps, os, w) BY DEF Standing
  <2>2. \A p : Emptied(os2, w1, p) <=> Emptied(os, w, p) BY <1>5, <1>9 DEF Emptied
  <2>3. ASSUME NEW c \in Objs, Made(os2, c) PROVE ContainerSound(ps, os2, w1, c)
    <3>1. ContainerSound(ps, os, w, c) BY <2>1, <2>3, <1>6 DEF OwnersSound
    <3>2. os2[c].dtors = 0 => os[c].dtors = 0 BY <1>2, <1>4
    <3>3. QED BY <3>1, <3>2, <2>2, <1>4 DEF ContainerSound, LikeObjs
  <2>4. ASSUME NEW c \in Objs, NEW x \in Objs, Owns(os2, c, x), c # o PROVE ElementSound(os2, w1, c, x)
    <3>1. ElementSound(os, w, c, x) BY <2>1, <2>4, <1>5 DEF OwnersSound
    <3>2. Ready(os2, w1, c) <=> Ready(os, w, c) BY <2>4, <1>4, <1>13 DEF Ready
    <3>3. (\A d \in Objs : Owns(os2, d, x) => d = c) BY <3>1, <1>5 DEF ElementSound
    <3>4. Made(os2, x) =>
            /\ ~Registered(os2, x) /\ os2[x].managed = os2[c].managed
            /\ \/ os2[x].pool = os2[c].objPool
               \/ os2[x].pool = os2[c].pool /\ os2[x].objPool = os2[c].pool /\ os2[x].kind = "plain" /\ ~os2[x].usage
      BY <3>1, <1>4, <1>5 DEF ElementSound, LikeObjs
    <3>5. Ready(os2, w1, c) /\ ~Emptied(os2, w1, os2[c].objPool) => Made(os2, x) /\ os2[x].dtors = 0 /\ ~Busy(w1, x)
      <4>1. os2[c].objPool = os[c].objPool BY <1>4 DEF LikeObjs
      <4>2. SUFFICES ASSUME Ready(os, w, c), ~Emptied(os, w, os[c].objPool)
                     PROVE  Made(os2, x) /\ os2[x].dtors = 0 /\ ~Busy(w1, x)
        BY <4>1, <2>2, <3>2
      <4>3. Made(os, x) /\ os[x].dtors = 0 /\ ~Busy(w, x) BY <4>2, <3>1 DEF ElementSound
      <4>4. x # o BY <4>3, <1>2
      <4>5. QED BY <4>3, <4>4, <1>4, <1>6, <1>10
    <3>6. ~Ready(os2, w1, c) /\ Made(os2, x) => Busy(w1, x) BY <3>1, <3>2, <1>6, <1>10 DEF ElementSound
    <3>7. QED BY <3>3, <3>4, <3>5, <3>6 DEF ElementSound
  <2>5. QED BY <2>3, <2>4
<1>21. Begun(ps, os2, w1, o)
  <2>1. Tree(ps) /\ AllPlaced(ps, os) /\ Acyclic(os) BY DEF Standing
  <2>2. AllPlaced(ps, os2) /\ Acyclic(os2) BY <2>1, <1>5
  <2>3. QED BY <2>1, <2>2, <1>15, <1>16, <1>17, <1>18, <1>19, <1>20 DEF Begun
<1>22. QED BY <1>3, <1>9, <1>10, <1>13, <1>21

(***************************************************************************)
(* A container deletes what it points to                                   *)
(***************************************************************************)
(* The calls of o stand over all others. *)
Over(ps, os, w, o) == \A b : In(b, w) /\ b \notin ObjectCalls(o) => StandsOver(ps, os, o, b)

LEMMA ObjectOver ==
  ASSUME NEW ps, NEW os, NEW w, NEW t, NEW rest, Stacked(w, t, rest), Ordered(w, MayStand(ps, os)),
         NEW o \in Objs, t \in ObjectCalls(o)
  PROVE  Over(ps, os, w, o)
<1>1. ASSUME NEW b, In(b, w), b \notin ObjectCalls(o) PROVE StandsOver(ps, os, o, b)
  <2>1. In(b, rest) BY <1>1 DEF Stacked
  <2>2. QED BY <1>1, <2>1, ObjectOnTop
<1>2. QED BY <1>1 DEF Over

LEMMA OwnerNotEmptied ==
  ASSUME NEW ps, NEW os, NEW w, NEW o \in Objs, Over(ps, os, w, o), os[o].kind # "plain"
  PROVE  ~Emptied(os, w, os[o].objPool)
<1>1. SUFFICES ASSUME Going(w, os[o].objPool) PROVE Keeps(os, os[o].objPool) BY DEF Emptied
<1>2. PICK b : b = PoolCall(os[o].objPool) OBVIOUS
<1>3. b \notin ObjectCalls(o) BY <1>2, CallNames
<1>4. StandsOver(ps, os, o, b) BY <1>1, <1>2, <1>3 DEF Going, Over
<1>5. QED BY <1>2, <1>4 DEF StandsOver, ObjectAbove

LEMMA NoOwnLoop ==
  ASSUME NEW os, Acyclic(os), NEW c \in Objs, NEW e \in Objs, Owns(os, c, e)
  PROVE  c # e /\ ~Owns(os, e, c)
<1>1. c # e
  <2>1. SUFFICES ASSUME c = e PROVE FALSE OBVIOUS
  <2>2. PICK X \in SUBSET Objs : X = {c} OBVIOUS
  <2>3. PICK o \in X : \A d \in X : ~Owns(os, d, o) BY <2>2 DEF Acyclic
  <2>4. QED BY <2>1, <2>2, <2>3
<1>2. ~Owns(os, e, c)
  <2>1. SUFFICES ASSUME Owns(os, e, c) PROVE FALSE OBVIOUS
  <2>2. PICK X \in SUBSET Objs : X = {c, e} OBVIOUS
  <2>3. PICK o \in X : \A d \in X : ~Owns(os, d, o) BY <2>2 DEF Acyclic
  <2>4. QED BY <2>1, <2>2, <2>3
<1>3. QED BY <1>1, <1>2

LEMMA PoolOfAlive ==
  ASSUME NEW ps, NEW os, NEW w, Typed(ps, os, w), AllPlaced(ps, os), CallsSound(ps, os, w), NEW b, In(b, w)
  PROVE  PoolOf(os, b) \in Pools /\ Alive(ps, PoolOf(os, b))
<1>1. b \in Calls BY TypedCalls
<1>2. CASE \E o \in Objs : b \in ObjectCalls(o)
  <2>1. PICK o \in Objs : b \in ObjectCalls(o) BY <1>2
  <2>2. PoolOf(os, b) = os[o].objPool BY <2>1, CallPools, Zenon
  <2>3. Made(os, o) BY <2>1 DEF CallsSound, ObjectCalls
  <2>4. os[o].objPool \in Pools /\ Alive(ps, os[o].objPool) BY <2>3, TypedObjs DEF AllPlaced, Placed
  <2>5. QED BY <2>2, <2>4
<1>3. CASE \E p \in Pools : b = PoolCall(p)
  <2>1. PICK p \in Pools : b = PoolCall(p) BY <1>3
  <2>2. Going(w, p) BY <2>1 DEF Going
  <2>3. QED BY <2>1, <2>2, CallPools DEF CallsSound
<1>4. QED BY <1>1, <1>2, <1>3, CallKinds

(* The calls that wait for a container wait for its elements as well. *)
LEMMA ElementStands ==
  ASSUME NEW ps, NEW os, NEW w,
         Typed(ps, os, w), Tree(ps), AllPlaced(ps, os), CallsSound(ps, os, w), OwnersSound(ps, os, w), Acyclic(os),
         NEW o \in Objs, NEW e \in Objs, Owns(os, o, e), Ready(os, w, o), Over(ps, os, w, o),
         NEW b \in Calls, In(b, w) \/ b \in ObjectCalls(o)
  PROVE  b \notin ObjectCalls(e) /\ StandsOver(ps, os, e, b)
<1>1. /\ Made(os, o) /\ Placed(ps, os, o) /\ os[o].kind # "plain"
      /\ \A d \in Objs : Owns(os, d, e) => d = o
      /\ Ready(os, w, o) /\ ~Emptied(os, w, os[o].objPool) => Made(os, e) /\ os[e].dtors = 0 /\ ~Busy(w, e)
  BY OwnerOf
<1>2. ~Emptied(os, w, os[o].objPool) BY <1>1, OwnerNotEmptied
<1>3. Made(os, e) /\ os[e].dtors = 0 /\ ~Busy(w, e) BY <1>1, <1>2
<1>4. /\ Placed(ps, os, e) /\ ~Registered(os, e)
      /\ \/ os[e].pool = os[o].objPool
         \/ os[e].pool = os[o].pool /\ os[e].objPool = os[o].pool /\ os[e].kind = "plain" /\ ~os[e].usage
  BY <1>3, OwnerOf
<1>5. o # e /\ ~Owns(os, e, o) BY NoOwnLoop
<1>6. /\ os[e].objPool \in Pools /\ Alive(ps, os[e].objPool) /\ os[e].pool \in Up(ps, os[e].objPool)
      /\ os[e].usage => os[e].objPool = subPool(e)
      /\ os[e].objPool = os[e].pool \/ os[e].objPool = subPool(e)
      /\ os[e].objPool = subPool(e) => subPool(e) \notin Up(ps, os[e].pool)
  BY <1>3, <1>4, PlacedUp
<1>7. os[o].objPool \in Pools /\ Alive(ps, os[o].objPool) BY <1>1, PlacedUp
<1>8. ~ \E p : b = PoolCall(p) /\ b \in ObjectCalls(o) BY CallNames
<1>9. PICK P \in Pools : P = os[o].objPool /\ Alive(ps, P) BY <1>7
<1>10. PICK E \in Pools : E = os[e].objPool /\ Alive(ps, E) BY <1>6
<1>11. ASSUME os[e].pool = P, E \in Up(ps, P) PROVE E = P
  BY <1>6, <1>9, <1>10, <1>11, TreeUp
<1>12. os[e].kind # "plain" \/ os[e].usage => os[e].pool = P /\ P \in Up(ps, E)
  BY <1>4, <1>6, <1>9, <1>10
<1>13. ASSUME E = subPool(e), os[e].pool = P PROVE ~In(PoolCall(E), w)
  <2>1. SUFFICES ASSUME NEW b2, b2 = PoolCall(E), In(b2, w) PROVE FALSE OBVIOUS
  <2>2. b2 \notin ObjectCalls(o) /\ ~OnObject(b2) /\ PoolOf(os, b2) = E BY <2>1, CallNames, CallPools
  <2>3. StandsOver(ps, os, o, b2) BY <2>1, <2>2 DEF Over
  <2>4. \A q \in Up(ps, E) : P \in Up(ps, q) /\ q # P => OnObject(b2)
    BY <2>2, <2>3, <1>1, <1>9 DEF StandsOver, ObjectAbove
  <2>5. E \in Up(ps, E) /\ P \in Up(ps, E) BY <1>13, <1>6, <1>10, TreeSelf
  <2>6. E # P BY <1>13, <1>3, <1>4, PlacedUp
  <2>7. QED BY <2>2, <2>4, <2>5, <2>6
<1>14. b \notin ObjectCalls(e)
  <2>1. CASE In(b, w) BY <2>1, <1>3, BusyCalls
  <2>2. CASE b \in ObjectCalls(o) BY <2>2, <1>5, CallNames
  <2>3. QED BY <2>1, <2>2
<1>15. CASE b \in ObjectCalls(o)
  <2>1. PoolOf(os, b) = P /\ b[2] = o
    <3>1. PoolOf(os, b) = os[o].objPool BY <1>15, CallPools, Zenon
    <3>2. QED BY <3>1, <1>9, <1>15, CallNames
  <2>2. os[e].usage => E \notin Up(ps, P) BY <1>6, <1>10, <1>12
  <2>3. ASSUME os[e].kind # "plain", NEW q \in Up(ps, P), E \in Up(ps, q), q # E PROVE FALSE
    <3>1. Up(ps, q) \subseteq Up(ps, P) /\ (P \in Up(ps, q) => P = q) BY <2>3, <1>9, TreeUp
    <3>2. E = P BY <3>1, <2>3, <1>11, <1>12
    <3>3. QED BY <3>1, <3>2, <2>3
  <2>4. ~Elem(os, e, o) BY <1>3, <1>5 DEF Owns
  <2>5. ObjectAbove(ps, os, e, b)
    <3>1. b # PoolCall(os[e].objPool) BY <1>15, CallNames
    <3>2. QED BY <2>1, <2>2, <2>3, <2>4, <3>1, <1>4, <1>10 DEF ObjectAbove
  <2>6. QED BY <2>5, <1>8, <1>14, <1>15 DEF StandsOver
<1>16. CASE b \notin ObjectCalls(o)
  <2>1. In(b, w) /\ StandsOver(ps, os, o, b) BY <1>16 DEF Over
  <2>2. ObjectAbove(ps, os, o, b) BY <2>1 DEF StandsOver
  <2>3. /\ \A q \in Up(ps, PoolOf(os, b)) : P \in Up(ps, q) /\ q # P => OnObject(b) /\ q = subPool(b[2])
        /\ b = PoolCall(P) => Keeps(os, P)
    BY <2>2, <1>1, <1>9 DEF ObjectAbove
  <2>4. ~(OnObject(b) /\ b[2] = e)
    <3>1. \A x \in Objs : b \in ObjectCalls(x) => x = b[2] BY CallNames
    <3>2. \A p : b = PoolCall(p) => ~OnObject(b) BY <2>1, CallKinds, CallNames
    <3>3. QED BY <3>1, <3>2, <1>14, CallKinds
  <2>5. OnObject(b) => b[2] \in Objs /\ Busy(w, b[2])
    <3>1. SUFFICES ASSUME OnObject(b) PROVE b[2] \in Objs /\ Busy(w, b[2]) OBVIOUS
    <3>2. PICK x \in Objs : b \in ObjectCalls(x) BY <3>1 DEF OnObject
    <3>3. x = b[2] BY <3>2, CallNames
    <3>4. QED BY <2>1, <3>2, <3>3, BusyCalls
  <2>6. ASSUME E = subPool(e), os[e].pool = P, E \in Up(ps, PoolOf(os, b)) PROVE FALSE
    <3>1. P \in Up(ps, E) /\ P # E
      <4>1. P \in Up(ps, E) BY <2>6, <1>6, <1>10
      <4>2. os[e].pool # subPool(e) BY <1>3, <1>4, PlacedUp
      <4>3. QED BY <4>1, <4>2, <2>6
    <3>2. OnObject(b) /\ subPool(e) = subPool(b[2]) BY <2>3, <2>6, <3>1
    <3>3. QED BY <3>2, <2>4, <2>5, PoolNames
  <2>7. os[e].usage => E \notin Up(ps, PoolOf(os, b)) BY <2>6, <1>6, <1>10, <1>12
  <2>8. ASSUME os[e].kind # "plain", NEW q \in Up(ps, PoolOf(os, b)), E \in Up(ps, q), q # E
        PROVE  OnObject(b) /\ q = subPool(b[2])
    <3>0. PoolOf(os, b) \in Pools /\ Alive(ps, PoolOf(os, b)) BY <2>1, PoolOfAlive
    <3>1. q \in Pools /\ Alive(ps, q) /\ Up(ps, E) \subseteq Up(ps, q) BY <2>8, <3>0, TreeUp
    <3>2. P \in Up(ps, q) BY <3>1, <2>8, <1>12
    <3>3. CASE q = P
      <4>1. E = P BY <3>3, <2>8, <1>11, <1>12
      <4>2. QED BY <4>1, <3>3, <2>8
    <3>4. CASE q # P BY <3>2, <3>4, <2>3
    <3>5. QED BY <3>3, <3>4
  <2>9. ASSUME os[e].kind # "plain", b = PoolCall(E) PROVE Keeps(os, E)
    <3>1. os[e].pool = P BY <2>9, <1>12
    <3>2. E = P \/ E = subPool(e) BY <3>1, <1>6, <1>10
    <3>3. CASE E = P BY <3>3, <2>9, <2>3
    <3>4. CASE E = subPool(e) BY <3>1, <3>4, <2>1, <2>9, <1>13
    <3>5. QED BY <3>2, <3>3, <3>4
  <2>10. ASSUME OnObject(b), Elem(os, e, b[2]) PROVE FALSE
    <3>1. b[2] \in Objs /\ Busy(w, b[2]) BY <2>5, <2>10
    <3>2. Owns(os, e, b[2]) BY <2>10, <1>3 DEF Owns
    <3>3. os[e].kind # "plain" /\ Ready(os, w, e) BY <3>1, <3>2, <1>3, OwnerOf DEF Ready
    <3>4. Emptied(os, w, E) BY <3>1, <3>2, <3>3, <1>10, OwnerOf
    <3>5. E = P \/ E = subPool(e) BY <3>3, <1>6, <1>10, <1>12
    <3>6. CASE E = P BY <3>4, <3>6, <1>2, <1>9
    <3>7. CASE E = subPool(e) BY <3>3, <3>4, <3>7, <1>13, <1>12 DEF Emptied, Going
    <3>8. QED BY <3>5, <3>6, <3>7
  <2>11. ObjectAbove(ps, os, e, b) BY <2>7, <2>8, <2>9, <2>10, <1>4, <1>10 DEF ObjectAbove
  <2>12. \A p : b = PoolCall(p) /\ (os[e].kind # "plain" \/ os[e].usage) => p \in Up(ps, os[e].objPool)
    <3>1. SUFFICES ASSUME NEW p, b = PoolCall(p), os[e].kind # "plain" \/ os[e].usage PROVE p \in Up(ps, E)
      BY <1>10
    <3>2. p \in Up(ps, P) BY <3>1, <2>1, <1>1, <1>9 DEF StandsOver
    <3>3. P \in Up(ps, E) BY <3>1, <1>12
    <3>4. Up(ps, P) \subseteq Up(ps, E) BY <3>3, <1>10, TreeUp
    <3>5. QED BY <3>2, <3>4
  <2>13. QED BY <1>14, <2>11, <2>12 DEF StandsOver
<1>17. QED BY <1>15, <1>16

(* The elements of a container stand over each other, in any order. *)
LEMMA SiblingStands ==
  ASSUME NEW ps, NEW os, NEW w,
         Typed(ps, os, w), Tree(ps), AllPlaced(ps, os), OwnersSound(ps, os, w), Acyclic(os),
         NEW o \in Objs, NEW e \in Objs, NEW d \in Objs, Owns(os, o, e), Owns(os, o, d), e # d,
         Made(os, e), Made(os, d), NEW b \in ObjectCalls(d)
  PROVE  b \notin ObjectCalls(e) /\ StandsOver(ps, os, e, b)
<1>1. Made(os, o) /\ Placed(ps, os, o) /\ \A x \in Objs : Owns(os, x, d) => x = o BY OwnerOf
<1>2. /\ Placed(ps, os, e) /\ ~Registered(os, e)
      /\ \/ os[e].pool = os[o].objPool
         \/ os[e].pool = os[o].pool /\ os[e].objPool = os[o].pool /\ os[e].kind = "plain" /\ ~os[e].usage
  BY OwnerOf
<1>3. /\ Placed(ps, os, d)
      /\ \/ os[d].pool = os[o].objPool
         \/ os[d].pool = os[o].pool /\ os[d].objPool = os[o].pool
  BY OwnerOf
<1>4. PICK P \in Pools : P = os[o].objPool /\ Alive(ps, P) /\ os[o].pool \in Up(ps, P) BY <1>1, PlacedUp
<1>5. PICK E \in Pools : /\ E = os[e].objPool /\ Alive(ps, E) /\ os[e].pool \in Up(ps, E)
                         /\ os[e].usage => E = subPool(e)
                         /\ E = subPool(e) => subPool(e) \notin Up(ps, os[e].pool)
  BY <1>2, PlacedUp
<1>6. os[e].kind # "plain" \/ os[e].usage => os[e].pool = P BY <1>2, <1>4
<1>7. \A q \in Up(ps, os[d].objPool) : q = subPool(d) \/ q \in Up(ps, P)
  <2>1. /\ os[d].objPool = os[d].pool \/ os[d].objPool = subPool(d)
        /\ os[d].objPool = subPool(d) => Up(ps, subPool(d)) = {subPool(d)} \cup Up(ps, os[d].pool)
    BY <1>3, PlacedUp
  <2>2. Up(ps, os[d].pool) \subseteq Up(ps, P)
    <3>1. Up(ps, os[o].pool) \subseteq Up(ps, P) BY <1>4, TreeUp
    <3>2. QED BY <3>1, <1>3, <1>4
  <2>3. QED BY <2>1, <2>2
<1>8. PoolOf(os, b) = os[d].objPool BY CallPools, Zenon
<1>9. OnObject(b) /\ b[2] = d /\ b \notin ObjectCalls(e) /\ \A p : b # PoolCall(p) BY CallNames
<1>10. e # o BY NoOwnLoop
<1>11. ~Elem(os, e, d) BY <1>1, <1>10 DEF Owns
<1>12. os[e].usage => E \notin Up(ps, os[d].objPool)
  <2>1. SUFFICES ASSUME os[e].usage, E \in Up(ps, os[d].objPool) PROVE FALSE OBVIOUS
  <2>2. E = subPool(e) /\ E \notin Up(ps, P) BY <2>1, <1>5, <1>6
  <2>3. E # subPool(d) BY <2>2, PoolNames
  <2>4. QED BY <2>1, <2>2, <2>3, <1>7
<1>13. ASSUME os[e].kind # "plain", NEW q \in Up(ps, os[d].objPool), E \in Up(ps, q), q # E PROVE q = subPool(d)
  <2>1. SUFFICES ASSUME q \in Up(ps, P) PROVE FALSE BY <1>7, <1>13
  <2>2. Up(ps, q) \subseteq Up(ps, P) /\ (P \in Up(ps, q) => P = q) BY <2>1, <1>4, TreeUp
  <2>3. E \in Up(ps, P) /\ P \in Up(ps, E) BY <2>2, <1>5, <1>6, <1>13
  <2>4. E = P BY <2>3, <1>4, TreeUp
  <2>5. QED BY <2>2, <2>4, <1>13
<1>14. ObjectAbove(ps, os, e, b) BY <1>2, <1>5, <1>8, <1>9, <1>11, <1>12, <1>13 DEF ObjectAbove
<1>15. QED BY <1>9, <1>14 DEF StandsOver

(* More calls of objects, and none of pools. *)
MoreCalls(w, w2) ==
  /\ \A c : In(c, w) => In(c, w2)
  /\ \A p : Going(w2, p) => Going(w, p)
  /\ \A x \in Objs : In(DtorCall(x), w2) => In(DtorCall(x), w)

LEMMA MoreSound ==
  ASSUME NEW ps, NEW os, NEW w, NEW w2, MoreCalls(w, w2)
  PROVE  /\ \A p : (Going(w2, p) <=> Going(w, p)) /\ (Emptied(os, w2, p) <=> Emptied(os, w, p))
         /\ \A x \in Objs : Busy(w, x) => Busy(w2, x)
         /\ CleanupsSound(ps, os, w) => CleanupsSound(ps, os, w2)
         /\ PoolsOwned(ps, os, w) => PoolsOwned(ps, os, w2)
         /\ ManagedSound(os, w) => ManagedSound(os, w2)
         /\ \A c \in Objs : ContainerSound(ps, os, w, c) => ContainerSound(ps, os, w2, c)
         /\ \A p : HasReason(ps, os, w, p) => HasReason(ps, os, w2, p)
         /\ \A c \in Objs, x \in Objs :
              ElementSound(os, w, c, x) /\ (Ready(os, w2, c) => Ready(os, w, c)) /\ (Busy(w2, x) => Busy(w, x))
                => ElementSound(os, w2, c, x)
<1>1. \A c : In(c, w) => In(c, w2) BY DEF MoreCalls
<1>2. \A p : Going(w2, p) <=> Going(w, p) BY <1>1 DEF MoreCalls, Going
<1>3. \A p : Emptied(os, w2, p) <=> Emptied(os, w, p) BY <1>2 DEF Emptied
<1>4. \A x \in Objs : Busy(w, x) => Busy(w2, x) BY <1>1 DEF Busy
<1>5. CleanupsSound(ps, os, w) => CleanupsSound(ps, os, w2) BY <1>4 DEF CleanupsSound
<1>6. PoolsOwned(ps, os, w) => PoolsOwned(ps, os, w2) BY <1>2 DEF PoolsOwned
<1>7. ManagedSound(os, w) => ManagedSound(os, w2) BY <1>3, <1>4 DEF ManagedSound
<1>8. \A c \in Objs : ContainerSound(ps, os, w, c) => ContainerSound(ps, os, w2, c) BY <1>3 DEF ContainerSound
<1>9. ASSUME NEW p, HasReason(ps, os, w, p) PROVE HasReason(ps, os, w2, p)
  BY <1>1, <1>3, <1>9, ReasonStays
<1>10. ASSUME NEW c \in Objs, NEW x \in Objs, ElementSound(os, w, c, x),
              Ready(os, w2, c) => Ready(os, w, c), Busy(w2, x) => Busy(w, x)
       PROVE  ElementSound(os, w2, c, x)
  <2>1. Ready(os, w2, c) <=> Ready(os, w, c) BY <1>1, <1>10 DEF Ready
  <2>2. QED BY <2>1, <1>3, <1>4, <1>10 DEF ElementSound
<1>11. QED BY <1>2, <1>3, <1>4, <1>5, <1>6, <1>7, <1>8, <1>9, <1>10

LEMMA DeleteAllSeq ==
  ASSUME NEW s \in Seq(Objs), IsInjective(s)
  PROVE  /\ DeleteAll(s) \in Seq(Calls)
         /\ \A c : In(c, DeleteAll(s)) <=> \E o \in Objs : In(o, s) /\ c = DeleteCall(o)
         /\ \A R : (\A x, y \in Objs : In(x, s) /\ In(y, s) /\ x # y => <<DeleteCall(x), DeleteCall(y)>> \in R)
                     => Ordered(DeleteAll(s), R)
<1>0. DOMAIN s = 1 .. Len(s) /\ Len(s) \in Nat /\ \A i \in 1 .. Len(s) : s[i] \in Objs BY LenProperties
<1>1. PICK n \in Nat : n = Len(s) OBVIOUS
<1>2. PICK d : d = DeleteAll(s) OBVIOUS
<1>3. DOMAIN d = 1 .. n /\ \A i \in 1 .. n : d[i] = DeleteCall(s[i]) BY <1>0, <1>1, <1>2 DEF DeleteAll, DeleteCall
<1>4. \A i \in 1 .. n : d[i] \in Calls BY <1>0, <1>1, <1>3, CallNames
<1>5. d = [i \in 1 .. n |-> d[i]] BY <1>2, <1>3 DEF DeleteAll
<1>6. d \in Seq(Calls) BY <1>4, <1>5
<1>7. \A c : In(c, d) <=> \E o \in Objs : In(o, s) /\ c = DeleteCall(o) BY <1>0, <1>1, <1>3 DEF In
<1>8. ASSUME NEW R, \A x, y \in Objs : In(x, s) /\ In(y, s) /\ x # y => <<DeleteCall(x), DeleteCall(y)>> \in R
      PROVE  Ordered(d, R)
  <2>1. SUFFICES ASSUME NEW i \in 1 .. n, NEW j \in 1 .. n, i < j PROVE <<d[i], d[j]>> \in R BY <1>3 DEF Ordered
  <2>2. s[i] # s[j] BY <2>1, <1>0, <1>1 DEF IsInjective
  <2>3. In(s[i], s) /\ In(s[j], s) /\ s[i] \in Objs /\ s[j] \in Objs BY <1>0, <1>1 DEF In
  <2>4. QED BY <2>2, <2>3, <1>3, <1>8
<1>9. QED BY <1>2, <1>6, <1>7, <1>8

(* Stands over does not depend on whose destructor began. *)
LEMMA LikeStands ==
  ASSUME NEW ps, NEW os, NEW os2, LikeObjs(os, os2), NEW o \in Objs, NEW b \in Calls, StandsOver(ps, os, o, b)
  PROVE  StandsOver(ps, os2, o, b)
<1>1. PoolOf(os2, b) = PoolOf(os, b) BY SamePoolOf DEF LikeObjs
<1>2. \A p : Keeps(os2, p) <=> Keeps(os, p) BY LikeFacts
<1>3. (Registered(os2, o) <=> Registered(os, o)) /\ \A x : Elem(os2, o, x) <=> Elem(os, o, x) BY LikeFacts
<1>4. os2[o].kind = os[o].kind /\ os2[o].objPool = os[o].objPool /\ os2[o].usage = os[o].usage BY DEF LikeObjs
<1>5. QED BY <1>1, <1>2, <1>3, <1>4 DEF StandsOver, ObjectAbove

LEMMA LikeElement ==
  ASSUME NEW os, NEW os2, LikeObjs(os, os2), NEW w, NEW w2, NEW c \in Objs, NEW x \in Objs,
         ElementSound(os, w, c, x),
         Ready(os2, w2, c) /\ ~Emptied(os2, w2, os2[c].objPool) => Made(os2, x) /\ os2[x].dtors = 0 /\ ~Busy(w2, x),
         ~Ready(os2, w2, c) /\ Made(os2, x) => Busy(w2, x)
  PROVE  ElementSound(os2, w2, c, x)
<1>1. \A d \in Objs : Owns(os2, d, x) => d = c
  <2>1. \A d \in Objs : Owns(os2, d, x) <=> Owns(os, d, x) BY LikeFacts
  <2>2. QED BY <2>1 DEF ElementSound
<1>2. Registered(os2, x) <=> Registered(os, x) BY LikeFacts
<1>3. Made(os2, x) =>
        /\ ~Registered(os2, x) /\ os2[x].managed = os2[c].managed
        /\ \/ os2[x].pool = os2[c].objPool
           \/ os2[x].pool = os2[c].pool /\ os2[x].objPool = os2[c].pool /\ os2[x].kind = "plain" /\ ~os2[x].usage
  BY <1>2 DEF ElementSound, LikeObjs
<1>4. QED BY <1>1, <1>3 DEF ElementSound

LEMMA ElementReady ==
  ASSUME NEW ps, NEW os, NEW w,
         Typed(ps, os, w), AllPlaced(ps, os), OwnersSound(ps, os, w), Acyclic(os),
         NEW o \in Objs, NEW e, Owns(os, o, e), Ready(os, w, o), Over(ps, os, w, o)
  PROVE  e \in Objs /\ e # o /\ Made(os, e) /\ os[e].dtors = 0 /\ ~Busy(w, e)
<1>1. e \in Objs BY TypedObjs DEF Owns
<1>2. os[o].kind # "plain" BY <1>1, OwnerOf
<1>3. ~Emptied(os, w, os[o].objPool) BY <1>2, OwnerNotEmptied
<1>4. QED BY <1>1, <1>3, OwnerOf, NoOwnLoop

(* PtrVec and SmplPtrMap. *)
LEMMA DeleteElements ==
  ASSUME NEW ps, NEW os, NEW w, NEW rest, NEW o \in Objs,
         Sound(ps, os, w), Stacked(w, DeleteCall(o), rest), os[o].kind # "TmpPool"
  PROVE  Sound(ps, DtorBegun(os, o), Cat(DeleteAll(os[o].elems), Cat(<<DtorCall(o)>>, rest)))
<1>1. PICK w1 : w1 = Cat(<<DtorCall(o)>>, rest) OBVIOUS
<1>2. Stacked(w1, DtorCall(o), rest)
  <2>1. DtorCall(o) \in Calls /\ rest \in Seq(Calls) BY CallNames DEF Stacked
  <2>2. QED BY <1>1, <2>1, PushStacked
<1>3. PICK os2 : os2 = DtorBegun(os, o) OBVIOUS
<1>4. Standing(ps, os, w) /\ PoolsOwned(ps, os, w) BY DEF Sound
<1>5. /\ Typed(ps, os, w) /\ Tree(ps) /\ AllPlaced(ps, os) /\ Ordered(w, MayStand(ps, os))
      /\ CallsSound(ps, os, w) /\ OwnersSound(ps, os, w) /\ Acyclic(os)
  BY <1>4 DEF Standing
<1>6. /\ Made(os, o) /\ os[o].dtors = 0 /\ Busy(w, o) /\ ~In(ClearCall(o), w)
      /\ \A b : In(b, rest) => b \notin ObjectCalls(o)
  BY <1>5, DeleteOnTop
<1>7. /\ Begun(ps, os2, w1, o)
      /\ \A x \in Objs : Busy(w1, x) <=> Busy(w, x)
      /\ \A p : Going(w1, p) <=> Going(w, p)
      /\ \A x \in Objs : In(ClearCall(x), w1) <=> In(ClearCall(x), w)
  BY <1>2, <1>3, <1>4, Relabel
<1>8. LikeObjs(os, os2) /\ os2[o].dtors = 1 /\ \A x \in Objs : x # o => os2[x] = os[x]
  BY <1>3, <1>5, <1>6, BegunObjs
<1>9. Over(ps, os, w, o) BY <1>5, ObjectOver DEF ObjectCalls
<1>10. PICK el \in Seq(Objs) : el = os[o].elems /\ IsInjective(el)
  <2>1. os[o].elems \in Seq(Objs) BY <1>5, <1>6, TypedObjs
  <2>2. IsInjective(os[o].elems) BY <1>5, <1>6 DEF OwnersSound, ContainerSound
  <2>3. QED BY <2>1, <2>2
<1>11. \A e : In(e, el) <=> Owns(os, o, e) BY <1>6, <1>10 DEF Owns, Elem
<1>12. ASSUME NEW e, In(e, el)
       PROVE  e \in Objs /\ e # o /\ Made(os, e) /\ os[e].dtors = 0 /\ ~Busy(w, e)
  BY <1>5, <1>6, <1>9, <1>11, <1>12, ElementReady DEF Ready
<1>13. PICK s \in Seq(Calls) : s = DeleteAll(el) BY <1>10, DeleteAllSeq
<1>14. \A c : In(c, s) <=> \E e \in Objs : In(e, el) /\ c = DeleteCall(e) BY <1>10, <1>13, DeleteAllSeq
<1>15. PICK w2 \in Seq(Calls) : w2 = Cat(s, w1) BY <1>2, <1>13, CatType DEF Stacked
<1>16. \A c : In(c, w2) <=> In(c, w1) \/ \E e \in Objs : In(e, el) /\ c = DeleteCall(e)
  <2>1. \A c : In(c, w2) <=> In(c, s) \/ In(c, w1) BY <1>2, <1>13, <1>15, CatIn DEF Stacked
  <2>2. QED BY <2>1, <1>14
<1>17. \A p : Going(w2, p) <=> Going(w1, p)
  <2>1. \A p : \A e \in Objs : PoolCall(p) # DeleteCall(e) BY CallNames DEF ObjectCalls
  <2>2. QED BY <2>1, <1>16 DEF Going
<1>18. \A x \in Objs : /\ In(DtorCall(x), w2) <=> In(DtorCall(x), w1)
                       /\ In(ClearCall(x), w2) <=> In(ClearCall(x), w1)
                       /\ In(DeleteCall(x), w2) <=> In(x, el) \/ In(DeleteCall(x), w1)
  <2>1. \A x, e \in Objs : DtorCall(x) # DeleteCall(e) /\ ClearCall(x) # DeleteCall(e)
                             /\ (DeleteCall(x) = DeleteCall(e) => x = e)
    BY DEF DtorCall, ClearCall, DeleteCall
  <2>2. QED BY <2>1, <1>12, <1>16
<1>19. \A x \in Objs : Busy(w2, x) <=> In(x, el) \/ Busy(w1, x) BY <1>18 DEF Busy
<1>20. MoreCalls(w1, w2) BY <1>16, <1>17, <1>18 DEF MoreCalls
<1>21. Typed(ps, os2, w2) BY <1>7, <1>15 DEF Begun, Typed
<1>22. Ordered(w2, MayStand(ps, os2))
  <2>1. \A e : In(e, el) => DeleteCall(e) \in Calls /\ DeleteCall(e) \in ObjectCalls(e)
    BY <1>12, CallNames DEF ObjectCalls
  <2>2. ASSUME NEW x \in Objs, NEW y \in Objs, In(x, el), In(y, el), x # y
        PROVE  <<DeleteCall(x), DeleteCall(y)>> \in MayStand(ps, os2)
    <3>1. DeleteCall(y) \notin ObjectCalls(x) /\ StandsOver(ps, os, x, DeleteCall(y))
      BY <1>5, <1>11, <1>12, <2>1, <2>2, SiblingStands
    <3>2. StandsOver(ps, os2, x, DeleteCall(y)) BY <1>8, <2>1, <2>2, <3>1, LikeStands
    <3>3. QED BY <2>1, <2>2, <3>1, <3>2, ObjectStands
  <2>3. Ordered(s, MayStand(ps, os2)) BY <1>10, <1>13, <2>2, DeleteAllSeq
  <2>4. ASSUME NEW e, In(e, el), NEW b, In(b, w1) PROVE <<DeleteCall(e), b>> \in MayStand(ps, os2)
    <3>1. b \in Calls BY <2>4, <1>2, InElements DEF Stacked
    <3>2. In(b, w) \/ b \in ObjectCalls(o)
      <4>1. b = DtorCall(o) \/ In(b, rest) BY <2>4, <1>2 DEF Stacked
      <4>2. In(b, rest) => In(b, w) BY DEF Stacked
      <4>3. QED BY <4>1, <4>2 DEF ObjectCalls
    <3>3. b \notin ObjectCalls(e) /\ StandsOver(ps, os, e, b)
      BY <1>5, <1>6, <1>9, <1>11, <1>12, <2>4, <3>1, <3>2, ElementStands DEF Ready
    <3>4. StandsOver(ps, os2, e, b) BY <1>8, <1>12, <2>4, <3>1, <3>3, LikeStands
    <3>5. QED BY <1>12, <2>1, <2>4, <3>1, <3>3, <3>4, ObjectStands
  <2>5. Ordered(w1, MayStand(ps, os2)) BY <1>7 DEF Begun
  <2>6. \A x, y : In(x, s) /\ In(y, w1) => <<x, y>> \in MayStand(ps, os2) BY <1>14, <2>4
  <2>7. w1 \in Seq(Calls) BY <1>2 DEF Stacked
  <2>8. QED BY <1>13, <1>15, <2>3, <2>5, <2>6, <2>7, CatOrdered
<1>23. CallsSound(ps, os2, w2)
  <2>1. CallsSound(ps, os2, w1) BY <1>7 DEF Begun
  <2>2. ASSUME NEW x \in Objs, In(DeleteCall(x), w2) PROVE Made(os2, x) /\ os2[x].dtors = 0
    <3>1. CASE In(x, el) BY <3>1, <1>8, <1>12 DEF LikeObjs
    <3>2. CASE In(DeleteCall(x), w1) BY <3>2, <2>1 DEF CallsSound
    <3>3. QED BY <2>2, <3>1, <3>2, <1>18
  <2>3. \A p \in Pools : Going(w2, p) => Alive(ps, p) /\ HasReason(ps, os2, w2, p)
    BY <2>1, <1>17, <1>20, MoreSound DEF CallsSound
  <2>4. QED BY <2>1, <2>2, <2>3, <1>18 DEF CallsSound
<1>24. OwnersSound(ps, os2, w2)
  <2>1. \A c \in Objs : Made(os2, c) => ContainerSound(ps, os2, w2, c) BY <1>7, <1>20, MoreSound DEF Begun
  <2>2. ASSUME NEW c \in Objs, NEW x \in Objs, Owns(os2, c, x), c # o PROVE ElementSound(os2, w2, c, x)
    <3>1. ElementSound(os2, w1, c, x) BY <2>2, <1>7 DEF Begun
    <3>2. ~In(x, el)
      <4>1. In(x, el) => Owns(os2, o, x) BY <1>8, <1>11, LikeFacts
      <4>2. QED BY <4>1, <2>2, <3>1 DEF ElementSound
    <3>3. Busy(w2, x) => Busy(w1, x) BY <3>2, <1>19
    <3>4. Ready(os2, w2, c) => Ready(os2, w1, c) BY <1>18 DEF Ready
    <3>5. QED BY <3>1, <3>3, <3>4, <1>20, MoreSound
  <2>3. ASSUME NEW x \in Objs, Owns(os2, o, x) PROVE ElementSound(os2, w2, o, x)
    <3>1. Owns(os, o, x) BY <2>3, <1>8, LikeFacts
    <3>2. ElementSound(os, w, o, x) BY <3>1, <1>5 DEF OwnersSound
    <3>3. ~Ready(os2, w2, o) BY <1>6, <1>7, <1>8, <1>18 DEF Ready
    <3>4. Busy(w2, x) BY <3>1, <1>11, <1>19
    <3>5. QED BY <3>2, <3>3, <3>4, <1>8, LikeElement
  <2>4. QED BY <2>1, <2>2, <2>3 DEF OwnersSound
<1>25. PoolsOwned(ps, os2, w2)
  <2>1. \A x \in Objs : os2[x].kind = "TmpPool" => os2[x].dtors = os[x].dtors BY <1>8 DEF LikeObjs
  <2>2. \A p : Going(w2, p) <=> Going(w, p) BY <1>7, <1>17
  <2>3. QED BY <2>1, <2>2, <1>4, <1>8 DEF PoolsOwned, LikeObjs
<1>26. Sound(ps, os2, w2)
  <2>1. Tree(ps) /\ AllPlaced(ps, os2) /\ CleanupsSound(ps, os2, w1) /\ Acyclic(os2) /\ ManagedSound(os2, w1)
    BY <1>7 DEF Begun
  <2>2. CleanupsSound(ps, os2, w2) /\ ManagedSound(os2, w2) BY <2>1, <1>20, MoreSound
  <2>3. QED BY <2>1, <2>2, <1>21, <1>22, <1>23, <1>24, <1>25 DEF Sound, Standing
<1>27. QED BY <1>1, <1>3, <1>10, <1>13, <1>15, <1>26

(* StrPtrMap. *)
LEMMA DeleteClear ==
  ASSUME NEW ps, NEW os, NEW w, NEW rest, NEW o \in Objs,
         Sound(ps, os, w), Stacked(w, DeleteCall(o), rest), os[o].kind = "StrPtrMap"
  PROVE  Sound(ps, DtorBegun(os, o), Cat(<<ClearCall(o)>>, Cat(<<DtorCall(o)>>, rest)))
<1>1. PICK w1 : w1 = Cat(<<DtorCall(o)>>, rest) OBVIOUS
<1>2. Stacked(w1, DtorCall(o), rest)
  <2>1. DtorCall(o) \in Calls /\ rest \in Seq(Calls) BY CallNames DEF Stacked
  <2>2. QED BY <1>1, <2>1, PushStacked
<1>3. PICK os2 : os2 = DtorBegun(os, o) OBVIOUS
<1>4. Standing(ps, os, w) /\ PoolsOwned(ps, os, w) BY DEF Sound
<1>5. /\ Typed(ps, os, w) /\ Tree(ps) /\ AllPlaced(ps, os) /\ Ordered(w, MayStand(ps, os))
      /\ CallsSound(ps, os, w) /\ OwnersSound(ps, os, w) /\ Acyclic(os)
  BY <1>4 DEF Standing
<1>6. /\ Made(os, o) /\ os[o].dtors = 0 /\ Busy(w, o) /\ ~In(ClearCall(o), w)
      /\ \A b : In(b, rest) => b \notin ObjectCalls(o) /\ StandsOver(ps, os, o, b)
  BY <1>5, DeleteOnTop
<1>7. /\ Begun(ps, os2, w1, o)
      /\ \A x \in Objs : Busy(w1, x) <=> Busy(w, x)
      /\ \A p : Going(w1, p) <=> Going(w, p)
      /\ \A x \in Objs : In(ClearCall(x), w1) <=> In(ClearCall(x), w)
  BY <1>2, <1>3, <1>4, Relabel
<1>8. LikeObjs(os, os2) /\ os2[o].dtors = 1 /\ \A x \in Objs : x # o => os2[x] = os[x]
  BY <1>3, <1>5, <1>6, BegunObjs
<1>9. Over(ps, os, w, o) BY <1>5, ObjectOver DEF ObjectCalls
<1>10. PICK w2 : w2 = Cat(<<ClearCall(o)>>, w1) OBVIOUS
<1>11. Stacked(w2, ClearCall(o), w1)
  <2>1. ClearCall(o) \in Calls /\ w1 \in Seq(Calls) BY <1>2, CallNames DEF Stacked
  <2>2. QED BY <1>10, <2>1, PushStacked
<1>12. \A c : In(c, w2) <=> c = ClearCall(o) \/ In(c, w1) BY <1>11 DEF Stacked
<1>13. /\ \A p : PoolCall(p) # ClearCall(o)
       /\ \A x \in Objs : DtorCall(x) # ClearCall(o) /\ DeleteCall(x) # ClearCall(o)
                            /\ (ClearCall(x) = ClearCall(o) => x = o)
  BY DEF PoolCall, DtorCall, ClearCall, DeleteCall
<1>14. /\ \A p : Going(w2, p) <=> Going(w1, p)
       /\ \A x \in Objs : /\ In(DtorCall(x), w2) <=> In(DtorCall(x), w1)
                          /\ In(DeleteCall(x), w2) <=> In(DeleteCall(x), w1)
                          /\ In(ClearCall(x), w2) <=> x = o \/ In(ClearCall(x), w1)
  BY <1>12, <1>13 DEF Going
<1>15. In(DtorCall(o), w1) BY <1>2 DEF Stacked
<1>16. \A x \in Objs : Busy(w2, x) <=> Busy(w1, x) BY <1>14, <1>15 DEF Busy
<1>17. MoreCalls(w1, w2) BY <1>12, <1>14 DEF MoreCalls
<1>18. Typed(ps, os2, w2) BY <1>7, <1>11 DEF Begun, Typed, Stacked
<1>19. Ordered(w2, MayStand(ps, os2))
  <2>1. ASSUME NEW b, In(b, w1) PROVE <<ClearCall(o), b>> \in MayStand(ps, os2)
    <3>1. CASE b = DtorCall(o)
      <4>1. ClearCall(o) \in ObjectCalls(o) /\ b \in Calls BY <3>1, CallNames DEF ObjectCalls
      <4>2. QED BY <3>1, <4>1, ObjectStands
    <3>2. CASE In(b, rest)
      <4>1. ClearCall(o) \in ObjectCalls(o) /\ b \in Calls BY <3>2, InElements DEF ObjectCalls, Stacked
      <4>2. b \notin ObjectCalls(o) /\ StandsOver(ps, os, o, b) BY <3>2, <1>6
      <4>3. StandsOver(ps, os2, o, b) BY <4>1, <4>2, <1>8, LikeStands
      <4>4. QED BY <4>1, <4>2, <4>3, ObjectStands
    <3>3. QED BY <2>1, <3>1, <3>2, <1>2 DEF Stacked
  <2>2. Ordered(w1, MayStand(ps, os2)) BY <1>7 DEF Begun
  <2>3. QED BY <2>1, <2>2, <1>11 DEF Stacked
<1>20. CallsSound(ps, os2, w2)
  <2>1. CallsSound(ps, os2, w1) BY <1>7 DEF Begun
  <2>2. Made(os2, o) /\ os2[o].kind = "StrPtrMap" BY <1>6, <1>8 DEF LikeObjs
  <2>3. \A p \in Pools : Going(w2, p) => Alive(ps, p) /\ HasReason(ps, os2, w2, p)
    BY <2>1, <1>14, <1>17, MoreSound DEF CallsSound
  <2>4. QED BY <2>1, <2>2, <2>3, <1>14, <1>15 DEF CallsSound
<1>21. OwnersSound(ps, os2, w2)
  <2>1. \A c \in Objs : Made(os2, c) => ContainerSound(ps, os2, w2, c) BY <1>7, <1>17, MoreSound DEF Begun
  <2>2. ASSUME NEW c \in Objs, NEW x \in Objs, Owns(os2, c, x), c # o PROVE ElementSound(os2, w2, c, x)
    <3>1. ElementSound(os2, w1, c, x) BY <2>2, <1>7 DEF Begun
    <3>2. Busy(w2, x) => Busy(w1, x) BY <1>16
    <3>3. Ready(os2, w2, c) => Ready(os2, w1, c) BY <2>2, <1>14 DEF Ready
    <3>4. QED BY <3>1, <3>2, <3>3, <1>17, MoreSound
  <2>3. ASSUME NEW x \in Objs, Owns(os2, o, x) PROVE ElementSound(os2, w2, o, x)
    <3>1. Owns(os, o, x) BY <2>3, <1>8, LikeFacts
    <3>2. ElementSound(os, w, o, x) BY <3>1, <1>5 DEF OwnersSound
    <3>3. Ready(os2, w2, o) BY <1>14 DEF Ready
    <3>4. Made(os2, x) /\ os2[x].dtors = 0 /\ ~Busy(w2, x)
      <4>1. x # o /\ Made(os, x) /\ os[x].dtors = 0 /\ ~Busy(w, x)
        BY <3>1, <1>5, <1>6, <1>9, ElementReady DEF Ready
      <4>2. QED BY <4>1, <1>7, <1>8, <1>16 DEF LikeObjs
    <3>5. QED BY <3>2, <3>3, <3>4, <1>8, LikeElement
  <2>4. QED BY <2>1, <2>2, <2>3 DEF OwnersSound
<1>22. PoolsOwned(ps, os2, w2)
  <2>1. \A x \in Objs : os2[x].kind = "TmpPool" => os2[x].dtors = os[x].dtors BY <1>8 DEF LikeObjs
  <2>2. \A p : Going(w2, p) <=> Going(w, p) BY <1>7, <1>14
  <2>3. QED BY <2>1, <2>2, <1>4, <1>8 DEF PoolsOwned, LikeObjs
<1>23. Sound(ps, os2, w2)
  <2>1. Tree(ps) /\ AllPlaced(ps, os2) /\ CleanupsSound(ps, os2, w1) /\ Acyclic(os2) /\ ManagedSound(os2, w1)
    BY <1>7 DEF Begun
  <2>2. CleanupsSound(ps, os2, w2) /\ ManagedSound(os2, w2) BY <2>1, <1>17, MoreSound
  <2>3. QED BY <2>1, <2>2, <1>18, <1>19, <1>20, <1>21, <1>22 DEF Sound, Standing
<1>24. QED BY <1>1, <1>3, <1>10, <1>23

LEMMA DeleteTmpPool ==
  ASSUME NEW ps, NEW os, NEW w, NEW rest, NEW o \in Objs,
         Sound(ps, os, w), Stacked(w, DeleteCall(o), rest), os[o].kind = "TmpPool"
  PROVE  Sound(ps, DtorBegun(os, o), Cat(<<PoolCall(os[o].tmp)>>, Cat(<<DtorCall(o)>>, rest)))
<1>1. PICK w1 : w1 = Cat(<<DtorCall(o)>>, rest) OBVIOUS
<1>2. Stacked(w1, DtorCall(o), rest)
  <2>1. DtorCall(o) \in Calls /\ rest \in Seq(Calls) BY CallNames DEF Stacked
  <2>2. QED BY <1>1, <2>1, PushStacked
<1>3. PICK os2 : os2 = DtorBegun(os, o) OBVIOUS
<1>4. Standing(ps, os, w) /\ PoolsOwned(ps, os, w) BY DEF Sound
<1>5. /\ Typed(ps, os, w) /\ Tree(ps) /\ AllPlaced(ps, os) /\ Ordered(w, MayStand(ps, os))
      /\ CallsSound(ps, os, w) /\ OwnersSound(ps, os, w)
  BY <1>4 DEF Standing
<1>6. /\ Made(os, o) /\ os[o].dtors = 0
      /\ \A b : In(b, rest) => b \notin ObjectCalls(o) /\ StandsOver(ps, os, o, b)
  BY <1>5, DeleteOnTop
<1>7. Begun(ps, os2, w1, o) /\ \A p : Going(w1, p) <=> Going(w, p) BY <1>2, <1>3, <1>4, Relabel
<1>8. LikeObjs(os, os2) /\ \A x \in Objs : x # o => os2[x] = os[x]
  BY <1>3, <1>5, <1>6, BegunObjs
<1>9. Over(ps, os, w, o) BY <1>5, ObjectOver DEF ObjectCalls
<1>10. Placed(ps, os, o) BY <1>5, <1>6 DEF AllPlaced
<1>11. PICK P \in Pools : P = os[o].objPool /\ Alive(ps, P) BY <1>5, <1>6, <1>10, PlacedUp
<1>12. Alive(ps, tmpPool(o))
  <2>1. ~Emptied(os, w, os[o].objPool) BY <1>9, OwnerNotEmptied
  <2>2. QED BY <2>1, <1>5, <1>6 DEF OwnersSound, ContainerSound
<1>13. PICK t \in Pools : t = tmpPool(o) /\ t = os[o].tmp /\ Alive(ps, t)
  BY <1>10, <1>12, PoolNames DEF Placed
<1>14. Up(ps, t) = {t} \cup Up(ps, P) /\ t \notin Up(ps, P)
  BY <1>10, <1>11, <1>12, <1>13 DEF Placed
<1>15. Standing(ps, os2, w1)
  <2>1. os[o].elems = <<>> BY <1>10 DEF Placed, Owners
  <2>2. \A x : ~Owns(os2, o, x)
    <3>1. os2[o].elems = <<>> BY <2>1, <1>8 DEF LikeObjs
    <3>2. QED BY <3>1, NoneIn DEF Owns, Elem
  <2>3. OwnersSound(ps, os2, w1) BY <2>2, <1>7 DEF Begun, OwnersSound
  <2>4. QED BY <2>3, <1>7 DEF Begun, Standing
<1>16. HasReason(ps, os2, w1, t)
  <2>1. In(DtorCall(o), w1) BY <1>2 DEF Stacked
  <2>2. os2[o].kind = "TmpPool" BY <1>8 DEF LikeObjs
  <2>3. QED BY <2>1, <2>2, <1>13 DEF HasReason
<1>17. ASSUME NEW b, In(b, w1) PROVE t \notin Up(ps, PoolOf(os2, b)) /\ \A q : b = PoolCall(q) => q \in Up(ps, t)
  <2>1. b \in Calls BY <1>2, <1>17, InElements DEF Stacked
  <2>2. PoolOf(os2, b) = PoolOf(os, b) BY <2>1, <1>8, SamePoolOf DEF LikeObjs
  <2>3. CASE b = DtorCall(o)
    <3>1. b \in ObjectCalls(o) BY <2>3 DEF ObjectCalls
    <3>2. PoolOf(os, b) = P
      <4>1. PoolOf(os, b) = os[o].objPool BY <3>1, CallPools, Zenon
      <4>2. QED BY <4>1, <1>11
    <3>3. QED BY <3>1, <3>2, <2>2, <1>14, CallNames
  <2>4. CASE In(b, rest)
    <3>1. StandsOver(ps, os, o, b) BY <2>4, <1>6
    <3>2. /\ \A q \in Up(ps, PoolOf(os, b)) : P \in Up(ps, q) /\ q # P => OnObject(b) /\ q = subPool(b[2])
          /\ \A q : b = PoolCall(q) => q \in Up(ps, P)
      BY <3>1, <1>11 DEF StandsOver, ObjectAbove
    <3>3. P \in Up(ps, t) /\ P # t
      <4>1. P \in Up(ps, P) BY <1>5, <1>11, TreeSelf
      <4>2. QED BY <4>1, <1>14
    <3>4. t \notin Up(ps, PoolOf(os, b))
      <4>1. SUFFICES ASSUME t \in Up(ps, PoolOf(os, b)) PROVE FALSE OBVIOUS
      <4>2. OnObject(b) /\ t = subPool(b[2]) BY <4>1, <3>2, <3>3
      <4>3. b[2] \in Objs BY <4>2, CallNames DEF OnObject
      <4>4. QED BY <4>2, <4>3, <1>13, PoolNames
    <3>5. \A q : b = PoolCall(q) => q \in Up(ps, t) BY <3>2, <1>14
    <3>6. QED BY <3>4, <3>5, <2>2
  <2>5. QED BY <1>17, <2>3, <2>4, <1>2 DEF Stacked
<1>18. PICK w2 : w2 = Cat(<<PoolCall(t)>>, w1) OBVIOUS
<1>19. Standing(ps, os2, w2) BY <1>13, <1>15, <1>16, <1>17, <1>18, PushPool
<1>20. PoolsOwned(ps, os2, w2)
  <2>1. Stacked(w2, PoolCall(t), w1)
    <3>1. PoolCall(t) \in Calls /\ w1 \in Seq(Calls) BY <1>2, CallNames DEF Stacked
    <3>2. QED BY <3>1, <1>18, PushStacked
  <2>2. Going(w2, t) /\ \A p : Going(w, p) => Going(w2, p) BY <2>1, <1>7 DEF Going, Stacked
  <2>3. ASSUME NEW x \in Objs, Alive(ps, subPool(x))
        PROVE  Going(w2, subPool(x)) \/ (Made(os2, x) /\ os2[x].objPool = subPool(x) /\ os2[x].usage)
    BY <2>2, <2>3, <1>4, <1>8 DEF PoolsOwned, LikeObjs
  <2>4. ASSUME NEW x \in Objs, Alive(ps, tmpPool(x))
        PROVE  Going(w2, tmpPool(x)) \/ (Made(os2, x) /\ os2[x].kind = "TmpPool" /\ os2[x].dtors = 0)
    <3>1. CASE x = o BY <3>1, <2>2, <1>13
    <3>2. CASE x # o
      <4>1. os2[x] = os[x] /\ (Made(os2, x) <=> Made(os, x)) BY <3>2, <1>8 DEF LikeObjs
      <4>2. Going(w, tmpPool(x)) \/ (Made(os, x) /\ os[x].kind = "TmpPool" /\ os[x].dtors = 0)
        BY <2>4, <1>4 DEF PoolsOwned
      <4>3. QED BY <4>1, <4>2, <2>2
    <3>3. QED BY <3>1, <3>2
  <2>5. QED BY <2>3, <2>4 DEF PoolsOwned
<1>21. QED BY <1>1, <1>3, <1>13, <1>18, <1>19, <1>20 DEF Sound

(***************************************************************************)
(* StrPtrMap::clear()                                                      *)
(***************************************************************************)
LEMMA ClearOnTop ==
  ASSUME NEW ps, NEW os, NEW w, NEW rest, NEW o \in Objs,
         Stacked(w, ClearCall(o), rest), Ordered(w, MayStand(ps, os)), CallsSound(ps, os, w)
  PROVE  /\ Made(os, o) /\ os[o].kind = "StrPtrMap" /\ os[o].dtors = 1 /\ In(ClearCall(o), w)
         /\ In(DtorCall(o), rest) /\ ~In(ClearCall(o), rest) /\ ~In(DeleteCall(o), rest)
<1>1. In(ClearCall(o), w) BY DEF Stacked
<1>2. Made(os, o) /\ os[o].kind = "StrPtrMap" /\ In(DtorCall(o), w) BY <1>1 DEF CallsSound
<1>3. os[o].dtors = 1 BY <1>2 DEF CallsSound
<1>4. DtorCall(o) # ClearCall(o) /\ DeleteCall(o) # DtorCall(o) BY CallNames
<1>5. In(DtorCall(o), rest) BY <1>2, <1>4 DEF Stacked
<1>6. \A b \in ObjectCalls(o) : In(b, rest) => b = DtorCall(o) BY ObjectOnTop DEF ObjectCalls
<1>7. ~In(ClearCall(o), rest) /\ ~In(DeleteCall(o), rest) BY <1>4, <1>6 DEF ObjectCalls
<1>8. QED BY <1>1, <1>2, <1>3, <1>5, <1>7

LEMMA ClearDone ==
  ASSUME NEW ps, NEW os, NEW w, NEW rest, NEW o \in Objs,
         Sound(ps, os, w), Stacked(w, ClearCall(o), rest), os[o].elems = <<>>
  PROVE  Sound(ps, os, rest)
<1>1. Standing(ps, os, w) /\ PoolsOwned(ps, os, w) BY DEF Sound
<1>2. /\ Typed(ps, os, w) /\ Ordered(w, MayStand(ps, os)) /\ CallsSound(ps, os, w)
      /\ OwnersSound(ps, os, w) /\ CleanupsSound(ps, os, w) /\ ManagedSound(os, w)
  BY <1>1 DEF Standing
<1>3. /\ Made(os, o) /\ os[o].dtors = 1
      /\ In(DtorCall(o), rest) /\ ~In(ClearCall(o), rest) /\ ~In(DeleteCall(o), rest)
  BY <1>2, ClearOnTop
<1>4. \A c : In(c, w) <=> c = ClearCall(o) \/ In(c, rest) BY DEF Stacked
<1>5. /\ \A p : PoolCall(p) # ClearCall(o)
      /\ \A x \in Objs : DtorCall(x) # ClearCall(o) /\ DeleteCall(x) # ClearCall(o)
                           /\ (ClearCall(x) = ClearCall(o) => x = o)
  BY DEF PoolCall, DtorCall, ClearCall, DeleteCall
<1>6. /\ \A p : Going(rest, p) <=> Going(w, p)
      /\ \A x \in Objs : /\ In(DtorCall(x), rest) <=> In(DtorCall(x), w)
                         /\ In(DeleteCall(x), rest) <=> In(DeleteCall(x), w)
                         /\ In(ClearCall(x), rest) <=> x # o /\ In(ClearCall(x), w)
  BY <1>3, <1>4, <1>5 DEF Going
<1>7. \A x \in Objs : Busy(rest, x) <=> Busy(w, x)
  <2>1. ASSUME NEW x \in Objs, x # o PROVE Busy(rest, x) <=> Busy(w, x) BY <2>1, <1>6 DEF Busy
  <2>2. Busy(rest, o) /\ Busy(w, o) BY <1>3, <1>6 DEF Busy
  <2>3. QED BY <2>1, <2>2
<1>8. \A p : Emptied(os, rest, p) <=> Emptied(os, w, p) BY <1>6 DEF Emptied
<1>9. \A x : ~Owns(os, o, x) BY NoneIn DEF Owns, Elem
<1>10. Typed(ps, os, rest) BY <1>2 DEF Typed, Stacked
<1>11. CleanupsSound(ps, os, rest) BY <1>2, <1>7 DEF CleanupsSound
<1>12. PoolsOwned(ps, os, rest) BY <1>1, <1>6 DEF PoolsOwned
<1>13. Ordered(rest, MayStand(ps, os)) BY <1>2 DEF Stacked
<1>14. CallsSound(ps, os, rest)
  <2>1. ASSUME NEW p \in Pools, Going(rest, p) PROVE Alive(ps, p) /\ HasReason(ps, os, rest, p)
    <3>1. Alive(ps, p) /\ HasReason(ps, os, w, p) BY <2>1, <1>2, <1>6 DEF CallsSound
    <3>2. HasReason(ps, os, rest, p) BY <3>1, <1>6, <1>8, ReasonStays
    <3>3. QED BY <3>1, <3>2
  <2>2. QED BY <2>1, <1>2, <1>6 DEF CallsSound
<1>15. OwnersSound(ps, os, rest)
  <2>1. \A c \in Objs : Made(os, c) => ContainerSound(ps, os, rest, c)
    BY <1>2, <1>8 DEF OwnersSound, ContainerSound
  <2>2. ASSUME NEW c \in Objs, NEW x \in Objs, Owns(os, c, x) PROVE ElementSound(os, rest, c, x)
    <3>1. ElementSound(os, w, c, x) BY <2>2, <1>2 DEF OwnersSound
    <3>2. Ready(os, rest, c) <=> Ready(os, w, c) BY <2>2, <1>6, <1>9 DEF Ready
    <3>3. QED BY <3>1, <3>2, <1>7, <1>8 DEF ElementSound
  <2>3. QED BY <2>1, <2>2 DEF OwnersSound
<1>16. ManagedSound(os, rest) BY <1>2, <1>7, <1>8 DEF ManagedSound
<1>17. QED BY <1>1, <1>10, <1>11, <1>12, <1>13, <1>14, <1>15, <1>16 DEF Sound, Standing

(* The container without its i-th element. *)
TakenOut(os, o, i) == [os EXCEPT ![o].elems = RemoveAt(@, i)]

LEMMA TakenOutObjs ==
  ASSUME NEW ps, NEW os, NEW w, Typed(ps, os, w), NEW o \in Objs, Made(os, o), NEW i \in DOMAIN os[o].elems,
         IsInjective(os[o].elems)
  PROVE  /\ TakenOut(os, o, i) \in [Objs -> ObjTypes \cup {None}]
         /\ \A x \in Objs :
              /\ Made(TakenOut(os, o, i), x) <=> Made(os, x)
              /\ Made(os, x) => Kept(os, TakenOut(os, o, i), x)
              /\ TakenOut(os, o, i)[x].usage = os[x].usage /\ TakenOut(os, o, i)[x].dtors = os[x].dtors
              /\ TakenOut(os, o, i)[x].managed = os[x].managed
              /\ x # o => TakenOut(os, o, i)[x] = os[x]
         /\ IsInjective(TakenOut(os, o, i)[o].elems)
         /\ \A x : Elem(TakenOut(os, o, i), o, x) <=> Elem(os, o, x) /\ x # os[o].elems[i]
<1>1. os \in [Objs -> ObjTypes \cup {None}] /\ os[o] \in ObjTypes BY TypedObjs DEF Typed
<1>2. os[o].elems \in Seq(Objs) BY TypedObjs
<1>3. PICK el \in Seq(Objs) :
        /\ el = RemoveAt(os[o].elems, i) /\ IsInjective(el)
        /\ \A y : In(y, el) <=> In(y, os[o].elems) /\ y # os[o].elems[i]
  BY <1>2, RemoveSeq
<1>4. PICK r : r = [os[o] EXCEPT !.elems = el] OBVIOUS
<1>5. PICK os2 : os2 = TakenOut(os, o, i) OBVIOUS
<1>6. os2 = [os EXCEPT ![o] = r] BY <1>3, <1>4, <1>5 DEF TakenOut
<1>7. /\ r \in ObjTypes /\ r.elems = el /\ r.kind = os[o].kind /\ r.pool = os[o].pool /\ r.objPool = os[o].objPool
      /\ r.usage = os[o].usage /\ r.destroyerPool = os[o].destroyerPool
      /\ r.tmp = os[o].tmp /\ r.dtors = os[o].dtors /\ r.strs = os[o].strs /\ r.managed = os[o].managed
  BY <1>1, <1>4 DEF ObjTypes
<1>8. r # None BY <1>7, NoNone
<1>9. os2 \in [Objs -> ObjTypes \cup {None}] BY <1>1, <1>6, <1>7
<1>10. os2[o] = r /\ \A x \in Objs : x # o => os2[x] = os[x] BY <1>1, <1>6
<1>11. IsInjective(os2[o].elems) /\ \A x : Elem(os2, o, x) <=> Elem(os, o, x) /\ x # os[o].elems[i]
  BY <1>3, <1>7, <1>10 DEF Elem
<1> HIDE DEF Objs
<1>12. ASSUME NEW x \in Objs
       PROVE  /\ Made(os2, x) <=> Made(os, x)
              /\ Made(os, x) => Kept(os, os2, x)
              /\ os2[x].usage = os[x].usage /\ os2[x].dtors = os[x].dtors /\ os2[x].managed = os[x].managed
              /\ x # o => os2[x] = os[x]
  <2>1. CASE x = o
    <3>1. Made(os2, o) /\ Made(os, o) BY <1>8, <1>10 DEF Made
    <3>2. Kept(os, os2, o) BY <3>1, <1>7, <1>10, <1>11 DEF Kept
    <3>3. QED BY <2>1, <3>1, <3>2, <1>7, <1>10
  <2>2. CASE x # o
    <3>1. os2[x] = os[x] BY <2>2, <1>10
    <3>2. QED BY <2>2, <3>1 DEF Made, Kept, Elem
  <2>3. QED BY <2>1, <2>2
<1>13. QED BY <1>5, <1>9, <1>11, <1>12

(* Every object is kept. *)
AllKept(os, os2) == \A x \in Objs : (Made(os2, x) <=> Made(os, x)) /\ (Made(os, x) => Kept(os, os2, x))

LEMMA KeptFacts ==
  ASSUME NEW os, NEW os2, AllKept(os, os2)
  PROVE  /\ \A p : Keeps(os2, p) <=> Keeps(os, p)
         /\ \A w, p : Emptied(os2, w, p) <=> Emptied(os, w, p)
         /\ \A x \in Objs : Made(os, x) => (Registered(os2, x) <=> Registered(os, x))
         /\ \A c \in Objs : \A x : Owns(os2, c, x) => Owns(os, c, x)
         /\ Acyclic(os) => Acyclic(os2)
<1>1. \A p : Keeps(os2, p) <=> Keeps(os, p) BY DEF AllKept, Kept, Keeps
<1>2. \A w, p : Emptied(os2, w, p) <=> Emptied(os, w, p) BY <1>1 DEF Emptied
<1>3. \A x \in Objs : Made(os, x) => (Registered(os2, x) <=> Registered(os, x)) BY DEF AllKept, Kept, Registered
<1>4. \A c \in Objs : \A x : Owns(os2, c, x) => Owns(os, c, x) BY DEF AllKept, Kept, Owns
<1>5. Acyclic(os) => Acyclic(os2) BY <1>4 DEF Acyclic
<1>6. QED BY <1>1, <1>2, <1>3, <1>4, <1>5

LEMMA KeptPlaced ==
  ASSUME NEW ps, NEW os, NEW os2, NEW w, AllKept(os, os2), Typed(ps, os2, w), AllPlaced(ps, os)
  PROVE  AllPlaced(ps, os2)
<1>1. SUFFICES ASSUME NEW x \in Objs, Made(os2, x) PROVE Placed(ps, os2, x) BY DEF AllPlaced
<1>2. Placed(ps, os, x) /\ Kept(os, os2, x) BY <1>1 DEF AllKept, AllPlaced
<1>3. os[x].elems = <<>> => os2[x].elems = <<>>
  <2>1. SUFFICES ASSUME os[x].elems = <<>> PROVE os2[x].elems = <<>> OBVIOUS
  <2>2. \A y : ~Elem(os, x, y) BY <2>1, NoneIn DEF Elem
  <2>3. \A y : ~In(y, os2[x].elems) BY <2>2, <1>2 DEF Kept, Elem
  <2>4. os2[x].elems \in Seq(Objs) BY <1>1, TypedObjs
  <2>5. QED BY <2>3, <2>4, InElements
<1>4. QED BY <1>2, <1>3 DEF Placed, Kept

LEMMA KeptOrdered ==
  ASSUME NEW ps, NEW os, NEW os2, NEW w \in Seq(Calls), AllKept(os, os2), Ordered(w, MayStand(ps, os)),
         \A x \in Objs : Busy(w, x) => Made(os, x),
         NEW ps2, \A c : In(c, w) => SameUp(ps, ps2, PoolOf(os, c))
  PROVE  Ordered(w, MayStand(ps2, os2))
<1>1. ASSUME NEW c, In(c, w) PROVE StillCalled(ps, os, ps2, os2, c)
  <2>1. \A x \in Objs : c \in ObjectCalls(x) => Kept(os, os2, x) BY <1>1, BusyCalls DEF AllKept
  <2>2. QED BY <2>1, <1>1 DEF StillCalled
<1>2. StillKept(os, os2, w) BY KeptFacts DEF StillKept
<1>3. QED BY <1>1, <1>2, StillOrdered

LEMMA ClearTurn ==
  ASSUME NEW ps, NEW os, NEW w, NEW rest, NEW o \in Objs,
         Sound(ps, os, w), Stacked(w, ClearCall(o), rest), NEW i \in DOMAIN os[o].elems
  PROVE  Sound(ps, TakenOut(os, o, i), Cat(<<DeleteCall(os[o].elems[i])>>, w))
<1>1. Standing(ps, os, w) /\ PoolsOwned(ps, os, w) BY DEF Sound
<1>2. /\ Typed(ps, os, w) /\ Tree(ps) /\ AllPlaced(ps, os) /\ Ordered(w, MayStand(ps, os))
      /\ CallsSound(ps, os, w) /\ OwnersSound(ps, os, w) /\ Acyclic(os)
      /\ CleanupsSound(ps, os, w) /\ ManagedSound(os, w)
  BY <1>1 DEF Standing
<1>3. Made(os, o) /\ In(ClearCall(o), w) BY <1>2, ClearOnTop
<1>4. PICK e : e = os[o].elems[i] OBVIOUS
<1>5. Owns(os, o, e) BY <1>3, <1>4 DEF Owns, Elem, In
<1>6. Ready(os, w, o) BY <1>3 DEF Ready
<1>7. Over(ps, os, w, o) BY <1>2, ObjectOver DEF ObjectCalls
<1>8. e \in Objs /\ e # o /\ Made(os, e) /\ os[e].dtors = 0 /\ ~Busy(w, e)
  BY <1>2, <1>5, <1>6, <1>7, ElementReady
<1>9. IsInjective(os[o].elems) BY <1>2, <1>3 DEF OwnersSound, ContainerSound
<1>10. PICK os2 : os2 = TakenOut(os, o, i) OBVIOUS
<1>11. /\ os2 \in [Objs -> ObjTypes \cup {None}]
       /\ \A x \in Objs :
            /\ Made(os2, x) <=> Made(os, x)
            /\ Made(os, x) => Kept(os, os2, x)
            /\ os2[x].usage = os[x].usage /\ os2[x].dtors = os[x].dtors /\ os2[x].managed = os[x].managed
            /\ x # o => os2[x] = os[x]
       /\ IsInjective(os2[o].elems)
       /\ \A x : Elem(os2, o, x) <=> Elem(os, o, x) /\ x # e
  BY <1>2, <1>3, <1>4, <1>9, <1>10, TakenOutObjs
<1>12. AllKept(os, os2) BY <1>11 DEF AllKept
<1>13. /\ \A v, p : Emptied(os2, v, p) <=> Emptied(os, v, p)
       /\ \A x \in Objs : Made(os, x) => (Registered(os2, x) <=> Registered(os, x))
       /\ Acyclic(os2)
  BY <1>2, <1>12, KeptFacts
<1>14. \A c \in Objs : \A x : Owns(os2, c, x) <=> Owns(os, c, x) /\ ~(c = o /\ x = e)
  <2>1. ASSUME NEW c \in Objs, c # o PROVE \A x : Owns(os2, c, x) <=> Owns(os, c, x)
    <3>1. os2[c] = os[c] BY <2>1, <1>11
    <3>2. QED BY <3>1 DEF Owns, Elem, Made
  <2>2. \A x : Owns(os2, o, x) <=> Owns(os, o, x) /\ x # e BY <1>3, <1>11 DEF Owns
  <2>3. QED BY <2>1, <2>2
<1>15. PICK w2 : w2 = Cat(<<DeleteCall(e)>>, w) OBVIOUS
<1>16. Stacked(w2, DeleteCall(e), w)
  <2>1. DeleteCall(e) \in Calls /\ w \in Seq(Calls) BY <1>8, CallNames DEF Stacked
  <2>2. QED BY <2>1, <1>15, PushStacked
<1>17. \A c : In(c, w2) <=> c = DeleteCall(e) \/ In(c, w) BY <1>16 DEF Stacked
<1>18. /\ \A p : PoolCall(p) # DeleteCall(e)
       /\ \A x \in Objs : DtorCall(x) # DeleteCall(e) /\ ClearCall(x) # DeleteCall(e)
                            /\ (DeleteCall(x) = DeleteCall(e) => x = e)
  BY DEF PoolCall, DtorCall, ClearCall, DeleteCall
<1>19. /\ \A p : Going(w2, p) <=> Going(w, p)
       /\ \A x \in Objs : /\ In(DtorCall(x), w2) <=> In(DtorCall(x), w)
                          /\ In(ClearCall(x), w2) <=> In(ClearCall(x), w)
                          /\ In(DeleteCall(x), w2) <=> x = e \/ In(DeleteCall(x), w)
  BY <1>17, <1>18 DEF Going
<1>20. \A x \in Objs : Busy(w2, x) <=> x = e \/ Busy(w, x) BY <1>19 DEF Busy
<1>21. MoreCalls(w, w2) BY <1>17, <1>19 DEF MoreCalls
<1>22. Typed(ps, os2, w2) BY <1>2, <1>11, <1>16 DEF Typed, Stacked
<1>23. AllPlaced(ps, os2) BY <1>2, <1>12, <1>22, KeptPlaced
<1>24. CleanupsSound(ps, os2, w2)
  <2>1. CleanupsSound(ps, os, w2) BY <1>2, <1>21, MoreSound
  <2>2. QED BY <2>1, <1>11, <1>13 DEF CleanupsSound, Kept
<1>25. PoolsOwned(ps, os2, w2)
  <2>1. PoolsOwned(ps, os, w2) BY <1>1, <1>21, MoreSound
  <2>2. QED BY <2>1, <1>11 DEF PoolsOwned, Kept
<1>26. Ordered(w2, MayStand(ps, os2))
  <2>1. ASSUME NEW b, In(b, w) PROVE <<DeleteCall(e), b>> \in MayStand(ps, os)
    <3>1. b \in Calls /\ DeleteCall(e) \in ObjectCalls(e) BY <2>1, <1>2, TypedCalls DEF ObjectCalls
    <3>2. b \notin ObjectCalls(e) /\ StandsOver(ps, os, e, b)
      BY <2>1, <3>1, <1>2, <1>5, <1>6, <1>7, <1>8, ElementStands
    <3>3. QED BY <3>1, <3>2, <1>8, ObjectStands
  <2>2. Ordered(w2, MayStand(ps, os)) BY <2>1, <1>2, <1>16 DEF Stacked
  <2>3. \A x \in Objs : Busy(w2, x) => Made(os, x) BY <1>2, <1>8, <1>20 DEF CallsSound, Busy
  <2>4. w2 \in Seq(Calls) BY <1>16 DEF Stacked
  <2>5. \A c : In(c, w2) => SameUp(ps, ps, PoolOf(os, c)) BY DEF SameUp
  <2>6. QED BY <2>2, <2>3, <2>4, <2>5, <1>12, KeptOrdered
<1>27. CallsSound(ps, os2, w2)
  <2>1. ASSUME NEW p \in Pools, Going(w2, p) PROVE Alive(ps, p) /\ HasReason(ps, os2, w2, p)
    <3>1. Alive(ps, p) /\ HasReason(ps, os, w, p) BY <2>1, <1>2, <1>19 DEF CallsSound
    <3>2. \A r \in Pools : Emptied(os, w, r) => Emptied(os2, w2, r) BY <1>13, <1>19 DEF Emptied
    <3>3. \A x \in Objs : In(DtorCall(x), w) => os2[x].kind = os[x].kind BY <1>2, <1>11 DEF CallsSound, Kept
    <3>4. HasReason(ps, os2, w2, p) BY <3>1, <3>2, <3>3, <1>11, <1>19, ReasonStays
    <3>5. QED BY <3>1, <3>4
  <2>2. ASSUME NEW x \in Objs
        PROVE  /\ In(DeleteCall(x), w2) => Made(os2, x) /\ os2[x].dtors = 0
               /\ In(DtorCall(x), w2) => Made(os2, x) /\ os2[x].dtors = 1
               /\ In(ClearCall(x), w2) => Made(os2, x) /\ os2[x].kind = "StrPtrMap" /\ In(DtorCall(x), w2)
               /\ Made(os2, x) => os2[x].dtors = 0 \/ In(DtorCall(x), w2)
    BY <1>2, <1>8, <1>11, <1>19 DEF CallsSound, Kept
  <2>3. QED BY <2>1, <2>2 DEF CallsSound
<1>28. OwnersSound(ps, os2, w2)
  <2>1. ASSUME NEW c \in Objs, Made(os2, c) PROVE ContainerSound(ps, os2, w2, c)
    <3>1. ContainerSound(ps, os, w2, c) BY <2>1, <1>2, <1>11, <1>21, MoreSound DEF OwnersSound
    <3>2. Kept(os, os2, c) /\ os2[c].dtors = os[c].dtors BY <2>1, <1>11
    <3>3. IsInjective(os2[c].elems)
      <4>1. c # o => os2[c] = os[c] BY <1>11
      <4>2. QED BY <4>1, <3>1, <1>11 DEF ContainerSound
    <3>4. QED BY <3>1, <3>2, <3>3, <1>13 DEF ContainerSound, Kept
  <2>2. ASSUME NEW c \in Objs, NEW x \in Objs, Owns(os2, c, x) PROVE ElementSound(os2, w2, c, x)
    <3>1. Owns(os, c, x) /\ ~(c = o /\ x = e) BY <2>2, <1>14
    <3>2. ElementSound(os, w, c, x) BY <3>1, <1>2 DEF OwnersSound
    <3>3. x # e BY <3>1, <3>2, <1>5 DEF ElementSound
    <3>4. ElementSound(os, w2, c, x) BY <3>2, <3>3, <1>19, <1>20, <1>21, MoreSound DEF Ready
    <3>5. \A d \in Objs : Owns(os2, d, x) => d = c BY <3>2, <1>14 DEF ElementSound
    <3>6. Made(os, c) /\ Kept(os, os2, c) BY <3>1, <1>11 DEF Owns
    <3>7. Made(os2, x) =>
            /\ ~Registered(os2, x) /\ os2[x].managed = os2[c].managed
            /\ \/ os2[x].pool = os2[c].objPool
               \/ os2[x].pool = os2[c].pool /\ os2[x].objPool = os2[c].pool /\ os2[x].kind = "plain" /\ ~os2[x].usage
      <4>1. SUFFICES ASSUME Made(os2, x)
                     PROVE  /\ ~Registered(os2, x) /\ os2[x].managed = os2[c].managed
                            /\ \/ os2[x].pool = os2[c].objPool
                               \/ /\ os2[x].pool = os2[c].pool /\ os2[x].objPool = os2[c].pool
                                  /\ os2[x].kind = "plain" /\ ~os2[x].usage
        OBVIOUS
      <4>2. Made(os, x) /\ Kept(os, os2, x) BY <4>1, <1>11
      <4>3. QED BY <4>2, <3>4, <3>6, <1>13 DEF ElementSound, Kept
    <3>8. Ready(os2, w2, c) <=> Ready(os, w2, c) BY <1>11 DEF Ready
    <3>9. Emptied(os2, w2, os2[c].objPool) <=> Emptied(os, w2, os[c].objPool) BY <3>6, <1>13 DEF Kept
    <3>10. QED BY <3>4, <3>5, <3>7, <3>8, <3>9, <1>11 DEF ElementSound
  <2>3. QED BY <2>1, <2>2 DEF OwnersSound
<1>29. ManagedSound(os2, w2)
  <2>1. ASSUME NEW x \in Objs, Made(os2, x), os2[x].managed
        PROVE  /\ Registered(os2, x) \/ Busy(w2, x) \/ \E c \in Objs : Owns(os2, c, x)
               /\ Emptied(os2, w2, os2[x].objPool) => (os2[x].kind = "plain" /\ Busy(w2, x)) \/ Elsewhere(os2, x)
    <3>1. Made(os, x) /\ Kept(os, os2, x) /\ os[x].managed BY <2>1, <1>11
    <3>2. /\ Registered(os, x) \/ Busy(w, x) \/ \E c \in Objs : Owns(os, c, x)
          /\ Emptied(os, w, os[x].objPool) => (os[x].kind = "plain" /\ Busy(w, x)) \/ Elsewhere(os, x)
      BY <3>1, <1>2 DEF ManagedSound
    <3>3. os2[x].kind = os[x].kind /\ os2[x].objPool = os[x].objPool BY <3>1 DEF Kept
    <3>4. Emptied(os2, w2, os2[x].objPool) <=> Emptied(os, w, os[x].objPool)
      BY <3>3, <1>13, <1>19 DEF Emptied
    <3>5. CASE x = e
      <4>1. Busy(w2, x) BY <3>5, <1>20
      <4>2. Elsewhere(os, x) => os[x].kind = "plain" BY DEF Elsewhere
      <4>3. QED BY <4>1, <4>2, <3>2, <3>3, <3>4
    <3>6. CASE x # e
      <4>1. \A c \in Objs : Owns(os, c, x) => Owns(os2, c, x) /\ Kept(os, os2, c)
        BY <3>6, <1>11, <1>14 DEF Owns
      <4>2. Elsewhere(os, x) => Elsewhere(os2, x) BY <4>1, <3>3 DEF Elsewhere, Kept
      <4>3. QED BY <4>1, <4>2, <3>1, <3>2, <3>3, <3>4, <1>13, <1>20
    <3>7. QED BY <3>5, <3>6
  <2>2. QED BY <2>1 DEF ManagedSound
<1>30. QED
  BY <1>2, <1>4, <1>10, <1>13, <1>15, <1>22, <1>23, <1>24, <1>25, <1>26, <1>27, <1>28, <1>29 DEF Sound, Standing

(***************************************************************************)
(* A pool calls its latest cleanup                                         *)
(***************************************************************************)
(* Nothing of pools but their cleanups differs. *)
SamePools(ps, ps2) ==
  \A q \in Pools : /\ Alive(ps2, q) <=> Alive(ps, q)
                   /\ Up(ps2, q) = Up(ps, q) /\ ps2[q].child = ps[q].child

LEMMA SameTree ==
  ASSUME NEW ps, NEW ps2, NEW os, NEW w, Typed(ps, os, w), Tree(ps), SamePools(ps, ps2)
  PROVE  Tree(ps2)
<1>1. SUFFICES ASSUME NEW p \in Pools, Alive(ps2, p)
               PROVE  /\ p \in Up(ps2, p) /\ pconf \in Up(ps2, p)
                      /\ \A q \in Up(ps2, p) :
                           /\ Alive(ps2, q) /\ Up(ps2, q) \subseteq Up(ps2, p)
                           /\ p \in Up(ps2, q) => p = q
                           /\ q # p => \E r \in Up(ps2, p) : In(r, ps2[q].child)
                      /\ IsInjective(ps2[p].child)
                      /\ \A r \in Pools : In(r, ps2[p].child) =>
                           Alive(ps2, r) /\ Up(ps2, r) = {r} \cup Up(ps2, p) /\ r \notin Up(ps2, p)
  BY DEF Tree
<1>2. Alive(ps, p) /\ Up(ps2, p) = Up(ps, p) /\ ps2[p].child = ps[p].child BY <1>1 DEF SamePools
<1>3. Up(ps, p) \subseteq Pools BY <1>2, TypedPools
<1>4. ASSUME NEW q \in Up(ps, p) PROVE Alive(ps2, q) <=> Alive(ps, q) BY <1>3 DEF SamePools
<1>5. ASSUME NEW q \in Up(ps, p) PROVE Up(ps2, q) = Up(ps, q) /\ ps2[q].child = ps[q].child
  BY <1>3 DEF SamePools
<1>6. QED BY <1>1, <1>2, <1>4, <1>5 DEF Tree, SamePools

LEMMA SamePlaced ==
  ASSUME NEW ps, NEW ps2, NEW os, NEW w, Typed(ps, os, w), AllPlaced(ps, os), SamePools(ps, ps2)
  PROVE  AllPlaced(ps2, os)
<1>1. SUFFICES ASSUME NEW o \in Objs, Made(os, o) PROVE Placed(ps2, os, o) BY DEF AllPlaced
<1>2. os[o].objPool \in Pools /\ os[o].pool \in Pools BY <1>1, TypedObjs
<1>3. subPool(o) \in Pools /\ tmpPool(o) \in Pools BY PoolNames
<1>4. Placed(ps, os, o) BY <1>1 DEF AllPlaced
<1>5. /\ Alive(ps2, os[o].objPool) /\ Alive(ps2, os[o].pool)
      /\ Up(ps2, os[o].objPool) = Up(ps, os[o].objPool) /\ Up(ps2, os[o].pool) = Up(ps, os[o].pool)
      /\ Up(ps2, subPool(o)) = Up(ps, subPool(o)) /\ Up(ps2, tmpPool(o)) = Up(ps, tmpPool(o))
      /\ Alive(ps2, tmpPool(o)) <=> Alive(ps, tmpPool(o))
  BY <1>2, <1>3, <1>4 DEF Placed, SamePools
<1>6. QED BY <1>4, <1>5 DEF Placed

LEMMA SameUps ==
  ASSUME NEW ps, NEW ps2, NEW os, NEW w, Typed(ps, os, w), AllPlaced(ps, os), CallsSound(ps, os, w),
         SamePools(ps, ps2), NEW c, In(c, w)
  PROVE  SameUp(ps, ps2, PoolOf(os, c))
<1>1. PICK p \in Pools : p = PoolOf(os, c) /\ Alive(ps, p) BY PoolOfAlive
<1>2. Up(ps, p) \subseteq Pools BY <1>1, TypedPools
<1>3. QED BY <1>1, <1>2 DEF SameUp, SamePools

CleanupGone(ps, p) == [ps EXCEPT ![p].cleanups = Tail(@)]
Spared(os, o) == [os EXCEPT ![o].usage = FALSE]

LEMMA CleanupGonePools ==
  ASSUME NEW ps, NEW os, NEW w, Typed(ps, os, w), NEW p \in Pools, Alive(ps, p), ps[p].cleanups # <<>>,
         IsInjective(ps[p].cleanups)
  PROVE  /\ CleanupGone(ps, p) \in [Pools -> PoolTypes \cup {None}]
         /\ SamePools(ps, CleanupGone(ps, p))
         /\ \A q \in Pools : q # p => CleanupGone(ps, p)[q].cleanups = ps[q].cleanups
         /\ IsInjective(CleanupGone(ps, p)[p].cleanups)
         /\ Head(ps[p].cleanups) \in Objs /\ In(Head(ps[p].cleanups), ps[p].cleanups)
         /\ \A x : In(x, CleanupGone(ps, p)[p].cleanups) <=> In(x, ps[p].cleanups) /\ x # Head(ps[p].cleanups)
<1>1. ps \in [Pools -> PoolTypes \cup {None}] /\ ps[p] \in PoolTypes BY TypedPools DEF Typed
<1>2. ps[p].cleanups \in Seq(Objs) BY TypedPools
<1>3. PICK t \in Seq(Objs) :
        /\ t = Tail(ps[p].cleanups) /\ IsInjective(t)
        /\ Head(ps[p].cleanups) \in Objs /\ In(Head(ps[p].cleanups), ps[p].cleanups)
        /\ \A x : In(x, t) <=> In(x, ps[p].cleanups) /\ x # Head(ps[p].cleanups)
  <2>1. /\ Tail(ps[p].cleanups) \in Seq(Objs) /\ IsInjective(Tail(ps[p].cleanups))
        /\ Head(ps[p].cleanups) \in Objs /\ In(Head(ps[p].cleanups), ps[p].cleanups)
        /\ ~In(Head(ps[p].cleanups), Tail(ps[p].cleanups))
        /\ \A x : In(x, ps[p].cleanups) <=> x = Head(ps[p].cleanups) \/ In(x, Tail(ps[p].cleanups))
    BY <1>2, TailSeq
  <2>2. QED BY <2>1
<1>4. PICK r : r = [ps[p] EXCEPT !.cleanups = t] OBVIOUS
<1>5. PICK ps2 : ps2 = CleanupGone(ps, p) OBVIOUS
<1>6. ps2 = [ps EXCEPT ![p] = r] BY <1>3, <1>4, <1>5 DEF CleanupGone
<1>7. r \in PoolTypes /\ r.cleanups = t /\ r.child = ps[p].child /\ r.above = ps[p].above
  BY <1>1, <1>4 DEF PoolTypes
<1>8. r # None BY <1>7, NoNone
<1>9. ps2 \in [Pools -> PoolTypes \cup {None}] BY <1>1, <1>6, <1>7
<1>10. ps2[p] = r /\ \A q \in Pools : q # p => ps2[q] = ps[q] BY <1>1, <1>6
<1> HIDE DEF Pools
<1>11. SamePools(ps, ps2) BY <1>7, <1>8, <1>10 DEF SamePools, Alive, Up
<1>12. QED BY <1>3, <1>5, <1>7, <1>9, <1>10, <1>11

LEMMA SparedObjs ==
  ASSUME NEW ps, NEW os, NEW w, Typed(ps, os, w), NEW o \in Objs, Made(os, o)
  PROVE  /\ Spared(os, o) \in [Objs -> ObjTypes \cup {None}]
         /\ AllKept(os, Spared(os, o))
         /\ ~Spared(os, o)[o].usage
         /\ \A x \in Objs : /\ Spared(os, o)[x].elems = os[x].elems /\ Spared(os, o)[x].dtors = os[x].dtors
                            /\ x # o => Spared(os, o)[x] = os[x]
<1>1. os \in [Objs -> ObjTypes \cup {None}] /\ os[o] \in ObjTypes BY TypedObjs DEF Typed
<1>2. PICK r : r = [os[o] EXCEPT !.usage = FALSE] OBVIOUS
<1>3. PICK os2 : os2 = Spared(os, o) OBVIOUS
<1>4. os2 = [os EXCEPT ![o] = r] BY <1>2, <1>3 DEF Spared
<1>5. /\ r \in ObjTypes /\ r.elems = os[o].elems /\ r.kind = os[o].kind /\ r.pool = os[o].pool
      /\ r.objPool = os[o].objPool /\ r.usage = FALSE /\ r.destroyerPool = os[o].destroyerPool
      /\ r.tmp = os[o].tmp /\ r.dtors = os[o].dtors /\ r.strs = os[o].strs /\ r.managed = os[o].managed
  BY <1>1, <1>2 DEF ObjTypes
<1>6. r # None BY <1>5, NoNone
<1>7. os2 \in [Objs -> ObjTypes \cup {None}] BY <1>1, <1>4, <1>5
<1>8. os2[o] = r /\ \A x \in Objs : x # o => os2[x] = os[x] BY <1>1, <1>4
<1> HIDE DEF Objs
<1>9. ASSUME NEW x \in Objs PROVE (Made(os2, x) <=> Made(os, x)) /\ (Made(os, x) => Kept(os, os2, x))
  <2>1. CASE x = o
    <3>1. Made(os2, o) /\ Made(os, o) BY <1>6, <1>8 DEF Made
    <3>2. Kept(os, os2, o) BY <3>1, <1>5, <1>8 DEF Kept, Elem
    <3>3. QED BY <2>1, <3>1, <3>2
  <2>2. CASE x # o
    <3>1. os2[x] = os[x] BY <2>2, <1>8
    <3>2. QED BY <3>1 DEF Made, Kept, Elem
  <2>3. QED BY <2>1, <2>2
<1>10. AllKept(os, os2) BY <1>9 DEF AllKept
<1>11. QED BY <1>3, <1>5, <1>7, <1>8, <1>10

(* The cleanup at hand is that of an object of the pool that nobody else   *)
(* is deleting.                                                            *)
LEMMA CleanupAtHand ==
  ASSUME NEW ps, NEW os, NEW w, NEW rest, NEW p \in Pools,
         Standing(ps, os, w), Stacked(w, PoolCall(p), rest),
         NEW o \in Objs, In(o, ps[p].cleanups)
  PROVE  /\ Alive(ps, p) /\ Made(os, o) /\ os[o].destroyerPool = p /\ os[o].objPool = p /\ os[o].managed
         /\ Registered(os, o) /\ ~Busy(w, o) /\ os[o].dtors = 0 /\ Keeps(os, p)
         /\ \A c \in Objs : ~Owns(os, c, o)
         /\ \A x \in Objs : Elem(os, o, x) => ~Busy(w, x)
<1>1. /\ Typed(ps, os, w) /\ Tree(ps) /\ AllPlaced(ps, os) /\ Ordered(w, MayStand(ps, os))
      /\ CallsSound(ps, os, w) /\ OwnersSound(ps, os, w) /\ CleanupsSound(ps, os, w)
  BY DEF Standing
<1>2. Going(w, p) BY DEF Stacked, Going
<1>3. Alive(ps, p) BY <1>1, <1>2 DEF CallsSound
<1>4. Made(os, o) /\ os[o].destroyerPool = p BY <1>1, <1>3 DEF CleanupsSound
<1>5. Registered(os, o) BY <1>4, NoNone DEF Registered
<1>6. os[o].objPool = p /\ os[o].managed BY <1>1, <1>4, <1>5 DEF CleanupsSound
<1>7. ~Busy(w, o)
  <2>1. SUFFICES ASSUME NEW b \in ObjectCalls(o), In(b, w) PROVE FALSE BY BusyCalls
  <2>2. b # PoolCall(p) BY CallNames
  <2>3. In(b, rest) BY <2>1, <2>2 DEF Stacked
  <2>4. p \notin Up(ps, PoolOf(os, b)) BY <2>3, <1>1, PoolOnTop
  <2>5. PoolOf(os, b) = os[o].objPool BY CallPools, Zenon
  <2>6. QED BY <2>4, <2>5, <1>1, <1>3, <1>6, TreeSelf
<1>8. os[o].dtors = 0 BY <1>1, <1>4, <1>7 DEF CallsSound, Busy
<1>9. Keeps(os, p) BY <1>4 DEF Keeps
<1>10. \A c \in Objs : ~Owns(os, c, o) BY <1>1, <1>4, <1>5, OwnerOf
<1>11. ASSUME NEW x \in Objs, Elem(os, o, x) PROVE ~Busy(w, x)
  <2>1. Owns(os, o, x) BY <1>4, <1>11 DEF Owns
  <2>2. Ready(os, w, o) BY <1>8 DEF Ready
  <2>3. ~Emptied(os, w, os[o].objPool) BY <1>6, <1>9 DEF Emptied
  <2>4. QED BY <2>1, <2>2, <2>3, <1>1, OwnerOf
<1>12. QED BY <1>3, <1>4, <1>5, <1>6, <1>7, <1>8, <1>9, <1>10, <1>11

LEMMA CleanupTurn ==
  ASSUME NEW ps, NEW os, NEW w, NEW rest, NEW p \in Pools,
         Sound(ps, os, w), Stacked(w, PoolCall(p), rest), ps[p].cleanups # <<>>
  PROVE  Sound(CleanupGone(ps, p), Spared(os, Head(ps[p].cleanups)),
               Cat(<<DeleteCall(Head(ps[p].cleanups))>>, w))
<1>1. Standing(ps, os, w) /\ PoolsOwned(ps, os, w) BY DEF Sound
<1>2. /\ Typed(ps, os, w) /\ Tree(ps) /\ AllPlaced(ps, os) /\ Ordered(w, MayStand(ps, os))
      /\ CallsSound(ps, os, w) /\ OwnersSound(ps, os, w) /\ Acyclic(os)
      /\ CleanupsSound(ps, os, w) /\ ManagedSound(os, w)
  BY <1>1 DEF Standing
<1>3. Going(w, p) BY DEF Stacked, Going
<1>4. Alive(ps, p) BY <1>2, <1>3 DEF CallsSound
<1>5. IsInjective(ps[p].cleanups) BY <1>2, <1>4 DEF CleanupsSound
<1>6. PICK o : o = Head(ps[p].cleanups) OBVIOUS
<1>7. PICK ps2 : ps2 = CleanupGone(ps, p) OBVIOUS
<1>8. /\ ps2 \in [Pools -> PoolTypes \cup {None}]
      /\ SamePools(ps, ps2)
      /\ \A q \in Pools : q # p => ps2[q].cleanups = ps[q].cleanups
      /\ IsInjective(ps2[p].cleanups)
      /\ o \in Objs /\ In(o, ps[p].cleanups)
      /\ \A x : In(x, ps2[p].cleanups) <=> In(x, ps[p].cleanups) /\ x # o
  BY <1>2, <1>4, <1>5, <1>6, <1>7, CleanupGonePools
<1>9. /\ Made(os, o) /\ os[o].destroyerPool = p /\ os[o].objPool = p /\ os[o].managed
      /\ Registered(os, o) /\ ~Busy(w, o) /\ os[o].dtors = 0 /\ Keeps(os, p)
      /\ \A c \in Objs : ~Owns(os, c, o)
      /\ \A x \in Objs : Elem(os, o, x) => ~Busy(w, x)
  BY <1>1, <1>8, CleanupAtHand
<1>10. PICK os2 : os2 = Spared(os, o) OBVIOUS
<1>11. /\ os2 \in [Objs -> ObjTypes \cup {None}]
       /\ AllKept(os, os2)
       /\ ~os2[o].usage
       /\ \A x \in Objs : os2[x].elems = os[x].elems /\ os2[x].dtors = os[x].dtors
       /\ \A x \in Objs : x # o => os2[x] = os[x]
  BY <1>2, <1>8, <1>9, <1>10, SparedObjs
<1>12. /\ \A q : Keeps(os2, q) <=> Keeps(os, q)
       /\ \A v, q : Emptied(os2, v, q) <=> Emptied(os, v, q)
       /\ \A x \in Objs : Made(os, x) => (Registered(os2, x) <=> Registered(os, x))
       /\ Acyclic(os2)
  BY <1>2, <1>11, KeptFacts
<1>13. \A x \in Objs : (Made(os2, x) <=> Made(os, x)) /\ (Made(os, x) => Kept(os, os2, x)) BY <1>11 DEF AllKept
<1>14. \A c \in Objs : \A x : (Elem(os2, c, x) <=> Elem(os, c, x)) /\ (Owns(os2, c, x) <=> Owns(os, c, x))
  BY <1>11, <1>13 DEF Owns, Elem
<1>15. PICK w2 : w2 = Cat(<<DeleteCall(o)>>, w) OBVIOUS
<1>16. Stacked(w2, DeleteCall(o), w)
  <2>1. DeleteCall(o) \in Calls /\ w \in Seq(Calls) BY <1>8, CallNames DEF Stacked
  <2>2. QED BY <2>1, <1>15, PushStacked
<1>17. \A c : In(c, w2) <=> c = DeleteCall(o) \/ In(c, w) BY <1>16 DEF Stacked
<1>18. /\ \A q : PoolCall(q) # DeleteCall(o)
       /\ \A x \in Objs : DtorCall(x) # DeleteCall(o) /\ ClearCall(x) # DeleteCall(o)
                            /\ (DeleteCall(x) = DeleteCall(o) => x = o)
  BY DEF PoolCall, DtorCall, ClearCall, DeleteCall
<1>19. /\ \A q : Going(w2, q) <=> Going(w, q)
       /\ \A x \in Objs : /\ In(DtorCall(x), w2) <=> In(DtorCall(x), w)
                          /\ In(ClearCall(x), w2) <=> In(ClearCall(x), w)
                          /\ In(DeleteCall(x), w2) <=> x = o \/ In(DeleteCall(x), w)
  BY <1>17, <1>18 DEF Going
<1>20. \A x \in Objs : Busy(w2, x) <=> x = o \/ Busy(w, x) BY <1>19 DEF Busy
<1>21. MoreCalls(w, w2) BY <1>17, <1>19 DEF MoreCalls
<1>22. Typed(ps2, os2, w2) BY <1>8, <1>11, <1>16 DEF Typed, Stacked
<1>23. Tree(ps2) BY <1>2, <1>8, SameTree
<1>24. AllPlaced(ps2, os2)
  <2>1. AllPlaced(ps2, os) BY <1>2, <1>8, SamePlaced
  <2>2. QED BY <2>1, <1>11, <1>22, KeptPlaced
<1>25. CleanupsSound(ps2, os2, w2)
  <2>1. ASSUME NEW q \in Pools, Alive(ps2, q)
        PROVE  /\ IsInjective(ps2[q].cleanups)
               /\ \A x \in Objs : In(x, ps2[q].cleanups) => Made(os2, x) /\ os2[x].destroyerPool = q
    <3>1. Alive(ps, q) BY <2>1, <1>8 DEF SamePools
    <3>2. IsInjective(ps2[q].cleanups) BY <3>1, <1>2, <1>8 DEF CleanupsSound
    <3>3. \A x \in Objs : In(x, ps2[q].cleanups) => In(x, ps[q].cleanups) BY <1>8
    <3>4. \A x \in Objs : In(x, ps[q].cleanups) => Made(os, x) /\ os[x].destroyerPool = q
      BY <3>1, <1>2 DEF CleanupsSound
    <3>5. QED BY <3>2, <3>3, <3>4, <1>13 DEF Kept
  <2>2. ASSUME NEW x \in Objs, Made(os2, x), Registered(os2, x)
        PROVE  /\ os2[x].destroyerPool = os2[x].objPool /\ os2[x].managed
               /\ Busy(w2, x) \/ In(x, ps2[os2[x].objPool].cleanups)
    <3>1. Made(os, x) /\ Registered(os, x) /\ Kept(os, os2, x) BY <2>2, <1>12, <1>13
    <3>2. /\ os[x].destroyerPool = os[x].objPool /\ os[x].managed
          /\ Busy(w, x) \/ In(x, ps[os[x].objPool].cleanups)
      BY <3>1, <1>2 DEF CleanupsSound
    <3>3. os[x].objPool \in Pools BY <3>1, <1>2, TypedObjs
    <3>4. Busy(w2, x) \/ In(x, ps2[os[x].objPool].cleanups) BY <3>2, <3>3, <1>8, <1>20
    <3>5. QED BY <3>1, <3>2, <3>4 DEF Kept
  <2>3. QED BY <2>1, <2>2 DEF CleanupsSound
<1>26. PoolsOwned(ps2, os2, w2)
  <2>1. ASSUME NEW x \in Objs, Alive(ps2, subPool(x))
        PROVE  Going(w2, subPool(x)) \/ (Made(os2, x) /\ os2[x].objPool = subPool(x) /\ os2[x].usage)
    <3>1. Alive(ps, subPool(x)) BY <2>1, <1>8, PoolNames DEF SamePools
    <3>2. Going(w, subPool(x)) \/ (Made(os, x) /\ os[x].objPool = subPool(x) /\ os[x].usage)
      BY <3>1, <1>1 DEF PoolsOwned
    <3>3. CASE x = o BY <3>2, <3>3, <1>3, <1>9, <1>19
    <3>4. CASE x # o BY <3>2, <3>4, <1>11, <1>13, <1>19
    <3>5. QED BY <3>3, <3>4
  <2>2. ASSUME NEW x \in Objs, Alive(ps2, tmpPool(x))
        PROVE  Going(w2, tmpPool(x)) \/ (Made(os2, x) /\ os2[x].kind = "TmpPool" /\ os2[x].dtors = 0)
    <3>1. Alive(ps, tmpPool(x)) BY <2>2, <1>8, PoolNames DEF SamePools
    <3>2. Going(w, tmpPool(x)) \/ (Made(os, x) /\ os[x].kind = "TmpPool" /\ os[x].dtors = 0)
      BY <3>1, <1>1 DEF PoolsOwned
    <3>3. QED BY <3>2, <1>11, <1>13, <1>19 DEF Kept
  <2>3. QED BY <2>1, <2>2 DEF PoolsOwned
<1>27. \A b : In(b, w) => b \in Calls BY <1>2, TypedCalls
<1>28. ASSUME NEW b, In(b, w) PROVE StandsOver(ps2, os2, o, b)
  <2>1. b \in Calls BY <1>27, <1>28
  <2>2. PoolOf(os2, b) = PoolOf(os, b)
    <3>1. \A x \in Objs : b \in ObjectCalls(x) => Busy(w, x) BY <1>28, BusyCalls
    <3>2. \A x \in Objs : Busy(w, x) => Made(os, x) BY <1>2 DEF CallsSound, Busy
    <3>3. \A x \in Objs : b \in ObjectCalls(x) => os2[x].objPool = os[x].objPool BY <3>1, <3>2, <1>13 DEF Kept
    <3>4. QED BY <2>1, <3>3, SamePoolOf
  <2>3. PICK B \in Pools : B = PoolOf(os, b) /\ Alive(ps, B) BY <1>2, <1>28, PoolOfAlive
  <2>4. Up(ps, B) \subseteq Pools BY <1>2, <2>3, TypedPools
  <2>5. Up(ps2, B) = Up(ps, B) /\ \A q \in Up(ps, B) : Up(ps2, q) = Up(ps, q)
    BY <2>3, <2>4, <1>8 DEF SamePools
  <2>6. os2[o].objPool = p /\ os2[o].destroyerPool = p BY <1>9, <1>13, <1>8 DEF Kept
  <2>7. Keeps(os2, p) BY <1>9, <1>12
  <2>8. b = PoolCall(p) \/ (p \notin Up(ps, B) /\ \A q : b = PoolCall(q) => q \in Up(ps, p))
    <3>1. In(b, rest) => p \notin Up(ps, PoolOf(os, b)) /\ \A q : b = PoolCall(q) => q \in Up(ps, p)
      BY <1>2, PoolOnTop
    <3>2. QED BY <3>1, <2>3, <1>28 DEF Stacked
  <2>9. p \in Up(ps, B) => b = PoolCall(p) BY <2>8
  <2>10. \A q \in Up(ps, B) : p \in Up(ps, q) => q = p
    <3>1. SUFFICES ASSUME NEW q \in Up(ps, B), p \in Up(ps, q) PROVE q = p OBVIOUS
    <3>2. Up(ps, q) \subseteq Up(ps, B) /\ (B \in Up(ps, q) => B = q) BY <2>3, <1>2, TreeUp
    <3>3. b = PoolCall(p) BY <3>1, <3>2, <2>9
    <3>4. B = p BY <3>3, <2>3, CallPools
    <3>5. QED BY <3>1, <3>2, <3>4
  <2>11. ASSUME OnObject(b) PROVE ~Elem(os2, o, b[2])
    <3>1. PICK x \in Objs : b \in ObjectCalls(x) BY <2>11 DEF OnObject
    <3>2. b[2] = x /\ Busy(w, x) BY <3>1, <1>28, CallNames, BusyCalls
    <3>3. QED BY <3>2, <1>8, <1>9, <1>14
  <2>12. ObjectAbove(ps2, os2, o, b)
    <3>1. os2[o].usage => os2[o].objPool \notin Up(ps2, PoolOf(os2, b)) BY <1>11
    <3>2. os2[o].objPool \in Up(ps2, PoolOf(os2, b)) => b = PoolCall(os2[o].objPool)
      BY <2>2, <2>3, <2>5, <2>6, <2>9
    <3>3. \A q \in Up(ps2, PoolOf(os2, b)) : os2[o].objPool \in Up(ps2, q) => q = os2[o].objPool
      BY <2>2, <2>3, <2>5, <2>6, <2>10
    <3>4. QED BY <3>1, <3>2, <3>3, <2>6, <2>7, <2>11 DEF ObjectAbove
  <2>13. \A q : b = PoolCall(q) => q \in Up(ps2, os2[o].objPool)
    <3>1. SUFFICES ASSUME NEW q, b = PoolCall(q) PROVE q \in Up(ps, p) BY <2>6, <1>8 DEF SamePools
    <3>2. b = PoolCall(p) => q = p BY <3>1, CallNames
    <3>3. p \in Up(ps, p) BY <1>2, <1>4, TreeSelf
    <3>4. QED BY <3>1, <3>2, <3>3, <2>8
  <2>14. QED BY <2>12, <2>13 DEF StandsOver
<1>29. Ordered(w2, MayStand(ps2, os2))
  <2>1. \A c : In(c, w) => SameUp(ps, ps2, PoolOf(os, c)) BY <1>2, <1>8, SameUps
  <2>2. \A x \in Objs : Busy(w, x) => Made(os, x) BY <1>2 DEF CallsSound, Busy
  <2>3. w \in Seq(Calls) BY DEF Stacked
  <2>4. Ordered(w, MayStand(ps2, os2)) BY <2>1, <2>2, <2>3, <1>2, <1>11, KeptOrdered
  <2>5. ASSUME NEW b, In(b, w) PROVE <<DeleteCall(o), b>> \in MayStand(ps2, os2)
    <3>1. DeleteCall(o) \in ObjectCalls(o) BY DEF ObjectCalls
    <3>2. b \notin ObjectCalls(o) BY <2>5, <1>9, BusyCalls
    <3>3. QED BY <2>5, <3>1, <3>2, <1>8, <1>27, <1>28, ObjectStands
  <2>6. QED BY <2>4, <2>5, <1>16 DEF Stacked
<1>30. CallsSound(ps2, os2, w2)
  <2>1. ASSUME NEW q \in Pools, Going(w2, q) PROVE Alive(ps2, q) /\ HasReason(ps2, os2, w2, q)
    <3>1. Alive(ps, q) /\ HasReason(ps, os, w, q) BY <2>1, <1>2, <1>19 DEF CallsSound
    <3>2. \A r \in Pools : Emptied(os, w, r) => Emptied(os2, w2, r) BY <1>12, <1>19 DEF Emptied
    <3>3. \A x \in Objs : In(DtorCall(x), w) => os2[x].kind = os[x].kind BY <1>2, <1>13 DEF CallsSound, Kept
    <3>4. \A r \in Pools : (Alive(ps2, r) <=> Alive(ps, r)) /\ ps2[r].child = ps[r].child BY <1>8 DEF SamePools
    <3>5. HasReason(ps2, os2, w2, q) BY <3>1, <3>2, <3>3, <3>4, <1>13, <1>19, ReasonStays
    <3>6. QED BY <3>1, <3>4, <3>5
  <2>2. ASSUME NEW x \in Objs
        PROVE  /\ In(DeleteCall(x), w2) => Made(os2, x) /\ os2[x].dtors = 0
               /\ In(DtorCall(x), w2) => Made(os2, x) /\ os2[x].dtors = 1
               /\ In(ClearCall(x), w2) => Made(os2, x) /\ os2[x].kind = "StrPtrMap" /\ In(DtorCall(x), w2)
               /\ Made(os2, x) => os2[x].dtors = 0 \/ In(DtorCall(x), w2)
    BY <1>2, <1>9, <1>11, <1>13, <1>19 DEF CallsSound, Kept
  <2>3. QED BY <2>1, <2>2 DEF CallsSound
<1>31. OwnersSound(ps2, os2, w2)
  <2>1. ASSUME NEW c \in Objs, Made(os2, c) PROVE ContainerSound(ps2, os2, w2, c)
    <3>1. ContainerSound(ps, os, w2, c) BY <2>1, <1>2, <1>13, <1>21, MoreSound DEF OwnersSound
    <3>2. Kept(os, os2, c) /\ os2[c].elems = os[c].elems /\ os2[c].dtors = os[c].dtors BY <2>1, <1>11, <1>13
    <3>3. Alive(ps2, tmpPool(c)) <=> Alive(ps, tmpPool(c)) BY <1>8, PoolNames DEF SamePools
    <3>4. QED BY <3>1, <3>2, <3>3, <1>12 DEF ContainerSound, Kept
  <2>2. ASSUME NEW c \in Objs, NEW x \in Objs, Owns(os2, c, x) PROVE ElementSound(os2, w2, c, x)
    <3>1. Owns(os, c, x) BY <2>2, <1>14
    <3>2. x # o BY <3>1, <1>9
    <3>3. ElementSound(os, w, c, x) BY <3>1, <1>2 DEF OwnersSound
    <3>4. ElementSound(os, w2, c, x) BY <3>2, <3>3, <1>19, <1>20, <1>21, MoreSound DEF Ready
    <3>5. \A d \in Objs : Owns(os2, d, x) => d = c BY <3>3, <1>14 DEF ElementSound
    <3>6. Kept(os, os2, c) BY <3>1, <1>13 DEF Owns
    <3>7. os2[x] = os[x] BY <3>2, <1>11
    <3>8. Made(os2, x) =>
            /\ ~Registered(os2, x) /\ os2[x].managed = os2[c].managed
            /\ \/ os2[x].pool = os2[c].objPool
               \/ os2[x].pool = os2[c].pool /\ os2[x].objPool = os2[c].pool /\ os2[x].kind = "plain" /\ ~os2[x].usage
      BY <3>4, <3>6, <3>7 DEF ElementSound, Kept, Made, Registered
    <3>9. Ready(os2, w2, c) <=> Ready(os, w2, c) BY <1>11 DEF Ready
    <3>10. Emptied(os2, w2, os2[c].objPool) <=> Emptied(os, w2, os[c].objPool) BY <3>6, <1>12 DEF Kept
    <3>11. QED BY <3>4, <3>5, <3>7, <3>8, <3>9, <3>10 DEF ElementSound, Made
  <2>3. QED BY <2>1, <2>2 DEF OwnersSound
<1>32. ManagedSound(os2, w2)
  <2>1. ManagedSound(os, w2) BY <1>2, <1>21, MoreSound
  <2>2. ASSUME NEW x \in Objs, Made(os2, x), os2[x].managed
        PROVE  /\ Registered(os2, x) \/ Busy(w2, x) \/ \E c \in Objs : Owns(os2, c, x)
               /\ Emptied(os2, w2, os2[x].objPool) => (os2[x].kind = "plain" /\ Busy(w2, x)) \/ Elsewhere(os2, x)
    <3>1. Made(os, x) /\ Kept(os, os2, x) /\ os[x].managed BY <2>2, <1>13 DEF Kept
    <3>2. /\ Registered(os, x) \/ Busy(w2, x) \/ \E c \in Objs : Owns(os, c, x)
          /\ Emptied(os, w2, os[x].objPool) => (os[x].kind = "plain" /\ Busy(w2, x)) \/ Elsewhere(os, x)
      BY <3>1, <2>1 DEF ManagedSound
    <3>3. Elsewhere(os, x) => Elsewhere(os2, x)
      <4>1. \A c \in Objs : Owns(os, c, x) => Owns(os2, c, x) /\ Kept(os, os2, c) BY <1>13, <1>14 DEF Owns
      <4>2. QED BY <4>1, <3>1 DEF Elsewhere, Kept
    <3>4. Emptied(os2, w2, os2[x].objPool) <=> Emptied(os, w2, os[x].objPool) BY <3>1, <1>12 DEF Kept
    <3>5. QED BY <3>1, <3>2, <3>3, <3>4, <1>12, <1>14 DEF Kept
  <2>3. QED BY <2>2 DEF ManagedSound
<1>33. QED
  BY <1>6, <1>7, <1>10, <1>12, <1>15, <1>22, <1>23, <1>24, <1>25, <1>26, <1>29, <1>30, <1>31, <1>32 DEF Sound, Standing

(***************************************************************************)
(* A pool destroys its latest child                                        *)
(***************************************************************************)
LEMMA NoneKept ==
  ASSUME NEW ps, NEW os, NEW w, NEW rest, NEW p \in Pools,
         Standing(ps, os, w), Stacked(w, PoolCall(p), rest), ps[p].cleanups = <<>>
  PROVE  /\ Going(w, p) /\ Alive(ps, p) /\ Emptied(os, w, p)
         /\ \A x \in Objs : Busy(w, x) => os[x].objPool # p
<1>1. Typed(ps, os, w) /\ Tree(ps) /\ Ordered(w, MayStand(ps, os)) /\ CallsSound(ps, os, w) /\ CleanupsSound(ps, os, w)
  BY DEF Standing
<1>2. Going(w, p) BY DEF Stacked, Going
<1>3. Alive(ps, p) BY <1>1, <1>2 DEF CallsSound
<1>4. ASSUME NEW x \in Objs, Busy(w, x) PROVE os[x].objPool # p
  <2>1. PICK b \in ObjectCalls(x) : In(b, w) BY <1>4, BusyCalls
  <2>2. b # PoolCall(p) BY CallNames
  <2>3. In(b, rest) BY <2>1, <2>2 DEF Stacked
  <2>4. p \notin Up(ps, PoolOf(os, b)) BY <2>3, <1>1, PoolOnTop
  <2>5. PoolOf(os, b) = os[x].objPool BY CallPools, Zenon
  <2>6. QED BY <2>4, <2>5, <1>1, <1>3, TreeSelf
<1>5. ~Keeps(os, p)
  <2>1. SUFFICES ASSUME NEW x \in Objs, Made(os, x), os[x].destroyerPool = p PROVE FALSE BY DEF Keeps
  <2>2. Registered(os, x) BY <2>1, NoNone DEF Registered
  <2>3. os[x].objPool = p /\ (Busy(w, x) \/ In(x, ps[p].cleanups)) BY <1>1, <2>1, <2>2 DEF CleanupsSound
  <2>4. QED BY <2>3, <1>4, NoneIn
<1>6. QED BY <1>2, <1>3, <1>4, <1>5 DEF Emptied

LEMMA ChildTurn ==
  ASSUME NEW ps, NEW os, NEW w, NEW rest, NEW p \in Pools,
         Sound(ps, os, w), Stacked(w, PoolCall(p), rest), ps[p].cleanups = <<>>, ps[p].child # <<>>
  PROVE  Sound(ps, os, Cat(<<PoolCall(Head(ps[p].child))>>, w))
<1>1. Standing(ps, os, w) /\ PoolsOwned(ps, os, w) BY DEF Sound
<1>2. /\ Typed(ps, os, w) /\ Tree(ps) /\ AllPlaced(ps, os) /\ Ordered(w, MayStand(ps, os))
      /\ CallsSound(ps, os, w) /\ CleanupsSound(ps, os, w)
  BY <1>1 DEF Standing
<1>3. Going(w, p) BY DEF Stacked, Going
<1>4. Alive(ps, p) BY <1>2, <1>3 DEF CallsSound
<1>5. PICK r : r = Head(ps[p].child) OBVIOUS
<1>6. In(r, ps[p].child)
  <2>1. ps[p].child \in Seq(Pools) BY <1>2, <1>4, TypedPools
  <2>2. QED BY <2>1, <1>5, TailSeq
<1>7. r \in Pools /\ Alive(ps, r) /\ Up(ps, r) = {r} \cup Up(ps, p) /\ r \notin Up(ps, p)
  BY <1>2, <1>4, <1>6, TreeChild
<1>8. p \in Up(ps, p) /\ p \in Up(ps, r) BY <1>2, <1>4, <1>7, TreeSelf
<1>9. Emptied(os, w, p) BY <1>1, NoneKept
<1>10. HasReason(ps, os, w, r) BY <1>4, <1>6, <1>9 DEF HasReason
<1>11. ASSUME NEW b, In(b, w) PROVE r \notin Up(ps, PoolOf(os, b)) /\ \A q : b = PoolCall(q) => q \in Up(ps, r)
  <2>1. CASE b = PoolCall(p)
    <3>1. PoolOf(os, b) = p /\ \A q : b = PoolCall(q) => q = p BY <2>1, CallPools, CallNames
    <3>2. QED BY <3>1, <1>7, <1>8
  <2>2. CASE In(b, rest)
    <3>1. p \notin Up(ps, PoolOf(os, b)) /\ \A q : b = PoolCall(q) => q \in Up(ps, p) BY <2>2, <1>2, PoolOnTop
    <3>2. PICK B \in Pools : B = PoolOf(os, b) /\ Alive(ps, B) BY <1>2, <1>11, PoolOfAlive
    <3>3. r \in Up(ps, B) => Up(ps, r) \subseteq Up(ps, B) BY <1>2, <3>2, TreeUp
    <3>4. QED BY <3>1, <3>2, <3>3, <1>7, <1>8
  <2>3. QED BY <2>1, <2>2, <1>11 DEF Stacked
<1>12. PICK w2 : w2 = Cat(<<PoolCall(r)>>, w) OBVIOUS
<1>13. Standing(ps, os, w2) BY <1>1, <1>7, <1>10, <1>11, <1>12, PushPool
<1>14. PoolsOwned(ps, os, w2)
  <2>1. PoolCall(r) \in Calls /\ w \in Seq(Calls) BY <1>7, CallNames DEF Stacked
  <2>2. Stacked(w2, PoolCall(r), w) BY <2>1, <1>12, PushStacked
  <2>3. \A q : Going(w, q) => Going(w2, q) BY <2>2 DEF Stacked, Going
  <2>4. QED BY <2>3, <1>1 DEF PoolsOwned
<1>15. QED BY <1>5, <1>12, <1>13, <1>14 DEF Sound

(***************************************************************************)
(* ~PoolAllocated() and operator delete                                    *)
(***************************************************************************)
Deleted(os, o) == [os EXCEPT ![o] = None]

Unregistered(ps, os, o) ==
  IF os[o].destroyerPool = None THEN ps ELSE apr_pool_cleanup_kill(ps, os[o].destroyerPool, o)

LEMMA UnregisteredPools ==
  ASSUME NEW ps, NEW os, NEW w, Typed(ps, os, w), AllPlaced(ps, os), CleanupsSound(ps, os, w),
         NEW o \in Objs, Made(os, o)
  PROVE  /\ Unregistered(ps, os, o) \in [Pools -> PoolTypes \cup {None}]
         /\ SamePools(ps, Unregistered(ps, os, o))
         /\ \A q \in Pools : Alive(ps, q) =>
              /\ IsInjective(Unregistered(ps, os, o)[q].cleanups)
              /\ \A x : In(x, Unregistered(ps, os, o)[q].cleanups) <=> In(x, ps[q].cleanups) /\ x # o
<1>1. ps \in [Pools -> PoolTypes \cup {None}] BY DEF Typed
<1>2. \A q \in Pools : Alive(ps, q) =>
        /\ IsInjective(ps[q].cleanups)
        /\ In(o, ps[q].cleanups) => os[o].destroyerPool = q
  BY DEF CleanupsSound
<1>3. CASE os[o].destroyerPool = None
  <2>1. Unregistered(ps, os, o) = ps BY <1>3 DEF Unregistered
  <2>2. \A q \in Pools : Alive(ps, q) => ~In(o, ps[q].cleanups) BY <1>2, <1>3, NoNone
  <2>3. QED BY <2>1, <2>2, <1>1, <1>2 DEF SamePools
<1>4. CASE os[o].destroyerPool # None
  <2>1. Registered(os, o) BY <1>4 DEF Registered
  <2>2. os[o].destroyerPool = os[o].objPool BY <2>1 DEF CleanupsSound
  <2>3. os[o].objPool \in Pools /\ Alive(ps, os[o].objPool) BY TypedObjs DEF AllPlaced, Placed
  <2>4. PICK p \in Pools : p = os[o].destroyerPool /\ Alive(ps, p) BY <2>2, <2>3
  <2>5. ps[p] \in PoolTypes /\ ps[p].cleanups \in Seq(Objs) BY <2>4, TypedPools
  <2>6. PICK t \in Seq(Objs) :
          /\ t = Unlink(ps[p].cleanups, o) /\ IsInjective(t)
          /\ \A x : In(x, t) <=> In(x, ps[p].cleanups) /\ x # o
    <3>1. IsInjective(ps[p].cleanups) BY <2>4, <1>2
    <3>2. QED BY <3>1, <2>5, UnlinkSeq
  <2>7. PICK r : r = [ps[p] EXCEPT !.cleanups = t] OBVIOUS
  <2>8. PICK ps2 : ps2 = Unregistered(ps, os, o) OBVIOUS
  <2>9. ps2 = [ps EXCEPT ![p] = r]
    BY <1>4, <2>4, <2>6, <2>7, <2>8 DEF Unregistered, apr_pool_cleanup_kill
  <2>10. r \in PoolTypes /\ r.cleanups = t /\ r.child = ps[p].child /\ r.above = ps[p].above
    BY <2>5, <2>7 DEF PoolTypes
  <2>11. r # None BY <2>10, NoNone
  <2>12. ps2 \in [Pools -> PoolTypes \cup {None}] BY <1>1, <2>9, <2>10
  <2>13. ps2[p] = r /\ \A q \in Pools : q # p => ps2[q] = ps[q] BY <1>1, <2>9
  <2> HIDE DEF Pools
  <2>14. SamePools(ps, ps2) BY <2>4, <2>10, <2>11, <2>13 DEF SamePools, Alive, Up
  <2>15. ASSUME NEW q \in Pools, Alive(ps, q)
         PROVE  /\ IsInjective(ps2[q].cleanups)
                /\ \A x : In(x, ps2[q].cleanups) <=> In(x, ps[q].cleanups) /\ x # o
    <3>1. CASE q = p BY <3>1, <2>6, <2>10, <2>13
    <3>2. CASE q # p
      <4>1. ps2[q] = ps[q] /\ ~In(o, ps[q].cleanups) BY <3>2, <2>4, <2>13, <2>15, <1>2
      <4>2. QED BY <4>1, <2>15, <1>2
    <3>3. QED BY <3>1, <3>2
  <2>16. QED BY <2>8, <2>12, <2>14, <2>15
<1>5. QED BY <1>3, <1>4

(* The destructor of o is at its end. *)
LEMMA DtorOnTop ==
  ASSUME NEW ps, NEW os, NEW w, NEW rest, NEW o \in Objs,
         Standing(ps, os, w), Stacked(w, DtorCall(o), rest)
  PROVE  /\ Made(os, o) /\ os[o].dtors = 1 /\ ~Ready(os, w, o)
         /\ \A b : In(b, rest) => b \notin ObjectCalls(o) /\ StandsOver(ps, os, o, b)
         /\ \A p : Going(rest, p) <=> Going(w, p)
         /\ \A x \in Objs : Busy(rest, x) <=> x # o /\ Busy(w, x)
         /\ \A x \in Objs : x # o => /\ In(DeleteCall(x), rest) <=> In(DeleteCall(x), w)
                                     /\ In(DtorCall(x), rest) <=> In(DtorCall(x), w)
                                     /\ In(ClearCall(x), rest) <=> In(ClearCall(x), w)
         /\ ~In(DeleteCall(o), rest) /\ ~In(DtorCall(o), rest) /\ ~In(ClearCall(o), rest)
<1>1. Ordered(w, MayStand(ps, os)) /\ CallsSound(ps, os, w) BY DEF Standing
<1>2. In(DtorCall(o), w) BY DEF Stacked
<1>3. Made(os, o) /\ os[o].dtors = 1 BY <1>1, <1>2 DEF CallsSound
<1>4. DtorCall(o) \in ObjectCalls(o) /\ DtorCall(o) # ClearCall(o) BY CallNames DEF ObjectCalls
<1>5. \A b : In(b, rest) => b \notin ObjectCalls(o) /\ StandsOver(ps, os, o, b) BY <1>1, <1>4, ObjectOnTop
<1>6. \A c : In(c, w) <=> c = DtorCall(o) \/ In(c, rest) BY DEF Stacked
<1>7. /\ \A p : PoolCall(p) # DtorCall(o)
      /\ \A x \in Objs : DeleteCall(x) # DtorCall(o) /\ ClearCall(x) # DtorCall(o)
                           /\ (DtorCall(x) = DtorCall(o) => x = o)
  BY DEF PoolCall, DtorCall, ClearCall, DeleteCall
<1>8. \A p : Going(rest, p) <=> Going(w, p) BY <1>6, <1>7 DEF Going
<1>9. \A x \in Objs : x # o => /\ In(DeleteCall(x), rest) <=> In(DeleteCall(x), w)
                               /\ In(DtorCall(x), rest) <=> In(DtorCall(x), w)
                               /\ In(ClearCall(x), rest) <=> In(ClearCall(x), w)
  BY <1>6, <1>7
<1>10. ~In(DeleteCall(o), rest) /\ ~In(DtorCall(o), rest) /\ ~In(ClearCall(o), rest) BY <1>5 DEF ObjectCalls
<1>11. \A x \in Objs : Busy(rest, x) <=> x # o /\ Busy(w, x) BY <1>9, <1>10 DEF Busy
<1>12. ~Ready(os, w, o) BY <1>3, <1>6, <1>7, <1>10 DEF Ready
<1>13. QED BY <1>3, <1>5, <1>8, <1>9, <1>10, <1>11, <1>12

LEMMA DtorDone ==
  ASSUME NEW ps, NEW os, NEW w, NEW rest, NEW o \in Objs,
         Standing(ps, os, w), Stacked(w, DtorCall(o), rest)
  PROVE  Standing(Unregistered(ps, os, o), Deleted(os, o), rest)
<1>1. /\ Typed(ps, os, w) /\ Tree(ps) /\ AllPlaced(ps, os) /\ Ordered(w, MayStand(ps, os))
      /\ CallsSound(ps, os, w) /\ OwnersSound(ps, os, w) /\ Acyclic(os)
      /\ CleanupsSound(ps, os, w) /\ ManagedSound(os, w)
  BY DEF Standing
<1>2. /\ Made(os, o) /\ os[o].dtors = 1 /\ ~Ready(os, w, o)
      /\ \A b : In(b, rest) => b \notin ObjectCalls(o) /\ StandsOver(ps, os, o, b)
      /\ \A p : Going(rest, p) <=> Going(w, p)
      /\ \A x \in Objs : Busy(rest, x) <=> x # o /\ Busy(w, x)
      /\ \A x \in Objs : x # o => /\ In(DeleteCall(x), rest) <=> In(DeleteCall(x), w)
                                  /\ In(DtorCall(x), rest) <=> In(DtorCall(x), w)
                                  /\ In(ClearCall(x), rest) <=> In(ClearCall(x), w)
      /\ ~In(DeleteCall(o), rest) /\ ~In(DtorCall(o), rest) /\ ~In(ClearCall(o), rest)
  BY DtorOnTop
<1>3. PICK ps2 : ps2 = Unregistered(ps, os, o) OBVIOUS
<1>4. PICK os2 : os2 = Deleted(os, o) OBVIOUS
<1>5. /\ ps2 \in [Pools -> PoolTypes \cup {None}]
      /\ SamePools(ps, ps2)
      /\ \A q \in Pools : Alive(ps, q) =>
           /\ IsInjective(ps2[q].cleanups)
           /\ \A x : In(x, ps2[q].cleanups) <=> In(x, ps[q].cleanups) /\ x # o
  BY <1>1, <1>2, <1>3, UnregisteredPools
<1>6. os2 \in [Objs -> ObjTypes \cup {None}] BY <1>1, <1>4 DEF Typed, Deleted
<1>7. ~Made(os2, o) /\ \A x \in Objs : x # o => os2[x] = os[x] BY <1>1, <1>4 DEF Typed, Deleted, Made
<1>8. \A x \in Objs : Made(os2, x) <=> x # o /\ Made(os, x) BY <1>7 DEF Made
<1>9. \A c \in Objs : \A x : Owns(os2, c, x) <=> c # o /\ Owns(os, c, x) BY <1>7, <1>8 DEF Owns, Elem
<1>10. /\ \A q : Keeps(os2, q) => Keeps(os, q)
       /\ \A q : Keeps(os, q) => Keeps(os2, q) \/ q = os[o].destroyerPool
  BY <1>7, <1>8 DEF Keeps
<1>11. \A q : Emptied(os, w, q) => Emptied(os2, rest, q) BY <1>2, <1>10 DEF Emptied
<1>12. Typed(ps2, os2, rest) BY <1>5, <1>6 DEF Typed, Stacked
<1>13. Tree(ps2) BY <1>1, <1>5, SameTree
<1>14. AllPlaced(ps2, os2)
  <2>1. AllPlaced(ps2, os) BY <1>1, <1>5, SamePlaced
  <2>2. QED BY <2>1, <1>7, <1>8 DEF AllPlaced, Placed
<1>15. CleanupsSound(ps2, os2, rest)
  <2>1. ASSUME NEW q \in Pools, Alive(ps2, q)
        PROVE  /\ IsInjective(ps2[q].cleanups)
               /\ \A x \in Objs : In(x, ps2[q].cleanups) => Made(os2, x) /\ os2[x].destroyerPool = q
    <3>1. Alive(ps, q) BY <2>1, <1>5 DEF SamePools
    <3>2. \A x \in Objs : In(x, ps[q].cleanups) => Made(os, x) /\ os[x].destroyerPool = q
      BY <3>1, <1>1 DEF CleanupsSound
    <3>3. QED BY <3>1, <3>2, <1>5, <1>7, <1>8
  <2>2. ASSUME NEW x \in Objs, Made(os2, x), Registered(os2, x)
        PROVE  /\ os2[x].destroyerPool = os2[x].objPool /\ os2[x].managed
               /\ Busy(rest, x) \/ In(x, ps2[os2[x].objPool].cleanups)
    <3>1. x # o /\ Made(os, x) /\ Registered(os, x) /\ os2[x] = os[x] BY <2>2, <1>7, <1>8 DEF Registered
    <3>2. /\ os[x].destroyerPool = os[x].objPool /\ os[x].managed
          /\ Busy(w, x) \/ In(x, ps[os[x].objPool].cleanups)
      BY <3>1, <1>1 DEF CleanupsSound
    <3>3. os[x].objPool \in Pools /\ Alive(ps, os[x].objPool) BY <3>1, <1>1, TypedObjs DEF AllPlaced, Placed
    <3>4. In(x, ps[os[x].objPool].cleanups) => In(x, ps2[os[x].objPool].cleanups) BY <3>1, <3>3, <1>5
    <3>5. QED BY <3>1, <3>2, <3>4, <1>2
  <2>3. QED BY <2>1, <2>2 DEF CleanupsSound
(* Nobody who waits is in the pool that o is registered with. *)
<1>16. ASSUME NEW x \in Objs, Busy(rest, x), Registered(os, o) PROVE os[x].objPool # os[o].objPool
  <2>1. SUFFICES ASSUME os[x].objPool = os[o].objPool PROVE FALSE OBVIOUS
  <2>2. PICK b \in ObjectCalls(x) : In(b, rest) BY <1>16, BusyCalls
  <2>3. ObjectAbove(ps, os, o, b) BY <2>2, <1>2 DEF StandsOver
  <2>4. PoolOf(os, b) = os[x].objPool BY CallPools, Zenon
  <2>5. os[o].objPool \in Up(ps, os[o].objPool)
    <3>1. os[o].objPool \in Pools /\ Alive(ps, os[o].objPool) BY <1>1, <1>2, TypedObjs DEF AllPlaced, Placed
    <3>2. QED BY <3>1, <1>1, TreeSelf
  <2>6. b = PoolCall(os[o].objPool) BY <1>16, <2>1, <2>3, <2>4, <2>5 DEF ObjectAbove
  <2>7. QED BY <2>6, CallNames
<1>17. Registered(os, o) => os[o].destroyerPool = os[o].objPool BY <1>1, <1>2 DEF CleanupsSound
<1>18. Ordered(rest, MayStand(ps2, os2))
  <2>1. \A x \in Objs : Busy(w, x) => Made(os, x) BY <1>1 DEF CallsSound, Busy
  <2>2. ASSUME NEW c, In(c, rest) PROVE StillCalled(ps, os, ps2, os2, c)
    <3>1. In(c, w) BY <2>2 DEF Stacked
    <3>2. SameUp(ps, ps2, PoolOf(os, c)) BY <3>1, <1>1, <1>5, SameUps
    <3>3. ASSUME NEW x \in Objs, c \in ObjectCalls(x) PROVE Kept(os, os2, x)
      <4>1. Busy(rest, x) BY <2>2, <3>3, BusyCalls
      <4>2. x # o /\ Made(os, x) /\ os2[x] = os[x] BY <4>1, <2>1, <1>2, <1>7
      <4>3. QED BY <4>2, <1>8 DEF Kept, Elem
    <3>4. QED BY <3>2, <3>3 DEF StillCalled
  <2>3. StillKept(os, os2, rest)
    <3>1. SUFFICES ASSUME NEW x \in Objs, Busy(rest, x), Keeps(os, os[x].objPool)
                   PROVE  Keeps(os2, os[x].objPool)
      BY DEF StillKept
    <3>2. SUFFICES ASSUME os[x].objPool = os[o].destroyerPool PROVE FALSE BY <3>1, <1>10
    <3>3. os[x].objPool \in Pools BY <3>1, <2>1, <1>1, <1>2, TypedObjs
    <3>4. Registered(os, o) BY <3>2, <3>3, NoNone DEF Registered
    <3>5. QED BY <3>1, <3>2, <3>4, <1>16, <1>17
  <2>4. rest \in Seq(Calls) /\ Ordered(rest, MayStand(ps, os)) BY <1>1 DEF Stacked
  <2>5. QED BY <2>2, <2>3, <2>4, StillOrdered
<1>19. CallsSound(ps2, os2, rest)
  <2>1. ASSUME NEW q \in Pools, Going(rest, q) PROVE Alive(ps2, q) /\ HasReason(ps2, os2, rest, q)
    <3>1. Alive(ps, q) /\ HasReason(ps, os, w, q) BY <2>1, <1>1, <1>2 DEF CallsSound
    <3>2. \A r \in Pools : (Alive(ps2, r) <=> Alive(ps, r)) /\ ps2[r].child = ps[r].child BY <1>5 DEF SamePools
    <3>3. ASSUME NEW x \in Objs, q = tmpPool(x), In(DtorCall(x), w), os[x].kind = "TmpPool"
          PROVE  In(DtorCall(x), rest) /\ os2[x].kind = "TmpPool"
      <4>1. x # o
        <5>1. SUFFICES ASSUME x = o PROVE FALSE OBVIOUS
        <5>2. PICK b : b = PoolCall(q) /\ In(b, rest) BY <2>1 DEF Going
        <5>3. StandsOver(ps, os, o, b) BY <5>2, <1>2
        <5>4. q \in Up(ps, os[o].objPool) BY <5>1, <5>2, <5>3, <3>3 DEF StandsOver
        <5>5. tmpPool(o) \notin Up(ps, os[o].objPool) BY <5>1, <3>1, <3>3, <1>1, <1>2 DEF AllPlaced, Placed
        <5>6. QED BY <5>1, <5>4, <5>5, <3>3
      <4>2. QED BY <4>1, <3>3, <1>2, <1>7
    <3>4. HasReason(ps2, os2, rest, q) BY <3>1, <3>2, <3>3, <1>8, <1>11, ReasonStays
    <3>5. QED BY <3>1, <3>2, <3>4
  <2>2. ASSUME NEW x \in Objs
        PROVE  /\ In(DeleteCall(x), rest) => Made(os2, x) /\ os2[x].dtors = 0
               /\ In(DtorCall(x), rest) => Made(os2, x) /\ os2[x].dtors = 1
               /\ In(ClearCall(x), rest) => Made(os2, x) /\ os2[x].kind = "StrPtrMap" /\ In(DtorCall(x), rest)
               /\ Made(os2, x) => os2[x].dtors = 0 \/ In(DtorCall(x), rest)
    <3>1. CASE x = o BY <3>1, <1>2, <1>7
    <3>2. CASE x # o BY <3>2, <1>1, <1>2, <1>7, <1>8 DEF CallsSound
    <3>3. QED BY <3>1, <3>2
  <2>3. QED BY <2>1, <2>2 DEF CallsSound
<1>20. OwnersSound(ps2, os2, rest)
  <2>1. ASSUME NEW c \in Objs, Made(os2, c) PROVE ContainerSound(ps2, os2, rest, c)
    <3>1. c # o /\ Made(os, c) /\ os2[c] = os[c] BY <2>1, <1>7, <1>8
    <3>2. ContainerSound(ps, os, w, c) BY <3>1, <1>1 DEF OwnersSound
    <3>3. Alive(ps2, tmpPool(c)) <=> Alive(ps, tmpPool(c)) BY <1>5, PoolNames DEF SamePools
    <3>4. QED BY <3>1, <3>2, <3>3, <1>11 DEF ContainerSound
  <2>2. ASSUME NEW c \in Objs, NEW x \in Objs, Owns(os2, c, x) PROVE ElementSound(os2, rest, c, x)
    <3>1. c # o /\ Owns(os, c, x) /\ os2[c] = os[c] BY <2>2, <1>7, <1>9
    <3>2. ElementSound(os, w, c, x) BY <3>1, <1>1 DEF OwnersSound
    <3>3. \A d \in Objs : Owns(os2, d, x) => d = c BY <3>2, <1>9 DEF ElementSound
    <3>4. Ready(os2, rest, c) <=> Ready(os, w, c) BY <3>1, <1>2 DEF Ready
    <3>5. Emptied(os, w, os[c].objPool) => Emptied(os2, rest, os2[c].objPool) BY <3>1, <1>11
    <3>6. CASE x = o
      <4>1. ~(Ready(os, w, c) /\ ~Emptied(os, w, os[c].objPool)) BY <3>2, <3>6, <1>2 DEF ElementSound
      <4>2. QED BY <4>1, <3>3, <3>4, <3>5, <3>6, <1>7 DEF ElementSound
    <3>7. CASE x # o
      <4>1. os2[x] = os[x] /\ (Busy(rest, x) <=> Busy(w, x)) BY <3>7, <1>2, <1>7
      <4>2. QED BY <4>1, <3>1, <3>2, <3>3, <3>4, <3>5 DEF ElementSound, Made, Registered
    <3>8. QED BY <3>6, <3>7
  <2>3. QED BY <2>1, <2>2 DEF OwnersSound
<1>21. Acyclic(os2) BY <1>1, <1>9 DEF Acyclic
(* What o pointed to and is there is being deleted. *)
<1>22. \A x \in Objs : Owns(os, o, x) /\ Made(os, x) => x # o /\ Busy(rest, x)
  <2>1. SUFFICES ASSUME NEW x \in Objs, Owns(os, o, x), Made(os, x) PROVE x # o /\ Busy(rest, x) OBVIOUS
  <2>2. Busy(w, x) BY <2>1, <1>1, <1>2, OwnerOf
  <2>3. x # o BY <2>1, <1>1, NoOwnLoop
  <2>4. QED BY <2>2, <2>3, <1>2
<1>23. WhoDeletes(os2, rest)
  <2>1. SUFFICES ASSUME NEW x \in Objs, Made(os2, x), os2[x].managed
                 PROVE  Registered(os2, x) \/ Busy(rest, x) \/ \E c \in Objs : Owns(os2, c, x)
    BY DEF WhoDeletes
  <2>2. x # o /\ Made(os, x) /\ os2[x] = os[x] BY <2>1, <1>7, <1>8
  <2>3. Registered(os, x) \/ Busy(w, x) \/ \E c \in Objs : Owns(os, c, x) BY <2>1, <2>2, <1>1 DEF ManagedSound
  <2>4. ASSUME NEW c \in Objs, Owns(os, c, x) PROVE Busy(rest, x) \/ Owns(os2, c, x)
    BY <2>2, <2>4, <1>9, <1>22
  <2>5. QED BY <2>2, <2>3, <2>4, <1>2 DEF Registered
<1>24. ManagedSound(os2, rest)
  <2>1. ASSUME NEW x \in Objs, Made(os2, x), os2[x].managed, Emptied(os, w, os2[x].objPool)
        PROVE  (os2[x].kind = "plain" /\ Busy(rest, x)) \/ Elsewhere(os2, x)
    <3>1. x # o /\ Made(os, x) /\ os2[x] = os[x] BY <2>1, <1>7, <1>8
    <3>2. (os[x].kind = "plain" /\ Busy(w, x)) \/ Elsewhere(os, x) BY <2>1, <3>1, <1>1 DEF ManagedSound
    <3>3. CASE os[x].kind = "plain" /\ Busy(w, x) BY <3>1, <3>3, <1>2
    <3>4. CASE Elsewhere(os, x)
      <4>1. PICK c \in Objs : Owns(os, c, x) /\ os[c].pool = os[x].objPool /\ os[c].objPool # os[x].objPool
        BY <3>4 DEF Elsewhere
      <4>2. os[x].kind = "plain" BY <3>4 DEF Elsewhere
      <4>3. CASE c = o BY <3>1, <4>1, <4>2, <4>3, <1>22
      <4>4. CASE c # o
        <5>1. Owns(os2, c, x) /\ os2[c] = os[c] BY <4>1, <4>4, <1>7, <1>9
        <5>2. QED BY <5>1, <4>1, <4>2, <3>1 DEF Elsewhere
      <4>5. QED BY <4>3, <4>4
    <3>5. QED BY <3>2, <3>3, <3>4
  <2>2. ASSUME NEW x \in Objs, Made(os2, x), os2[x].managed,
               Emptied(os2, rest, os2[x].objPool), ~Emptied(os, w, os2[x].objPool)
        PROVE  Elsewhere(os2, x)
    <3>1. PICK p \in Pools : p = os2[x].objPool /\ Alive(ps2, p)
      <4>1. os2[x].objPool \in Pools BY <2>2, <1>12, TypedObjs
      <4>2. Alive(ps2, os2[x].objPool) BY <2>2, <1>14 DEF AllPlaced, Placed
      <4>3. QED BY <4>1, <4>2
    <3>2. Going(rest, p) /\ ~Keeps(os2, p) BY <2>2, <3>1 DEF Emptied
    <3>3. p = os[o].destroyerPool BY <2>2, <3>1, <3>2, <1>2, <1>10 DEF Emptied
    <3>4. Registered(os, o) BY <3>3, NoNone DEF Registered
    <3>5. p = os[o].objPool BY <3>3, <3>4, <1>17
    <3>6. HasReason(ps2, os2, rest, p) BY <3>2, <1>19 DEF CallsSound
    <3>7. \A y \in Objs : Made(os2, y) /\ Busy(rest, y) => os2[y].objPool # p
      BY <3>4, <3>5, <1>7, <1>8, <1>16
    <3>8. ASSUME NEW y \in Objs, Made(os2, y), os2[y].managed, os2[y].objPool # p, Emptied(os2, rest, os2[y].objPool)
          PROVE  os2[y].kind = "plain"
      <4>1. Emptied(os, w, os2[y].objPool) BY <3>3, <3>8, <1>2, <1>10 DEF Emptied
      <4>2. QED BY <4>1, <3>8, <2>1 DEF Elsewhere
    <3>9. \A y \in Objs : Made(os2, y) /\ Registered(os2, y) => os2[y].destroyerPool = os2[y].objPool
      BY <1>15 DEF CleanupsSound
    <3>10. \A y \in Objs : Made(os2, y) /\ os2[y].managed /\ os2[y].objPool = p => Elsewhere(os2, y)
      BY <3>1, <3>2, <3>6, <3>7, <3>8, <3>9, <1>12, <1>13, <1>14, <1>20, <1>21, <1>23, Emptying
    <3>11. QED BY <2>2, <3>1, <3>10
  <2>3. QED BY <2>1, <2>2, <1>23 DEF ManagedSound, WhoDeletes
<1>25. QED BY <1>3, <1>4, <1>12, <1>13, <1>14, <1>15, <1>18, <1>19, <1>20, <1>21, <1>24 DEF Standing

LEMMA DtorOwned ==
  ASSUME NEW ps, NEW os, NEW w, NEW rest, NEW o \in Objs,
         Sound(ps, os, w), Stacked(w, DtorCall(o), rest),
         NEW w2, \A p : Going(rest, p) => Going(w2, p), os[o].usage => Going(w2, os[o].objPool)
  PROVE  PoolsOwned(Unregistered(ps, os, o), Deleted(os, o), w2)
<1>1. Standing(ps, os, w) /\ PoolsOwned(ps, os, w) BY DEF Sound
<1>2. Typed(ps, os, w) /\ AllPlaced(ps, os) /\ CleanupsSound(ps, os, w) BY <1>1 DEF Standing
<1>3. Made(os, o) /\ os[o].dtors = 1
  <2>1. In(DtorCall(o), w) BY DEF Stacked
  <2>2. CallsSound(ps, os, w) BY <1>1 DEF Standing
  <2>3. QED BY <2>1, <2>2 DEF CallsSound
<1>4. \A p : Going(rest, p) <=> Going(w, p) BY <1>1, DtorOnTop
<1>5. PICK ps2 : ps2 = Unregistered(ps, os, o) OBVIOUS
<1>6. PICK os2 : os2 = Deleted(os, o) OBVIOUS
<1>7. SamePools(ps, ps2) BY <1>2, <1>3, <1>5, UnregisteredPools
<1>8. \A x \in Objs : x # o => os2[x] = os[x] BY <1>2, <1>6 DEF Typed, Deleted
<1>9. \A q \in Pools : Alive(ps2, q) <=> Alive(ps, q) BY <1>7 DEF SamePools
<1>10. ASSUME NEW x \in Objs, Alive(ps2, subPool(x))
      PROVE  Going(w2, subPool(x)) \/ (Made(os2, x) /\ os2[x].objPool = subPool(x) /\ os2[x].usage)
  <2>1. Alive(ps, subPool(x)) BY <1>9, <1>10, PoolNames
  <2>2. Going(w, subPool(x)) \/ (Made(os, x) /\ os[x].objPool = subPool(x) /\ os[x].usage)
    BY <1>1, <2>1 DEF PoolsOwned
  <2>3. CASE x = o BY <2>2, <2>3, <1>3, <1>4
  <2>4. CASE x # o BY <2>2, <2>4, <1>3, <1>8, <1>4 DEF Made
  <2>5. QED BY <2>3, <2>4
<1>11. ASSUME NEW x \in Objs, Alive(ps2, tmpPool(x))
       PROVE  Going(w2, tmpPool(x)) \/ (Made(os2, x) /\ os2[x].kind = "TmpPool" /\ os2[x].dtors = 0)
  <2>1. Alive(ps, tmpPool(x)) BY <1>9, <1>11, PoolNames
  <2>2. Going(w, tmpPool(x)) \/ (Made(os, x) /\ os[x].kind = "TmpPool" /\ os[x].dtors = 0)
    BY <1>1, <2>1 DEF PoolsOwned
  <2>3. CASE x = o BY <2>2, <2>3, <1>3, <1>4
  <2>4. CASE x # o BY <2>2, <2>4, <1>3, <1>8, <1>4 DEF Made
  <2>5. QED BY <2>3, <2>4
<1>12. QED BY <1>5, <1>6, <1>10, <1>11 DEF PoolsOwned

LEMMA DtorKeepsPool ==
  ASSUME NEW ps, NEW os, NEW w, NEW rest, NEW o \in Objs,
         Sound(ps, os, w), Stacked(w, DtorCall(o), rest), ~os[o].usage
  PROVE  Sound(Unregistered(ps, os, o), Deleted(os, o), rest)
<1>1. Standing(Unregistered(ps, os, o), Deleted(os, o), rest) BY DtorDone DEF Sound
<1>2. PoolsOwned(Unregistered(ps, os, o), Deleted(os, o), rest) BY DtorOwned
<1>3. QED BY <1>1, <1>2 DEF Sound

LEMMA DtorDestroysPool ==
  ASSUME NEW ps, NEW os, NEW w, NEW rest, NEW o \in Objs,
         Sound(ps, os, w), Stacked(w, DtorCall(o), rest), os[o].usage
  PROVE  Sound(Unregistered(ps, os, o), Deleted(os, o), Cat(<<PoolCall(os[o].objPool)>>, rest))
<1>1. Standing(ps, os, w) BY DEF Sound
<1>2. /\ Typed(ps, os, w) /\ Tree(ps) /\ AllPlaced(ps, os) /\ CleanupsSound(ps, os, w) /\ CallsSound(ps, os, w)
  BY <1>1 DEF Standing
<1>3. Made(os, o) /\ \A b : In(b, rest) => b \notin ObjectCalls(o) /\ StandsOver(ps, os, o, b)
  BY <1>1, DtorOnTop
<1>4. PICK ps2 : ps2 = Unregistered(ps, os, o) OBVIOUS
<1>5. PICK os2 : os2 = Deleted(os, o) OBVIOUS
<1>6. PICK p : p = os[o].objPool OBVIOUS
<1>7. p \in Pools /\ Alive(ps, p) /\ p = subPool(o)
  <2>1. Placed(ps, os, o) BY <1>2, <1>3 DEF AllPlaced
  <2>2. QED BY <2>1, <1>2, <1>3, <1>6, PlacedUp
<1>8. SamePools(ps, ps2) BY <1>2, <1>3, <1>4, UnregisteredPools
<1>9. ~Made(os2, o) /\ \A x \in Objs : x # o => os2[x] = os[x] BY <1>2, <1>5 DEF Typed, Deleted, Made
<1>10. Standing(ps2, os2, rest) BY <1>1, <1>4, <1>5, DtorDone
<1>11. Alive(ps2, p) BY <1>7, <1>8 DEF SamePools
<1>12. HasReason(ps2, os2, rest, p) BY <1>7, <1>9 DEF HasReason
<1>13. ASSUME NEW b, In(b, rest) PROVE p \notin Up(ps2, PoolOf(os2, b)) /\ \A q : b = PoolCall(q) => q \in Up(ps2, p)
  <2>1. StandsOver(ps, os, o, b) /\ b \notin ObjectCalls(o) BY <1>3, <1>13
  <2>2. p \notin Up(ps, PoolOf(os, b)) BY <2>1, <1>6 DEF StandsOver, ObjectAbove
  <2>3. \A q : b = PoolCall(q) => q \in Up(ps, p) BY <2>1, <1>6 DEF StandsOver
  <2>4. In(b, w) BY <1>13 DEF Stacked
  <2>5. b \in Calls BY <2>4, <1>2, TypedCalls
  <2>6. PoolOf(os2, b) = PoolOf(os, b)
    <3>1. \A x \in Objs : b \in ObjectCalls(x) => os2[x].objPool = os[x].objPool BY <2>1, <1>9
    <3>2. QED BY <2>5, <3>1, SamePoolOf
  <2>7. PoolOf(os, b) \in Pools /\ Alive(ps, PoolOf(os, b)) BY <2>4, <1>2, PoolOfAlive
  <2>8. QED BY <2>2, <2>3, <2>6, <2>7, <1>7, <1>8 DEF SamePools
<1>14. PICK w2 : w2 = Cat(<<PoolCall(p)>>, rest) OBVIOUS
<1>15. Standing(ps2, os2, w2) BY <1>7, <1>10, <1>11, <1>12, <1>13, <1>14, PushPool
<1>16. PoolsOwned(ps2, os2, w2)
  <2>1. PoolCall(p) \in Calls /\ rest \in Seq(Calls) BY <1>7, CallNames DEF Stacked
  <2>2. Stacked(w2, PoolCall(p), rest) BY <2>1, <1>14, PushStacked
  <2>3. Going(w2, p) /\ \A q : Going(rest, q) => Going(w2, q) BY <2>2 DEF Stacked, Going
  <2>4. QED BY <2>3, <1>4, <1>5, <1>6, DtorOwned
<1>17. QED BY <1>4, <1>5, <1>6, <1>14, <1>15, <1>16 DEF Sound

(***************************************************************************)
(* A pool goes                                                             *)
(***************************************************************************)
Freed(ps, p) ==
  [q \in Pools |-> IF q = p THEN None
                   ELSE IF ~Alive(ps, q) THEN None
                   ELSE [ps[q] EXCEPT !.child = Unlink(@, p)]]

GoneWith(os, p) == [o \in Objs |-> IF Made(os, o) /\ os[o].objPool = p THEN None ELSE os[o]]

LEMMA FreedPools ==
  ASSUME NEW ps, NEW os, NEW w, Typed(ps, os, w), Tree(ps), NEW p \in Pools
  PROVE  /\ Freed(ps, p) \in [Pools -> PoolTypes \cup {None}]
         /\ \A q \in Pools :
              /\ Alive(Freed(ps, p), q) <=> q # p /\ Alive(ps, q)
              /\ q # p /\ Alive(ps, q) =>
                   /\ Up(Freed(ps, p), q) = Up(ps, q) /\ Freed(ps, p)[q].cleanups = ps[q].cleanups
                   /\ IsInjective(Freed(ps, p)[q].child)
                   /\ \A y : In(y, Freed(ps, p)[q].child) <=> In(y, ps[q].child) /\ y # p
<1>1. ASSUME NEW q \in Pools, q # p, Alive(ps, q)
      PROVE  /\ Freed(ps, p)[q] \in PoolTypes
             /\ Up(Freed(ps, p), q) = Up(ps, q) /\ Freed(ps, p)[q].cleanups = ps[q].cleanups
             /\ IsInjective(Freed(ps, p)[q].child)
             /\ \A y : In(y, Freed(ps, p)[q].child) <=> In(y, ps[q].child) /\ y # p
  <2>1. ps[q] \in PoolTypes /\ ps[q].child \in Seq(Pools) BY <1>1, TypedPools
  <2>2. IsInjective(ps[q].child) BY <1>1 DEF Tree
  <2>3. PICK s : s = Unlink(ps[q].child, p) OBVIOUS
  <2>4. s \in Seq(Pools) /\ IsInjective(s) /\ \A y : In(y, s) <=> In(y, ps[q].child) /\ y # p
    BY <2>1, <2>2, <2>3, UnlinkSeq
  <2>5. Freed(ps, p)[q] = [ps[q] EXCEPT !.child = s] BY <1>1, <2>3 DEF Freed
  <2>6. QED BY <2>1, <2>4, <2>5 DEF PoolTypes, Up
<1>2. \A q \in Pools : q = p \/ ~Alive(ps, q) => Freed(ps, p)[q] = None BY DEF Freed
<1>3. ASSUME NEW q \in Pools PROVE Freed(ps, p)[q] \in PoolTypes \cup {None} BY <1>1, <1>2
<1>4. Freed(ps, p) = [q \in Pools |-> Freed(ps, p)[q]] BY DEF Freed
<1>5. Freed(ps, p) \in [Pools -> PoolTypes \cup {None}] BY <1>3, <1>4
<1>6. ASSUME NEW q \in Pools PROVE Alive(Freed(ps, p), q) <=> q # p /\ Alive(ps, q)
  <2>1. q # p /\ Alive(ps, q) => Freed(ps, p)[q] # None BY <1>1, NoNone
  <2>2. QED BY <2>1, <1>2 DEF Alive
<1>7. QED BY <1>1, <1>5, <1>6

LEMMA GoneObjs ==
  ASSUME NEW ps, NEW os, NEW w, Typed(ps, os, w), NEW p
  PROVE  /\ GoneWith(os, p) \in [Objs -> ObjTypes \cup {None}]
         /\ \A x \in Objs : /\ Made(GoneWith(os, p), x) <=> Made(os, x) /\ os[x].objPool # p
                            /\ Made(os, x) /\ os[x].objPool # p => GoneWith(os, p)[x] = os[x]
<1>1. os \in [Objs -> ObjTypes \cup {None}] BY DEF Typed
<1>2. ASSUME NEW x \in Objs
      PROVE  /\ GoneWith(os, p)[x] \in ObjTypes \cup {None}
             /\ Made(GoneWith(os, p), x) <=> Made(os, x) /\ os[x].objPool # p
             /\ Made(os, x) /\ os[x].objPool # p => GoneWith(os, p)[x] = os[x]
  <2>1. GoneWith(os, p)[x] = IF Made(os, x) /\ os[x].objPool = p THEN None ELSE os[x] BY DEF GoneWith
  <2>2. os[x] \in ObjTypes \cup {None} BY <1>1
  <2>3. QED BY <2>1, <2>2 DEF Made
<1>3. GoneWith(os, p) = [x \in Objs |-> GoneWith(os, p)[x]] BY DEF GoneWith
<1>4. GoneWith(os, p) \in [Objs -> ObjTypes \cup {None}] BY <1>2, <1>3
<1>5. QED BY <1>2, <1>4

(* Nothing that is still to be deleted is in a pool that is about to go. *)
LEMMA FreesNoManaged ==
  ASSUME NEW ps, NEW os, NEW w, NEW rest, NEW p \in Pools,
         Standing(ps, os, w), Stacked(w, PoolCall(p), rest), ps[p].cleanups = <<>>, ps[p].child = <<>>
  PROVE  /\ \A q \in Pools : Alive(ps, q) /\ q # p => p \notin Up(ps, q)
         /\ \A x \in Objs : Made(os, x) /\ os[x].managed => os[x].objPool # p
<1>1. Typed(ps, os, w) /\ Tree(ps) /\ AllPlaced(ps, os) /\ ManagedSound(os, w) BY DEF Standing
<1>2. Alive(ps, p) BY NoneKept
<1>3. Emptied(os, w, p) BY NoneKept
<1>4. \A x \in Objs : Busy(w, x) => os[x].objPool # p BY NoneKept
<1>5. ASSUME NEW q \in Pools, Alive(ps, q), q # p, p \in Up(ps, q) PROVE FALSE
  <2>1. PICK r \in Up(ps, q) : In(r, ps[p].child) BY <1>1, <1>5 DEF Tree
  <2>2. QED BY <2>1, NoneIn
<1>6. ASSUME NEW x \in Objs, Made(os, x), os[x].managed, os[x].objPool = p PROVE FALSE
  <2>1. (os[x].kind = "plain" /\ Busy(w, x)) \/ Elsewhere(os, x) BY <1>1, <1>3, <1>6 DEF ManagedSound
  <2>2. PICK c \in Objs : Owns(os, c, x) /\ os[c].pool = p /\ os[c].objPool # p
    BY <2>1, <1>4, <1>6 DEF Elsewhere
  <2>3. Made(os, c) /\ Placed(ps, os, c) BY <2>2, <1>1 DEF Owns, AllPlaced
  <2>4. os[c].objPool \in Pools /\ Alive(ps, os[c].objPool) /\ os[c].pool \in Up(ps, os[c].objPool)
    BY <2>3, <1>1, PlacedUp
  <2>5. QED BY <2>2, <2>4, <1>5
<1>7. QED BY <1>5, <1>6

LEMMA FreeTurn ==
  ASSUME NEW ps, NEW os, NEW w, NEW rest, NEW p \in Pools,
         Sound(ps, os, w), Stacked(w, PoolCall(p), rest), ps[p].cleanups = <<>>, ps[p].child = <<>>
  PROVE  Sound(Freed(ps, p), GoneWith(os, p), rest)
<1>1. Standing(ps, os, w) /\ PoolsOwned(ps, os, w) BY DEF Sound
<1>2. /\ Typed(ps, os, w) /\ Tree(ps) /\ AllPlaced(ps, os) /\ Ordered(w, MayStand(ps, os))
      /\ CallsSound(ps, os, w) /\ OwnersSound(ps, os, w) /\ Acyclic(os)
      /\ CleanupsSound(ps, os, w) /\ ManagedSound(os, w)
  BY <1>1 DEF Standing
<1>3. PICK ps2 : ps2 = Freed(ps, p) OBVIOUS
<1>4. PICK os2 : os2 = GoneWith(os, p) OBVIOUS
<1>5. ps2 \in [Pools -> PoolTypes \cup {None}] BY <1>2, <1>3, FreedPools
<1>6. \A q \in Pools :
        /\ Alive(ps2, q) <=> q # p /\ Alive(ps, q)
        /\ q # p /\ Alive(ps, q) =>
             /\ Up(ps2, q) = Up(ps, q) /\ ps2[q].cleanups = ps[q].cleanups
             /\ IsInjective(ps2[q].child)
             /\ \A y : In(y, ps2[q].child) <=> In(y, ps[q].child) /\ y # p
  <2>1. \A q \in Pools :
          /\ Alive(Freed(ps, p), q) <=> q # p /\ Alive(ps, q)
          /\ q # p /\ Alive(ps, q) =>
               /\ Up(Freed(ps, p), q) = Up(ps, q) /\ Freed(ps, p)[q].cleanups = ps[q].cleanups
               /\ IsInjective(Freed(ps, p)[q].child)
               /\ \A y : In(y, Freed(ps, p)[q].child) <=> In(y, ps[q].child) /\ y # p
    BY <1>2, FreedPools, Zenon
  <2>2. QED BY <2>1, <1>3
<1>7. os2 \in [Objs -> ObjTypes \cup {None}] BY <1>2, <1>4, GoneObjs
<1>8. \A x \in Objs : /\ Made(os2, x) <=> Made(os, x) /\ os[x].objPool # p
                      /\ Made(os, x) /\ os[x].objPool # p => os2[x] = os[x]
  BY <1>2, <1>4, GoneObjs
<1>9. \A q \in Pools : Alive(ps, q) /\ q # p => p \notin Up(ps, q) BY <1>1, FreesNoManaged
<1>10. \A x \in Objs : Made(os, x) /\ os[x].managed => os[x].objPool # p BY <1>1, FreesNoManaged
<1>11. Alive(ps, p) /\ Going(w, p)
  <2>1. Alive(ps, p) BY <1>1, NoneKept
  <2>2. QED BY <2>1 DEF Stacked, Going
<1>12. \A x \in Objs : Busy(w, x) => os[x].objPool # p BY <1>1, NoneKept
<1>13. \A x \in Objs : Busy(w, x) => Made(os, x) BY <1>2 DEF CallsSound, Busy
<1>14. \A x \in Objs : Busy(w, x) => os2[x] = os[x] /\ Made(os2, x) BY <1>8, <1>12, <1>13
(* What is still to be called. *)
<1>15. p \in Up(ps, p) /\ \A b : In(b, rest) => p \notin Up(ps, PoolOf(os, b))
  <2>1. \A b : In(b, rest) => p \notin Up(ps, PoolOf(os, b)) BY <1>2, PoolOnTop
  <2>2. QED BY <2>1, <1>2, <1>11, TreeSelf
<1>16. ~In(PoolCall(p), rest)
  <2>1. PoolOf(os, PoolCall(p)) = p BY CallPools
  <2>2. QED BY <2>1, <1>15
<1>17. \A c : In(c, rest) <=> In(c, w) /\ c # PoolCall(p) BY <1>16 DEF Stacked
<1>18. \A q : Going(rest, q) <=> q # p /\ Going(w, q)
  <2>1. \A q : PoolCall(q) = PoolCall(p) <=> q = p BY CallNames
  <2>2. QED BY <2>1, <1>17 DEF Going
<1>19. \A x \in Objs : /\ In(DeleteCall(x), rest) <=> In(DeleteCall(x), w)
                       /\ In(DtorCall(x), rest) <=> In(DtorCall(x), w)
                       /\ In(ClearCall(x), rest) <=> In(ClearCall(x), w)
  <2>1. \A x \in Objs : DeleteCall(x) # PoolCall(p) /\ DtorCall(x) # PoolCall(p) /\ ClearCall(x) # PoolCall(p)
    BY DEF PoolCall, DtorCall, ClearCall, DeleteCall
  <2>2. QED BY <2>1, <1>17
<1>20. \A x \in Objs : Busy(rest, x) <=> Busy(w, x) BY <1>19 DEF Busy
<1>21. \A x \in Objs : Made(os, x) =>
         /\ os[x].objPool \in Pools /\ Alive(ps, os[x].objPool) /\ os[x].pool \in Pools /\ Alive(ps, os[x].pool)
         /\ os[x].pool \in Up(ps, os[x].objPool)
  BY <1>2, PlacedUp DEF AllPlaced
<1>22. \A x \in Objs : Made(os, x) /\ os[x].objPool # p => os[x].pool # p BY <1>9, <1>21
<1>23. \A q \in Pools : q # p => (Keeps(os2, q) <=> Keeps(os, q))
  <2>1. SUFFICES ASSUME NEW q \in Pools, q # p, NEW x \in Objs, Made(os, x), os[x].destroyerPool = q
                 PROVE  Made(os2, x) /\ os2[x] = os[x]
    BY <1>8 DEF Keeps
  <2>2. Registered(os, x) BY <2>1, NoNone DEF Registered
  <2>3. os[x].objPool = q BY <2>1, <2>2, <1>2 DEF CleanupsSound
  <2>4. QED BY <2>1, <2>3, <1>8
<1>24. \A q \in Pools : q # p => (Emptied(os2, rest, q) <=> Emptied(os, w, q)) BY <1>18, <1>23 DEF Emptied
<1>25. \A c \in Objs : \A x : Owns(os2, c, x) <=> Owns(os, c, x) /\ os[c].objPool # p BY <1>8 DEF Owns, Elem
<1>26. \A c \in Objs : Made(os2, c) => (Ready(os2, rest, c) <=> Ready(os, w, c)) BY <1>8, <1>19 DEF Ready
<1>27. Typed(ps2, os2, rest) BY <1>5, <1>7 DEF Typed, Stacked
<1>28. Tree(ps2)
  <2>1. SUFFICES ASSUME NEW q \in Pools, Alive(ps, q), q # p
                 PROVE  /\ q \in Up(ps, q) /\ pconf \in Up(ps, q)
                        /\ \A r \in Up(ps, q) :
                             /\ Alive(ps2, r) /\ Up(ps2, r) \subseteq Up(ps, q)
                             /\ q \in Up(ps2, r) => q = r
                             /\ r # q => \E s \in Up(ps, q) : In(s, ps2[r].child)
                        /\ \A r \in Pools : In(r, ps2[q].child) =>
                             Alive(ps2, r) /\ Up(ps2, r) = {r} \cup Up(ps, q) /\ r \notin Up(ps, q)
    BY <1>6 DEF Tree
  <2>2. p \notin Up(ps, q) BY <2>1, <1>9
  <2>3. ASSUME NEW r \in Up(ps, q)
        PROVE  /\ Alive(ps2, r) /\ Up(ps2, r) \subseteq Up(ps, q)
               /\ q \in Up(ps2, r) => q = r
               /\ r # q => \E s \in Up(ps, q) : In(s, ps2[r].child)
    <3>1. r \in Pools /\ Alive(ps, r) /\ Up(ps, r) \subseteq Up(ps, q) /\ (q \in Up(ps, r) => q = r)
      BY <2>1, <1>2, TreeUp
    <3>2. r # q => \E s \in Up(ps, q) : In(s, ps[r].child) BY <2>1, <1>2 DEF Tree
    <3>3. QED BY <3>1, <3>2, <2>2, <1>6
  <2>4. ASSUME NEW r \in Pools, In(r, ps2[q].child)
        PROVE  Alive(ps2, r) /\ Up(ps2, r) = {r} \cup Up(ps, q) /\ r \notin Up(ps, q)
    <3>1. In(r, ps[q].child) /\ r # p BY <2>1, <2>4, <1>6
    <3>2. Alive(ps, r) /\ Up(ps, r) = {r} \cup Up(ps, q) /\ r \notin Up(ps, q) BY <2>1, <3>1, <1>2, TreeChild
    <3>3. QED BY <3>1, <3>2, <1>6
  <2>5. QED BY <2>1, <2>3, <2>4, <1>2, TreeSelf
<1>29. AllPlaced(ps2, os2)
  <2>1. SUFFICES ASSUME NEW x \in Objs, Made(os, x), os[x].objPool # p, os2[x] = os[x] PROVE Placed(ps2, os2, x)
    BY <1>8 DEF AllPlaced
  <2>2. Placed(ps, os, x) BY <2>1, <1>2 DEF AllPlaced
  <2>3. /\ Alive(ps2, os[x].objPool) /\ Up(ps2, os[x].objPool) = Up(ps, os[x].objPool)
        /\ Alive(ps2, os[x].pool) /\ Up(ps2, os[x].pool) = Up(ps, os[x].pool)
    BY <2>1, <1>6, <1>21, <1>22
  <2>4. tmpPool(x) \in Pools BY PoolNames
  <2>5. Alive(ps2, tmpPool(x)) => Alive(ps, tmpPool(x)) /\ Up(ps2, tmpPool(x)) = Up(ps, tmpPool(x)) BY <2>4, <1>6
  <2>6. QED BY <2>1, <2>2, <2>3, <2>5 DEF Placed
<1>30. CleanupsSound(ps2, os2, rest)
  <2>1. ASSUME NEW q \in Pools, Alive(ps2, q)
        PROVE  /\ IsInjective(ps2[q].cleanups)
               /\ \A x \in Objs : In(x, ps2[q].cleanups) => Made(os2, x) /\ os2[x].destroyerPool = q
    <3>1. Alive(ps, q) /\ q # p /\ ps2[q].cleanups = ps[q].cleanups BY <2>1, <1>6
    <3>2. IsInjective(ps[q].cleanups) BY <3>1, <1>2 DEF CleanupsSound
    <3>3. ASSUME NEW x \in Objs, In(x, ps[q].cleanups) PROVE Made(os2, x) /\ os2[x].destroyerPool = q
      <4>1. Made(os, x) /\ os[x].destroyerPool = q BY <3>1, <3>3, <1>2 DEF CleanupsSound
      <4>2. Registered(os, x) BY <4>1, NoNone DEF Registered
      <4>3. os[x].objPool = q BY <4>1, <4>2, <1>2 DEF CleanupsSound
      <4>4. QED BY <4>1, <4>3, <3>1, <1>8
    <3>4. QED BY <3>1, <3>2, <3>3
  <2>2. ASSUME NEW x \in Objs, Made(os2, x), Registered(os2, x)
        PROVE  /\ os2[x].destroyerPool = os2[x].objPool /\ os2[x].managed
               /\ Busy(rest, x) \/ In(x, ps2[os2[x].objPool].cleanups)
    <3>1. Made(os, x) /\ os[x].objPool # p /\ os2[x] = os[x] BY <2>2, <1>8
    <3>2. Registered(os, x) BY <2>2, <3>1 DEF Registered
    <3>3. /\ os[x].destroyerPool = os[x].objPool /\ os[x].managed
          /\ Busy(w, x) \/ In(x, ps[os[x].objPool].cleanups)
      BY <3>1, <3>2, <1>2 DEF CleanupsSound
    <3>4. ps2[os[x].objPool].cleanups = ps[os[x].objPool].cleanups BY <3>1, <1>6, <1>21
    <3>5. QED BY <3>1, <3>3, <3>4, <1>20
  <2>3. QED BY <2>1, <2>2 DEF CleanupsSound
<1>31. Ordered(rest, MayStand(ps2, os2))
  <2>1. ASSUME NEW c, In(c, rest) PROVE StillCalled(ps, os, ps2, os2, c)
    <3>1. In(c, w) BY <2>1 DEF Stacked
    <3>2. PICK B : B = PoolOf(os, c) OBVIOUS
    <3>3. B \in Pools /\ Alive(ps, B) /\ p \notin Up(ps, B) BY <2>1, <3>1, <3>2, <1>2, <1>15, PoolOfAlive
    <3>4. \A q \in Up(ps, B) : q \in Pools /\ Alive(ps, q) /\ q # p BY <3>3, <1>2, TreeUp
    <3>5. B \in Up(ps, B) BY <3>3, <1>2, TreeSelf
    <3>6. SameUp(ps, ps2, B) BY <3>3, <3>4, <3>5, <1>6 DEF SameUp
    <3>7. ASSUME NEW x \in Objs, c \in ObjectCalls(x) PROVE Kept(os, os2, x)
      <4>1. Busy(w, x) BY <3>1, <3>7, BusyCalls
      <4>2. Made(os, x) /\ Made(os2, x) /\ os2[x] = os[x] BY <4>1, <1>13, <1>14
      <4>3. QED BY <4>2 DEF Kept, Elem
    <3>8. QED BY <3>2, <3>6, <3>7 DEF StillCalled
  <2>2. StillKept(os, os2, rest)
    <3>1. SUFFICES ASSUME NEW x \in Objs, Busy(rest, x), Keeps(os, os[x].objPool) PROVE Keeps(os2, os[x].objPool)
      BY DEF StillKept
    <3>2. os[x].objPool \in Pools /\ os[x].objPool # p BY <3>1, <1>12, <1>13, <1>20, <1>21
    <3>3. QED BY <3>1, <3>2, <1>23
  <2>3. rest \in Seq(Calls) /\ Ordered(rest, MayStand(ps, os)) BY <1>2 DEF Stacked
  <2>4. QED BY <2>1, <2>2, <2>3, StillOrdered
<1>32. CallsSound(ps2, os2, rest)
  <2>1. ASSUME NEW q \in Pools, Going(rest, q) PROVE Alive(ps2, q) /\ HasReason(ps2, os2, rest, q)
    <3>1. Alive(ps, q) /\ HasReason(ps, os, w, q) /\ q # p BY <2>1, <1>2, <1>18 DEF CallsSound
    <3>2. ASSUME NEW x \in Objs, In(DtorCall(x), w), os[x].kind = "TmpPool"
          PROVE  In(DtorCall(x), rest) /\ os2[x].kind = "TmpPool"
      <4>1. Busy(w, x) BY <3>2 DEF Busy
      <4>2. QED BY <4>1, <3>2, <1>14, <1>19
    <3>3. ASSUME NEW r \in Pools, Emptied(os, w, r), Alive(ps, r), In(q, ps[r].child)
          PROVE  Emptied(os2, rest, r) /\ Alive(ps2, r) /\ In(q, ps2[r].child)
      <4>1. r # p BY <3>3, NoneIn
      <4>2. QED BY <4>1, <3>1, <3>3, <1>6, <1>24
    <3>4. \A x \in Objs : ~Made(os, x) => ~Made(os2, x) BY <1>8
    <3>5. HasReason(ps2, os2, rest, q) BY <3>1, <3>2, <3>3, <3>4, ReasonStays
    <3>6. QED BY <3>1, <3>5, <1>6
  <2>2. ASSUME NEW x \in Objs
        PROVE  /\ In(DeleteCall(x), rest) => Made(os2, x) /\ os2[x].dtors = 0
               /\ In(DtorCall(x), rest) => Made(os2, x) /\ os2[x].dtors = 1
               /\ In(ClearCall(x), rest) => Made(os2, x) /\ os2[x].kind = "StrPtrMap" /\ In(DtorCall(x), rest)
               /\ Made(os2, x) => os2[x].dtors = 0 \/ In(DtorCall(x), rest)
    <3>1. CASE Busy(w, x)
      <4>1. os2[x] = os[x] /\ Made(os2, x) /\ Made(os, x) BY <3>1, <1>13, <1>14
      <4>2. QED BY <4>1, <1>2, <1>19 DEF CallsSound
    <3>2. CASE ~Busy(w, x)
      <4>1. ~In(DeleteCall(x), rest) /\ ~In(DtorCall(x), rest) /\ ~In(ClearCall(x), rest) /\ ~In(DtorCall(x), w)
        BY <3>2, <1>19 DEF Busy
      <4>2. Made(os2, x) => os2[x].dtors = 0 BY <4>1, <1>2, <1>8 DEF CallsSound
      <4>3. QED BY <4>1, <4>2
    <3>3. QED BY <3>1, <3>2
  <2>3. QED BY <2>1, <2>2 DEF CallsSound
(* If p is a pool of an object's own below another that stays, that one    *)
(* goes, too.                                                              *)
<1>33. ASSUME NEW q \in Pools, Alive(ps, q), Up(ps, p) = {p} \cup Up(ps, q), p \notin Up(ps, q),
              p # pconf, \A i \in Recs : p # recordPool(i),
              \A x \in Objs : p = subPool(x) => Made(os, x),
              \A x \in Objs : p = tmpPool(x) => ~In(DtorCall(x), w)
       PROVE  Emptied(os, w, q)
  <2>1. HasReason(ps, os, w, p) BY <1>2, <1>11 DEF CallsSound
  <2>2. PICK r \in Pools : Emptied(os, w, r) /\ Alive(ps, r) /\ In(p, ps[r].child) BY <2>1, <1>33 DEF HasReason
  <2>3. q = r BY <2>2, <1>2, <1>33, OneParent
  <2>4. QED BY <2>2, <2>3
<1>34. OwnersSound(ps2, os2, rest)
  <2>1. ASSUME NEW c \in Objs, Made(os2, c) PROVE ContainerSound(ps2, os2, rest, c)
    <3>1. Made(os, c) /\ os[c].objPool # p /\ os2[c] = os[c] BY <2>1, <1>8
    <3>2. ContainerSound(ps, os, w, c) BY <3>1, <1>2 DEF OwnersSound
    <3>3. Emptied(os, w, os[c].objPool) => Emptied(os2, rest, os[c].objPool) BY <3>1, <1>21, <1>24
    <3>4. tmpPool(c) \in Pools BY PoolNames
    <3>5. ASSUME os[c].kind = "TmpPool", os[c].dtors = 0, tmpPool(c) = p PROVE Emptied(os, w, os[c].objPool)
      <4>1. Up(ps, p) = {p} \cup Up(ps, os[c].objPool) /\ p \notin Up(ps, os[c].objPool)
        BY <3>1, <3>5, <1>2, <1>11 DEF AllPlaced, Placed
      <4>2. p # pconf /\ (\A i \in Recs : p # recordPool(i)) /\ (\A x \in Objs : p # subPool(x))
        BY <3>5, PoolNames
      <4>3. ~In(DtorCall(c), w) BY <3>5, <1>2 DEF CallsSound
      <4>4. \A x \in Objs : p = tmpPool(x) => ~In(DtorCall(x), w) BY <3>5, <4>3, PoolNames
      <4>5. os[c].objPool \in Pools /\ Alive(ps, os[c].objPool) BY <3>1, <1>21
      <4>6. QED BY <4>1, <4>2, <4>4, <4>5, <1>33
    <3>6. QED BY <3>1, <3>2, <3>3, <3>4, <3>5, <1>6 DEF ContainerSound
  <2>2. ASSUME NEW c \in Objs, NEW x \in Objs, Owns(os2, c, x) PROVE ElementSound(os2, rest, c, x)
    <3>1. Owns(os, c, x) /\ os[c].objPool # p /\ os2[c] = os[c] /\ Made(os, c) /\ Made(os2, c)
      BY <2>2, <1>8, <1>25 DEF Owns
    <3>2. /\ \A d \in Objs : Owns(os, d, x) => d = c
          /\ Made(os, x) =>
               /\ ~Registered(os, x) /\ os[x].managed = os[c].managed
               /\ \/ os[x].pool = os[c].objPool
                  \/ os[x].pool = os[c].pool /\ os[x].objPool = os[c].pool /\ os[x].kind = "plain" /\ ~os[x].usage
          /\ Ready(os, w, c) /\ ~Emptied(os, w, os[c].objPool) => Made(os, x) /\ os[x].dtors = 0 /\ ~Busy(w, x)
          /\ ~Ready(os, w, c) /\ Made(os, x) => Busy(w, x)
      BY <3>1, <1>2 DEF OwnersSound, ElementSound
    <3>3. Ready(os2, rest, c) <=> Ready(os, w, c) BY <3>1, <1>26
    <3>4. Emptied(os2, rest, os2[c].objPool) <=> Emptied(os, w, os[c].objPool) BY <3>1, <1>21, <1>24
    <3>5. \A d \in Objs : Owns(os2, d, x) => d = c BY <3>2, <1>25
    <3>6. ASSUME Made(os, x), os[x].objPool = p PROVE Emptied(os, w, os[c].objPool)
      <4>1. os[c].pool # p /\ os[c].objPool \in Pools /\ Alive(ps, os[c].objPool) BY <3>1, <1>21, <1>22
      <4>2. os[x].pool = os[c].objPool BY <3>2, <3>6, <4>1
      <4>3. Placed(ps, os, x) BY <3>6, <1>2 DEF AllPlaced
      <4>4. p = subPool(x) /\ Up(ps, p) = {p} \cup Up(ps, os[c].objPool) BY <3>1, <3>6, <4>2, <4>3 DEF Placed
      <4>5. p \notin Up(ps, os[c].objPool) BY <3>1, <4>1, <1>9
      <4>6. /\ p # pconf /\ (\A i \in Recs : p # recordPool(i)) /\ (\A y \in Objs : p # tmpPool(y))
            /\ \A y \in Objs : p = subPool(y) => y = x
        BY <4>4, PoolNames
      <4>7. \A y \in Objs : p = subPool(y) => Made(os, y) BY <4>6, <3>6
      <4>8. QED BY <4>1, <4>4, <4>5, <4>6, <4>7, <1>33
    <3>7. CASE Made(os2, x)
      <4>1. os2[x] = os[x] /\ Made(os, x) BY <3>7, <1>8
      <4>2. Registered(os2, x) <=> Registered(os, x) BY <4>1 DEF Registered
      <4>3. QED BY <4>1, <4>2, <3>1, <3>2, <3>3, <3>4, <3>5, <3>7, <1>20 DEF ElementSound
    <3>8. CASE ~Made(os2, x)
      <4>1. Made(os, x) => os[x].objPool = p BY <3>8, <1>8
      <4>2. ~(Ready(os, w, c) /\ ~Emptied(os, w, os[c].objPool)) BY <4>1, <3>2, <3>6
      <4>3. QED BY <4>2, <3>3, <3>4, <3>5, <3>8 DEF ElementSound
    <3>9. QED BY <3>7, <3>8
  <2>3. QED BY <2>1, <2>2 DEF OwnersSound
<1>35. Acyclic(os2) BY <1>2, <1>25 DEF Acyclic
<1>36. ManagedSound(os2, rest)
  <2>1. SUFFICES ASSUME NEW x \in Objs, Made(os2, x), os2[x].managed
                 PROVE  /\ Registered(os2, x) \/ Busy(rest, x) \/ \E c \in Objs : Owns(os2, c, x)
                        /\ Emptied(os2, rest, os2[x].objPool)
                             => (os2[x].kind = "plain" /\ Busy(rest, x)) \/ Elsewhere(os2, x)
    BY DEF ManagedSound
  <2>2. Made(os, x) /\ os[x].objPool # p /\ os2[x] = os[x] /\ os[x].managed BY <2>1, <1>8
  <2>3. ASSUME NEW c \in Objs, Owns(os, c, x) PROVE Owns(os2, c, x) /\ os2[c] = os[c]
    <3>1. Made(os, c) /\ os[c].managed = os[x].managed BY <2>2, <2>3, <1>2 DEF OwnersSound, ElementSound, Owns
    <3>2. os[c].objPool # p BY <3>1, <2>2, <1>10
    <3>3. QED BY <3>1, <3>2, <2>3, <1>8, <1>25
  <2>4. Registered(os, x) \/ Busy(w, x) \/ \E c \in Objs : Owns(os, c, x) BY <2>2, <1>2 DEF ManagedSound
  <2>5. ASSUME Emptied(os2, rest, os2[x].objPool)
        PROVE  (os2[x].kind = "plain" /\ Busy(rest, x)) \/ Elsewhere(os2, x)
    <3>1. Emptied(os, w, os[x].objPool) BY <2>2, <2>5, <1>21, <1>24
    <3>2. (os[x].kind = "plain" /\ Busy(w, x)) \/ Elsewhere(os, x) BY <3>1, <2>2, <1>2 DEF ManagedSound
    <3>3. CASE os[x].kind = "plain" /\ Busy(w, x) BY <3>3, <2>2, <1>20
    <3>4. CASE Elsewhere(os, x) BY <3>4, <2>2, <2>3 DEF Elsewhere
    <3>5. QED BY <3>2, <3>3, <3>4
  <2>6. QED BY <2>2, <2>3, <2>4, <2>5, <1>20 DEF Registered
<1>37. PoolsOwned(ps2, os2, rest)
  <2>1. ASSUME NEW x \in Objs, Alive(ps2, subPool(x))
        PROVE  Going(rest, subPool(x)) \/ (Made(os2, x) /\ os2[x].objPool = subPool(x) /\ os2[x].usage)
    <3>1. subPool(x) # p /\ Alive(ps, subPool(x)) BY <2>1, <1>6, PoolNames
    <3>2. Going(w, subPool(x)) \/ (Made(os, x) /\ os[x].objPool = subPool(x) /\ os[x].usage)
      BY <3>1, <1>1 DEF PoolsOwned
    <3>3. QED BY <3>1, <3>2, <1>8, <1>18
  <2>2. ASSUME NEW x \in Objs, Alive(ps2, tmpPool(x))
        PROVE  Going(rest, tmpPool(x)) \/ (Made(os2, x) /\ os2[x].kind = "TmpPool" /\ os2[x].dtors = 0)
    <3>1. tmpPool(x) \in Pools /\ tmpPool(x) # p /\ Alive(ps, tmpPool(x)) BY <2>2, <1>6, PoolNames
    <3>2. CASE Going(w, tmpPool(x)) BY <3>1, <3>2, <1>18
    <3>3. CASE Made(os, x) /\ os[x].kind = "TmpPool" /\ os[x].dtors = 0
      <4>1. Up(ps, tmpPool(x)) = {tmpPool(x)} \cup Up(ps, os[x].objPool)
        BY <3>1, <3>3, <1>2 DEF AllPlaced, Placed
      <4>2. os[x].objPool # p BY <4>1, <3>1, <1>9, <1>15
      <4>3. QED BY <4>2, <3>3, <1>8
    <3>4. QED BY <3>1, <3>2, <3>3, <1>1 DEF PoolsOwned
  <2>3. QED BY <2>1, <2>2 DEF PoolsOwned
<1>38. Standing(ps2, os2, rest)
  BY <1>27, <1>28, <1>29, <1>30, <1>31, <1>32, <1>34, <1>35, <1>36 DEF Standing
<1>39. QED BY <1>3, <1>4, <1>37, <1>38 DEF Sound

(***************************************************************************)
(* Between destructions                                                    *)
(***************************************************************************)
IdleCleanups(ps, os) ==
  \A p \in Pools : Alive(ps, p) =>
    /\ IsInjective(ps[p].cleanups)
    /\ \A o \in Objs : In(o, ps[p].cleanups) => Made(os, o) /\ os[o].destroyerPool = p

IdleObject(ps, os, o) ==
  /\ os[o].dtors = 0
  /\ Registered(os, o) =>
       os[o].destroyerPool = os[o].objPool /\ os[o].managed /\ In(o, ps[os[o].objPool].cleanups)
  /\ IsInjective(os[o].elems)
  /\ os[o].kind = "TmpPool" => Alive(ps, tmpPool(o))
  /\ os[o].managed => Registered(os, o) \/ \E c \in Objs : Owns(os, c, o)

IdlePools(ps, os) ==
  \A o \in Objs :
    /\ Alive(ps, subPool(o)) => Made(os, o) /\ os[o].objPool = subPool(o) /\ os[o].usage
    /\ Alive(ps, tmpPool(o)) => Made(os, o) /\ os[o].kind = "TmpPool"

IdleElement(os, c, o) ==
  /\ Made(os, o) /\ ~Registered(os, o) /\ os[o].managed = os[c].managed
  /\ \A d \in Objs : Owns(os, d, o) => d = c
  /\ \/ os[o].pool = os[c].objPool
     \/ os[o].pool = os[c].pool /\ os[o].objPool = os[c].pool /\ os[o].kind = "plain" /\ ~os[o].usage

IdleSound(ps, os) ==
  /\ Typed(ps, os, <<>>) /\ Tree(ps) /\ AllPlaced(ps, os) /\ Acyclic(os)
  /\ IdleCleanups(ps, os) /\ IdlePools(ps, os)
  /\ \A o \in Objs : Made(os, o) => IdleObject(ps, os, o)
  /\ \A c, o \in Objs : Owns(os, c, o) => IdleElement(os, c, o)

LEMMA IdleIsSound == ASSUME NEW ps, NEW os, IdleSound(ps, os) PROVE Sound(ps, os, <<>>)
<1>1. \A c : ~In(c, <<>>) BY NoneIn
<1>2. (\A o : ~Busy(<<>>, o)) /\ (\A p : ~Going(<<>>, p)) /\ (\A p : ~Emptied(os, <<>>, p))
  BY <1>1 DEF Busy, Going, Emptied
<1>3. \A o \in Objs : Made(os, o) => os[o].dtors = 0 /\ Ready(os, <<>>, o) BY DEF IdleSound, IdleObject, Ready
<1>4. CleanupsSound(ps, os, <<>>) BY DEF IdleSound, IdleCleanups, IdleObject, CleanupsSound
<1>5. PoolsOwned(ps, os, <<>>) BY <1>3 DEF IdleSound, IdlePools, PoolsOwned
<1>6. CallsSound(ps, os, <<>>) BY <1>1, <1>2, <1>3 DEF CallsSound
<1>7. OwnersSound(ps, os, <<>>)
  <2>1. ASSUME NEW c \in Objs, Made(os, c) PROVE ContainerSound(ps, os, <<>>, c)
    BY <2>1 DEF IdleSound, IdleObject, ContainerSound
  <2>2. ASSUME NEW c \in Objs, NEW o \in Objs, Owns(os, c, o) PROVE ElementSound(os, <<>>, c, o)
    <3>1. IdleElement(os, c, o) /\ Made(os, c) BY <2>2 DEF IdleSound, Owns
    <3>2. Made(os, o) /\ os[o].dtors = 0 /\ Ready(os, <<>>, c) BY <3>1, <1>3 DEF IdleElement
    <3>3. QED BY <3>1, <3>2, <1>2 DEF IdleElement, ElementSound
  <2>3. QED BY <2>1, <2>2 DEF OwnersSound
<1>8. ManagedSound(os, <<>>) BY <1>2 DEF IdleSound, IdleObject, ManagedSound
<1>9. Ordered(<<>>, MayStand(ps, os)) BY ShortOrdered
<1>10. Standing(ps, os, <<>>) BY <1>4, <1>6, <1>7, <1>8, <1>9 DEF IdleSound, Standing
<1>11. QED BY <1>5, <1>10 DEF Sound

LEMMA SoundIsIdle == ASSUME NEW ps, NEW os, Sound(ps, os, <<>>) PROVE IdleSound(ps, os)
<1>1. \A c : ~In(c, <<>>) BY NoneIn
<1>2. (\A o : ~Busy(<<>>, o)) /\ (\A p : ~Going(<<>>, p)) /\ (\A p : ~Emptied(os, <<>>, p))
  BY <1>1 DEF Busy, Going, Emptied
<1>3. /\ Typed(ps, os, <<>>) /\ Tree(ps) /\ AllPlaced(ps, os) /\ Acyclic(os)
      /\ CleanupsSound(ps, os, <<>>) /\ CallsSound(ps, os, <<>>) /\ OwnersSound(ps, os, <<>>)
      /\ ManagedSound(os, <<>>) /\ PoolsOwned(ps, os, <<>>)
  BY DEF Sound, Standing
<1>4. \A o \in Objs : Made(os, o) => os[o].dtors = 0 /\ Ready(os, <<>>, o) BY <1>1, <1>3 DEF CallsSound, Ready
<1>5. IdleCleanups(ps, os) BY <1>3 DEF CleanupsSound, IdleCleanups
<1>6. IdlePools(ps, os) BY <1>2, <1>3 DEF PoolsOwned, IdlePools
<1>7. ASSUME NEW o \in Objs, Made(os, o) PROVE IdleObject(ps, os, o)
  <2>1. IsInjective(os[o].elems) /\ (os[o].kind = "TmpPool" => Alive(ps, tmpPool(o)))
    BY <1>2, <1>3, <1>4, <1>7 DEF OwnersSound, ContainerSound
  <2>2. Registered(os, o) =>
          os[o].destroyerPool = os[o].objPool /\ os[o].managed /\ In(o, ps[os[o].objPool].cleanups)
    BY <1>2, <1>3, <1>7 DEF CleanupsSound
  <2>3. os[o].managed => Registered(os, o) \/ \E c \in Objs : Owns(os, c, o) BY <1>2, <1>3, <1>7 DEF ManagedSound
  <2>4. QED BY <2>1, <2>2, <2>3, <1>4, <1>7 DEF IdleObject
<1>8. ASSUME NEW c \in Objs, NEW o \in Objs, Owns(os, c, o) PROVE IdleElement(os, c, o)
  <2>1. ElementSound(os, <<>>, c, o) /\ Ready(os, <<>>, c) BY <1>3, <1>4, <1>8 DEF OwnersSound, Owns
  <2>2. Made(os, o) BY <2>1, <1>2 DEF ElementSound
  <2>3. QED BY <2>1, <2>2 DEF ElementSound, IdleElement
<1>9. QED BY <1>3, <1>5, <1>6, <1>7, <1>8 DEF IdleSound

(* delete of an object that no container owns. *)
LEMMA DeleteSound ==
  ASSUME NEW ps, NEW os, Sound(ps, os, <<>>), NEW o \in Objs, Made(os, o), \A c \in Objs : ~Owns(os, c, o)
  PROVE  Sound(ps, os, <<DeleteCall(o)>>)
<1>1. \A c : ~In(c, <<>>) BY NoneIn
<1>2. PICK w : w = <<DeleteCall(o)>> OBVIOUS
<1>3. w \in Seq(Calls) /\ \A c : In(c, w) <=> c = DeleteCall(o) BY <1>2, OneIn, CallNames
<1>4. /\ \A x : DeleteCall(x) = DeleteCall(o) => x = o
      /\ \A x : DtorCall(x) # DeleteCall(o) /\ ClearCall(x) # DeleteCall(o) /\ PoolCall(x) # DeleteCall(o)
  BY DEF PoolCall, DtorCall, ClearCall, DeleteCall
<1>5. MoreCalls(<<>>, w) BY <1>1, <1>3, <1>4 DEF MoreCalls, Going
<1>6. /\ Typed(ps, os, <<>>) /\ Tree(ps) /\ AllPlaced(ps, os) /\ Acyclic(os)
      /\ CleanupsSound(ps, os, <<>>) /\ CallsSound(ps, os, <<>>) /\ OwnersSound(ps, os, <<>>)
      /\ ManagedSound(os, <<>>) /\ PoolsOwned(ps, os, <<>>)
  BY DEF Sound, Standing
<1>7. CleanupsSound(ps, os, w) /\ PoolsOwned(ps, os, w) /\ ManagedSound(os, w) BY <1>5, <1>6, MoreSound
<1>8. Typed(ps, os, w) BY <1>3, <1>6 DEF Typed
<1>9. Ordered(w, MayStand(ps, os)) BY <1>2, ShortOrdered
<1>10. \A x \in Objs : Made(os, x) => os[x].dtors = 0 BY <1>1, <1>6 DEF CallsSound
<1>11. CallsSound(ps, os, w) BY <1>3, <1>4, <1>10 DEF CallsSound, Going
<1>12. OwnersSound(ps, os, w)
  <2>1. ASSUME NEW c \in Objs, Made(os, c) PROVE ContainerSound(ps, os, w, c)
    <3>1. ContainerSound(ps, os, <<>>, c) BY <2>1, <1>6 DEF OwnersSound
    <3>2. QED BY <3>1, <1>5, MoreSound
  <2>2. ASSUME NEW c \in Objs, NEW x \in Objs, Owns(os, c, x) PROVE ElementSound(os, w, c, x)
    <3>1. ElementSound(os, <<>>, c, x) BY <2>2, <1>6 DEF OwnersSound
    <3>2. Ready(os, <<>>, c) BY <2>2, <1>10 DEF Ready, Owns
    <3>3. ~Busy(w, x) BY <2>2, <1>3, <1>4 DEF Busy
    <3>4. QED BY <3>1, <3>2, <3>3, <1>5, MoreSound
  <2>3. QED BY <2>1, <2>2 DEF OwnersSound
<1>13. QED BY <1>2, <1>6, <1>7, <1>8, <1>9, <1>11, <1>12 DEF Sound, Standing

(* The end of the configuration, of a connection or of a request. *)
LEMMA EndSound ==
  ASSUME NEW ps, NEW os, Sound(ps, os, <<>>), NEW p \in Pools, Alive(ps, p),
         p = pconf \/ \E i \in Recs : p = recordPool(i)
  PROVE  Sound(ps, os, <<PoolCall(p)>>)
<1>1. Standing(ps, os, <<>>) /\ PoolsOwned(ps, os, <<>>) BY DEF Sound
<1>2. HasReason(ps, os, <<>>, p) BY DEF HasReason
<1>3. PICK w : w = Cat(<<PoolCall(p)>>, <<>>) OBVIOUS
<1>4. \A b : ~In(b, <<>>) BY NoneIn
<1>5. Standing(ps, os, w) BY <1>1, <1>2, <1>3, <1>4, PushPool
<1>6. PoolsOwned(ps, os, w) BY <1>1, <1>4 DEF PoolsOwned, Going
<1>7. w = <<PoolCall(p)>> BY <1>3 DEF Cat
<1>8. QED BY <1>5, <1>6, <1>7 DEF Sound

(***************************************************************************)
(* Making pools and objects                                                *)
(***************************************************************************)
(* The pools that were there stay, and the new ones have no cleanups. *)
Grows(ps, ps2) ==
  \A q \in Pools :
    /\ Alive(ps, q) => Alive(ps2, q) /\ Up(ps2, q) = Up(ps, q) /\ ps2[q].cleanups = ps[q].cleanups
    /\ Alive(ps2, q) /\ ~Alive(ps, q) => ps2[q].cleanups = <<>>

(* The pool n below parent is new. *)
NewBelow(ps, ps2, n, parent) ==
  /\ \A q \in Pools : Alive(ps2, q) <=> q = n \/ Alive(ps, q)
  /\ Up(ps2, n) = {n} \cup Up(ps, parent)
  /\ \A q \in Pools : Alive(ps, q) => n \notin Up(ps, q)

(* What apr_pool_create() does. *)
Created(ps, ps2, n, parent) ==
  /\ ps2 \in [Pools -> PoolTypes \cup {None}]
  /\ ps2[n] = NewPool({n} \cup Up(ps, parent))
  /\ Alive(ps2, n)
  /\ \A q \in Pools : q # n =>
       /\ Alive(ps2, q) <=> Alive(ps, q)
       /\ Alive(ps, q) => Up(ps2, q) = Up(ps, q) /\ ps2[q].cleanups = ps[q].cleanups
  /\ \A q \in Pools : q # n /\ q # parent => ps2[q] = ps[q]
  /\ ps2[parent].child = Cat(<<n>>, ps[parent].child)

LEMMA CreatedPools ==
  ASSUME NEW ps, NEW os, NEW w, Typed(ps, os, w), Tree(ps),
         NEW n \in Pools, ~Alive(ps, n), NEW parent \in Pools, Alive(ps, parent)
  PROVE  Created(ps, apr_pool_create(ps, n, parent), n, parent)
<1>1. ps \in [Pools -> PoolTypes \cup {None}] BY DEF Typed
<1>2. parent # n OBVIOUS
<1>3. Up(ps, parent) \subseteq Pools /\ ps[parent] \in PoolTypes /\ ps[parent].child \in Seq(Pools) BY TypedPools
<1>4. PICK c : c = Cat(<<n>>, ps[parent].child) OBVIOUS
<1>5. c \in Seq(Pools) BY <1>3, <1>4, ConsSeq
<1>6. PICK N : N = NewPool({n} \cup Up(ps, parent)) OBVIOUS
<1>7. N \in PoolTypes
  <2>1. <<>> \in Seq(Objs) /\ <<>> \in Seq(Pools) BY NoneIn
  <2>2. QED BY <2>1, <1>3, <1>6 DEF NewPool, PoolTypes
<1>8. PICK R : R = [ps[parent] EXCEPT !.child = c] OBVIOUS
<1>9. R \in PoolTypes /\ R.child = c /\ R.above = Up(ps, parent) /\ R.cleanups = ps[parent].cleanups
  BY <1>3, <1>5, <1>8 DEF PoolTypes, Up
<1>10. apr_pool_create(ps, n, parent) = [ps EXCEPT ![n] = N, ![parent] = R]
  BY <1>1, <1>2, <1>4, <1>6, <1>8 DEF apr_pool_create, Cat, Up
<1>11. PICK ps2 : ps2 = apr_pool_create(ps, n, parent) OBVIOUS
<1>12. ps2 \in [Pools -> PoolTypes \cup {None}] BY <1>1, <1>7, <1>9, <1>10, <1>11
<1>13. ps2[n] = N /\ ps2[parent] = R /\ \A q \in Pools : q # n /\ q # parent => ps2[q] = ps[q]
  BY <1>1, <1>2, <1>10, <1>11
<1>14. N # None /\ R # None BY <1>7, <1>9, NoNone
<1>15. \A q \in Pools : q # n =>
         /\ Alive(ps2, q) <=> Alive(ps, q)
         /\ Alive(ps, q) => Up(ps2, q) = Up(ps, q) /\ ps2[q].cleanups = ps[q].cleanups
  <2>1. SUFFICES ASSUME NEW q \in Pools, q # n
                 PROVE  /\ Alive(ps2, q) <=> Alive(ps, q)
                        /\ Alive(ps, q) => Up(ps2, q) = Up(ps, q) /\ ps2[q].cleanups = ps[q].cleanups
    OBVIOUS
  <2>2. CASE q = parent BY <2>2, <1>9, <1>13, <1>14 DEF Alive, Up
  <2>3. CASE q # parent BY <2>1, <2>3, <1>13 DEF Alive, Up
  <2>4. QED BY <2>2, <2>3
<1>16. Alive(ps2, n) BY <1>13, <1>14 DEF Alive
<1>17. QED BY <1>4, <1>6, <1>9, <1>11, <1>12, <1>13, <1>15, <1>16 DEF Created

LEMMA TreeCreate ==
  ASSUME NEW ps, NEW os, NEW w, Typed(ps, os, w), Tree(ps),
         NEW n \in Pools, ~Alive(ps, n), NEW parent \in Pools, Alive(ps, parent),
         NEW ps2, ps2 = apr_pool_create(ps, n, parent)
  PROVE  /\ ps2 \in [Pools -> PoolTypes \cup {None}]
         /\ Tree(ps2) /\ Grows(ps, ps2) /\ NewBelow(ps, ps2, n, parent)
<1>0. Created(ps, ps2, n, parent) BY CreatedPools
<1>1. ps2 \in [Pools -> PoolTypes \cup {None}] BY <1>0 DEF Created
<1>2. ps2[n] = NewPool({n} \cup Up(ps, parent)) BY <1>0 DEF Created
<1>3. Alive(ps2, n) BY <1>0 DEF Created
<1>4. \A q \in Pools : q # n =>
        /\ Alive(ps2, q) <=> Alive(ps, q)
        /\ Alive(ps, q) => Up(ps2, q) = Up(ps, q) /\ ps2[q].cleanups = ps[q].cleanups
  BY <1>0 DEF Created
<1>5. \A q \in Pools : q # n /\ q # parent => ps2[q] = ps[q] BY <1>0 DEF Created
<1>6. ps2[parent].child = Cat(<<n>>, ps[parent].child) BY <1>0 DEF Created
<1>7. Up(ps2, n) = {n} \cup Up(ps, parent) /\ ps2[n].child = <<>> /\ ps2[n].cleanups = <<>> BY <1>2 DEF NewPool, Up
<1>8. \A q \in Pools : Alive(ps, q) => n \notin Up(ps, q) BY TreeUp
<1>9. \A q \in Pools : Alive(ps2, q) <=> q = n \/ Alive(ps, q) BY <1>3, <1>4
<1>10. NewBelow(ps, ps2, n, parent) BY <1>7, <1>8, <1>9 DEF NewBelow
<1>11. Grows(ps, ps2) BY <1>3, <1>4, <1>7, <1>9 DEF Grows
<1>12. ASSUME NEW q \in Pools, Alive(ps, q)
       PROVE  /\ IsInjective(ps2[q].child)
              /\ \A y : In(y, ps2[q].child) <=> In(y, ps[q].child) \/ (q = parent /\ y = n)
  <2>1. IsInjective(ps[q].child) /\ ps[q].child \in Seq(Pools)
    <3>1. IsInjective(ps[q].child) BY <1>12 DEF Tree
    <3>2. QED BY <3>1, <1>12, TypedPools
  <2>2. ~In(n, ps[q].child) BY <1>12, TreeChild
  <2>3. CASE q = parent
    <3>1. PICK s : s = ps[q].child OBVIOUS
    <3>2. /\ \A y : In(y, Cat(<<n>>, s)) <=> y = n \/ In(y, s)
          /\ IsInjective(Cat(<<n>>, s)) <=> IsInjective(s) /\ ~In(n, s)
      BY <2>1, <3>1, ConsSeq
    <3>3. ps2[q].child = Cat(<<n>>, s) BY <2>3, <3>1, <1>6
    <3>4. QED BY <2>1, <2>2, <2>3, <3>1, <3>2, <3>3
  <2>4. CASE q # parent BY <2>1, <2>4, <1>5, <1>12
  <2>5. QED BY <2>3, <2>4
<1>13. Tree(ps2)
  <2>1. ASSUME NEW q \in Pools, Alive(ps, q)
        PROVE  /\ q \in Up(ps2, q) /\ pconf \in Up(ps2, q)
               /\ \A r \in Up(ps2, q) :
                    /\ Alive(ps2, r) /\ Up(ps2, r) \subseteq Up(ps2, q)
                    /\ q \in Up(ps2, r) => q = r
                    /\ r # q => \E s \in Up(ps2, q) : In(s, ps2[r].child)
               /\ IsInjective(ps2[q].child)
               /\ \A r \in Pools : In(r, ps2[q].child) =>
                    Alive(ps2, r) /\ Up(ps2, r) = {r} \cup Up(ps2, q) /\ r \notin Up(ps2, q)
    <3>1. Up(ps2, q) = Up(ps, q) /\ q \in Up(ps, q) /\ pconf \in Up(ps, q) BY <2>1, <1>4, TreeSelf
    <3>2. ASSUME NEW r \in Up(ps, q)
          PROVE  /\ Alive(ps2, r) /\ Up(ps2, r) \subseteq Up(ps, q)
                 /\ q \in Up(ps2, r) => q = r
                 /\ r # q => \E s \in Up(ps, q) : In(s, ps2[r].child)
      <4>1. r \in Pools /\ Alive(ps, r) /\ Up(ps, r) \subseteq Up(ps, q) /\ (q \in Up(ps, r) => q = r)
        BY <2>1, TreeUp
      <4>2. r # q => \E s \in Up(ps, q) : In(s, ps[r].child) BY <2>1 DEF Tree
      <4>3. QED BY <4>1, <4>2, <1>4, <1>12
    <3>3. ASSUME NEW r \in Pools, In(r, ps2[q].child)
          PROVE  Alive(ps2, r) /\ Up(ps2, r) = {r} \cup Up(ps, q) /\ r \notin Up(ps, q)
      <4>1. CASE r = n BY <2>1, <3>3, <4>1, <1>3, <1>7, <1>8, <1>12, TreeChild
      <4>2. CASE r # n
        <5>1. In(r, ps[q].child) BY <2>1, <3>3, <4>2, <1>12
        <5>2. Alive(ps, r) /\ Up(ps, r) = {r} \cup Up(ps, q) /\ r \notin Up(ps, q) BY <2>1, <5>1, TreeChild
        <5>3. QED BY <4>2, <5>2, <1>4
      <4>3. QED BY <4>1, <4>2
    <3>4. QED BY <2>1, <3>1, <3>2, <3>3, <1>12
  <2>2. /\ n \in Up(ps2, n) /\ pconf \in Up(ps2, n)
        /\ \A r \in Up(ps2, n) :
             /\ Alive(ps2, r) /\ Up(ps2, r) \subseteq Up(ps2, n)
             /\ n \in Up(ps2, r) => n = r
             /\ r # n => \E s \in Up(ps2, n) : In(s, ps2[r].child)
        /\ IsInjective(ps2[n].child)
        /\ \A r \in Pools : In(r, ps2[n].child) =>
             Alive(ps2, r) /\ Up(ps2, r) = {r} \cup Up(ps2, n) /\ r \notin Up(ps2, n)
    <3>1. n \in Up(ps2, n) /\ pconf \in Up(ps2, n) BY <1>7, TreeSelf
    <3>2. ASSUME NEW r \in Up(ps, parent)
          PROVE  /\ Alive(ps2, r) /\ Up(ps2, r) \subseteq Up(ps2, n)
                 /\ n \notin Up(ps2, r)
                 /\ \E s \in Up(ps2, n) : In(s, ps2[r].child)
      <4>1. r \in Pools /\ Alive(ps, r) /\ Up(ps, r) \subseteq Up(ps, parent) BY TreeUp
      <4>2. Alive(ps2, r) /\ Up(ps2, r) = Up(ps, r) BY <4>1, <1>4
      <4>3. r # parent => \E s \in Up(ps, parent) : In(s, ps[r].child) BY DEF Tree
      <4>4. \E s \in Up(ps2, n) : In(s, ps2[r].child) BY <4>1, <4>3, <1>7, <1>12
      <4>5. QED BY <4>1, <4>2, <4>4, <1>7, <1>8
    <3>3. IsInjective(ps2[n].child) /\ \A r : ~In(r, ps2[n].child) BY <1>7, NoneIn, ShortInjective
    <3>4. QED BY <3>1, <3>2, <3>3, <1>3, <1>7
  <2>3. QED BY <2>1, <2>2, <1>9 DEF Tree
<1>14. QED BY <1>1, <1>10, <1>11, <1>13

LEMMA GrowsOn ==
  ASSUME NEW ps, NEW ps1, NEW ps2, Grows(ps, ps1), Grows(ps1, ps2)
  PROVE  Grows(ps, ps2)
BY DEF Grows

(* The pools of a new object. *)
OwnPool(ps, o, p, u) == IF u THEN apr_pool_create(ps, subPool(o), p) ELSE ps

NewPools(ps, o, k, p, u) ==
  IF k = "TmpPool" THEN apr_pool_create(OwnPool(ps, o, p, u), tmpPool(o), objPool(o, p, u))
  ELSE OwnPool(ps, o, p, u)

NewPoolsSound(ps, ps2, o, k, p, u) ==
  /\ ps2 \in [Pools -> PoolTypes \cup {None}] /\ Tree(ps2) /\ Grows(ps, ps2)
  /\ \A q \in Pools : Alive(ps2, q) <=>
       Alive(ps, q) \/ (u /\ q = subPool(o)) \/ (k = "TmpPool" /\ q = tmpPool(o))
  /\ u => Up(ps2, subPool(o)) = {subPool(o)} \cup Up(ps2, p)
  /\ k = "TmpPool" =>
       /\ Up(ps2, tmpPool(o)) = {tmpPool(o)} \cup Up(ps2, objPool(o, p, u))
       /\ tmpPool(o) \notin Up(ps2, objPool(o, p, u))

LEMMA NewPoolsMade ==
  ASSUME NEW ps, NEW os, NEW w, Typed(ps, os, w), Tree(ps),
         NEW o \in Objs, ~Alive(ps, subPool(o)), ~Alive(ps, tmpPool(o)),
         NEW k, NEW p \in Pools, Alive(ps, p), NEW u \in BOOLEAN
  PROVE  NewPoolsSound(ps, NewPools(ps, o, k, p, u), o, k, p, u)
<1>1. subPool(o) \in Pools /\ tmpPool(o) \in Pools /\ subPool(o) # tmpPool(o) BY PoolNames
<1>2. PICK ps1 : ps1 = OwnPool(ps, o, p, u) OBVIOUS
<1>3. /\ ps1 \in [Pools -> PoolTypes \cup {None}] /\ Tree(ps1) /\ Grows(ps, ps1)
      /\ \A q \in Pools : Alive(ps1, q) <=> Alive(ps, q) \/ (u /\ q = subPool(o))
      /\ u => Up(ps1, subPool(o)) = {subPool(o)} \cup Up(ps1, p)
  <2>1. CASE u
    <3>1. ps1 = apr_pool_create(ps, subPool(o), p) BY <2>1, <1>2 DEF OwnPool
    <3>2. /\ ps1 \in [Pools -> PoolTypes \cup {None}] /\ Tree(ps1) /\ Grows(ps, ps1)
          /\ NewBelow(ps, ps1, subPool(o), p)
      BY <3>1, <1>1, TreeCreate
    <3>3. Up(ps1, p) = Up(ps, p) BY <3>2 DEF Grows
    <3>4. QED BY <2>1, <3>2, <3>3 DEF NewBelow
  <2>2. CASE ~u
    <3>1. ps1 = ps BY <2>2, <1>2 DEF OwnPool
    <3>2. QED BY <2>2, <3>1 DEF Typed, Grows
  <2>3. QED BY <2>1, <2>2
<1>4. PICK P : P = objPool(o, p, u) OBVIOUS
<1>5. P \in Pools /\ Alive(ps1, P) BY <1>1, <1>3, <1>4 DEF objPool
<1>6. PICK ps2 : ps2 = NewPools(ps, o, k, p, u) OBVIOUS
<1>7. CASE k = "TmpPool"
  <2>1. ps2 = apr_pool_create(ps1, tmpPool(o), P) BY <1>2, <1>4, <1>6, <1>7 DEF NewPools
  <2>2. ~Alive(ps1, tmpPool(o)) BY <1>1, <1>3
  <2>3. Typed(ps1, os, w) BY <1>3 DEF Typed
  <2>4. /\ ps2 \in [Pools -> PoolTypes \cup {None}] /\ Tree(ps2) /\ Grows(ps1, ps2)
        /\ NewBelow(ps1, ps2, tmpPool(o), P)
    BY <2>1, <2>2, <2>3, <1>1, <1>3, <1>5, TreeCreate
  <2>5. Up(ps2, P) = Up(ps1, P) /\ Up(ps2, p) = Up(ps1, p) BY <2>4, <1>3, <1>5 DEF Grows
  <2>6. u => Up(ps2, subPool(o)) = Up(ps1, subPool(o)) BY <2>4, <1>1, <1>3 DEF Grows
  <2>7. Grows(ps, ps2) BY <2>4, <1>3, GrowsOn
  <2>8. \A q \in Pools : Alive(ps2, q) <=> Alive(ps, q) \/ (u /\ q = subPool(o)) \/ q = tmpPool(o)
    BY <2>4, <1>3 DEF NewBelow
  <2>9. Up(ps2, tmpPool(o)) = {tmpPool(o)} \cup Up(ps2, P) /\ tmpPool(o) \notin Up(ps2, P)
    BY <2>4, <2>5, <1>5 DEF NewBelow
  <2>10. u => Up(ps2, subPool(o)) = {subPool(o)} \cup Up(ps2, p) BY <2>5, <2>6, <1>3
  <2>11. QED BY <2>4, <2>7, <2>8, <2>9, <2>10, <1>4, <1>6, <1>7 DEF NewPoolsSound
<1>8. CASE k # "TmpPool"
  <2>1. ps2 = ps1 BY <1>2, <1>6, <1>8 DEF NewPools
  <2>2. QED BY <2>1, <1>3, <1>6, <1>8 DEF NewPoolsSound
<1>9. QED BY <1>7, <1>8

(* What is there stays in its place. *)
LEMMA GrownPlaced ==
  ASSUME NEW ps, NEW os, NEW w, Typed(ps, os, w), NEW ps2, Grows(ps, ps2),
         NEW x \in Objs, Made(os, x), Placed(ps, os, x), Alive(ps2, tmpPool(x)) => Alive(ps, tmpPool(x))
  PROVE  Placed(ps2, os, x)
<1>1. os[x].objPool \in Pools /\ os[x].pool \in Pools /\ tmpPool(x) \in Pools BY TypedObjs, PoolNames
<1>2. Alive(ps, os[x].objPool) /\ Alive(ps, os[x].pool) BY DEF Placed
<1>3. /\ Alive(ps2, os[x].objPool) /\ Up(ps2, os[x].objPool) = Up(ps, os[x].objPool)
      /\ Alive(ps2, os[x].pool) /\ Up(ps2, os[x].pool) = Up(ps, os[x].pool)
      /\ Alive(ps2, tmpPool(x)) => Up(ps2, tmpPool(x)) = Up(ps, tmpPool(x))
  BY <1>1, <1>2 DEF Grows
<1>4. QED BY <1>3 DEF Placed

(* A new object, of which nobody knows yet. *)
NewObject(o, k, p, u, s) == [operator_new(o, k, p, u) EXCEPT !.strs = s]

IsNew(r, o, k, p, u, s) ==
  /\ r \in ObjTypes
  /\ r.kind = k /\ r.pool = p /\ r.objPool = objPool(o, p, u) /\ r.usage = u /\ r.destroyerPool = None
  /\ r.tmp = IF k = "TmpPool" THEN tmpPool(o) ELSE None
  /\ r.elems = <<>> /\ r.strs = s /\ r.managed = FALSE /\ r.dtors = 0

LEMMA NewObjectFields ==
  ASSUME NEW o \in Objs, NEW k \in Kinds, NEW p \in Pools, NEW u \in BOOLEAN, NEW s \in Seq(Pools)
  PROVE  IsNew(NewObject(o, k, p, u, s), o, k, p, u, s)
<1>1. PICK P \in Pools : P = objPool(o, p, u) BY PoolNames DEF objPool
<1>2. PICK T \in Pools \cup {None} : T = IF k = "TmpPool" THEN tmpPool(o) ELSE None BY PoolNames
<1>3. operator_new(o, k, p, u) =
        [kind |-> k, pool |-> p, objPool |-> P, usage |-> u, destroyerPool |-> None, tmp |-> T,
         elems |-> <<>>, strs |-> <<>>, managed |-> FALSE, dtors |-> 0]
  BY <1>1, <1>2, Zenon DEF operator_new
<1>4. <<>> \in Seq(Objs) /\ <<>> \in Seq(Pools) BY NoneIn
<1>5. PICK e : e = operator_new(o, k, p, u) OBVIOUS
<1>6. /\ e \in ObjTypes
      /\ e.kind = k /\ e.pool = p /\ e.objPool = P /\ e.usage = u /\ e.destroyerPool = None
      /\ e.tmp = T /\ e.elems = <<>> /\ e.managed = FALSE /\ e.dtors = 0
  BY <1>1, <1>2, <1>3, <1>4, <1>5 DEF ObjTypes
<1>7. PICK r : r = [e EXCEPT !.strs = s] OBVIOUS
<1>8. /\ r \in ObjTypes
      /\ r.kind = e.kind /\ r.pool = e.pool /\ r.objPool = e.objPool /\ r.usage = e.usage
      /\ r.destroyerPool = e.destroyerPool /\ r.tmp = e.tmp /\ r.elems = e.elems
      /\ r.managed = e.managed /\ r.dtors = e.dtors /\ r.strs = s
  BY <1>6, <1>7 DEF ObjTypes
<1>9. r = NewObject(o, k, p, u, s) BY <1>5, <1>7 DEF NewObject
<1>10. QED BY <1>1, <1>2, <1>6, <1>8, <1>9 DEF IsNew

(* An object that is not there is nobody's. *)
LEMMA FreshNumber ==
  ASSUME NEW ps, NEW os, IdleSound(ps, os), NEW o \in Objs, ~Made(os, o)
  PROVE  /\ ~Alive(ps, subPool(o)) /\ ~Alive(ps, tmpPool(o))
         /\ \A c \in Objs : ~Owns(os, c, o)
BY DEF IdleSound, IdlePools, IdleElement

LEMMA NewSound ==
  ASSUME NEW ps, NEW os, IdleSound(ps, os), NEW o \in Objs, ~Made(os, o),
         NEW k \in Kinds, NEW p \in Pools, Alive(ps, p), NEW u \in BOOLEAN,
         NEW s \in Seq(Pools), \A x : In(x, s) => x \in Up(ps, p)
  PROVE  IdleSound(NewPools(ps, o, k, p, u), [os EXCEPT ![o] = NewObject(o, k, p, u, s)])
<1>1. /\ Typed(ps, os, <<>>) /\ Tree(ps) /\ AllPlaced(ps, os) /\ Acyclic(os)
      /\ IdleCleanups(ps, os) /\ IdlePools(ps, os)
      /\ \A x \in Objs : Made(os, x) => IdleObject(ps, os, x)
      /\ \A c, x \in Objs : Owns(os, c, x) => IdleElement(os, c, x)
  BY DEF IdleSound
<1>2. ~Alive(ps, subPool(o)) /\ ~Alive(ps, tmpPool(o)) /\ \A c \in Objs : ~Owns(os, c, o) BY FreshNumber
<1>3. PICK ps2 : ps2 = NewPools(ps, o, k, p, u) OBVIOUS
<1>4. NewPoolsSound(ps, ps2, o, k, p, u) BY <1>1, <1>2, <1>3, NewPoolsMade
<1>5. ps2 \in [Pools -> PoolTypes \cup {None}] /\ Tree(ps2) /\ Grows(ps, ps2) BY <1>4 DEF NewPoolsSound
<1>6. \A q \in Pools : Alive(ps2, q) <=>
        Alive(ps, q) \/ (u /\ q = subPool(o)) \/ (k = "TmpPool" /\ q = tmpPool(o))
  BY <1>4 DEF NewPoolsSound
<1>7. PICK P : P = objPool(o, p, u) OBVIOUS
<1>8. PICK r : r = NewObject(o, k, p, u, s) OBVIOUS
<1>9. IsNew(r, o, k, p, u, s) BY <1>8, NewObjectFields
<1>10. /\ r \in ObjTypes
       /\ r.kind = k /\ r.pool = p /\ r.objPool = P /\ r.usage = u /\ r.destroyerPool = None
       /\ r.tmp = (IF k = "TmpPool" THEN tmpPool(o) ELSE None)
       /\ r.elems = <<>> /\ r.strs = s /\ r.managed = FALSE /\ r.dtors = 0
  BY <1>7, <1>9 DEF IsNew
<1>11. PICK os2 : os2 = [os EXCEPT ![o] = r] OBVIOUS
<1>12. /\ os2 \in [Objs -> ObjTypes \cup {None}] /\ os2[o] = r /\ Made(os2, o)
       /\ \A x \in Objs : x # o => os2[x] = os[x]
  BY <1>1, <1>10, <1>11, NoNone DEF Typed, Made
<1>13. \A x \in Objs : Made(os, x) => x # o /\ os2[x] = os[x] /\ Made(os2, x) BY <1>12 DEF Made
<1>14. \A x \in Objs : Made(os2, x) /\ x # o => Made(os, x) BY <1>12 DEF Made
<1>15. \A c \in Objs : \A x : Owns(os2, c, x) <=> Owns(os, c, x)
  <2>1. \A x : ~Elem(os2, o, x) BY <1>10, <1>12, NoneIn DEF Elem
  <2>2. QED BY <2>1, <1>12, <1>13, <1>14 DEF Owns, Elem
<1>16. subPool(o) \in Pools /\ tmpPool(o) \in Pools /\ subPool(o) # tmpPool(o) /\ p # subPool(o) BY <1>2, PoolNames
<1>17. Typed(ps2, os2, <<>>) BY <1>5, <1>12, NoneIn DEF Typed
<1>18. AllPlaced(ps2, os2)
  <2>1. ASSUME NEW x \in Objs, Made(os, x) PROVE Placed(ps2, os2, x)
    <3>1. Placed(ps, os, x) BY <2>1, <1>1 DEF AllPlaced
    <3>2. Alive(ps2, tmpPool(x)) => Alive(ps, tmpPool(x)) BY <2>1, <1>6, <1>13, PoolNames
    <3>3. Placed(ps2, os, x) BY <2>1, <3>1, <3>2, <1>1, <1>5, GrownPlaced
    <3>4. QED BY <2>1, <3>3, <1>13 DEF Placed
  <2>2. Placed(ps2, os2, o)
    <3>1. Alive(ps2, p) /\ Up(ps2, p) = Up(ps, p) BY <1>5 DEF Grows
    <3>2. P \in Pools /\ Alive(ps2, P) BY <3>1, <1>6, <1>7, <1>16 DEF objPool
    <3>3. (~u /\ P = p) \/ (P = subPool(o) /\ Up(ps2, subPool(o)) = {subPool(o)} \cup Up(ps2, p))
      BY <1>4, <1>7 DEF NewPoolsSound, objPool
    <3>4. k = "TmpPool" =>
            Up(ps2, tmpPool(o)) = {tmpPool(o)} \cup Up(ps2, P) /\ tmpPool(o) \notin Up(ps2, P)
      BY <1>4, <1>7 DEF NewPoolsSound
    <3>5. \A x : In(x, s) => x \in Up(ps2, P) BY <3>1, <3>3
    <3>6. QED BY <3>1, <3>2, <3>3, <3>4, <3>5, <1>10, <1>12, <1>16 DEF Placed
  <2>3. QED BY <2>1, <2>2, <1>14 DEF AllPlaced
<1>19. Acyclic(os2) BY <1>1, <1>15 DEF Acyclic
<1>20. IdleCleanups(ps2, os2)
  <2>1. SUFFICES ASSUME NEW q \in Pools, Alive(ps2, q)
                 PROVE  /\ IsInjective(ps2[q].cleanups)
                        /\ \A x \in Objs : In(x, ps2[q].cleanups) => Made(os2, x) /\ os2[x].destroyerPool = q
    BY DEF IdleCleanups
  <2>2. CASE Alive(ps, q)
    <3>1. ps2[q].cleanups = ps[q].cleanups BY <2>2, <1>5 DEF Grows
    <3>2. QED BY <2>2, <3>1, <1>1, <1>13 DEF IdleCleanups
  <2>3. CASE ~Alive(ps, q)
    <3>1. ps2[q].cleanups = <<>> BY <2>1, <2>3, <1>5 DEF Grows
    <3>2. QED BY <3>1, NoneIn, ShortInjective
  <2>4. QED BY <2>2, <2>3
<1>21. IdlePools(ps2, os2)
  <2>1. SUFFICES ASSUME NEW x \in Objs
                 PROVE  /\ Alive(ps2, subPool(x)) => Made(os2, x) /\ os2[x].objPool = subPool(x) /\ os2[x].usage
                        /\ Alive(ps2, tmpPool(x)) => Made(os2, x) /\ os2[x].kind = "TmpPool"
    BY DEF IdlePools
  <2>2. CASE x = o BY <2>2, <1>2, <1>6, <1>7, <1>10, <1>12, <1>16 DEF objPool
  <2>3. CASE x # o
    <3>1. /\ Alive(ps2, subPool(x)) => Alive(ps, subPool(x))
          /\ Alive(ps2, tmpPool(x)) => Alive(ps, tmpPool(x))
      BY <2>3, <1>6, PoolNames
    <3>2. QED BY <3>1, <1>1, <1>13 DEF IdlePools
  <2>4. QED BY <2>2, <2>3
<1>22. ASSUME NEW x \in Objs, Made(os2, x) PROVE IdleObject(ps2, os2, x)
  <2>1. CASE x = o
    <3>1. Alive(ps2, tmpPool(o)) <=> k = "TmpPool" BY <1>2, <1>6, <1>16
    <3>2. ~Registered(os2, o) BY <1>10, <1>12 DEF Registered
    <3>3. QED BY <2>1, <3>1, <3>2, <1>10, <1>12, ShortInjective DEF IdleObject
  <2>2. CASE x # o
    <3>1. Made(os, x) /\ os2[x] = os[x] BY <1>22, <2>2, <1>12, <1>14
    <3>2. IdleObject(ps, os, x) BY <3>1, <1>1
    <3>3. os[x].objPool \in Pools /\ Alive(ps, os[x].objPool) BY <3>1, <1>1, PlacedUp DEF AllPlaced
    <3>4. ps2[os[x].objPool].cleanups = ps[os[x].objPool].cleanups BY <3>3, <1>5 DEF Grows
    <3>5. Alive(ps, tmpPool(x)) => Alive(ps2, tmpPool(x)) BY <1>5, PoolNames DEF Grows
    <3>6. Registered(os2, x) <=> Registered(os, x) BY <3>1 DEF Registered
    <3>7. QED BY <3>1, <3>2, <3>4, <3>5, <3>6, <1>15 DEF IdleObject
  <2>3. QED BY <2>1, <2>2
<1>23. ASSUME NEW c \in Objs, NEW x \in Objs, Owns(os2, c, x) PROVE IdleElement(os2, c, x)
  <2>1. Owns(os, c, x) /\ Made(os, c) BY <1>15, <1>23 DEF Owns
  <2>2. IdleElement(os, c, x) BY <2>1, <1>1
  <2>3. Made(os, x) BY <2>2 DEF IdleElement
  <2>4. os2[x] = os[x] /\ os2[c] = os[c] /\ Made(os2, x) BY <2>1, <2>3, <1>13
  <2>5. Registered(os2, x) <=> Registered(os, x) BY <2>4 DEF Registered
  <2>6. QED BY <2>2, <2>4, <2>5, <1>15 DEF IdleElement
<1>24. IdleSound(ps2, os2) BY <1>5, <1>17, <1>18, <1>19, <1>20, <1>21, <1>22, <1>23 DEF IdleSound
<1>25. QED BY <1>3, <1>8, <1>11, <1>24

(* A pool for a record. *)
LEMMA RecordPoolSound ==
  ASSUME NEW ps, NEW os, IdleSound(ps, os), NEW i \in Recs, ~Alive(ps, recordPool(i)),
         NEW parent \in Pools, Alive(ps, parent),
         NEW ps2, ps2 = apr_pool_create(ps, recordPool(i), parent)
  PROVE  IdleSound(ps2, os)
<1>1. /\ Typed(ps, os, <<>>) /\ Tree(ps) /\ AllPlaced(ps, os) /\ Acyclic(os)
      /\ IdleCleanups(ps, os) /\ IdlePools(ps, os)
      /\ \A x \in Objs : Made(os, x) => IdleObject(ps, os, x)
      /\ \A c, x \in Objs : Owns(os, c, x) => IdleElement(os, c, x)
  BY DEF IdleSound
<1>2. recordPool(i) \in Pools BY PoolNames
<1>3. /\ ps2 \in [Pools -> PoolTypes \cup {None}]
      /\ Tree(ps2) /\ Grows(ps, ps2) /\ NewBelow(ps, ps2, recordPool(i), parent)
  BY <1>1, <1>2, TreeCreate
<1>4. \A x \in Objs : /\ Alive(ps2, subPool(x)) <=> Alive(ps, subPool(x))
                      /\ Alive(ps2, tmpPool(x)) <=> Alive(ps, tmpPool(x))
  BY <1>3, PoolNames DEF NewBelow
<1>5. Typed(ps2, os, <<>>) BY <1>1, <1>3 DEF Typed
<1>6. AllPlaced(ps2, os) BY <1>1, <1>3, <1>4, GrownPlaced DEF AllPlaced
<1>7. IdleCleanups(ps2, os)
  <2>1. SUFFICES ASSUME NEW q \in Pools, Alive(ps2, q)
                 PROVE  /\ IsInjective(ps2[q].cleanups)
                        /\ \A x \in Objs : In(x, ps2[q].cleanups) => Made(os, x) /\ os[x].destroyerPool = q
    BY DEF IdleCleanups
  <2>2. CASE Alive(ps, q)
    <3>1. ps2[q].cleanups = ps[q].cleanups BY <2>2, <1>3 DEF Grows
    <3>2. QED BY <2>2, <3>1, <1>1 DEF IdleCleanups
  <2>3. CASE ~Alive(ps, q)
    <3>1. ps2[q].cleanups = <<>> BY <2>1, <2>3, <1>3 DEF Grows
    <3>2. QED BY <3>1, NoneIn, ShortInjective
  <2>4. QED BY <2>2, <2>3
<1>8. IdlePools(ps2, os) BY <1>1, <1>4 DEF IdlePools
<1>9. ASSUME NEW x \in Objs, Made(os, x) PROVE IdleObject(ps2, os, x)
  <2>1. os[x].objPool \in Pools /\ Alive(ps, os[x].objPool) BY <1>9, <1>1, PlacedUp DEF AllPlaced
  <2>2. ps2[os[x].objPool].cleanups = ps[os[x].objPool].cleanups BY <2>1, <1>3 DEF Grows
  <2>3. IdleObject(ps, os, x) BY <1>1, <1>9
  <2>4. QED BY <2>2, <2>3, <1>4 DEF IdleObject
<1>10. QED BY <1>1, <1>3, <1>5, <1>6, <1>7, <1>8, <1>9 DEF IdleSound

(* destroyWithPool() of an object that nobody deletes so far. *)
LEMMA RegisterPools ==
  ASSUME NEW ps, NEW os, IdleSound(ps, os), NEW p \in Pools, Alive(ps, p), NEW o \in Objs, ~In(o, ps[p].cleanups),
         NEW ps2, ps2 = apr_pool_pre_cleanup_register(ps, p, o)
  PROVE  /\ ps2 \in [Pools -> PoolTypes \cup {None}] /\ SamePools(ps, ps2)
         /\ \A q \in Pools : Alive(ps, q) =>
              /\ IsInjective(ps2[q].cleanups)
              /\ \A x : In(x, ps2[q].cleanups) <=> In(x, ps[q].cleanups) \/ (q = p /\ x = o)
<1>1. ps \in [Pools -> PoolTypes \cup {None}] /\ IdleCleanups(ps, os) BY DEF IdleSound, Typed
<1>2. ps[p] \in PoolTypes /\ ps[p].cleanups \in Seq(Objs) BY TypedPools DEF IdleSound
<1>3. PICK s : s = ps[p].cleanups OBVIOUS
<1>4. IsInjective(s) /\ s \in Seq(Objs) /\ ~In(o, s) BY <1>1, <1>2, <1>3 DEF IdleCleanups
<1>5. PICK t : t = Cat(<<o>>, s) OBVIOUS
<1>6. t \in Seq(Objs) /\ IsInjective(t) /\ \A x : In(x, t) <=> x = o \/ In(x, s) BY <1>4, <1>5, ConsSeq
<1>7. PICK r : r = [ps[p] EXCEPT !.cleanups = t] OBVIOUS
<1>8. r \in PoolTypes /\ r.above = ps[p].above /\ r.child = ps[p].child /\ r.cleanups = t
  BY <1>2, <1>6, <1>7 DEF PoolTypes
<1>9. r # None BY <1>8, NoNone
<1>10. ps2 = [ps EXCEPT ![p] = r] BY <1>1, <1>3, <1>5, <1>7 DEF apr_pool_pre_cleanup_register, Cat
<1>11. ps2 \in [Pools -> PoolTypes \cup {None}] /\ ps2[p] = r /\ \A q \in Pools : q # p => ps2[q] = ps[q]
  BY <1>1, <1>8, <1>10
<1>12. SamePools(ps, ps2)
  <2>1. SUFFICES ASSUME NEW q \in Pools
                 PROVE  /\ Alive(ps2, q) <=> Alive(ps, q)
                        /\ Up(ps2, q) = Up(ps, q) /\ ps2[q].child = ps[q].child
    BY DEF SamePools
  <2>2. CASE q = p BY <2>2, <1>8, <1>9, <1>11 DEF Alive, Up
  <2>3. CASE q # p BY <2>3, <1>11 DEF Alive, Up
  <2>4. QED BY <2>2, <2>3
<1>13. ASSUME NEW q \in Pools, Alive(ps, q)
       PROVE  /\ IsInjective(ps2[q].cleanups)
              /\ \A x : In(x, ps2[q].cleanups) <=> In(x, ps[q].cleanups) \/ (q = p /\ x = o)
  <2>1. CASE q = p BY <2>1, <1>3, <1>6, <1>8, <1>11
  <2>2. CASE q # p BY <2>2, <1>1, <1>11, <1>13 DEF IdleCleanups
  <2>3. QED BY <2>1, <2>2
<1>14. QED BY <1>11, <1>12, <1>13

LEMMA RegisterSound ==
  ASSUME NEW ps, NEW os, IdleSound(ps, os), NEW o \in Objs, Made(os, o), ~Registered(os, o),
         \A c \in Objs : ~Owns(os, c, o) /\ ~Owns(os, o, c)
  PROVE  IdleSound(apr_pool_pre_cleanup_register(ps, os[o].objPool, o), [os EXCEPT ![o] = destroyWithPool(os[o])])
<1>1. /\ Typed(ps, os, <<>>) /\ Tree(ps) /\ AllPlaced(ps, os) /\ Acyclic(os)
      /\ IdleCleanups(ps, os) /\ IdlePools(ps, os)
      /\ \A x \in Objs : Made(os, x) => IdleObject(ps, os, x)
      /\ \A c, x \in Objs : Owns(os, c, x) => IdleElement(os, c, x)
  BY DEF IdleSound
<1>2. PICK p : p = os[o].objPool OBVIOUS
<1>3. p \in Pools /\ Alive(ps, p) BY <1>1, <1>2, PlacedUp DEF AllPlaced
<1>4. ~In(o, ps[p].cleanups) BY <1>1, <1>3, NoNone DEF IdleCleanups, Registered
<1>5. PICK ps2 : ps2 = apr_pool_pre_cleanup_register(ps, p, o) OBVIOUS
<1>6. /\ ps2 \in [Pools -> PoolTypes \cup {None}] /\ SamePools(ps, ps2)
      /\ \A q \in Pools : Alive(ps, q) =>
           /\ IsInjective(ps2[q].cleanups)
           /\ \A x : In(x, ps2[q].cleanups) <=> In(x, ps[q].cleanups) \/ (q = p /\ x = o)
  BY <1>3, <1>4, <1>5, RegisterPools
<1>7. PICK r : r = destroyWithPool(os[o]) OBVIOUS
<1>8. os[o] \in ObjTypes BY <1>1, TypedObjs
<1>9. /\ r \in ObjTypes /\ r.kind = os[o].kind /\ r.pool = os[o].pool /\ r.objPool = p /\ r.usage = os[o].usage
      /\ r.destroyerPool = p /\ r.tmp = os[o].tmp /\ r.elems = os[o].elems /\ r.strs = os[o].strs
      /\ r.managed = TRUE /\ r.dtors = os[o].dtors
  BY <1>2, <1>3, <1>7, <1>8 DEF ObjTypes, destroyWithPool
<1>10. PICK os2 : os2 = [os EXCEPT ![o] = r] OBVIOUS
<1>11. /\ os2 \in [Objs -> ObjTypes \cup {None}] /\ os2[o] = r /\ Made(os2, o)
       /\ \A x \in Objs : x # o => os2[x] = os[x]
  BY <1>1, <1>9, <1>10, NoNone DEF Typed, Made
<1>12. \A x \in Objs : Made(os2, x) <=> Made(os, x) BY <1>11 DEF Made
<1>13. \A c \in Objs : \A x : Owns(os2, c, x) <=> Owns(os, c, x) BY <1>9, <1>11, <1>12 DEF Owns, Elem
<1>14. Typed(ps2, os2, <<>>) BY <1>6, <1>11, NoneIn DEF Typed
<1>15. Tree(ps2) BY <1>1, <1>6, SameTree
<1>16. AllPlaced(ps2, os2)
  <2>1. AllPlaced(ps2, os) BY <1>1, <1>6, SamePlaced
  <2>2. SUFFICES ASSUME NEW x \in Objs, Made(os, x) PROVE Placed(ps2, os2, x) BY <1>12 DEF AllPlaced
  <2>3. Placed(ps2, os, x) BY <2>1, <2>2 DEF AllPlaced
  <2>4. CASE x = o BY <2>3, <2>4, <1>2, <1>9, <1>11 DEF Placed
  <2>5. CASE x # o BY <2>3, <2>5, <1>11 DEF Placed
  <2>6. QED BY <2>4, <2>5
<1>17. Acyclic(os2) BY <1>1, <1>13 DEF Acyclic
<1>18. IdleCleanups(ps2, os2)
  <2>1. SUFFICES ASSUME NEW q \in Pools, Alive(ps, q)
                 PROVE  /\ IsInjective(ps2[q].cleanups)
                        /\ \A x \in Objs : In(x, ps2[q].cleanups) => Made(os2, x) /\ os2[x].destroyerPool = q
    BY <1>6 DEF IdleCleanups, SamePools
  <2>2. \A x \in Objs : In(x, ps[q].cleanups) => Made(os, x) /\ os[x].destroyerPool = q BY <2>1, <1>1 DEF IdleCleanups
  <2>3. \A x \in Objs : In(x, ps[q].cleanups) => x # o BY <2>1, <2>2, NoNone DEF Registered
  <2>4. QED BY <2>1, <2>2, <2>3, <1>6, <1>9, <1>11, <1>12
<1>19. IdlePools(ps2, os2)
  <2>1. SUFFICES ASSUME NEW x \in Objs
                 PROVE  /\ Alive(ps2, subPool(x)) => Made(os2, x) /\ os2[x].objPool = subPool(x) /\ os2[x].usage
                        /\ Alive(ps2, tmpPool(x)) => Made(os2, x) /\ os2[x].kind = "TmpPool"
    BY DEF IdlePools
  <2>2. /\ Alive(ps2, subPool(x)) <=> Alive(ps, subPool(x))
        /\ Alive(ps2, tmpPool(x)) <=> Alive(ps, tmpPool(x))
    BY <1>6, PoolNames DEF SamePools
  <2>3. os2[x].objPool = os[x].objPool /\ os2[x].usage = os[x].usage /\ os2[x].kind = os[x].kind
    BY <1>2, <1>9, <1>11
  <2>4. QED BY <2>2, <2>3, <1>1, <1>12 DEF IdlePools
<1>20. ASSUME NEW x \in Objs, Made(os2, x) PROVE IdleObject(ps2, os2, x)
  <2>1. IdleObject(ps, os, x) BY <1>1, <1>12, <1>20
  <2>2. Alive(ps, tmpPool(x)) => Alive(ps2, tmpPool(x)) BY <1>6, PoolNames DEF SamePools
  <2>3. CASE x = o
    <3>1. In(o, ps2[p].cleanups) BY <1>3, <1>6
    <3>2. Registered(os2, o) BY <1>3, <1>9, <1>11, NoNone DEF Registered
    <3>3. QED BY <2>1, <2>2, <2>3, <3>1, <3>2, <1>9, <1>11 DEF IdleObject
  <2>4. CASE x # o
    <3>1. os2[x] = os[x] BY <2>4, <1>11
    <3>2. os[x].objPool \in Pools /\ Alive(ps, os[x].objPool) BY <1>1, <1>12, <1>20, PlacedUp DEF AllPlaced
    <3>3. In(x, ps[os[x].objPool].cleanups) => In(x, ps2[os[x].objPool].cleanups) BY <3>2, <1>6
    <3>4. Registered(os2, x) <=> Registered(os, x) BY <3>1 DEF Registered
    <3>5. QED BY <2>1, <2>2, <3>1, <3>3, <3>4, <1>13 DEF IdleObject
  <2>5. QED BY <2>3, <2>4
<1>21. ASSUME NEW c \in Objs, NEW x \in Objs, Owns(os2, c, x) PROVE IdleElement(os2, c, x)
  <2>1. Owns(os, c, x) /\ c # o /\ x # o BY <1>13, <1>21
  <2>2. IdleElement(os, c, x) BY <2>1, <1>1
  <2>3. os2[x] = os[x] /\ os2[c] = os[c] BY <2>1, <1>11
  <2>4. (Registered(os2, x) <=> Registered(os, x)) /\ (Made(os2, x) <=> Made(os, x)) BY <2>3, <1>12 DEF Registered
  <2>5. QED BY <2>2, <2>3, <2>4, <1>13 DEF IdleElement
<1>22. IdleSound(ps2, os2) BY <1>14, <1>15, <1>16, <1>17, <1>18, <1>19, <1>20, <1>21 DEF IdleSound
<1>23. QED BY <1>2, <1>5, <1>7, <1>10, <1>22

(* c now points to o, too. *)
Stored(os, os2, c, o) ==
  /\ os2 \in [Objs -> ObjTypes \cup {None}]
  /\ \A x \in Objs : x # c /\ x # o => os2[x] = os[x]
  /\ \A x \in Objs :
       /\ Made(os2, x) <=> Made(os, x)
       /\ os2[x].kind = os[x].kind /\ os2[x].pool = os[x].pool /\ os2[x].objPool = os[x].objPool
       /\ os2[x].usage = os[x].usage /\ os2[x].destroyerPool = os[x].destroyerPool
       /\ os2[x].tmp = os[x].tmp /\ os2[x].strs = os[x].strs /\ os2[x].dtors = os[x].dtors
  /\ IsInjective(os2[c].elems)
  /\ \A x : Elem(os2, c, x) <=> x = o \/ Elem(os, c, x)
  /\ os2[o].elems = os[o].elems
  /\ os2[c].managed = os[c].managed /\ os2[o].managed = os[c].managed

LEMMA StoreSound ==
  ASSUME NEW ps, NEW os, IdleSound(ps, os), NEW c \in Objs, NEW o \in Objs, c # o, Made(os, c), Made(os, o),
         os[c].kind \in Owners, ~Registered(os, o), os[o].elems = <<>>, \A d \in Objs : ~Owns(os, d, o),
         \/ os[o].pool = os[c].objPool
         \/ os[o].pool = os[c].pool /\ os[o].objPool = os[c].pool /\ os[o].kind = "plain" /\ ~os[o].usage,
         NEW os2, Stored(os, os2, c, o)
  PROVE  IdleSound(ps, os2)
<1>1. /\ Typed(ps, os, <<>>) /\ Tree(ps) /\ AllPlaced(ps, os) /\ Acyclic(os)
      /\ IdleCleanups(ps, os) /\ IdlePools(ps, os)
      /\ \A x \in Objs : Made(os, x) => IdleObject(ps, os, x)
      /\ \A d, x \in Objs : Owns(os, d, x) => IdleElement(os, d, x)
  BY DEF IdleSound
<1>2. os2 \in [Objs -> ObjTypes \cup {None}] BY DEF Stored
<1>3. \A x \in Objs : x # c /\ x # o => os2[x] = os[x] BY DEF Stored
<1>4. \A x \in Objs :
        /\ Made(os2, x) <=> Made(os, x)
        /\ os2[x].kind = os[x].kind /\ os2[x].pool = os[x].pool /\ os2[x].objPool = os[x].objPool
        /\ os2[x].usage = os[x].usage /\ os2[x].destroyerPool = os[x].destroyerPool
        /\ os2[x].tmp = os[x].tmp /\ os2[x].strs = os[x].strs /\ os2[x].dtors = os[x].dtors
  BY DEF Stored
<1>5. /\ IsInjective(os2[c].elems)
      /\ \A x : Elem(os2, c, x) <=> x = o \/ Elem(os, c, x)
      /\ os2[o].elems = os[o].elems
      /\ os2[c].managed = os[c].managed /\ os2[o].managed = os[c].managed
  BY DEF Stored
<1>6. \A d \in Objs : \A x : Owns(os2, d, x) <=> Owns(os, d, x) \/ (d = c /\ x = o)
  <2>1. \A x : ~Elem(os, o, x) /\ ~Elem(os2, o, x) BY <1>5, NoneIn DEF Elem
  <2>2. ASSUME NEW d \in Objs, NEW x PROVE Owns(os2, d, x) <=> Owns(os, d, x) \/ (d = c /\ x = o)
    <3>1. CASE d = c BY <3>1, <1>4, <1>5 DEF Owns
    <3>2. CASE d = o BY <3>2, <2>1 DEF Owns
    <3>3. CASE d # c /\ d # o BY <3>3, <1>3, <1>4 DEF Owns, Elem
    <3>4. QED BY <3>1, <3>2, <3>3
  <2>3. QED BY <2>2
<1>7. \A d \in Objs : ~Owns(os2, o, d) BY <1>5, <1>6, NoneIn DEF Owns, Elem
<1>8. \A x \in Objs : Registered(os2, x) <=> Registered(os, x) BY <1>4 DEF Registered
<1>9. Typed(ps, os2, <<>>) BY <1>1, <1>2 DEF Typed
<1>10. AllPlaced(ps, os2)
  <2>1. SUFFICES ASSUME NEW x \in Objs, Made(os, x) PROVE Placed(ps, os2, x) BY <1>4 DEF AllPlaced
  <2>2. Placed(ps, os, x) BY <2>1, <1>1 DEF AllPlaced
  <2>3. os2[x].kind \notin Owners => os2[x].elems = <<>>
    <3>1. CASE x = c BY <3>1, <1>4
    <3>2. CASE x = o BY <3>2, <1>5
    <3>3. CASE x # c /\ x # o BY <3>3, <2>2, <1>3 DEF Placed
    <3>4. QED BY <3>1, <3>2, <3>3
  <2>4. QED BY <2>2, <2>3, <1>4 DEF Placed
<1>11. Acyclic(os2)
  <2>1. SUFFICES ASSUME NEW X \in SUBSET Objs, X # {} PROVE \E x \in X : \A d \in X : ~Owns(os2, d, x)
    BY DEF Acyclic
  <2>2. CASE X = {o} BY <2>2, <1>7
  <2>3. CASE X # {o}
    <3>1. PICK Y \in SUBSET Objs : Y = X \ {o} OBVIOUS
    <3>2. Y # {} BY <2>1, <2>3, <3>1
    <3>3. PICK x \in Y : \A d \in Y : ~Owns(os, d, x) BY <3>2, <1>1 DEF Acyclic
    <3>4. x \in X /\ x # o BY <3>1, <3>3
    <3>5. \A d \in X : ~Owns(os2, d, x) BY <3>1, <3>3, <3>4, <1>6, <1>7
    <3>6. QED BY <3>4, <3>5
  <2>4. QED BY <2>2, <2>3
<1>12. IdleCleanups(ps, os2) BY <1>1, <1>4 DEF IdleCleanups
<1>13. IdlePools(ps, os2) BY <1>1, <1>4 DEF IdlePools
<1>14. ASSUME NEW x \in Objs, Made(os2, x) PROVE IdleObject(ps, os2, x)
  <2>1. IdleObject(ps, os, x) BY <1>1, <1>4, <1>14
  <2>2. IsInjective(os2[x].elems)
    <3>1. CASE x = c BY <3>1, <1>5
    <3>2. CASE x = o BY <3>2, <2>1, <1>5 DEF IdleObject
    <3>3. CASE x # c /\ x # o BY <3>3, <2>1, <1>3 DEF IdleObject
    <3>4. QED BY <3>1, <3>2, <3>3
  <2>3. Registered(os2, x) => os2[x].managed
    <3>1. CASE x = o BY <3>1, <1>8
    <3>2. CASE x = c BY <3>2, <2>1, <1>5, <1>8 DEF IdleObject
    <3>3. CASE x # c /\ x # o BY <3>3, <2>1, <1>3, <1>8 DEF IdleObject
    <3>4. QED BY <3>1, <3>2, <3>3
  <2>4. os2[x].managed => Registered(os2, x) \/ \E d \in Objs : Owns(os2, d, x)
    <3>1. CASE x = o BY <3>1, <1>6
    <3>2. CASE x = c BY <3>2, <2>1, <1>5, <1>6, <1>8 DEF IdleObject
    <3>3. CASE x # c /\ x # o BY <3>3, <2>1, <1>3, <1>6, <1>8 DEF IdleObject
    <3>4. QED BY <3>1, <3>2, <3>3
  <2>5. QED BY <2>1, <2>2, <2>3, <2>4, <1>4, <1>8 DEF IdleObject
<1>15. ASSUME NEW d \in Objs, NEW x \in Objs, Owns(os2, d, x) PROVE IdleElement(os2, d, x)
  <2>1. CASE d = c /\ x = o
    <3>1. \A e \in Objs : Owns(os2, e, o) => e = c BY <1>6
    <3>2. QED BY <2>1, <3>1, <1>4, <1>5, <1>8 DEF IdleElement
  <2>2. CASE Owns(os, d, x)
    <3>1. IdleElement(os, d, x) BY <2>2, <1>1
    <3>2. x # o /\ d # o BY <2>2, <1>7, <1>6
    <3>3. os2[x].managed = os2[d].managed
      <4>1. os[x].managed = os[d].managed BY <3>1 DEF IdleElement
      <4>2. os2[x].managed = os[x].managed BY <3>2, <1>3, <1>5
      <4>3. os2[d].managed = os[d].managed BY <3>2, <1>3, <1>5
      <4>4. QED BY <4>1, <4>2, <4>3
    <3>4. \A e \in Objs : Owns(os2, e, x) => e = d BY <3>1, <3>2, <1>6 DEF IdleElement
    <3>5. QED BY <3>1, <3>3, <3>4, <1>4, <1>8 DEF IdleElement
  <2>3. QED BY <2>1, <2>2, <1>6, <1>15
<1>16. QED BY <1>1, <1>9, <1>10, <1>11, <1>12, <1>13, <1>14, <1>15 DEF IdleSound

(* StrVec::push_back(). *)
LEMMA StringSound ==
  ASSUME NEW ps, NEW os, IdleSound(ps, os), NEW o \in Objs, Made(os, o)
  PROVE  IdleSound(ps, [os EXCEPT ![o].strs = Append(@, os[o].objPool)])
<1>1. /\ Typed(ps, os, <<>>) /\ Tree(ps) /\ AllPlaced(ps, os) /\ Acyclic(os)
      /\ IdleCleanups(ps, os) /\ IdlePools(ps, os)
      /\ \A x \in Objs : Made(os, x) => IdleObject(ps, os, x)
      /\ \A d, x \in Objs : Owns(os, d, x) => IdleElement(os, d, x)
  BY DEF IdleSound
<1>2. os[o] \in ObjTypes /\ os[o].strs \in Seq(Pools) BY <1>1, TypedObjs
<1>3. PICK p : p = os[o].objPool OBVIOUS
<1>4. p \in Pools /\ p \in Up(ps, p) BY <1>1, <1>3, PlacedUp DEF AllPlaced
<1>5. PICK t : t = Append(os[o].strs, p) OBVIOUS
<1>6. t \in Seq(Pools) /\ \A x : In(x, t) <=> x = p \/ In(x, os[o].strs) BY <1>2, <1>4, <1>5, AppendSeq
<1>7. PICK r : r = [os[o] EXCEPT !.strs = t] OBVIOUS
<1>8. /\ r \in ObjTypes /\ r.kind = os[o].kind /\ r.pool = os[o].pool /\ r.objPool = os[o].objPool
      /\ r.usage = os[o].usage /\ r.destroyerPool = os[o].destroyerPool /\ r.tmp = os[o].tmp
      /\ r.elems = os[o].elems /\ r.strs = t /\ r.managed = os[o].managed /\ r.dtors = os[o].dtors
  BY <1>2, <1>6, <1>7 DEF ObjTypes
<1>9. PICK os2 : os2 = [os EXCEPT ![o] = r] OBVIOUS
<1>10. /\ os2 \in [Objs -> ObjTypes \cup {None}] /\ os2[o] = r /\ Made(os2, o)
       /\ \A x \in Objs : x # o => os2[x] = os[x]
  BY <1>1, <1>8, <1>9, NoNone DEF Typed, Made
<1>11. \A x \in Objs :
         /\ Made(os2, x) <=> Made(os, x)
         /\ os2[x].kind = os[x].kind /\ os2[x].pool = os[x].pool /\ os2[x].objPool = os[x].objPool
         /\ os2[x].usage = os[x].usage /\ os2[x].destroyerPool = os[x].destroyerPool
         /\ os2[x].tmp = os[x].tmp /\ os2[x].elems = os[x].elems /\ os2[x].dtors = os[x].dtors
         /\ os2[x].managed = os[x].managed
         /\ \A y : In(y, os2[x].strs) => In(y, os[x].strs) \/ y = os[x].objPool
  <2>1. SUFFICES ASSUME NEW x \in Objs
                 PROVE  /\ Made(os2, x) <=> Made(os, x)
                        /\ os2[x].kind = os[x].kind /\ os2[x].pool = os[x].pool /\ os2[x].objPool = os[x].objPool
                        /\ os2[x].usage = os[x].usage /\ os2[x].destroyerPool = os[x].destroyerPool
                        /\ os2[x].tmp = os[x].tmp /\ os2[x].elems = os[x].elems /\ os2[x].dtors = os[x].dtors
                        /\ os2[x].managed = os[x].managed
                        /\ \A y : In(y, os2[x].strs) => In(y, os[x].strs) \/ y = os[x].objPool
    OBVIOUS
  <2>2. CASE x = o BY <2>2, <1>3, <1>6, <1>8, <1>10
  <2>3. CASE x # o BY <2>3, <1>10 DEF Made
  <2>4. QED BY <2>2, <2>3
<1>12. \A c \in Objs : \A x : Owns(os2, c, x) <=> Owns(os, c, x) BY <1>11 DEF Owns, Elem
<1>13. \A x \in Objs : Registered(os2, x) <=> Registered(os, x) BY <1>11 DEF Registered
<1>14. Typed(ps, os2, <<>>) BY <1>1, <1>10 DEF Typed
<1>15. AllPlaced(ps, os2)
  <2>1. SUFFICES ASSUME NEW x \in Objs, Made(os, x) PROVE Placed(ps, os2, x) BY <1>11 DEF AllPlaced
  <2>2. Placed(ps, os, x) BY <2>1, <1>1 DEF AllPlaced
  <2>3. os[x].objPool \in Up(ps, os[x].objPool) BY <2>1, <2>2, <1>1, PlacedUp
  <2>4. \A y : In(y, os2[x].strs) => y \in Up(ps, os2[x].objPool) BY <2>2, <2>3, <1>11 DEF Placed
  <2>5. QED BY <2>2, <2>4, <1>11 DEF Placed
<1>16. Acyclic(os2) BY <1>1, <1>12 DEF Acyclic
<1>17. IdleCleanups(ps, os2) BY <1>1, <1>11 DEF IdleCleanups
<1>18. IdlePools(ps, os2) BY <1>1, <1>11 DEF IdlePools
<1>19. ASSUME NEW x \in Objs, Made(os2, x) PROVE IdleObject(ps, os2, x)
  <2>1. IdleObject(ps, os, x) BY <1>1, <1>11, <1>19
  <2>2. QED BY <2>1, <1>11, <1>12, <1>13 DEF IdleObject
<1>20. ASSUME NEW d \in Objs, NEW x \in Objs, Owns(os2, d, x) PROVE IdleElement(os2, d, x)
  <2>1. IdleElement(os, d, x) BY <1>1, <1>12, <1>20
  <2>2. QED BY <2>1, <1>11, <1>12, <1>13 DEF IdleElement
<1>21. IdleSound(ps, os2) BY <1>1, <1>14, <1>15, <1>16, <1>17, <1>18, <1>19, <1>20 DEF IdleSound
<1>22. QED BY <1>3, <1>5, <1>7, <1>9, <1>21

(***************************************************************************)
(* Steps of the destruction                                                *)
(***************************************************************************)
LEMMA CatCalls == \A a, b, c \in Seq(Calls) : a \o b \o c = Cat(a, Cat(b, c))
BY ConcatAssociative DEF Cat

(* The next call of a destruction. *)
LEMMA NextCall ==
  ASSUME work \in Seq(Calls), ~Idle,
         NEW x, x = Head(work)[2], NEW rest, rest = Tail(work)
  PROVE  /\ rest \in Seq(Calls) /\ Stacked(work, Head(work), rest) /\ work = Cat(<<Head(work)>>, rest)
         /\ Head(work)[1] = "delete" => x \in Objs /\ Head(work) = DeleteCall(x)
         /\ Head(work)[1] = "~PoolAllocated" => x \in Objs /\ Head(work) = DtorCall(x)
         /\ Head(work)[1] = "clear" => x \in Objs /\ Head(work) = ClearCall(x)
         /\ Head(work)[1] = "apr_pool_destroy" => x \in Pools /\ Head(work) = PoolCall(x)
<1>1. work # <<>> BY DEF Idle
<1>2. PICK h : h = Head(work) OBVIOUS
<1>3. h \in Calls /\ rest \in Seq(Calls) /\ work = Cat(<<h>>, rest) BY <1>1, <1>2, HeadFirst
<1>4. Stacked(work, h, rest) BY <1>1, <1>2, HeadStacked
<1>5. /\ h[1] = "delete" => h[2] \in Objs /\ h = <<"delete", h[2]>>
      /\ h[1] = "~PoolAllocated" => h[2] \in Objs /\ h = <<"~PoolAllocated", h[2]>>
      /\ h[1] = "clear" => h[2] \in Objs /\ h = <<"clear", h[2]>>
      /\ h[1] = "apr_pool_destroy" => h[2] \in Pools /\ h = <<"apr_pool_destroy", h[2]>>
  BY <1>3 DEF Calls
<1>6. QED BY <1>2, <1>3, <1>4, <1>5 DEF DeleteCall, DtorCall, ClearCall, PoolCall

LEMMA DeleteStep ==
  ASSUME Sound(pools, objs, work), NEW o \in Objs, NEW rest \in Seq(Calls),
         Stacked(work, DeleteCall(o), rest), Delete(o, rest)
  PROVE  Sound(pools', objs', work')
<1>1. Standing(pools, objs, work) BY DEF Sound
<1>2. /\ Typed(pools, objs, work) /\ AllPlaced(pools, objs) /\ Ordered(work, MayStand(pools, objs))
      /\ CallsSound(pools, objs, work) /\ OwnersSound(pools, objs, work)
  BY <1>1 DEF Standing
<1>3. Made(objs, o) BY <1>2, DeleteOnTop
<1>4. /\ objs[o].kind \in Kinds /\ objs[o].elems \in Seq(Objs) /\ IsInjective(objs[o].elems)
      /\ objs[o].kind \notin Owners => objs[o].elems = <<>>
  <2>1. objs[o].kind \in Kinds /\ objs[o].elems \in Seq(Objs) BY <1>2, <1>3, TypedObjs
  <2>2. IsInjective(objs[o].elems) BY <1>2, <1>3 DEF OwnersSound, ContainerSound
  <2>3. QED BY <2>1, <2>2, <1>2, <1>3 DEF AllPlaced, Placed
<1>5. DeleteAll(objs[o].elems) \in Seq(Calls) BY <1>4, DeleteAllSeq
<1>6. pools' = pools /\ objs' = DtorBegun(objs, o) BY DEF Delete, DtorBegun
<1>7. DtorCall(o) \in Calls /\ ClearCall(o) \in Calls /\ <<DtorCall(o)>> \in Seq(Calls) BY CallNames, OneIn
<1>8. PICK d : d = Destructor(o) OBVIOUS
<1>9. d \in Seq(Calls) => work' = Cat(d, Cat(<<DtorCall(o)>>, rest))
  <2>1. work' = d \o <<DtorCall(o)>> \o rest BY <1>8 DEF Delete, Call, DtorCall
  <2>2. ASSUME d \in Seq(Calls) PROVE d \o <<DtorCall(o)>> \o rest = Cat(d, Cat(<<DtorCall(o)>>, rest))
    BY <2>2, <1>7, CatCalls, Zenon
  <2>3. QED BY <2>1, <2>2, Zenon
<1>10. CASE objs[o].kind = "TmpPool"
  <2>1. d = <<PoolCall(objs[o].tmp)>> BY <1>8, <1>10 DEF Destructor, TmpPool_dtor, Call, PoolCall
  <2>2. objs[o].tmp \in Pools BY <1>2, <1>3, <1>10, PoolNames DEF AllPlaced, Placed
  <2>3. d \in Seq(Calls) BY <2>1, <2>2, CallNames, OneIn
  <2>4. QED BY <2>1, <2>3, <1>6, <1>9, <1>10, DeleteTmpPool
<1>11. CASE objs[o].kind = "StrPtrMap"
  <2>1. d = <<ClearCall(o)>> BY <1>8, <1>11 DEF Destructor, StrPtrMap_dtor, Call, ClearCall
  <2>2. d \in Seq(Calls) BY <2>1, <1>7, OneIn
  <2>3. QED BY <2>1, <2>2, <1>6, <1>9, <1>11, DeleteClear
<1>12. CASE objs[o].kind \notin {"TmpPool", "StrPtrMap"}
  <2>1. d = DeleteAll(objs[o].elems)
    <3>1. CASE objs[o].kind = "PtrVec" BY <3>1, <1>8 DEF Destructor, PtrVec_dtor
    <3>2. CASE objs[o].kind = "SmplPtrMap" BY <3>2, <1>8 DEF Destructor, SmplPtrMap_dtor
    <3>3. CASE objs[o].kind \notin {"PtrVec", "SmplPtrMap"}
      <4>1. objs[o].kind \in {"plain", "StrVec"} BY <3>3, <1>4, <1>12 DEF Kinds
      <4>2. objs[o].elems = <<>> BY <4>1, <1>4 DEF Owners
      <4>3. d = <<>> BY <4>1, <1>8 DEF Destructor
      <4>4. DeleteAll(<<>>) = <<>> BY DEF DeleteAll
      <4>5. QED BY <4>2, <4>3, <4>4
    <3>4. QED BY <3>1, <3>2, <3>3
  <2>2. objs[o].kind # "TmpPool" BY <1>12
  <2>3. QED BY <2>1, <2>2, <1>5, <1>6, <1>9, DeleteElements
<1>13. QED BY <1>10, <1>11, <1>12

LEMMA DtorStep ==
  ASSUME Sound(pools, objs, work), NEW o \in Objs, NEW rest \in Seq(Calls),
         Stacked(work, DtorCall(o), rest), PoolAllocatedDtor(o, rest)
  PROVE  Sound(pools', objs', work')
<1>1. pools' = Unregistered(pools, objs, o) BY DEF PoolAllocatedDtor, Unregister, Unregistered
<1>2. objs' = Deleted(objs, o) BY DEF PoolAllocatedDtor, Deleted
<1>3. CASE objs[o].usage
  <2>1. work' = Cat(<<PoolCall(objs[o].objPool)>>, rest)
    BY <1>3 DEF PoolAllocatedDtor, operator_delete, Call, PoolCall, Cat
  <2>2. QED BY <2>1, <1>1, <1>2, <1>3, DtorDestroysPool
<1>4. CASE ~objs[o].usage
  <2>1. work' = rest BY <1>4 DEF PoolAllocatedDtor, operator_delete
  <2>2. QED BY <2>1, <1>1, <1>2, <1>4, DtorKeepsPool
<1>5. QED BY <1>3, <1>4

LEMMA ClearStep ==
  ASSUME Sound(pools, objs, work), NEW o \in Objs, NEW rest \in Seq(Calls),
         Stacked(work, ClearCall(o), rest), work = Cat(<<ClearCall(o)>>, rest), clear(o, rest)
  PROVE  Sound(pools', objs', work')
<1>1. CASE objs[o].elems = <<>>
  <2>1. pools' = pools /\ objs' = objs /\ work' = rest BY <1>1 DEF clear
  <2>2. QED BY <2>1, <1>1, ClearDone
<1>2. CASE objs[o].elems # <<>>
  <2>1. PICK i \in DOMAIN objs[o].elems :
          /\ objs' = TakenOut(objs, o, i)
          /\ work' = <<DeleteCall(objs[o].elems[i])>> \o <<ClearCall(o)>> \o rest
    BY <1>2 DEF clear, Call, TakenOut, DeleteCall, ClearCall
  <2>2. pools' = pools BY DEF clear
  <2>3. objs[o].elems[i] \in Objs
    <3>1. Typed(pools, objs, work) /\ Made(objs, o) BY ClearOnTop DEF Sound, Standing
    <3>2. QED BY <3>1, TypedObjs
  <2>4. <<DeleteCall(objs[o].elems[i])>> \in Seq(Calls) /\ <<ClearCall(o)>> \in Seq(Calls) BY <2>3, CallNames, OneIn
  <2>5. work' = Cat(<<DeleteCall(objs[o].elems[i])>>, work)
    <3>1. work' = Cat(<<DeleteCall(objs[o].elems[i])>>, Cat(<<ClearCall(o)>>, rest)) BY <2>1, <2>4, CatCalls, Zenon
    <3>2. QED BY <3>1, Zenon
  <2>6. QED BY <2>1, <2>2, <2>5, ClearTurn
<1>3. QED BY <1>1, <1>2

LEMMA DestroyStep ==
  ASSUME Sound(pools, objs, work), NEW p \in Pools, NEW rest \in Seq(Calls),
         Stacked(work, PoolCall(p), rest), work = Cat(<<PoolCall(p)>>, rest), apr_pool_destroy(p, rest)
  PROVE  Sound(pools', objs', work')
<1>1. Typed(pools, objs, work) /\ CallsSound(pools, objs, work) BY DEF Sound, Standing
<1>2. Alive(pools, p) BY <1>1 DEF CallsSound, Stacked, Going
<1>3. pools[p].cleanups \in Seq(Objs) /\ pools[p].child \in Seq(Pools) BY <1>1, <1>2, TypedPools
<1>4. <<PoolCall(p)>> \in Seq(Calls) BY CallNames, OneIn
<1>5. CASE pools[p].cleanups # <<>>
  <2>1. RunCleanup(p, rest) BY <1>5 DEF apr_pool_destroy
  <2>2. PICK o : o = Head(pools[p].cleanups) OBVIOUS
  <2>3. o \in Objs BY <2>2, <1>3, <1>5, HeadFirst
  <2>4. pools' = CleanupGone(pools, p) /\ objs' = Spared(objs, o)
    BY <2>1, <2>2 DEF RunCleanup, CleanupGone, Spared, PoolAllocatedCleanup
  <2>5. work' = <<DeleteCall(o)>> \o <<PoolCall(p)>> \o rest
    BY <2>1, <2>2 DEF RunCleanup, Call, DeleteCall, PoolCall
  <2>6. work' = Cat(<<DeleteCall(o)>>, work)
    <3>1. <<DeleteCall(o)>> \in Seq(Calls) BY <2>3, CallNames, OneIn
    <3>2. work' = Cat(<<DeleteCall(o)>>, Cat(<<PoolCall(p)>>, rest)) BY <2>5, <3>1, <1>4, CatCalls, Zenon
    <3>3. QED BY <3>2, Zenon
  <2>7. QED BY <2>2, <2>4, <2>6, <1>5, CleanupTurn
<1>6. CASE pools[p].cleanups = <<>> /\ pools[p].child # <<>>
  <2>1. DestroyChild(p, rest) BY <1>6 DEF apr_pool_destroy
  <2>2. PICK q : q = Head(pools[p].child) OBVIOUS
  <2>3. q \in Pools BY <2>2, <1>3, <1>6, HeadFirst
  <2>4. pools' = pools /\ objs' = objs BY <2>1 DEF DestroyChild
  <2>5. work' = <<PoolCall(q)>> \o <<PoolCall(p)>> \o rest BY <2>1, <2>2 DEF DestroyChild, Call, PoolCall
  <2>6. work' = Cat(<<PoolCall(q)>>, work)
    <3>1. <<PoolCall(q)>> \in Seq(Calls) BY <2>3, CallNames, OneIn
    <3>2. work' = Cat(<<PoolCall(q)>>, Cat(<<PoolCall(p)>>, rest)) BY <2>5, <3>1, <1>4, CatCalls, Zenon
    <3>3. QED BY <3>2, Zenon
  <2>7. QED BY <2>2, <2>4, <2>6, <1>6, ChildTurn
<1>7. CASE pools[p].cleanups = <<>> /\ pools[p].child = <<>>
  <2>1. Free(p, rest) BY <1>7 DEF apr_pool_destroy
  <2>2. pools' = Freed(pools, p) /\ objs' = GoneWith(objs, p) /\ work' = rest
    BY <2>1 DEF Free, Freed, GoneWith, Live, Alive, Exists, Made
  <2>3. QED BY <2>2, <1>7, FreeTurn
<1>8. QED BY <1>5, <1>6, <1>7

LEMMA StepSound == ASSUME Sound(pools, objs, work), Step PROVE Sound(pools', objs', work')
<1>1. work \in Seq(Calls) /\ ~Idle BY DEF Sound, Standing, Typed, Step
<1>2. PICK x : x = Head(work)[2] OBVIOUS
<1>3. PICK rest : rest = Tail(work) OBVIOUS
<1>4. rest \in Seq(Calls) /\ Stacked(work, Head(work), rest) /\ work = Cat(<<Head(work)>>, rest)
  BY <1>1, <1>2, <1>3, NextCall
<1>5. CASE Head(work)[1] = "delete" /\ Delete(x, rest)
  <2>1. x \in Objs /\ Head(work) = DeleteCall(x) BY <1>1, <1>2, <1>3, <1>5, NextCall
  <2>2. QED BY <2>1, <1>4, <1>5, DeleteStep
<1>6. CASE Head(work)[1] = "~PoolAllocated" /\ PoolAllocatedDtor(x, rest)
  <2>1. x \in Objs /\ Head(work) = DtorCall(x) BY <1>1, <1>2, <1>3, <1>6, NextCall
  <2>2. QED BY <2>1, <1>4, <1>6, DtorStep
<1>7. CASE Head(work)[1] = "clear" /\ clear(x, rest)
  <2>1. x \in Objs /\ Head(work) = ClearCall(x) BY <1>1, <1>2, <1>3, <1>7, NextCall
  <2>2. QED BY <2>1, <1>4, <1>7, ClearStep
<1>8. CASE Head(work)[1] = "apr_pool_destroy" /\ apr_pool_destroy(x, rest)
  <2>1. x \in Pools /\ Head(work) = PoolCall(x) BY <1>1, <1>2, <1>3, <1>8, NextCall
  <2>2. QED BY <2>1, <1>4, <1>8, DestroyStep
<1>9. QED BY <1>2, <1>3, <1>5, <1>6, <1>7, <1>8 DEF Step

(***************************************************************************)
(* The first state, and what the program makes                             *)
(***************************************************************************)
LEMMA InitSound == ASSUME InitPools PROVE IdleSound(pools, objs) /\ work = <<>>
<1>1. pools = [p \in Pools |-> IF p = pconf THEN NewPool({pconf}) ELSE None] BY DEF InitPools
<1>2. objs = [o \in Objs |-> None] /\ work = <<>> BY DEF InitPools
<1>3. pconf \in Pools BY PoolNames
<1>4. <<>> \in Seq(Objs) /\ <<>> \in Seq(Pools) /\ <<>> \in Seq(Calls) /\ \A x : ~In(x, <<>>) BY NoneIn
<1>5. NewPool({pconf}) \in PoolTypes BY <1>3, <1>4 DEF NewPool, PoolTypes
<1>6. /\ Up(pools, pconf) = {pconf} /\ pools[pconf].child = <<>> /\ pools[pconf].cleanups = <<>>
      /\ \A p \in Pools : Alive(pools, p) <=> p = pconf
  <2>1. pools[pconf] = NewPool({pconf}) BY <1>1, <1>3
  <2>2. NewPool({pconf}) # None BY <1>5, NoNone
  <2>3. QED BY <2>1, <2>2, <1>1 DEF Alive, Up, NewPool
<1>7. \A o \in Objs : ~Made(objs, o) BY <1>2 DEF Made
<1>8. Typed(pools, objs, <<>>) BY <1>1, <1>2, <1>4, <1>5 DEF Typed
<1>9. Tree(pools) BY <1>3, <1>4, <1>6, ShortInjective DEF Tree
<1>10. IdleCleanups(pools, objs) BY <1>4, <1>6, ShortInjective DEF IdleCleanups
<1>11. IdlePools(pools, objs) BY <1>6, PoolNames DEF IdlePools
<1>12. AllPlaced(pools, objs) BY <1>7 DEF AllPlaced
<1>13. Acyclic(objs) BY <1>7 DEF Acyclic, Owns
<1>14. QED BY <1>2, <1>7, <1>8, <1>9, <1>10, <1>11, <1>12, <1>13 DEF IdleSound, Owns

LEMMA FreshObject ==
  ASSUME IdleSound(pools, objs), Unused(objs) # {}, NEW o, o = Fresh(objs)
  PROVE  o \in Objs /\ ~Made(objs, o)
<1>1. DOMAIN objs = Objs BY DEF IdleSound, Typed
<1>2. Objs \subseteq Nat BY BoundsAssumption DEF Objs
<1>3. o \in Unused(objs) BY <1>1, <1>2, FreshIsUnused
<1>4. QED BY <1>1, <1>3 DEF Unused, Made

LEMMA PlainNew ==
  ASSUME NEW o \in Objs, NEW k \in Kinds, NEW p \in Pools, NEW u \in BOOLEAN
  PROVE  /\ operator_new(o, k, p, u) = NewObject(o, k, p, u, <<>>)
         /\ IsNew(operator_new(o, k, p, u), o, k, p, u, <<>>)
<1>1. PICK P \in Pools : P = objPool(o, p, u) BY PoolNames DEF objPool
<1>2. PICK T \in Pools \cup {None} : T = IF k = "TmpPool" THEN tmpPool(o) ELSE None BY PoolNames
<1>3. operator_new(o, k, p, u) =
        [kind |-> k, pool |-> p, objPool |-> P, usage |-> u, destroyerPool |-> None, tmp |-> T,
         elems |-> <<>>, strs |-> <<>>, managed |-> FALSE, dtors |-> 0]
  BY <1>1, <1>2, Zenon DEF operator_new
<1>4. <<>> \in Seq(Objs) /\ <<>> \in Seq(Pools) BY NoneIn
<1>5. PICK e : e = operator_new(o, k, p, u) OBVIOUS
<1>6. e \in ObjTypes /\ e.strs = <<>> BY <1>1, <1>2, <1>3, <1>4, <1>5 DEF ObjTypes
<1>7. [e EXCEPT !.strs = <<>>] = e BY <1>6 DEF ObjTypes
<1>8. NewObject(o, k, p, u, <<>>) = e BY <1>5, <1>7 DEF NewObject
<1>9. QED BY <1>4, <1>5, <1>8, NewObjectFields

LEMMA PoolsOfNewObject ==
  ASSUME NEW o, NEW k, NEW p, NEW u
  PROVE  PoolsOfNew(o, k, p, u) = NewPools(pools, o, k, p, u)
BY DEF PoolsOfNew, SubPool, NewPools, OwnPool

LEMMA NewStep ==
  ASSUME IdleSound(pools, objs), NEW k \in Kinds, NEW p \in Pools, NEW u \in BOOLEAN, New(k, p, u)
  PROVE  IdleSound(pools', objs') /\ work' = work
<1>1. PICK o : o = Fresh(objs) OBVIOUS
<1>2. o \in Objs /\ ~Made(objs, o) BY <1>1, FreshObject DEF New, CanMake
<1>3. Alive(pools, p) BY DEF New, CanMake, Live, Alive
<1>4. pools' = NewPools(pools, o, k, p, u) BY <1>1, PoolsOfNewObject DEF New
<1>5. objs' = [objs EXCEPT ![o] = NewObject(o, k, p, u, <<>>)] BY <1>1, <1>2, PlainNew DEF New
<1>6. <<>> \in Seq(Pools) /\ \A x : ~In(x, <<>>) BY NoneIn
<1>7. IdleSound(pools', objs') BY <1>2, <1>3, <1>4, <1>5, <1>6, NewSound
<1>8. QED BY <1>7 DEF New

LEMMA NewRegisteredStep ==
  ASSUME IdleSound(pools, objs), NEW k \in Kinds, NEW p \in Pools, NEW u \in BOOLEAN, NewRegistered(k, p, u)
  PROVE  IdleSound(pools', objs') /\ work' = work
<1>1. PICK o : o = Fresh(objs) OBVIOUS
<1>2. o \in Objs /\ ~Made(objs, o) BY <1>1, FreshObject DEF NewRegistered, CanMake
<1>3. Alive(pools, p) BY DEF NewRegistered, CanMake, Live, Alive
<1>4. PICK ps : ps = NewPools(pools, o, k, p, u) OBVIOUS
<1>5. PICK r : r = NewObject(o, k, p, u, <<>>) OBVIOUS
<1>6. r = operator_new(o, k, p, u) /\ IsNew(r, o, k, p, u, <<>>) BY <1>2, <1>5, PlainNew
<1>7. PICK os : os = [objs EXCEPT ![o] = r] OBVIOUS
<1>8. <<>> \in Seq(Pools) /\ \A x : ~In(x, <<>>) BY NoneIn
<1>9. IdleSound(ps, os) BY <1>2, <1>3, <1>4, <1>5, <1>7, <1>8, NewSound
<1>10. objs \in [Objs -> ObjTypes \cup {None}] BY DEF IdleSound, Typed
<1>11. os[o] = r BY <1>2, <1>7, <1>10
<1>12. Made(os, o) /\ ~Registered(os, o) BY <1>6, <1>11, NoNone DEF IsNew, Made, Registered
<1>13. ASSUME NEW c \in Objs PROVE ~Owns(os, c, o) /\ ~Owns(os, o, c)
  <2>1. os[o].elems = <<>> BY <1>6, <1>11 DEF IsNew
  <2>2. ~Owns(os, o, c) BY <2>1, NoneIn DEF Owns, Elem
  <2>3. CASE c = o BY <2>3, <2>1, NoneIn DEF Owns, Elem
  <2>4. CASE c # o
    <3>1. os[c] = objs[c] BY <2>4, <1>7, <1>10
    <3>2. ~Owns(objs, c, o) BY <1>2, FreshNumber
    <3>3. QED BY <2>2, <3>1, <3>2 DEF Owns, Elem, Made
  <2>5. QED BY <2>2, <2>3, <2>4
<1>14. os[o].objPool = objPool(o, p, u) BY <1>6, <1>11 DEF IsNew
<1>15. pools' = apr_pool_pre_cleanup_register(ps, os[o].objPool, o)
  BY <1>1, <1>4, <1>14, PoolsOfNewObject DEF NewRegistered
<1>16. objs' = [os EXCEPT ![o] = destroyWithPool(os[o])]
  <2>1. objs' = [objs EXCEPT ![o] = destroyWithPool(r)] BY <1>1, <1>6 DEF NewRegistered
  <2>2. PICK d : d = destroyWithPool(r) OBVIOUS
  <2>3. objs' = [objs EXCEPT ![o] = d] BY <2>1, <2>2
  <2>4. [os EXCEPT ![o] = d] = [objs EXCEPT ![o] = d] BY <1>2, <1>7, <1>10
  <2>5. QED BY <2>2, <2>3, <2>4, <1>11
<1>17. IdleSound(pools', objs') BY <1>2, <1>9, <1>12, <1>13, <1>15, <1>16, RegisterSound
<1>18. QED BY <1>17 DEF NewRegistered

LEMMA NewElementStep ==
  ASSUME IdleSound(pools, objs), NEW c \in Objs,
         NEW k \in Kinds, NEW p \in Pools, NEW u \in BOOLEAN, NewElement(c, k, p, u)
  PROVE  IdleSound(pools', objs') /\ work' = work
<1>1. PICK o : o = Fresh(objs) OBVIOUS
<1>2. o \in Objs /\ ~Made(objs, o) BY <1>1, FreshObject DEF NewElement, CanMake
<1>3. Alive(pools, p) BY DEF NewElement, CanMake, Live, Alive
<1>4. Made(objs, c) /\ objs[c].kind \in Owners /\ c # o BY <1>2 DEF NewElement, Exists, Made
<1>5. PICK ps : ps = NewPools(pools, o, k, p, u) OBVIOUS
<1>6. PICK r : r = NewObject(o, k, p, u, <<>>) OBVIOUS
<1>7. r = operator_new(o, k, p, u) /\ IsNew(r, o, k, p, u, <<>>) BY <1>2, <1>6, PlainNew
<1>8. PICK os : os = [objs EXCEPT ![o] = r] OBVIOUS
<1>9. <<>> \in Seq(Pools) /\ \A x : ~In(x, <<>>) BY NoneIn
<1>10. IdleSound(ps, os) BY <1>2, <1>3, <1>5, <1>6, <1>8, <1>9, NewSound
<1>11. objs \in [Objs -> ObjTypes \cup {None}] /\ Typed(pools, objs, <<>>) BY DEF IdleSound, Typed
<1>12. os[o] = r /\ os[c] = objs[c] /\ \A x \in Objs : x # o => os[x] = objs[x] BY <1>2, <1>4, <1>8, <1>11
<1>13. Made(os, o) /\ ~Registered(os, o) /\ Made(os, c) BY <1>4, <1>7, <1>12, NoNone DEF IsNew, Made, Registered
<1>14. os[o].elems = <<>> /\ os[o].pool = p /\ os[o].objPool = objPool(o, p, u) /\ os[o].kind = k /\ os[o].usage = u
  BY <1>7, <1>12 DEF IsNew
<1>15. \A d \in Objs : ~Owns(objs, d, o) BY <1>2, FreshNumber
<1>16. \A d \in Objs : ~Owns(os, d, o)
  <2>1. ASSUME NEW d \in Objs PROVE ~Owns(os, d, o)
    <3>1. CASE d = o BY <3>1, <1>14, NoneIn DEF Owns, Elem
    <3>2. CASE d # o BY <3>2, <1>12, <1>15 DEF Owns, Elem, Made
    <3>3. QED BY <3>1, <3>2
  <2>2. QED BY <2>1
<1>17. \/ os[o].pool = os[c].objPool
       \/ os[o].pool = os[c].pool /\ os[o].objPool = os[c].pool /\ os[o].kind = "plain" /\ ~os[o].usage
  BY <1>12, <1>14 DEF NewElement, objPool
<1>18. objs[c] \in ObjTypes /\ objs[c].elems \in Seq(Objs) /\ objs[c].managed \in BOOLEAN BY <1>4, <1>11, TypedObjs
<1>19. IsInjective(objs[c].elems) /\ ~In(o, objs[c].elems)
  <2>1. IdleObject(pools, objs, c) BY <1>4 DEF IdleSound
  <2>2. QED BY <2>1, <1>4, <1>15 DEF IdleObject, Owns, Elem
<1>20. PICK E : E = IF objs[c].kind = "PtrVec" THEN Append(objs[c].elems, o) ELSE Cat(<<o>>, objs[c].elems) OBVIOUS
<1>21. E \in Seq(Objs) /\ IsInjective(E) /\ \A y : In(y, E) <=> y = o \/ In(y, objs[c].elems)
  <2>1. CASE objs[c].kind = "PtrVec" BY <2>1, <1>2, <1>18, <1>19, <1>20, AppendSeq
  <2>2. CASE objs[c].kind # "PtrVec"
    <3>1. PICK s \in Seq(Objs) : s = objs[c].elems BY <1>18
    <3>2. /\ Cat(<<o>>, s) \in Seq(Objs)
          /\ \A y : In(y, Cat(<<o>>, s)) <=> y = o \/ In(y, s)
          /\ IsInjective(Cat(<<o>>, s)) <=> IsInjective(s) /\ ~In(o, s)
      BY <1>2, ConsSeq
    <3>3. E = Cat(<<o>>, s) BY <2>2, <3>1, <1>20
    <3>4. QED BY <3>1, <3>2, <3>3, <1>19
  <2>3. QED BY <2>1, <2>2
<1>22. PICK rc : rc = [objs[c] EXCEPT !.elems = E] OBVIOUS
<1>23. /\ rc \in ObjTypes /\ rc.kind = objs[c].kind /\ rc.pool = objs[c].pool /\ rc.objPool = objs[c].objPool
       /\ rc.usage = objs[c].usage /\ rc.destroyerPool = objs[c].destroyerPool /\ rc.tmp = objs[c].tmp
       /\ rc.elems = E /\ rc.strs = objs[c].strs /\ rc.managed = objs[c].managed /\ rc.dtors = objs[c].dtors
  BY <1>18, <1>21, <1>22 DEF ObjTypes
<1>24. PICK m \in BOOLEAN : m = objs[c].managed BY <1>18
<1>25. PICK ro : ro = [r EXCEPT !.managed = m] OBVIOUS
<1>26. /\ ro \in ObjTypes /\ ro.kind = r.kind /\ ro.pool = r.pool /\ ro.objPool = r.objPool
       /\ ro.usage = r.usage /\ ro.destroyerPool = r.destroyerPool /\ ro.tmp = r.tmp
       /\ ro.elems = r.elems /\ ro.strs = r.strs /\ ro.managed = m /\ ro.dtors = r.dtors
  <2>1. r \in ObjTypes BY <1>7 DEF IsNew
  <2>2. QED BY <2>1, <1>25 DEF ObjTypes
<1>27. objs' = [[objs EXCEPT ![c] = rc] EXCEPT ![o] = ro]
  <2>1. PICK st : st = IF objs[c].kind = "PtrVec" THEN push_back(c, o) ELSE insert(c, o) OBVIOUS
  <2>2. st = [objs EXCEPT ![c] = rc]
    <3>1. CASE objs[c].kind = "PtrVec" BY <3>1, <2>1, <1>20, <1>22 DEF push_back
    <3>2. CASE objs[c].kind # "PtrVec" BY <3>2, <2>1, <1>20, <1>22 DEF insert, Cat
    <3>3. QED BY <3>1, <3>2
  <2>3. objs' = [st EXCEPT ![o] = [operator_new(o, k, p, u) EXCEPT !.managed = objs[c].managed]]
    BY <1>1, <2>1 DEF NewElement
  <2>4. QED BY <2>2, <2>3, <1>7, <1>24, <1>25
<1>28. PICK os2 : os2 = objs' OBVIOUS
<1>29. /\ os2 \in [Objs -> ObjTypes \cup {None}] /\ os2[o] = ro /\ os2[c] = rc
       /\ \A x \in Objs : x # c /\ x # o => os2[x] = objs[x]
  BY <1>2, <1>4, <1>11, <1>23, <1>26, <1>27, <1>28
<1>30. Stored(os, os2, c, o)
  <2>1. rc # None /\ ro # None BY <1>23, <1>26, NoNone
  <2>2. ASSUME NEW x \in Objs
        PROVE  /\ Made(os2, x) <=> Made(os, x)
               /\ os2[x].kind = os[x].kind /\ os2[x].pool = os[x].pool /\ os2[x].objPool = os[x].objPool
               /\ os2[x].usage = os[x].usage /\ os2[x].destroyerPool = os[x].destroyerPool
               /\ os2[x].tmp = os[x].tmp /\ os2[x].strs = os[x].strs /\ os2[x].dtors = os[x].dtors
    <3>1. CASE x = o BY <3>1, <2>1, <1>12, <1>13, <1>26, <1>29 DEF Made
    <3>2. CASE x = c BY <3>2, <2>1, <1>12, <1>13, <1>23, <1>29 DEF Made
    <3>3. CASE x # o /\ x # c BY <3>3, <1>12, <1>29 DEF Made
    <3>4. QED BY <3>1, <3>2, <3>3
  <2>3. \A x : Elem(os2, c, x) <=> x = o \/ Elem(os, c, x) BY <1>12, <1>21, <1>23, <1>29 DEF Elem
  <2>4. \A x \in Objs : x # c /\ x # o => os2[x] = os[x] BY <1>12, <1>29
  <2>5. os2[o].elems = os[o].elems /\ os2[c].managed = os[c].managed /\ os2[o].managed = os[c].managed
    BY <1>12, <1>23, <1>24, <1>26, <1>29
  <2>6. IsInjective(os2[c].elems) BY <1>21, <1>23, <1>29
  <2>7. os2 \in [Objs -> ObjTypes \cup {None}] BY <1>29
  <2>8. QED BY <2>2, <2>3, <2>4, <2>5, <2>6, <2>7 DEF Stored
<1>31. IdleSound(ps, os2)
  <2>1. os[c].kind \in Owners BY <1>4, <1>12
  <2>2. QED BY <2>1, <1>2, <1>4, <1>10, <1>13, <1>14, <1>16, <1>17, <1>30, StoreSound
<1>32. pools' = ps BY <1>1, <1>5, PoolsOfNewObject DEF NewElement
<1>33. QED BY <1>28, <1>31, <1>32 DEF NewElement

LEMMA PushBackStep ==
  ASSUME IdleSound(pools, objs), NEW o \in Objs, StrVec_push_back(o)
  PROVE  IdleSound(pools', objs') /\ work' = work
<1>1. Made(objs, o) BY DEF StrVec_push_back, Exists, Made
<1>2. objs' = [objs EXCEPT ![o].strs = Append(@, objs[o].objPool)] /\ pools' = pools BY DEF StrVec_push_back
<1>3. IdleSound(pools, [objs EXCEPT ![o].strs = Append(@, objs[o].objPool)]) BY <1>1, StringSound
<1>4. QED BY <1>2, <1>3 DEF StrVec_push_back

LEMMA CopyStep ==
  ASSUME IdleSound(pools, objs), NEW from \in Objs, NEW p \in Pools, NEW u \in BOOLEAN, StrVec_copy(from, p, u)
  PROVE  IdleSound(pools', objs') /\ work' = work
<1>1. PICK o : o = Fresh(objs) OBVIOUS
<1>2. o \in Objs /\ ~Made(objs, o) BY <1>1, FreshObject DEF StrVec_copy, CanMake
<1>3. Alive(pools, p) BY DEF StrVec_copy, CanMake, Live, Alive
<1>4. Typed(pools, objs, <<>>) /\ Tree(pools) /\ AllPlaced(pools, objs) BY DEF IdleSound
<1>5. Made(objs, from) BY DEF StrVec_copy, Exists, Made
<1>6. PICK s : s = objs[from].strs OBVIOUS
<1>7. s \in Seq(Pools) BY <1>4, <1>5, <1>6, TypedObjs
<1>8. \A x : In(x, s) => x \in Up(pools, p)
  <2>1. objs[from].objPool \in Up(pools, p) BY DEF StrVec_copy, Up
  <2>2. Up(pools, objs[from].objPool) \subseteq Up(pools, p) BY <2>1, <1>3, <1>4, TreeUp
  <2>3. QED BY <2>2, <1>4, <1>5, <1>6 DEF AllPlaced, Placed
<1>9. pools' = NewPools(pools, o, "StrVec", p, u) BY <1>1, PoolsOfNewObject DEF StrVec_copy
<1>10. objs' = [objs EXCEPT ![o] = NewObject(o, "StrVec", p, u, s)] BY <1>1, <1>6 DEF StrVec_copy, NewObject
<1>11. "StrVec" \in Kinds BY DEF Kinds
<1>12. IdleSound(pools', objs') BY <1>2, <1>3, <1>7, <1>8, <1>9, <1>10, <1>11, NewSound
<1>13. QED BY <1>12 DEF StrVec_copy

LEMMA MakeSound == ASSUME IdleSound(pools, objs), MakeObject PROVE IdleSound(pools', objs') /\ work' = work
<1>1. \A a \in NewArgs \cup RegArgs \cup ElemArgs : a[1] \in Kinds /\ a[2] \in BOOLEAN BY ArgsAssumption
<1>2. CASE \E a \in NewArgs, p \in Pools : New(a[1], p, a[2]) BY <1>1, <1>2, NewStep
<1>3. CASE \E a \in RegArgs, p \in Pools : NewRegistered(a[1], p, a[2]) BY <1>1, <1>3, NewRegisteredStep
<1>4. CASE \E a \in ElemArgs, p \in Pools, c \in Objs : NewElement(c, a[1], p, a[2]) BY <1>1, <1>4, NewElementStep
<1>5. CASE \E o \in Objs : StrVec_push_back(o) BY <1>5, PushBackStep
<1>6. CASE \E from \in Objs, p \in Pools : StrVec_copy(from, p, TRUE) BY <1>6, CopyStep
<1>7. QED BY <1>2, <1>3, <1>4, <1>5, <1>6 DEF MakeObject

(***************************************************************************)
(* The records                                                             *)
(***************************************************************************)
RecordThere(rs, i) == i \in Recs /\ rs[i] # None

(* What a field with handler h of a record in pool p may hold. *)
Fits(ps, rs, p, h, x) ==
  x # None =>
    IF h = "CharPtr" THEN x \in Up(ps, p)
    ELSE RecordThere(rs, x) /\ rs[x].type = PtrTypes[h] /\ rs[x].pool \in Up(ps, p)

(* A record is in live memory, and so is, as long as it is there, what it  *)
(* points to.  A request is below a connection.                            *)
RecordSound(ps, rs, i) ==
  /\ rs[i].pool = pconf \/ \E j \in Recs : rs[i].pool = recordPool(j)
  /\ Alive(ps, rs[i].pool)
  /\ DOMAIN rs[i].val = Members(rs[i].type)
  /\ \A f \in Members(rs[i].type) : Fits(ps, rs, rs[i].pool, FieldHandlers[rs[i].type][f], rs[i].val[f])
  /\ rs[i].type = "request_rec" =>
       \E c \in Recs : RecordThere(rs, c) /\ rs[c].type = "conn_rec" /\ rs[c].pool \in Up(ps, rs[i].pool)

(* The pool made for a record goes with it, and the server's is pconf. *)
RecordsSound(ps, rs) ==
  /\ rs \in [Recs -> RecordTypes \cup {None}]
  /\ \A i \in Recs : RecordThere(rs, i) => RecordSound(ps, rs, i)
  /\ \A i \in Recs : Alive(ps, recordPool(i)) => RecordThere(rs, i) /\ rs[i].pool = recordPool(i)
  /\ Alive(ps, pconf) =>
       RecordThere(rs, TheServer) /\ rs[TheServer].type = "server_rec" /\ rs[TheServer].pool = pconf

WalkSound == walk # None => Idle /\ RecordThere(recs, walk) /\ recs[walk].type = "request_rec"

(* Pools stay as they are, and none is made for a record. *)
Stay(ps, ps2) == \A q \in Pools : Alive(ps, q) => Alive(ps2, q) /\ Up(ps2, q) = Up(ps, q)

NoneFor(ps, ps2, i) == Alive(ps2, recordPool(i)) => Alive(ps, recordPool(i))

OnlyOthers(ps, ps2) ==
  /\ Stay(ps, ps2)
  /\ Alive(ps2, pconf) => Alive(ps, pconf)
  /\ \A i \in Recs : NoneFor(ps, ps2, i)

(* What leads to a record leads to it after it changed. *)
Alike(rs, rs2) ==
  \A x \in Recs : RecordThere(rs, x) =>
    RecordThere(rs2, x) /\ rs2[x].type = rs[x].type /\ rs2[x].pool = rs[x].pool

LEMMA ServerIsRecord == TheServer \in Recs
BY BoundsAssumption DEF Recs, TheServer

LEMMA RecordFields ==
  ASSUME NEW rs \in [Recs -> RecordTypes \cup {None}], NEW i, RecordThere(rs, i)
  PROVE  /\ i \in Recs /\ rs[i] \in RecordTypes
         /\ rs[i].type \in Types /\ rs[i].pool \in Pools /\ rs[i].table \in TableTypes
<1>1. i \in Recs /\ rs[i] \in RecordTypes BY DEF RecordThere
<1>2. QED BY <1>1 DEF RecordTypes

LEMMA FitsOn ==
  ASSUME NEW ps, NEW rs, NEW ps2, NEW rs2, Stay(ps, ps2), Alike(rs, rs2),
         NEW p \in Pools, Alive(ps, p), NEW h, NEW x, Fits(ps, rs, p, h, x)
  PROVE  Fits(ps2, rs2, p, h, x)
<1>1. Up(ps2, p) = Up(ps, p) BY DEF Stay
<1>2. RecordThere(rs, x) => RecordThere(rs2, x) /\ rs2[x].type = rs[x].type /\ rs2[x].pool = rs[x].pool
  BY DEF Alike, RecordThere
<1>3. QED BY <1>1, <1>2 DEF Fits

LEMMA RecordOn ==
  ASSUME NEW ps, NEW rs, NEW ps2, NEW rs2, Stay(ps, ps2), Alike(rs, rs2),
         rs \in [Recs -> RecordTypes \cup {None}],
         NEW i, RecordThere(rs, i), RecordSound(ps, rs, i), rs2[i] = rs[i]
  PROVE  RecordSound(ps2, rs2, i)
<1>1. rs[i].pool \in Pools BY RecordFields
<1>2. Alive(ps, rs[i].pool) BY DEF RecordSound
<1>3. Alive(ps2, rs[i].pool) /\ Up(ps2, rs[i].pool) = Up(ps, rs[i].pool) BY <1>1, <1>2 DEF Stay
<1>4. \A f \in Members(rs[i].type) : Fits(ps2, rs2, rs[i].pool, FieldHandlers[rs[i].type][f], rs[i].val[f])
  BY <1>1, <1>2, FitsOn DEF RecordSound
<1>5. rs[i].type = "request_rec" =>
        \E c \in Recs : RecordThere(rs2, c) /\ rs2[c].type = "conn_rec" /\ rs2[c].pool \in Up(ps2, rs[i].pool)
  BY <1>3 DEF RecordSound, Alike
<1>6. QED BY <1>3, <1>4, <1>5 DEF RecordSound

LEMMA RecordsStay ==
  ASSUME NEW ps, NEW ps2, NEW rs, RecordsSound(ps, rs), OnlyOthers(ps, ps2)
  PROVE  RecordsSound(ps2, rs)
<1>1. Stay(ps, ps2) BY DEF OnlyOthers
<1>2. Alike(rs, rs) BY DEF Alike
<1>3. \A i \in Recs : RecordThere(rs, i) => RecordSound(ps2, rs, i) BY <1>1, <1>2, RecordOn DEF RecordsSound
<1>4. QED BY <1>3 DEF RecordsSound, OnlyOthers, NoneFor

(* A record is added, perhaps in a new pool, or changed. *)
LEMMA RecordPut ==
  ASSUME NEW ps, NEW ps2, NEW rs, NEW rs2, RecordsSound(ps, rs), Stay(ps, ps2),
         NEW n \in Recs, NEW r \in RecordTypes, rs2 = [rs EXCEPT ![n] = r],
         RecordThere(rs, n) => r.type = rs[n].type /\ r.pool = rs[n].pool,
         RecordSound(ps2, rs2, n),
         \A i \in Recs : i # n => NoneFor(ps, ps2, i),
         Alive(ps2, recordPool(n)) => r.pool = recordPool(n),
         Alive(ps2, pconf) => Alive(ps, pconf)
  PROVE  RecordsSound(ps2, rs2)
<1>1. rs \in [Recs -> RecordTypes \cup {None}] BY DEF RecordsSound
<1>2. r # None BY NoRecordAssumption
<1>3. rs2 \in [Recs -> RecordTypes \cup {None}] /\ rs2[n] = r /\ \A i \in Recs : i # n => rs2[i] = rs[i]
  BY <1>1
<1> HIDE DEF Recs
<1>4. RecordThere(rs2, n) BY <1>2, <1>3 DEF RecordThere
<1>5. Alike(rs, rs2) BY <1>3, <1>4 DEF Alike, RecordThere
<1>6. ASSUME NEW i \in Recs, RecordThere(rs2, i) PROVE RecordSound(ps2, rs2, i)
  <2>1. CASE i = n BY <2>1
  <2>2. CASE i # n
    <3>1. rs2[i] = rs[i] /\ RecordThere(rs, i) BY <2>2, <1>3, <1>6 DEF RecordThere
    <3>2. RecordSound(ps, rs, i) BY <3>1 DEF RecordsSound
    <3>3. QED BY <3>1, <3>2, <1>1, <1>5, RecordOn
  <2>3. QED BY <2>1, <2>2
<1>7. ASSUME NEW i \in Recs, Alive(ps2, recordPool(i)) PROVE RecordThere(rs2, i) /\ rs2[i].pool = recordPool(i)
  <2>1. CASE i = n BY <2>1, <1>3, <1>4, <1>7
  <2>2. CASE i # n
    <3>1. RecordThere(rs, i) /\ rs[i].pool = recordPool(i) BY <2>2, <1>7 DEF NoneFor, RecordsSound
    <3>2. QED BY <3>1, <1>5 DEF Alike
  <2>3. QED BY <2>1, <2>2
<1>8. ASSUME Alive(ps2, pconf)
      PROVE  RecordThere(rs2, TheServer) /\ rs2[TheServer].type = "server_rec" /\ rs2[TheServer].pool = pconf
  <2>1. RecordThere(rs, TheServer) /\ rs[TheServer].type = "server_rec" /\ rs[TheServer].pool = pconf
    BY <1>8 DEF RecordsSound
  <2>2. QED BY <2>1, <1>5, ServerIsRecord DEF Alike
<1>9. QED BY <1>3, <1>6, <1>7, <1>8 DEF RecordsSound

(* A pool goes, with its records. *)
RecordsOff(rs, p) == [i \in Recs |-> IF RecordThere(rs, i) /\ rs[i].pool = p THEN None ELSE rs[i]]

LEMMA RecordsFreed ==
  ASSUME NEW ps, NEW os, NEW w, Typed(ps, os, w), Tree(ps), NEW rs, RecordsSound(ps, rs),
         NEW p \in Pools, \A q \in Pools : Alive(ps, q) /\ q # p => p \notin Up(ps, q)
  PROVE  RecordsSound(Freed(ps, p), RecordsOff(rs, p))
<1>1. PICK ps2 : ps2 = Freed(ps, p) OBVIOUS
<1>2. PICK rs2 : rs2 = RecordsOff(rs, p) OBVIOUS
<1>3. \A q \in Pools : /\ Alive(ps2, q) <=> q # p /\ Alive(ps, q)
                       /\ q # p /\ Alive(ps, q) => Up(ps2, q) = Up(ps, q)
  BY <1>1, FreedPools
<1>4. rs \in [Recs -> RecordTypes \cup {None}] BY DEF RecordsSound
<1>5. \A i \in Recs : rs2[i] = IF RecordThere(rs, i) /\ rs[i].pool = p THEN None ELSE rs[i] BY <1>2 DEF RecordsOff
<1>6. rs2 \in [Recs -> RecordTypes \cup {None}]
  <2>1. \A i \in Recs : rs2[i] \in RecordTypes \cup {None} BY <1>4, <1>5
  <2>2. rs2 = [i \in Recs |-> rs2[i]] BY <1>2 DEF RecordsOff
  <2>3. QED BY <2>1, <2>2
<1>7. \A i : RecordThere(rs2, i) <=> RecordThere(rs, i) /\ rs[i].pool # p BY <1>5 DEF RecordThere
<1>8. \A i : RecordThere(rs2, i) => rs2[i] = rs[i] BY <1>5, <1>7 DEF RecordThere
<1>9. ASSUME NEW i \in Recs, RecordThere(rs2, i) PROVE RecordSound(ps2, rs2, i)
  <2>1. rs2[i] = rs[i] /\ RecordThere(rs, i) BY <1>7, <1>8, <1>9
  <2>2. PICK q \in Pools : q = rs[i].pool BY <2>1, <1>4, RecordFields
  <2>3. RecordSound(ps, rs, i) BY <2>1 DEF RecordsSound
  <2>4. q # p /\ Alive(ps, q)
    <3>1. q # p BY <2>2, <1>7, <1>9
    <3>2. QED BY <3>1, <2>2, <2>3 DEF RecordSound
  <2>5. p \notin Up(ps, q) /\ Alive(ps2, q) /\ Up(ps2, q) = Up(ps, q) BY <2>4, <1>3
  <2>6. \A x : RecordThere(rs, x) /\ rs[x].pool \in Up(ps, q) => RecordThere(rs2, x) /\ rs2[x] = rs[x]
    BY <2>5, <1>7, <1>8
  <2>7. ASSUME NEW f \in Members(rs[i].type) PROVE Fits(ps2, rs2, q, FieldHandlers[rs[i].type][f], rs[i].val[f])
    <3>1. Fits(ps, rs, q, FieldHandlers[rs[i].type][f], rs[i].val[f]) BY <2>2, <2>3 DEF RecordSound
    <3>2. QED BY <3>1, <2>5, <2>6 DEF Fits
  <2>8. rs[i].type = "request_rec" =>
          \E c \in Recs : RecordThere(rs2, c) /\ rs2[c].type = "conn_rec" /\ rs2[c].pool \in Up(ps2, q)
    BY <2>2, <2>3, <2>5, <2>6 DEF RecordSound
  <2>9. QED BY <2>1, <2>2, <2>3, <2>5, <2>7, <2>8 DEF RecordSound
<1>10. ASSUME NEW i \in Recs, Alive(ps2, recordPool(i))
       PROVE  RecordThere(rs2, i) /\ rs2[i].pool = recordPool(i)
  <2>1. recordPool(i) # p /\ Alive(ps, recordPool(i)) BY <1>3, <1>10, PoolNames
  <2>2. RecordThere(rs, i) /\ rs[i].pool = recordPool(i) BY <2>1 DEF RecordsSound
  <2>3. QED BY <2>1, <2>2, <1>7, <1>8
<1>11. ASSUME Alive(ps2, pconf)
       PROVE  RecordThere(rs2, TheServer) /\ rs2[TheServer].type = "server_rec" /\ rs2[TheServer].pool = pconf
  <2>1. pconf # p /\ Alive(ps, pconf) BY <1>3, <1>11, PoolNames
  <2>2. RecordThere(rs, TheServer) /\ rs[TheServer].type = "server_rec" /\ rs[TheServer].pool = pconf
    BY <2>1 DEF RecordsSound
  <2>3. QED BY <2>1, <2>2, <1>7, <1>8
<1>12. QED BY <1>1, <1>2, <1>6, <1>9, <1>10, <1>11 DEF RecordsSound

(* What a call does to the pools. *)
LEMMA PoolsOfStep ==
  ASSUME Sound(pools, objs, work), Step
  PROVE  \/ ~Frees /\ OnlyOthers(pools, pools')
         \/ \E p \in Pools : /\ Frees /\ Head(work)[2] = p /\ pools' = Freed(pools, p)
                             /\ \A q \in Pools : Alive(pools, q) /\ q # p => p \notin Up(pools, q)
<1>1. work \in Seq(Calls) /\ ~Idle BY DEF Sound, Standing, Typed, Step
<1>2. PICK x : x = Head(work)[2] OBVIOUS
<1>3. PICK rest : rest = Tail(work) OBVIOUS
<1>4. Stacked(work, Head(work), rest) BY <1>1, <1>2, <1>3, NextCall
<1>5. /\ Typed(pools, objs, work) /\ AllPlaced(pools, objs) /\ CleanupsSound(pools, objs, work)
      /\ CallsSound(pools, objs, work) /\ Ordered(work, MayStand(pools, objs))
  BY DEF Sound, Standing
<1>6. ASSUME NEW ps2, SamePools(pools, ps2) PROVE OnlyOthers(pools, ps2)
  BY <1>6, PoolNames DEF SamePools, OnlyOthers, Stay, NoneFor
<1>7. OnlyOthers(pools, pools) BY DEF OnlyOthers, Stay, NoneFor
<1>8. CASE Head(work)[1] = "delete" /\ Delete(x, rest)
  <2>1. ~Frees BY <1>8 DEF Frees
  <2>2. pools' = pools BY <1>8 DEF Delete
  <2>3. QED BY <2>1, <2>2, <1>7
<1>9. CASE Head(work)[1] = "~PoolAllocated" /\ PoolAllocatedDtor(x, rest)
  <2>1. ~Frees BY <1>9 DEF Frees
  <2>2. x \in Objs /\ Head(work) = DtorCall(x) BY <1>1, <1>2, <1>3, <1>9, NextCall
  <2>3. Made(objs, x) BY <2>2, <1>4, <1>5 DEF CallsSound, Stacked
  <2>4. pools' = Unregistered(pools, objs, x) BY <1>9 DEF PoolAllocatedDtor, Unregister, Unregistered
  <2>5. SamePools(pools, pools') BY <2>2, <2>3, <2>4, <1>5, UnregisteredPools
  <2>6. QED BY <2>1, <2>5, <1>6
<1>10. CASE Head(work)[1] = "clear" /\ clear(x, rest)
  <2>1. ~Frees BY <1>10 DEF Frees
  <2>2. pools' = pools BY <1>10 DEF clear
  <2>3. QED BY <2>1, <2>2, <1>7
<1>11. CASE Head(work)[1] = "apr_pool_destroy" /\ apr_pool_destroy(x, rest)
  <2>1. x \in Pools /\ Head(work) = PoolCall(x) BY <1>1, <1>2, <1>3, <1>11, NextCall
  <2>2. Alive(pools, x) BY <2>1, <1>4, <1>5 DEF CallsSound, Stacked, Going
  <2>3. CASE pools[x].cleanups # <<>>
    <3>1. ~Frees BY <2>3, <1>2 DEF Frees
    <3>2. pools' = CleanupGone(pools, x) BY <2>3, <1>11 DEF apr_pool_destroy, RunCleanup, CleanupGone
    <3>3. IsInjective(pools[x].cleanups) BY <2>1, <2>2, <1>5 DEF CleanupsSound
    <3>4. SamePools(pools, pools') BY <2>1, <2>2, <2>3, <3>2, <3>3, <1>5, CleanupGonePools
    <3>5. QED BY <3>1, <3>4, <1>6
  <2>4. CASE pools[x].cleanups = <<>> /\ pools[x].child # <<>>
    <3>1. ~Frees BY <2>4, <1>2 DEF Frees
    <3>2. pools' = pools BY <2>4, <1>11 DEF apr_pool_destroy, DestroyChild
    <3>3. QED BY <3>1, <3>2, <1>7
  <2>5. CASE pools[x].cleanups = <<>> /\ pools[x].child = <<>>
    <3>1. Frees BY <2>5, <1>1, <1>2, <1>11 DEF Frees
    <3>2. pools' = Freed(pools, x) BY <2>5, <1>11 DEF apr_pool_destroy, Free, Freed, Live, Alive
    <3>3. Standing(pools, objs, work) BY DEF Sound
    <3>4. \A q \in Pools : Alive(pools, q) /\ q # x => x \notin Up(pools, q)
      BY <2>1, <2>5, <3>3, <1>4, FreesNoManaged
    <3>5. QED BY <2>1, <3>1, <3>2, <3>4, <1>2
  <2>6. QED BY <2>3, <2>4, <2>5
<1>12. QED BY <1>2, <1>3, <1>8, <1>9, <1>10, <1>11 DEF Step

LEMMA RecordsOfStep ==
  ASSUME Sound(pools, objs, work), RecordsSound(pools, recs), Step, RecordsGo
  PROVE  RecordsSound(pools', recs')
<1>1. CASE ~Frees /\ OnlyOthers(pools, pools')
  <2>1. recs' = recs BY <1>1 DEF RecordsGo
  <2>2. QED BY <2>1, <1>1, RecordsStay
<1>2. ASSUME NEW p \in Pools, Frees, Head(work)[2] = p, pools' = Freed(pools, p),
             \A q \in Pools : Alive(pools, q) /\ q # p => p \notin Up(pools, q)
      PROVE  RecordsSound(pools', recs')
  <2>1. recs' = RecordsOff(recs, p) BY <1>2 DEF RecordsGo, RecordsOff, There, RecordThere
  <2>2. Typed(pools, objs, work) /\ Tree(pools) BY DEF Sound, Standing
  <2>3. QED BY <2>1, <2>2, <1>2, RecordsFreed
<1>3. QED BY <1>1, <1>2, PoolsOfStep

LEMMA NewOthers ==
  ASSUME NEW ps, NEW ps2, NEW o \in Objs, NEW k, NEW p, NEW u, NewPoolsSound(ps, ps2, o, k, p, u)
  PROVE  OnlyOthers(ps, ps2)
<1>1. Stay(ps, ps2) BY DEF NewPoolsSound, Grows, Stay
<1>2. \A q \in Pools : Alive(ps2, q) => Alive(ps, q) \/ q = subPool(o) \/ q = tmpPool(o) BY DEF NewPoolsSound
<1>3. pconf # subPool(o) /\ pconf # tmpPool(o) /\ pconf \in Pools BY PoolNames
<1>4. \A i \in Recs : recordPool(i) \in Pools /\ recordPool(i) # subPool(o) /\ recordPool(i) # tmpPool(o) BY PoolNames
<1>5. QED BY <1>1, <1>2, <1>3, <1>4 DEF OnlyOthers, NoneFor

LEMMA OthersOfNew ==
  ASSUME IdleSound(pools, objs), NEW k, NEW p \in Pools, NEW u \in BOOLEAN, CanMake(p),
         NEW o, o = Fresh(objs)
  PROVE  /\ OnlyOthers(pools, PoolsOfNew(o, k, p, u))
         /\ PoolsOfNew(o, k, p, u) \in [Pools -> PoolTypes \cup {None}]
         /\ objPool(o, p, u) \in Pools /\ Alive(PoolsOfNew(o, k, p, u), objPool(o, p, u))
<1>1. o \in Objs /\ ~Made(objs, o) BY FreshObject DEF CanMake
<1>2. Alive(pools, p) BY DEF CanMake, Live, Alive
<1>3. ~Alive(pools, subPool(o)) /\ ~Alive(pools, tmpPool(o)) BY <1>1, FreshNumber
<1>4. Typed(pools, objs, <<>>) /\ Tree(pools) BY DEF IdleSound
<1>5. PICK ps2 : ps2 = NewPools(pools, o, k, p, u) OBVIOUS
<1>6. NewPoolsSound(pools, ps2, o, k, p, u) BY <1>1, <1>2, <1>3, <1>4, <1>5, NewPoolsMade
<1>7. OnlyOthers(pools, ps2) /\ ps2 \in [Pools -> PoolTypes \cup {None}]
  <2>1. OnlyOthers(pools, ps2) BY <1>1, <1>6, NewOthers
  <2>2. QED BY <2>1, <1>6 DEF NewPoolsSound
<1>8. objPool(o, p, u) \in Pools /\ Alive(ps2, objPool(o, p, u))
  <2>1. subPool(o) \in Pools BY <1>1, PoolNames
  <2>2. QED BY <2>1, <1>2, <1>6 DEF NewPoolsSound, objPool
<1>9. QED BY <1>5, <1>7, <1>8, PoolsOfNewObject

LEMMA RegisterOthers ==
  ASSUME NEW ps \in [Pools -> PoolTypes \cup {None}], NEW p \in Pools, Alive(ps, p), NEW o \in Objs,
         NEW ps2, ps2 = apr_pool_pre_cleanup_register(ps, p, o)
  PROVE  OnlyOthers(ps, ps2)
<1>1. ps[p] \in PoolTypes /\ ps[p].cleanups \in Seq(Objs) BY DEF Alive, PoolTypes
<1>2. PICK t : t = Cat(<<o>>, ps[p].cleanups) OBVIOUS
<1>3. t \in Seq(Objs) BY <1>1, <1>2, ConsSeq
<1>4. PICK r : r = [ps[p] EXCEPT !.cleanups = t] OBVIOUS
<1>5. r \in PoolTypes /\ r.above = ps[p].above BY <1>1, <1>3, <1>4 DEF PoolTypes
<1>6. r # None BY <1>5, NoNone
<1>7. ps2 = [ps EXCEPT ![p] = r] BY <1>2, <1>4 DEF apr_pool_pre_cleanup_register, Cat
<1>8. ps2[p] = r /\ \A q \in Pools : q # p => ps2[q] = ps[q] BY <1>7
<1>9. ASSUME NEW q \in Pools PROVE (Alive(ps2, q) <=> Alive(ps, q)) /\ Up(ps2, q) = Up(ps, q)
  <2>1. CASE q = p BY <2>1, <1>5, <1>6, <1>8 DEF Alive, Up
  <2>2. CASE q # p BY <2>2, <1>8 DEF Alive, Up
  <2>3. QED BY <2>1, <2>2
<1>10. QED BY <1>9, PoolNames DEF OnlyOthers, Stay, NoneFor

LEMMA OthersOn ==
  ASSUME NEW ps, NEW ps1, NEW ps2, OnlyOthers(ps, ps1), OnlyOthers(ps1, ps2)
  PROVE  OnlyOthers(ps, ps2)
BY DEF OnlyOthers, Stay, NoneFor

LEMMA OthersOfMake == ASSUME IdleSound(pools, objs), MakeObject PROVE OnlyOthers(pools, pools')
<1>1. \A a \in NewArgs \cup RegArgs \cup ElemArgs : a[2] \in BOOLEAN BY ArgsAssumption
<1>2. PICK o : o = Fresh(objs) OBVIOUS
<1>3. ASSUME NEW k, NEW p \in Pools, NEW u \in BOOLEAN, CanMake(p) PROVE OnlyOthers(pools, PoolsOfNew(o, k, p, u))
  BY <1>2, <1>3, OthersOfNew
<1>4. CASE \E a \in NewArgs, p \in Pools : New(a[1], p, a[2]) BY <1>1, <1>2, <1>3, <1>4 DEF New
<1>5. ASSUME NEW a \in RegArgs, NEW p \in Pools, NewRegistered(a[1], p, a[2]) PROVE OnlyOthers(pools, pools')
  <2>1. CanMake(p) BY <1>5 DEF NewRegistered
  <2>2. o \in Objs BY <2>1, <1>2, FreshObject DEF CanMake
  <2>3. PICK ps : ps = PoolsOfNew(o, a[1], p, a[2]) OBVIOUS
  <2>4. PICK q : q = objPool(o, p, a[2]) OBVIOUS
  <2>5. OnlyOthers(pools, ps) /\ ps \in [Pools -> PoolTypes \cup {None}] /\ q \in Pools /\ Alive(ps, q)
    BY <2>1, <2>3, <2>4, <1>1, <1>2, OthersOfNew
  <2>6. pools' = apr_pool_pre_cleanup_register(ps, q, o) BY <2>3, <2>4, <1>2, <1>5 DEF NewRegistered
  <2>7. OnlyOthers(ps, pools') BY <2>2, <2>5, <2>6, RegisterOthers
  <2>8. QED BY <2>5, <2>7, OthersOn
<1>6. CASE \E a \in ElemArgs, p \in Pools, c \in Objs : NewElement(c, a[1], p, a[2])
  BY <1>1, <1>2, <1>3, <1>6 DEF NewElement
<1>7. CASE \E x \in Objs : StrVec_push_back(x)
  BY <1>7 DEF StrVec_push_back, OnlyOthers, Stay, NoneFor
<1>8. CASE \E from \in Objs, p \in Pools : StrVec_copy(from, p, TRUE) BY <1>2, <1>3, <1>8 DEF StrVec_copy
<1>9. QED BY <1>4, <1>5, <1>6, <1>7, <1>8 DEF MakeObject

(***************************************************************************)
(* New records                                                             *)
(***************************************************************************)
LEMMA RecordMade ==
  ASSUME NEW type \in Types, NEW p \in Pools, NEW vals,
         \A f \in DOMAIN vals : vals[f] \in Pools \cup Recs \cup {None},
         NEW r, r = Record(type, p, vals)
  PROVE  /\ r \in RecordTypes /\ r.type = type /\ r.pool = p
         /\ DOMAIN r.val = Members(type)
         /\ \A f \in Members(type) : r.val[f] = IF f \in DOMAIN vals THEN vals[f] ELSE None
<1>1. PICK v : v = [f \in Members(type) |-> IF f \in DOMAIN vals THEN vals[f] ELSE None] OBVIOUS
<1>2. v \in [Members(type) -> Pools \cup Recs \cup {None}] BY <1>1
<1>3. r = [type |-> type, pool |-> p, table |-> <<>>, val |-> v] BY <1>1 DEF Record
<1>4. <<>> \in TableTypes BY NoneIn DEF TableTypes
<1>5. v \in UNION {[Members(t) -> Pools \cup Recs \cup {None}] : t \in Types} BY <1>2
<1>6. r \in RecordTypes BY <1>3, <1>4, <1>5 DEF RecordTypes
<1>7. QED BY <1>1, <1>3, <1>6

(* A pool for record n or none is made. *)
PoolFor(ps, ps2, n, p) ==
  /\ Stay(ps, ps2)
  /\ p \in Pools /\ Alive(ps2, p)
  /\ p = pconf \/ \E j \in Recs : p = recordPool(j)
  /\ \A i \in Recs : i # n => NoneFor(ps, ps2, i)
  /\ Alive(ps2, recordPool(n)) => p = recordPool(n)
  /\ Alive(ps2, pconf) => Alive(ps, pconf)

(* A record that can be added in pool p. *)
FitsIn(ps, rs, type, p, vals) ==
  /\ type \in Types
  /\ DOMAIN vals \subseteq Members(type)
  /\ \A f \in DOMAIN vals : Fits(ps, rs, p, FieldHandlers[type][f], vals[f])
  /\ type = "request_rec" =>
       \E c \in Recs : RecordThere(rs, c) /\ rs[c].type = "conn_rec" /\ rs[c].pool \in Up(ps, p)

Added(ps, rs, rs2, n, type, p) ==
  /\ RecordsSound(ps, rs2)
  /\ RecordThere(rs2, n) /\ rs2[n].type = type /\ rs2[n].pool = p
  /\ \A i \in Recs : i # n => rs2[i] = rs[i]

LEMMA RecordsAdd ==
  ASSUME NEW ps, NEW ps2, NEW rs, NEW rs2, RecordsSound(ps, rs), NEW os, NEW w, Typed(ps2, os, w),
         NEW n \in Recs, ~RecordThere(rs, n), NEW p, PoolFor(ps, ps2, n, p),
         NEW type, NEW vals, FitsIn(ps2, rs, type, p, vals),
         rs2 = [rs EXCEPT ![n] = Record(type, p, vals)]
  PROVE  Added(ps2, rs, rs2, n, type, p)
<1>1. p \in Pools /\ Alive(ps2, p) /\ Stay(ps, ps2) /\ type \in Types BY DEF PoolFor, FitsIn
<1>2. PICK r : r = Record(type, p, vals) OBVIOUS
<1>3. rs \in [Recs -> RecordTypes \cup {None}] BY DEF RecordsSound
<1>4. Up(ps2, p) \subseteq Pools BY <1>1, TypedPools
<1>5. \A f \in DOMAIN vals : vals[f] \in Pools \cup Recs \cup {None} BY <1>4 DEF FitsIn, Fits, RecordThere
<1>6. /\ r \in RecordTypes /\ r.type = type /\ r.pool = p
      /\ DOMAIN r.val = Members(type)
      /\ \A f \in Members(type) : r.val[f] = IF f \in DOMAIN vals THEN vals[f] ELSE None
  BY <1>1, <1>2, <1>5, RecordMade
<1>7. r # None BY <1>6, NoRecordAssumption
<1>8. rs2 = [rs EXCEPT ![n] = r] BY <1>2
<1> HIDE DEF Recs
<1>9. rs2[n] = r /\ RecordThere(rs2, n) /\ \A i \in Recs : i # n => rs2[i] = rs[i]
  BY <1>3, <1>7, <1>8 DEF RecordThere
<1>10. Alike(rs, rs2) BY <1>9 DEF Alike, RecordThere
<1>11. Stay(ps2, ps2) BY DEF Stay
<1>12. RecordSound(ps2, rs2, n)
  <2>1. ASSUME NEW f \in Members(type) PROVE Fits(ps2, rs2, p, FieldHandlers[type][f], r.val[f])
    <3>1. CASE f \in DOMAIN vals
      <4>1. r.val[f] = vals[f] BY <3>1, <1>6
      <4>2. Fits(ps2, rs, p, FieldHandlers[type][f], vals[f]) BY <3>1 DEF FitsIn
      <4>3. QED BY <4>1, <4>2, <1>1, <1>10, <1>11, FitsOn
    <3>2. CASE f \notin DOMAIN vals
      <4>1. r.val[f] = None BY <3>2, <1>6
      <4>2. QED BY <4>1 DEF Fits
    <3>3. QED BY <3>1, <3>2
  <2>2. type = "request_rec" =>
          \E c \in Recs : RecordThere(rs2, c) /\ rs2[c].type = "conn_rec" /\ rs2[c].pool \in Up(ps2, p)
    BY <1>10 DEF FitsIn, Alike
  <2>3. QED BY <2>1, <2>2, <1>6, <1>9 DEF PoolFor, RecordSound
<1>13. RecordsSound(ps2, rs2)
  <2>1. Alive(ps2, recordPool(n)) => r.pool = recordPool(n) BY <1>6 DEF PoolFor
  <2>2. (\A i \in Recs : i # n => NoneFor(ps, ps2, i)) /\ (Alive(ps2, pconf) => Alive(ps, pconf)) BY DEF PoolFor
  <2>3. r \in RecordTypes BY <1>6
  <2>4. RecordThere(rs, n) => r.type = rs[n].type /\ r.pool = rs[n].pool OBVIOUS
  <2>5. Stay(ps, ps2) BY <1>1
  <2>6. \A i \in Recs : i # n => NoneFor(ps, ps2, i) BY <2>2
  <2>7. Alive(ps2, pconf) => Alive(ps, pconf) BY <2>2
  <2>8. QED BY <2>1, <2>3, <2>4, <2>5, <2>6, <2>7, <1>8, <1>12, RecordPut
<1>14. QED BY <1>6, <1>9, <1>13 DEF Added

LEMMA FreshRecord ==
  ASSUME NEW rs \in [Recs -> RecordTypes \cup {None}], Unused(rs) # {}, NEW n, n = Fresh(rs)
  PROVE  n \in Recs /\ ~RecordThere(rs, n)
<1>1. DOMAIN rs = Recs OBVIOUS
<1>2. Recs \subseteq Nat BY BoundsAssumption DEF Recs
<1>3. n \in Unused(rs) BY <1>1, <1>2, FreshIsUnused
<1>4. QED BY <1>1, <1>3 DEF Unused, RecordThere

(* The pool made for a new record. *)
LEMMA NewRecordPool ==
  ASSUME NEW ps, NEW os, IdleSound(ps, os), NEW rs, RecordsSound(ps, rs),
         NEW n \in Recs, ~RecordThere(rs, n), NEW parent \in Pools, Alive(ps, parent),
         NEW p, p = recordPool(n), NEW ps2, ps2 = apr_pool_create(ps, p, parent)
  PROVE  /\ IdleSound(ps2, os) /\ PoolFor(ps, ps2, n, p)
         /\ Up(ps2, p) = {p} \cup Up(ps, parent)
<1>1. p \in Pools /\ p # pconf /\ \A i \in Recs : recordPool(i) \in Pools /\ (i # n => recordPool(i) # p)
  BY PoolNames
<1>2. ~Alive(ps, p) BY DEF RecordsSound
<1>3. IdleSound(ps2, os) BY <1>2, RecordPoolSound
<1>4. Grows(ps, ps2) /\ NewBelow(ps, ps2, p, parent) BY <1>1, <1>2, TreeCreate DEF IdleSound
<1>5. \A q \in Pools : Alive(ps2, q) <=> q = p \/ Alive(ps, q) BY <1>4 DEF NewBelow
<1>6. Up(ps2, p) = {p} \cup Up(ps, parent) BY <1>4 DEF NewBelow
<1>7. Stay(ps, ps2) BY <1>4 DEF Grows, Stay
<1>8. pconf \in Pools BY PoolNames
<1>9. QED BY <1>1, <1>3, <1>5, <1>6, <1>7, <1>8 DEF NoneFor, PoolFor

LEMMA MemberNames ==
  /\ Members("request_rec") = {"uri", "main", "connection", "server"}
  /\ Members("conn_rec") = {"remote_host", "client_addr"}
  /\ Members("server_rec") = {"server_hostname", "next"}
  /\ Members("apr_sockaddr_t") = {"hostname", "next"}
BY DEF Members, FieldHandlers, RequestFields, ConnFields, ServerFields, SockAddrFields

LEMMA AcceptSound ==
  ASSUME IdleSound(pools, objs), RecordsSound(pools, recs), Accept
  PROVE  IdleSound(pools', objs') /\ RecordsSound(pools', recs')
<1>1. PICK a : a = Fresh(recs) OBVIOUS
<1>2. PICK p : p = recordPool(a) OBVIOUS
<1>3. recs \in [Recs -> RecordTypes \cup {None}] BY DEF RecordsSound
<1>4. Cardinality(Unused(recs)) >= 2 BY DEF Accept
<1>5. Unused(recs) # {} BY <1>4, FS_EmptySet
<1>6. a \in Recs /\ ~RecordThere(recs, a) BY <1>1, <1>3, <1>5, FreshRecord
<1>7. pconf \in Pools /\ Alive(pools, pconf) BY PoolNames DEF Accept, Live, Alive
<1>8. pools' = apr_pool_create(pools, p, pconf) /\ objs' = objs BY <1>1, <1>2 DEF Accept, InNewPool
<1>9. /\ IdleSound(pools', objs) /\ PoolFor(pools, pools', a, p)
      /\ Up(pools', p) = {p} \cup Up(pools, pconf)
  BY <1>2, <1>6, <1>7, <1>8, NewRecordPool
<1>10. Typed(pools', objs, <<>>) BY <1>9 DEF IdleSound
<1>11. p \in Up(pools', p) BY <1>9
<1>12. PICK av : av = [hostname |-> p] OBVIOUS
<1>13. PICK rs : rs = [recs EXCEPT ![a] = Record("apr_sockaddr_t", p, av)] OBVIOUS
<1>14. rs = AddRecord(recs, Record("apr_sockaddr_t", p, av)) BY <1>1, <1>13 DEF AddRecord
<1>15. /\ RecordsSound(pools', rs)
       /\ RecordThere(rs, a) /\ rs[a].type = "apr_sockaddr_t" /\ rs[a].pool = p
       /\ \A i \in Recs : i # a => rs[i] = recs[i]
  <2>1. "apr_sockaddr_t" \in Types /\ "apr_sockaddr_t" # "request_rec" BY DEF Types
  <2>2. DOMAIN av = {"hostname"} /\ av["hostname"] = p BY <1>12
  <2>3. DOMAIN av \subseteq Members("apr_sockaddr_t") BY <2>2, MemberNames
  <2>4. Fits(pools', recs, p, FieldHandlers["apr_sockaddr_t"]["hostname"], p)
    <3>1. FieldHandlers["apr_sockaddr_t"]["hostname"] = "CharPtr" BY DEF FieldHandlers, SockAddrFields
    <3>2. QED BY <3>1, <1>11 DEF Fits
  <2>5. \A f \in DOMAIN av : Fits(pools', recs, p, FieldHandlers["apr_sockaddr_t"][f], av[f]) BY <2>2, <2>4
  <2>6. FitsIn(pools', recs, "apr_sockaddr_t", p, av) BY <2>1, <2>3, <2>5 DEF FitsIn
  <2>7. PoolFor(pools, pools', a, p) BY <1>9
  <2>8. Added(pools', recs, rs, a, "apr_sockaddr_t", p) BY <2>6, <2>7, <1>6, <1>10, <1>13, RecordsAdd, Zenon
  <2>9. QED BY <2>8 DEF Added
<1>16. PICK b : b = Fresh(rs) OBVIOUS
<1>17. rs \in [Recs -> RecordTypes \cup {None}] BY <1>15 DEF RecordsSound
<1>18. Unused(rs) # {}
  <2>1. SUFFICES ASSUME Unused(rs) = {} PROVE FALSE OBVIOUS
  <2>2. DOMAIN rs = Recs /\ DOMAIN recs = Recs BY <1>3, <1>17
  <2>3. Unused(recs) \subseteq {a} BY <2>1, <2>2, <1>15 DEF Unused
  <2>4. IsFiniteSet({a}) /\ Cardinality({a}) = 1 BY FS_Singleton
  <2>5. Cardinality(Unused(recs)) <= 1 /\ Cardinality(Unused(recs)) \in Nat
    BY <2>3, <2>4, FS_Subset, FS_CardinalityType
  <2>6. QED BY <2>5, <1>4
<1>19. b \in Recs /\ ~RecordThere(rs, b) BY <1>16, <1>17, <1>18, FreshRecord
<1>20. PICK bv : bv = [remote_host |-> p, client_addr |-> a] OBVIOUS
<1>21. recs' = [rs EXCEPT ![b] = Record("conn_rec", p, bv)]
  <2>1. recs' = AddRecord(AddRecord(recs, Record("apr_sockaddr_t", p, [hostname |-> p])),
                          Record("conn_rec", p, [remote_host |-> p, client_addr |-> a]))
    BY <1>1, <1>2 DEF Accept
  <2>2. recs' = AddRecord(rs, Record("conn_rec", p, bv)) BY <2>1, <1>12, <1>14, <1>20
  <2>3. QED BY <2>2, <1>16 DEF AddRecord
<1>22. RecordsSound(pools', recs')
  <2>1. "conn_rec" \in Types /\ "conn_rec" # "request_rec" BY DEF Types
  <2>2. DOMAIN bv = {"remote_host", "client_addr"} /\ bv["remote_host"] = p /\ bv["client_addr"] = a BY <1>20
  <2>3. DOMAIN bv \subseteq Members("conn_rec") BY <2>2, MemberNames
  <2>4. Fits(pools', rs, p, FieldHandlers["conn_rec"]["remote_host"], p)
    <3>1. FieldHandlers["conn_rec"]["remote_host"] = "CharPtr" BY DEF FieldHandlers, ConnFields
    <3>2. QED BY <3>1, <1>11 DEF Fits
  <2>5. Fits(pools', rs, p, FieldHandlers["conn_rec"]["client_addr"], a)
    <3>1. FieldHandlers["conn_rec"]["client_addr"] = "SockAddr" BY DEF FieldHandlers, ConnFields
    <3>2. PtrTypes["SockAddr"] = "apr_sockaddr_t" BY DEF PtrTypes
    <3>3. QED BY <3>1, <3>2, <1>11, <1>15 DEF Fits
  <2>6. \A f \in DOMAIN bv : Fits(pools', rs, p, FieldHandlers["conn_rec"][f], bv[f]) BY <2>2, <2>4, <2>5
  <2>7. FitsIn(pools', rs, "conn_rec", p, bv) BY <2>1, <2>3, <2>6 DEF FitsIn
  <2>8. PoolFor(pools', pools', b, p)
    <3>1. ~Alive(pools', recordPool(b)) BY <1>15, <1>19 DEF RecordsSound
    <3>2. QED BY <3>1, <1>9 DEF PoolFor, Stay, NoneFor
  <2>9. RecordsSound(pools', rs) BY <1>15
  <2>10. Added(pools', rs, recs', b, "conn_rec", p) BY <2>7, <2>8, <2>9, <1>10, <1>19, <1>21, RecordsAdd, Zenon
  <2>11. QED BY <2>10 DEF Added
<1>23. QED BY <1>8, <1>9, <1>22

(* The fields of a new request. *)
RequestVals(p, c, m) == [uri |-> p, connection |-> c, server |-> TheServer, main |-> m]

Connects(ps, rs, c, p) == RecordThere(rs, c) /\ rs[c].type = "conn_rec" /\ rs[c].pool \in Up(ps, p)

Mains(ps, rs, m, p) == m # None => RecordThere(rs, m) /\ rs[m].type = "request_rec" /\ rs[m].pool \in Up(ps, p)

LEMMA RequestFits ==
  ASSUME NEW ps, NEW rs, NEW p \in Pools, Tree(ps), Alive(ps, p),
         RecordThere(rs, TheServer), rs[TheServer].type = "server_rec", rs[TheServer].pool = pconf,
         NEW c, Connects(ps, rs, c, p), NEW m, Mains(ps, rs, m, p)
  PROVE  FitsIn(ps, rs, "request_rec", p, RequestVals(p, c, m))
<1>1. p \in Up(ps, p) /\ pconf \in Up(ps, p) BY TreeSelf
<1>2. PICK v : v = RequestVals(p, c, m) OBVIOUS
<1>3. /\ DOMAIN v = {"uri", "connection", "server", "main"}
      /\ v["uri"] = p /\ v["connection"] = c /\ v["server"] = TheServer /\ v["main"] = m
  BY <1>2 DEF RequestVals
<1>4. /\ FieldHandlers["request_rec"]["uri"] = "CharPtr"
      /\ FieldHandlers["request_rec"]["connection"] = "ConnRec" /\ PtrTypes["ConnRec"] = "conn_rec"
      /\ FieldHandlers["request_rec"]["server"] = "ServerRec" /\ PtrTypes["ServerRec"] = "server_rec"
      /\ FieldHandlers["request_rec"]["main"] = "RequestRec" /\ PtrTypes["RequestRec"] = "request_rec"
  BY DEF FieldHandlers, RequestFields, PtrTypes
<1>5. Fits(ps, rs, p, FieldHandlers["request_rec"]["uri"], v["uri"]) BY <1>1, <1>3, <1>4 DEF Fits
<1>6. Fits(ps, rs, p, FieldHandlers["request_rec"]["connection"], v["connection"])
  BY <1>3, <1>4 DEF Fits, Connects
<1>7. Fits(ps, rs, p, FieldHandlers["request_rec"]["server"], v["server"]) BY <1>1, <1>3, <1>4 DEF Fits
<1>8. Fits(ps, rs, p, FieldHandlers["request_rec"]["main"], v["main"]) BY <1>3, <1>4 DEF Fits, Mains
<1>9. \A f \in DOMAIN v : Fits(ps, rs, p, FieldHandlers["request_rec"][f], v[f])
  BY <1>3, <1>5, <1>6, <1>7, <1>8
<1>10. "request_rec" \in Types BY DEF Types
<1>11. DOMAIN v \subseteq Members("request_rec") BY <1>3, MemberNames
<1>12. \E d \in Recs : RecordThere(rs, d) /\ rs[d].type = "conn_rec" /\ rs[d].pool \in Up(ps, p)
  BY DEF Connects, RecordThere
<1>13. FitsIn(ps, rs, "request_rec", p, v) BY <1>9, <1>10, <1>11, <1>12 DEF FitsIn
<1>14. QED BY <1>2, <1>13

LEMMA ServerThere ==
  ASSUME NEW ps, Tree(ps), NEW rs, RecordsSound(ps, rs), NEW p \in Pools, Alive(ps, p)
  PROVE  RecordThere(rs, TheServer) /\ rs[TheServer].type = "server_rec" /\ rs[TheServer].pool = pconf
<1>1. pconf \in Up(ps, p) BY TreeSelf
<1>2. Alive(ps, pconf) BY <1>1 DEF Tree
<1>3. QED BY <1>2 DEF RecordsSound

LEMMA OwnPoolRequest ==
  ASSUME IdleSound(pools, objs), RecordsSound(pools, recs),
         NEW parent \in Pools, Alive(pools, parent),
         NEW c, Connects(pools, recs, c, parent), NEW m, Mains(pools, recs, m, parent), InOwnPool(parent, c, m)
  PROVE  IdleSound(pools', objs') /\ RecordsSound(pools', recs')
<1>1. PICK n : n = Fresh(recs) OBVIOUS
<1>2. PICK p : p = recordPool(n) OBVIOUS
<1>3. recs \in [Recs -> RecordTypes \cup {None}] BY DEF RecordsSound
<1>4. n \in Recs /\ ~RecordThere(recs, n) BY <1>1, <1>3, FreshRecord DEF InOwnPool
<1>5. PICK ps : ps = pools' OBVIOUS
<1>6. ps = apr_pool_create(pools, p, parent) /\ objs' = objs BY <1>1, <1>2, <1>5 DEF InOwnPool, InNewPool
<1>7. IdleSound(ps, objs) /\ PoolFor(pools, ps, n, p) /\ Up(ps, p) = {p} \cup Up(pools, parent)
  BY <1>2, <1>4, <1>6, NewRecordPool
<1>8. p \in Pools /\ Alive(ps, p) BY <1>7 DEF PoolFor
<1>9. Tree(ps) /\ Typed(ps, objs, <<>>) /\ Tree(pools) BY <1>7 DEF IdleSound
<1>10. RecordThere(recs, TheServer) /\ recs[TheServer].type = "server_rec" /\ recs[TheServer].pool = pconf
  BY <1>9, ServerThere
<1>11. Connects(ps, recs, c, p) /\ Mains(ps, recs, m, p) BY <1>7 DEF Connects, Mains
<1>12. FitsIn(ps, recs, "request_rec", p, RequestVals(p, c, m)) BY <1>8, <1>9, <1>10, <1>11, RequestFits
<1>13. recs' = [recs EXCEPT ![n] = Record("request_rec", p, RequestVals(p, c, m))]
  BY <1>1, <1>2 DEF InOwnPool, AddRequest, AddRecord, RequestVals
<1>14. Added(ps, recs, recs', n, "request_rec", p)
  BY <1>4, <1>7, <1>9, <1>12, <1>13, RecordsAdd, Zenon
<1>15. QED BY <1>5, <1>6, <1>7, <1>14 DEF Added

LEMMA ConnThere ==
  ASSUME RecordsSound(pools, recs), NEW r, RecordThere(recs, r), recs[r].type = "request_rec"
  PROVE  Connects(pools, recs, ConnOf(recs[r].pool), recs[r].pool)
<1>1. PICK p : p = recs[r].pool OBVIOUS
<1>2. r \in Recs /\ RecordSound(pools, recs, r) BY DEF RecordsSound, RecordThere
<1>3. PICK c \in Recs : RecordThere(recs, c) /\ recs[c].type = "conn_rec" /\ recs[c].pool \in Up(pools, p)
  BY <1>1, <1>2 DEF RecordSound
<1>4. c \in LiveOf("conn_rec") BY <1>3 DEF LiveOf, There, RecordThere
<1>5. recs[c].pool \in pools[p].above BY <1>3 DEF Up
<1>6. \E d : d \in LiveOf("conn_rec") /\ recs[d].pool \in pools[p].above BY <1>4, <1>5
<1>7. PICK d : d = ConnOf(p) OBVIOUS
<1>8. d \in LiveOf("conn_rec") /\ recs[d].pool \in pools[p].above BY <1>6, <1>7 DEF ConnOf
<1>9. Connects(pools, recs, d, p) BY <1>8 DEF Connects, LiveOf, There, RecordThere, Up
<1>10. QED BY <1>1, <1>7, <1>9

(* The pool of a record. *)
LEMMA RecordPoolUp ==
  ASSUME NEW ps, Tree(ps), NEW rs, RecordsSound(ps, rs), NEW r, RecordThere(rs, r)
  PROVE  /\ r \in Recs /\ RecordSound(ps, rs, r)
         /\ rs[r].pool \in Pools /\ Alive(ps, rs[r].pool) /\ rs[r].pool \in Up(ps, rs[r].pool)
<1>1. r \in Recs /\ RecordSound(ps, rs, r) BY DEF RecordsSound, RecordThere
<1>2. rs[r].pool \in Pools /\ Alive(ps, rs[r].pool)
  <2>1. rs[r].pool \in Pools BY RecordFields DEF RecordsSound
  <2>2. QED BY <2>1, <1>1 DEF RecordSound
<1>3. QED BY <1>1, <1>2, TreeSelf

LEMMA ReadRequestSound ==
  ASSUME IdleSound(pools, objs), RecordsSound(pools, recs), NEW c \in LiveOf("conn_rec"), ReadRequest(c)
  PROVE  IdleSound(pools', objs') /\ RecordsSound(pools', recs')
<1>1. RecordThere(recs, c) /\ recs[c].type = "conn_rec" BY DEF LiveOf, There, RecordThere
<1>2. PICK p : p = recs[c].pool OBVIOUS
<1>3. p \in Pools /\ Alive(pools, p) /\ p \in Up(pools, p) BY <1>1, <1>2, RecordPoolUp DEF IdleSound
<1>4. Connects(pools, recs, c, p) /\ Mains(pools, recs, None, p) BY <1>1, <1>2, <1>3 DEF Connects, Mains
<1>5. InOwnPool(p, c, None) BY <1>2 DEF ReadRequest
<1>6. QED BY <1>3, <1>4, <1>5, OwnPoolRequest

LEMMA SubrequestSound ==
  ASSUME IdleSound(pools, objs), RecordsSound(pools, recs), NEW r \in LiveOf("request_rec"), Subrequest(r)
  PROVE  IdleSound(pools', objs') /\ RecordsSound(pools', recs')
<1>1. RecordThere(recs, r) /\ recs[r].type = "request_rec" BY DEF LiveOf, There, RecordThere
<1>2. PICK p : p = recs[r].pool OBVIOUS
<1>3. p \in Pools /\ Alive(pools, p) /\ p \in Up(pools, p) BY <1>1, <1>2, RecordPoolUp DEF IdleSound
<1>4. PICK c : c = ConnOf(p) OBVIOUS
<1>5. Connects(pools, recs, c, p) BY <1>1, <1>2, <1>4, ConnThere
<1>6. Mains(pools, recs, r, p) BY <1>1, <1>2, <1>3 DEF Mains
<1>7. InOwnPool(p, c, r) BY <1>2, <1>4 DEF Subrequest
<1>8. QED BY <1>3, <1>5, <1>6, <1>7, OwnPoolRequest

LEMMA MainOf ==
  ASSUME RecordsSound(pools, recs), NEW r, RecordThere(recs, r), recs[r].type = "request_rec"
  PROVE  Mains(pools, recs, main(r), recs[r].pool)
<1>1. RecordSound(pools, recs, r) BY DEF RecordsSound, RecordThere
<1>2. "main" \in Members(recs[r].type) BY MemberNames
<1>3. FieldHandlers["request_rec"]["main"] = "RequestRec" /\ PtrTypes["RequestRec"] = "request_rec"
  BY DEF FieldHandlers, RequestFields, PtrTypes
<1>4. Fits(pools, recs, recs[r].pool, FieldHandlers[recs[r].type]["main"], recs[r].val["main"])
  BY <1>1, <1>2 DEF RecordSound
<1>5. QED BY <1>3, <1>4 DEF Fits, Mains, main

LEMMA RedirectSound ==
  ASSUME IdleSound(pools, objs), RecordsSound(pools, recs), NEW r \in LiveOf("request_rec"), Redirect(r)
  PROVE  IdleSound(pools', objs') /\ RecordsSound(pools', recs')
<1>1. RecordThere(recs, r) /\ recs[r].type = "request_rec" BY DEF LiveOf, There, RecordThere
<1>2. PICK p : p = recs[r].pool OBVIOUS
<1>3. Tree(pools) /\ Typed(pools, objs, <<>>) BY DEF IdleSound
<1>4. p \in Pools /\ Alive(pools, p) /\ RecordSound(pools, recs, r) BY <1>1, <1>2, <1>3, RecordPoolUp
<1>5. PICK c : c = ConnOf(p) OBVIOUS
<1>6. Connects(pools, recs, c, p) BY <1>1, <1>2, <1>5, ConnThere
<1>7. PICK m : m = main(r) OBVIOUS
<1>8. Mains(pools, recs, m, p) BY <1>1, <1>2, <1>7, MainOf
<1>9. RecordThere(recs, TheServer) /\ recs[TheServer].type = "server_rec" /\ recs[TheServer].pool = pconf
  BY <1>3, <1>4, ServerThere
<1>10. FitsIn(pools, recs, "request_rec", p, RequestVals(p, c, m))
  BY <1>3, <1>4, <1>6, <1>8, <1>9, RequestFits
<1>11. PICK n : n = Fresh(recs) OBVIOUS
<1>12. recs \in [Recs -> RecordTypes \cup {None}] BY DEF RecordsSound
<1>13. n \in Recs /\ ~RecordThere(recs, n) BY <1>11, <1>12, FreshRecord DEF Redirect
<1>14. recs' = [recs EXCEPT ![n] = Record("request_rec", p, RequestVals(p, c, m))]
  BY <1>2, <1>5, <1>7, <1>11 DEF Redirect, AddRequest, AddRecord, RequestVals
<1>15. PoolFor(pools, pools, n, p)
  <2>1. ~Alive(pools, recordPool(n)) BY <1>13 DEF RecordsSound
  <2>2. p = pconf \/ \E j \in Recs : p = recordPool(j) BY <1>2, <1>4 DEF RecordSound
  <2>3. QED BY <2>1, <2>2, <1>4 DEF PoolFor, Stay, NoneFor
<1>16. Added(pools, recs, recs', n, "request_rec", p)
  BY <1>3, <1>10, <1>13, <1>14, <1>15, RecordsAdd, Zenon
<1>17. QED BY <1>16 DEF Added, Redirect

(***************************************************************************)
(* What scripts change                                                     *)
(***************************************************************************)
(* A record with other values or another table. *)
LEMMA RecordChanged ==
  ASSUME NEW ps, NEW rs, NEW rs2, RecordsSound(ps, rs), NEW b, RecordThere(rs, b),
         NEW r \in RecordTypes, rs2 = [rs EXCEPT ![b] = r], r.type = rs[b].type, r.pool = rs[b].pool,
         DOMAIN r.val = Members(r.type),
         \A f \in Members(r.type) : Fits(ps, rs, r.pool, FieldHandlers[r.type][f], r.val[f])
  PROVE  RecordsSound(ps, rs2)
<1>1. b \in Recs /\ RecordSound(ps, rs, b) BY DEF RecordsSound, RecordThere
<1>2. rs \in [Recs -> RecordTypes \cup {None}] BY DEF RecordsSound
<1>3. r # None BY NoRecordAssumption
<1> HIDE DEF Recs
<1>4. rs2[b] = r /\ \A i \in Recs : i # b => rs2[i] = rs[i] BY <1>1, <1>2
<1>5. Alike(rs, rs2) BY <1>3, <1>4 DEF Alike, RecordThere
<1>6. Stay(ps, ps) /\ \A i \in Recs : NoneFor(ps, ps, i) BY DEF Stay, NoneFor
<1>7. r.pool \in Pools /\ Alive(ps, r.pool)
  <2>1. rs[b].pool \in Pools BY <1>2, RecordFields
  <2>2. QED BY <2>1, <1>1 DEF RecordSound
<1>8. \A f \in Members(r.type) : Fits(ps, rs2, r.pool, FieldHandlers[r.type][f], r.val[f])
  BY <1>5, <1>6, <1>7, FitsOn
<1>9. RecordSound(ps, rs2, b)
  <2>1. r.type = "request_rec" =>
          \E c \in Recs : RecordThere(rs2, c) /\ rs2[c].type = "conn_rec" /\ rs2[c].pool \in Up(ps, r.pool)
    BY <1>1, <1>5 DEF RecordSound, Alike
  <2>2. r.pool = pconf \/ \E j \in Recs : r.pool = recordPool(j) BY <1>1 DEF RecordSound
  <2>3. QED BY <2>1, <2>2, <1>4, <1>7, <1>8 DEF RecordSound
<1>10. Alive(ps, recordPool(b)) => r.pool = recordPool(b) BY <1>1 DEF RecordsSound
<1>11. QED BY <1>1, <1>6, <1>9, <1>10, RecordPut

SetTo(rs, b, f, x) == [rs EXCEPT ![b].val = [@ EXCEPT ![f] = x]]

LEMMA FieldSet ==
  ASSUME NEW ps, NEW os, NEW w, Typed(ps, os, w), NEW rs, RecordsSound(ps, rs), NEW b, RecordThere(rs, b),
         NEW f \in Members(rs[b].type),
         NEW x, Fits(ps, rs, rs[b].pool, FieldHandlers[rs[b].type][f], x)
  PROVE  RecordsSound(ps, SetTo(rs, b, f, x))
<1>1. b \in Recs /\ RecordSound(ps, rs, b) BY DEF RecordsSound, RecordThere
<1>2. rs \in [Recs -> RecordTypes \cup {None}] BY DEF RecordsSound
<1>3. /\ rs[b] \in RecordTypes /\ rs[b].type \in Types /\ rs[b].pool \in Pools /\ rs[b].table \in TableTypes
  BY <1>2, RecordFields
<1>4. PICK T : T = rs[b].type OBVIOUS
<1>5. PICK v : v = rs[b].val OBVIOUS
<1>6. v \in [Members(T) -> Pools \cup Recs \cup {None}]
  <2>1. v \in UNION {[Members(t) -> Pools \cup Recs \cup {None}] : t \in Types} BY <1>3, <1>5 DEF RecordTypes
  <2>2. PICK t \in Types : v \in [Members(t) -> Pools \cup Recs \cup {None}] BY <2>1
  <2>3. DOMAIN v = Members(T) BY <1>1, <1>4, <1>5 DEF RecordSound
  <2>4. QED BY <2>2, <2>3
<1>7. x \in Pools \cup Recs \cup {None}
  <2>1. Alive(ps, rs[b].pool) BY <1>1 DEF RecordSound
  <2>2. Up(ps, rs[b].pool) \subseteq Pools BY <2>1, <1>3, TypedPools
  <2>3. QED BY <2>2 DEF Fits, RecordThere
<1>8. PICK v2 : v2 = [v EXCEPT ![f] = x] OBVIOUS
<1>9. /\ v2 \in [Members(T) -> Pools \cup Recs \cup {None}]
      /\ v2[f] = x /\ \A g \in Members(T) : g # f => v2[g] = v[g]
  BY <1>4, <1>6, <1>7, <1>8
<1>10. PICK r : r = [rs[b] EXCEPT !.val = v2] OBVIOUS
<1>11. v2 \in UNION {[Members(t) -> Pools \cup Recs \cup {None}] : t \in Types} BY <1>3, <1>4, <1>9
<1>12. r \in RecordTypes /\ r.type = T /\ r.pool = rs[b].pool /\ r.val = v2
  BY <1>3, <1>4, <1>10, <1>11 DEF RecordTypes
<1>13. SetTo(rs, b, f, x) = [rs EXCEPT ![b] = r] BY <1>5, <1>8, <1>10 DEF SetTo
<1>14. ASSUME NEW g \in Members(T) PROVE Fits(ps, rs, rs[b].pool, FieldHandlers[T][g], v2[g])
  <2>1. CASE g = f BY <2>1, <1>4, <1>9
  <2>2. CASE g # f
    <3>1. v2[g] = v[g] BY <2>2, <1>9
    <3>2. Fits(ps, rs, rs[b].pool, FieldHandlers[T][g], v[g]) BY <1>1, <1>4, <1>5 DEF RecordSound
    <3>3. QED BY <3>1, <3>2
  <2>3. QED BY <2>1, <2>2
<1>15. DOMAIN v2 = Members(T) BY <1>9
<1>16. RecordsSound(ps, [rs EXCEPT ![b] = r]) BY <1>4, <1>12, <1>14, <1>15, RecordChanged
<1>17. QED BY <1>13, <1>16

LEMMA TableSet ==
  ASSUME NEW ps, NEW rs, RecordsSound(ps, rs), NEW b, RecordThere(rs, b), NEW t \in TableTypes
  PROVE  RecordsSound(ps, [rs EXCEPT ![b].table = t])
<1>1. b \in Recs /\ RecordSound(ps, rs, b) BY DEF RecordsSound, RecordThere
<1>2. rs[b] \in RecordTypes BY RecordFields DEF RecordsSound
<1>3. PICK r : r = [rs[b] EXCEPT !.table = t] OBVIOUS
<1>4. r \in RecordTypes /\ r.type = rs[b].type /\ r.pool = rs[b].pool /\ r.val = rs[b].val
  BY <1>2, <1>3 DEF RecordTypes
<1>5. DOMAIN r.val = Members(r.type) BY <1>1, <1>4 DEF RecordSound
<1>6. \A f \in Members(r.type) : Fits(ps, rs, r.pool, FieldHandlers[r.type][f], r.val[f])
  BY <1>1, <1>4 DEF RecordSound
<1>7. RecordsSound(ps, [rs EXCEPT ![b] = r]) BY <1>4, <1>5, <1>6, RecordChanged
<1>8. [rs EXCEPT ![b].table = t] = [rs EXCEPT ![b] = r] BY <1>3
<1>9. QED BY <1>7, <1>8

LEMMA ChangeTableSound ==
  ASSUME RecordsSound(pools, recs), NEW b, RecordThere(recs, b), ChangeTable(b)
  PROVE  RecordsSound(pools, recs')
<1>1. recs[b].table \in TableTypes BY RecordFields DEF RecordsSound
<1>2. PICK t \in tableMethods(recs[b].table, Values) : recs' = [recs EXCEPT ![b].table = t] BY DEF ChangeTable
<1>3. t \in TableTypes BY <1>1, MethodsTable
<1>4. RecordsSound(pools, [recs EXCEPT ![b].table = t]) BY <1>3, TableSet
<1>5. QED BY <1>2, <1>4

LEMMA SetSound ==
  ASSUME IdleSound(pools, objs), RecordsSound(pools, recs), NEW b, RecordThere(recs, b),
         NEW f \in Members(recs[b].type), set(b, f)
  PROVE  RecordsSound(pools, recs')
<1>1. Typed(pools, objs, <<>>) /\ Tree(pools) BY DEF IdleSound
<1>2. ASSUME NEW x, SetVal(b, f, x), Fits(pools, recs, recs[b].pool, FieldHandlers[recs[b].type][f], x)
      PROVE  RecordsSound(pools, recs')
  <2>1. recs' = SetTo(recs, b, f, x) BY <1>2 DEF SetVal, SetTo
  <2>2. RecordsSound(pools, SetTo(recs, b, f, x)) BY <1>1, <1>2, FieldSet
  <2>3. QED BY <2>1, <2>2
<1>3. CASE setNil(b, f)
  <2>1. Fits(pools, recs, recs[b].pool, FieldHandlers[recs[b].type][f], None) BY DEF Fits
  <2>2. QED BY <2>1, <1>2, <1>3 DEF setNil
<1>4. CASE setString(b, f)
  <2>1. recs[b].pool \in Up(pools, recs[b].pool) BY <1>1, RecordPoolUp
  <2>2. Fits(pools, recs, recs[b].pool, FieldHandlers[recs[b].type][f], getPool(b))
    BY <2>1, <1>4 DEF Fits, setString, getPool
  <2>3. QED BY <2>2, <1>2, <1>4 DEF setString
<1>5. ASSUME NEW j \in Recs, There(j), setPtr(b, f, j) PROVE RecordsSound(pools, recs')
  <2>1. /\ FieldHandlers[recs[b].type][f] # "CharPtr"
        /\ recs[j].type = PtrTypes[FieldHandlers[recs[b].type][f]]
        /\ recs[j].pool \in Up(pools, recs[b].pool)
    BY <1>5 DEF setPtr, PointerFields, Up
  <2>2. RecordThere(recs, j) BY <1>5 DEF There, RecordThere
  <2>3. Fits(pools, recs, recs[b].pool, FieldHandlers[recs[b].type][f], j) BY <2>1, <2>2 DEF Fits
  <2>4. QED BY <2>3, <1>2, <1>5 DEF setPtr
<1>6. QED BY <1>3, <1>4, <1>5 DEF set

LEMMA ChangeFieldSound ==
  ASSUME IdleSound(pools, objs), RecordsSound(pools, recs), NEW b, RecordThere(recs, b), ChangeField(b)
  PROVE  RecordsSound(pools, recs')
<1>1. ASSUME NEW type, Newindex(b, type) PROVE RecordsSound(pools, recs')
  <2>1. PICK f \in Members(type) \cap Written : recs[b].type = type /\ set(b, f) BY <1>1 DEF Newindex
  <2>2. f \in Members(recs[b].type) BY <2>1
  <2>3. QED BY <2>1, <2>2, SetSound
<1>2. CASE setContentType(b)
  <2>1. recs[b].type = "request_rec" /\ SetVal(b, "uri", getPool(b)) BY <1>2 DEF setContentType
  <2>2. "uri" \in Members(recs[b].type) /\ FieldHandlers[recs[b].type]["uri"] = "CharPtr"
    BY <2>1, MemberNames DEF FieldHandlers, RequestFields
  <2>3. Typed(pools, objs, <<>>) /\ Tree(pools) BY DEF IdleSound
  <2>4. recs[b].pool \in Up(pools, recs[b].pool) BY <2>3, RecordPoolUp
  <2>5. Fits(pools, recs, recs[b].pool, FieldHandlers[recs[b].type]["uri"], recs[b].pool) BY <2>2, <2>4 DEF Fits
  <2>6. recs' = SetTo(recs, b, "uri", recs[b].pool) BY <2>1 DEF SetVal, SetTo, getPool
  <2>7. RecordsSound(pools, SetTo(recs, b, "uri", recs[b].pool)) BY <2>2, <2>3, <2>5, FieldSet
  <2>8. QED BY <2>6, <2>7
<1>3. QED BY <1>1, <1>2 DEF ChangeField, requestNewindex, connNewindex, serverNewindex, sockAddrNewindex

(***************************************************************************)
(* The inductive invariant                                                 *)
(***************************************************************************)
IInv == Sound(pools, objs, work) /\ RecordsSound(pools, recs) /\ WalkSound

LEMMA InitIInv == Init => IInv
<1> SUFFICES ASSUME Init PROVE IInv OBVIOUS
<1>1. IdleSound(pools, objs) /\ work = <<>> BY InitSound DEF Init
<1>2. Sound(pools, objs, work) BY <1>1, IdleIsSound
<1>3. PICK r : r = Record("server_rec", pconf, [server_hostname |-> pconf]) OBVIOUS
<1>4. PICK v : v = [server_hostname |-> pconf] OBVIOUS
<1>5. DOMAIN v = {"server_hostname"} /\ v["server_hostname"] = pconf BY <1>4
<1>6. pconf \in Pools BY PoolNames
<1>7. "server_rec" \in Types /\ "server_rec" # "request_rec" BY DEF Types
<1>8. /\ r \in RecordTypes /\ r.type = "server_rec" /\ r.pool = pconf
      /\ DOMAIN r.val = Members("server_rec")
      /\ \A f \in Members("server_rec") : r.val[f] = IF f \in DOMAIN v THEN v[f] ELSE None
  BY <1>3, <1>4, <1>5, <1>6, <1>7, RecordMade
<1>9. r # None BY <1>8, NoRecordAssumption
<1>10. recs = [i \in Recs |-> IF i = TheServer THEN r ELSE None] BY <1>3 DEF Init, InitRecords
<1>11. recs \in [Recs -> RecordTypes \cup {None}] BY <1>8, <1>10
<1>12. recs[TheServer] = r /\ \A i : RecordThere(recs, i) <=> i = TheServer
  BY <1>9, <1>10, ServerIsRecord DEF RecordThere
<1>13. Alive(pools, pconf) /\ pconf \in Up(pools, pconf) /\ \A i \in Recs : ~Alive(pools, recordPool(i))
  <2>1. \A p \in Pools : Alive(pools, p) => p = pconf BY DEF Init, InitPools, Alive
  <2>2. \A i \in Recs : ~Alive(pools, recordPool(i)) BY <2>1, PoolNames
  <2>3. pools[pconf] = NewPool({pconf}) BY <1>6 DEF Init, InitPools
  <2>4. NewPool({pconf}) \in PoolTypes BY <1>6, NoneIn DEF NewPool, PoolTypes
  <2>5. Alive(pools, pconf) BY <2>3, <2>4, NoNone DEF Alive
  <2>6. QED BY <2>2, <2>5, <1>1, <1>6, TreeSelf DEF IdleSound
<1>14. RecordSound(pools, recs, TheServer)
  <2>1. FieldHandlers["server_rec"]["server_hostname"] = "CharPtr" BY DEF FieldHandlers, ServerFields
  <2>2. \A f \in Members("server_rec") : Fits(pools, recs, pconf, FieldHandlers["server_rec"][f], r.val[f])
    BY <2>1, <1>5, <1>8, <1>13 DEF Fits
  <2>3. QED BY <2>2, <1>7, <1>8, <1>12, <1>13 DEF RecordSound
<1>15. RecordsSound(pools, recs) BY <1>8, <1>11, <1>12, <1>13, <1>14, ServerIsRecord DEF RecordsSound
<1>16. WalkSound BY DEF Init, InitRecords, WalkSound
<1>17. QED BY <1>2, <1>15, <1>16 DEF IInv

(* A step between destructions, or one that begins a destruction. *)
LEMMA IdleStep ==
  ASSUME Sound(pools, objs, work), Idle
  PROVE  work = <<>> /\ IdleSound(pools, objs)
<1>1. work = <<>> BY DEF Idle
<1>2. QED BY <1>1, SoundIsIdle

LEMMA MakeIInv == ASSUME IInv, Quiet, UNCHANGED recVars, MakeObject PROVE IInv'
<1>1. work = <<>> /\ IdleSound(pools, objs) BY IdleStep DEF IInv, Quiet
<1>2. IdleSound(pools', objs') /\ work' = <<>> BY <1>1, MakeSound
<1>3. Sound(pools', objs', work') BY <1>2, IdleIsSound
<1>4. OnlyOthers(pools, pools') BY <1>1, OthersOfMake
<1>5. RecordsSound(pools', recs) BY <1>4, RecordsStay DEF IInv
<1>6. recs' = recs /\ walk' = None BY DEF recVars, Quiet
<1>7. QED BY <1>3, <1>5, <1>6 DEF IInv, WalkSound

LEMMA DeleteIInv ==
  ASSUME IInv, Quiet, UNCHANGED recVars, NEW o \in Objs, DeleteByHand(o)
  PROVE  IInv'
<1>1. work = <<>> /\ Sound(pools, objs, <<>>) /\ IdleSound(pools, objs) BY IdleStep DEF IInv, Quiet
<1>2. Made(objs, o) BY DEF DeleteByHand, Exists, Made
<1>3. ASSUME NEW c \in Objs, Owns(objs, c, o) PROVE FALSE
  <2>1. Made(objs, c) /\ In(o, objs[c].elems) BY <1>3 DEF Owns, Elem
  <2>2. objs[c].elems \in Seq(Objs) BY <2>1, <1>1, TypedObjs DEF IdleSound
  <2>3. Contains(objs[c].elems, o) BY <2>1, <2>2, InElements
  <2>4. QED BY <2>1, <2>3 DEF DeleteByHand, Owned, Exists, Made
<1>4. Sound(pools, objs, <<DeleteCall(o)>>) BY <1>1, <1>2, <1>3, DeleteSound
<1>5. pools' = pools /\ objs' = objs /\ work' = <<DeleteCall(o)>> BY DEF DeleteByHand, DeleteCall
<1>6. recs' = recs /\ walk' = None BY DEF recVars, Quiet
<1>7. QED BY <1>4, <1>5, <1>6 DEF IInv, WalkSound

LEMMA EndIInv ==
  ASSUME IInv, NEW p \in {pconf} \cup {recs[i].pool : i \in {j \in Recs : There(j)}}, End(p)
  PROVE  IInv'
<1>1. work = <<>> /\ Sound(pools, objs, <<>>) /\ IdleSound(pools, objs) BY IdleStep DEF IInv, End, Quiet
<1>2. p = pconf \/ \E i \in Recs : p = recordPool(i)
  <2>1. ASSUME NEW i \in Recs, There(i), p = recs[i].pool PROVE p = pconf \/ \E j \in Recs : p = recordPool(j)
    <3>1. RecordSound(pools, recs, i) BY <2>1 DEF IInv, RecordsSound, There, RecordThere
    <3>2. QED BY <3>1, <2>1 DEF RecordSound
  <2>2. QED BY <2>1
<1>3. p \in Pools /\ Alive(pools, p) BY <1>2, PoolNames DEF End, Live, Alive
<1>4. Sound(pools, objs, <<PoolCall(p)>>) BY <1>1, <1>2, <1>3, EndSound
<1>5. work' = <<PoolCall(p)>> BY DEF End, Call, PoolCall
<1>6. pools' = pools /\ objs' = objs /\ recs' = recs /\ walk' = None BY DEF End, Quiet
<1>7. QED BY <1>4, <1>5, <1>6 DEF IInv, WalkSound

LEMMA DestroyIInv == ASSUME IInv, Destroy PROVE IInv'
<1>1. Sound(pools', objs', work') BY StepSound DEF IInv, Destroy
<1>2. RecordsSound(pools', recs') BY RecordsOfStep DEF IInv, Destroy
<1>3. ~Idle BY DEF Destroy, Step
<1>4. walk' = None BY <1>3 DEF IInv, WalkSound, Destroy
<1>5. QED BY <1>1, <1>2, <1>4 DEF IInv, WalkSound

LEMMA RecordIInv ==
  ASSUME IInv,
         \/ Accept
         \/ \E c \in LiveOf("conn_rec") : ReadRequest(c)
         \/ \E r \in LiveOf("request_rec") : Subrequest(r) \/ Redirect(r)
         \/ \E b \in {i \in Recs : There(i)} : ChangeField(b) \/ ChangeTable(b)
  PROVE  IInv'
<1>1. /\ Quiet /\ work' = work /\ walk' = walk
      /\ IdleSound(pools, objs) => IdleSound(pools', objs') /\ RecordsSound(pools', recs')
  <2>0. RecordsSound(pools, recs) BY DEF IInv
  <2>1. CASE Accept BY <2>0, <2>1, AcceptSound DEF Accept, InNewPool
  <2>2. CASE \E c \in LiveOf("conn_rec") : ReadRequest(c)
    BY <2>0, <2>2, ReadRequestSound DEF ReadRequest, InOwnPool, InNewPool
  <2>3. ASSUME NEW r \in LiveOf("request_rec"), Subrequest(r)
        PROVE  /\ Quiet /\ work' = work /\ walk' = walk
               /\ IdleSound(pools, objs) => IdleSound(pools', objs') /\ RecordsSound(pools', recs')
    BY <2>0, <2>3, SubrequestSound DEF Subrequest, InOwnPool, InNewPool
  <2>4. ASSUME NEW r \in LiveOf("request_rec"), Redirect(r)
        PROVE  /\ Quiet /\ work' = work /\ walk' = walk
               /\ IdleSound(pools, objs) => IdleSound(pools', objs') /\ RecordsSound(pools', recs')
    BY <2>0, <2>4, RedirectSound DEF Redirect
  <2>5. ASSUME NEW b \in Recs, There(b), ChangeField(b)
        PROVE  /\ Quiet /\ work' = work /\ walk' = walk
               /\ IdleSound(pools, objs) => IdleSound(pools', objs') /\ RecordsSound(pools', recs')
    <3>1. Quiet /\ work' = work /\ walk' = walk /\ pools' = pools /\ objs' = objs
      BY <2>5 DEF ChangeField, ByScript
    <3>2. RecordThere(recs, b) BY <2>5 DEF There, RecordThere
    <3>3. IdleSound(pools, objs) => RecordsSound(pools, recs') BY <2>0, <2>5, <3>2, ChangeFieldSound
    <3>4. QED BY <3>1, <3>3
  <2>6. ASSUME NEW b \in Recs, There(b), ChangeTable(b)
        PROVE  /\ Quiet /\ work' = work /\ walk' = walk
               /\ IdleSound(pools, objs) => IdleSound(pools', objs') /\ RecordsSound(pools', recs')
    <3>1. Quiet /\ work' = work /\ walk' = walk /\ pools' = pools /\ objs' = objs
      BY <2>6 DEF ChangeTable, ByScript
    <3>2. RecordThere(recs, b) BY <2>6 DEF There, RecordThere
    <3>3. RecordsSound(pools, recs') BY <2>0, <2>6, <3>2, ChangeTableSound
    <3>4. QED BY <3>1, <3>3
  <2>7. QED BY <2>1, <2>2, <2>3, <2>4, <2>5, <2>6
<1>2. work = <<>> /\ IdleSound(pools, objs) BY <1>1, IdleStep DEF IInv, Quiet
<1>3. Sound(pools', objs', work') BY <1>1, <1>2, IdleIsSound
<1>4. walk' = None BY <1>1 DEF Quiet
<1>5. QED BY <1>1, <1>2, <1>3, <1>4 DEF IInv, WalkSound

LEMMA WalkIInv ==
  ASSUME IInv, (\E b \in {i \in Recs : There(i)} : OutermostRequest(b)) \/ OutermostStep
  PROVE  IInv'
<1>1. CASE \E b \in {i \in Recs : There(i)} : OutermostRequest(b)
  <2>1. PICK b \in Recs : There(b) /\ OutermostRequest(b) BY <1>1
  <2>2. RecordThere(recs, b) BY <2>1 DEF There, RecordThere
  <2>3. QED BY <2>1, <2>2 DEF OutermostRequest, ByScript, Quiet, Idle, IInv, WalkSound
<1>2. CASE OutermostStep
  <2>1. pools' = pools /\ objs' = objs /\ work' = work /\ recs' = recs BY <1>2 DEF OutermostStep
  <2>2. Idle /\ RecordThere(recs, walk) /\ recs[walk].type = "request_rec"
    BY <1>2 DEF OutermostStep, IInv, WalkSound
  <2>3. Mains(pools, recs, main(walk), recs[walk].pool) BY <2>2, MainOf DEF IInv
  <2>4. walk' = None \/ walk' = main(walk) BY <1>2 DEF OutermostStep, Outer
  <2>5. WalkSound' BY <2>1, <2>2, <2>3, <2>4 DEF WalkSound, Mains, Idle
  <2>6. QED BY <2>1, <2>5 DEF IInv
<1>3. QED BY <1>1, <1>2

LEMMA NextIInv == IInv /\ [Next]_vars => IInv'
<1> SUFFICES ASSUME IInv, [Next]_vars PROVE IInv' OBVIOUS
<1>1. CASE Quiet /\ UNCHANGED recVars /\ MakeObject BY <1>1, MakeIInv
<1>2. CASE Quiet /\ UNCHANGED recVars /\ \E o \in Objs : DeleteByHand(o) BY <1>2, DeleteIInv
<1>3. CASE \E p \in {pconf} \cup {recs[i].pool : i \in {j \in Recs : There(j)}} : End(p)
  <2>1. PICK p \in {pconf} \cup {recs[i].pool : i \in {j \in Recs : There(j)}} : End(p) BY <1>3
  <2>2. QED BY <2>1, EndIInv
<1>4. CASE Destroy BY <1>4, DestroyIInv
<1>5. CASE \/ Accept
           \/ \E c \in LiveOf("conn_rec") : ReadRequest(c)
           \/ \E r \in LiveOf("request_rec") : Subrequest(r) \/ Redirect(r)
           \/ \E b \in {i \in Recs : There(i)} : ChangeField(b) \/ ChangeTable(b)
  BY <1>5, RecordIInv
<1>6. CASE (\E b \in {i \in Recs : There(i)} : OutermostRequest(b)) \/ OutermostStep BY <1>6, WalkIInv
<1>7. CASE UNCHANGED vars BY <1>7 DEF vars, IInv, WalkSound, Idle
<1>8. QED BY <1>1, <1>2, <1>3, <1>4, <1>5, <1>6, <1>7 DEF Next

LEMMA IInvHolds == Spec => []IInv
BY InitIInv, NextIInv, PTL DEF Spec

(***************************************************************************)
(* What follows                                                            *)
(***************************************************************************)
LEMMA IInvType == IInv => TypeOK
<1> SUFFICES ASSUME IInv PROVE TypeOK OBVIOUS
<1>1. Typed(pools, objs, work) /\ Tree(pools) /\ RecordsSound(pools, recs) BY DEF IInv, Sound, Standing
<1>2. recs \in [Recs -> RecordTypes \cup {None}] BY <1>1 DEF RecordsSound
<1>3. ASSUME NEW i \in Recs, There(i) PROVE RecTypes(i)
  <2>1. RecordThere(recs, i) BY <1>3 DEF There, RecordThere
  <2>2. recs[i].type \in Types /\ recs[i].pool \in Pools /\ recs[i].table \in TableTypes BY <2>1, <1>2, RecordFields
  <2>3. RecordSound(pools, recs, i) BY <2>1, <1>1 DEF RecordsSound
  <2>4. DOMAIN recs[i].val = Members(recs[i].type) BY <2>3 DEF RecordSound
  <2>5. Up(pools, recs[i].pool) \subseteq Pools BY <2>2, <2>3, <1>1, TypedPools DEF RecordSound
  <2>6. ASSUME NEW f \in DOMAIN recs[i].val, NEW h, h = FieldHandlers[recs[i].type][f]
        PROVE  recs[i].val[f] \in {None} \cup IF h = "CharPtr" THEN Pools ELSE LiveOf(PtrTypes[h])
    <3>1. Fits(pools, recs, recs[i].pool, h, recs[i].val[f]) BY <2>3, <2>4, <2>6 DEF RecordSound
    <3>2. QED BY <3>1, <2>5 DEF Fits, LiveOf, There, RecordThere
  <2>7. QED BY <2>2, <2>4, <2>6 DEF RecTypes
<1>4. walk \in Recs \cup {None} BY DEF IInv, WalkSound, RecordThere
<1>5. DOMAIN recs = Recs BY <1>2
<1>6. QED BY <1>1, <1>3, <1>4, <1>5 DEF TypeOK, Typed

LEMMA IInvDeletedOnce == IInv => DeletedOnce
<1> SUFFICES ASSUME IInv PROVE DeletedOnce OBVIOUS
<1>1. Standing(pools, objs, work) BY DEF IInv, Sound
<1>2. /\ Typed(pools, objs, work) /\ AllPlaced(pools, objs) /\ CallsSound(pools, objs, work)
      /\ work \in Seq(Calls)
  BY <1>1 DEF Standing, Typed
<1>3. DestructedOnce
  <2>1. ASSUME NEW o \in Objs, Exists(o) PROVE objs[o].dtors <= 1
    <3>1. objs[o].dtors = 0 \/ objs[o].dtors = 1 BY <2>1, <1>2 DEF CallsSound, Exists, Made
    <3>2. QED BY <3>1
  <2>2. QED BY <2>1 DEF DestructedOnce
<1>4. CASE Idle
  <2>1. NoUseAfterFree /\ NoDestructorMissed BY <1>4 DEF NoUseAfterFree, NoDestructorMissed, Frees
  <2>2. QED BY <2>1, <1>3 DEF DeletedOnce
<1>5. CASE ~Idle
  <2>1. PICK h : h = Head(work) OBVIOUS
  <2>2. PICK x : x = h[2] OBVIOUS
  <2>3. PICK rest : rest = Tail(work) OBVIOUS
  <2>4. Stacked(work, h, rest) BY <2>1, <2>2, <2>3, <1>2, <1>5, NextCall
  <2>5. h \in Calls /\ In(h, work)
    <3>1. In(h, work) BY <2>4 DEF Stacked
    <3>2. QED BY <3>1, <1>2, TypedCalls
  <2>6. CASE \E o \in Objs : h \in ObjectCalls(o)
    <3>1. x \in Objs /\ h \in ObjectCalls(x) BY <2>2, <2>6, CallNames
    <3>2. Made(objs, x) BY <3>1, <2>5, <1>2 DEF CallsSound, ObjectCalls
    <3>3. Alive(pools, objs[x].objPool) BY <3>1, <3>2, <1>2 DEF AllPlaced, Placed
    <3>4. h[1] # "apr_pool_destroy" BY <3>1 DEF ObjectCalls, DeleteCall, DtorCall, ClearCall
    <3>5. NoUseAfterFree BY <3>2, <3>3, <3>4, <2>1, <2>2 DEF NoUseAfterFree, Exists, Made, Live, Alive
    <3>6. NoDestructorMissed BY <3>4, <2>1 DEF NoDestructorMissed, Frees
    <3>7. QED BY <3>5, <3>6, <1>3 DEF DeletedOnce
  <2>7. CASE \E p \in Pools : h = PoolCall(p)
    <3>1. x \in Pools /\ h = PoolCall(x) BY <2>2, <2>7, CallNames
    <3>2. h[1] = "apr_pool_destroy" BY <3>1 DEF PoolCall
    <3>3. Alive(pools, x) BY <3>1, <2>5, <1>2 DEF CallsSound, Going
    <3>4. NoUseAfterFree BY <3>2, <3>3, <2>1, <2>2 DEF NoUseAfterFree, Live, Alive
    <3>5. ASSUME Frees PROVE \A o \in Objs : Made(objs, o) /\ objs[o].managed => objs[o].objPool # x
      <4>1. pools[x].cleanups = <<>> /\ pools[x].child = <<>> BY <3>5, <2>1, <2>2 DEF Frees
      <4>2. QED BY <4>1, <3>1, <2>4, <1>1, FreesNoManaged
    <3>6. NoDestructorMissed BY <3>5, <2>1, <2>2 DEF NoDestructorMissed, Exists, Made
    <3>7. QED BY <3>4, <3>6, <1>3 DEF DeletedOnce
  <2>8. QED BY <2>5, <2>6, <2>7, CallKinds
<1>6. QED BY <1>4, <1>5

LEMMA IInvNothingLeft == IInv => NothingLeft
<1> SUFFICES ASSUME IInv PROVE NothingLeft OBVIOUS
<1>1. CASE ~Idle BY <1>1 DEF NothingLeft, CleanupsExact, NoPoolLeft
<1>2. CASE Idle
  <2>1. IdleSound(pools, objs) /\ RecordsSound(pools, recs) BY <1>2, IdleStep DEF IInv
  <2>2. /\ Typed(pools, objs, <<>>) /\ AllPlaced(pools, objs)
        /\ IdleCleanups(pools, objs) /\ IdlePools(pools, objs)
        /\ \A o \in Objs : Made(objs, o) => IdleObject(pools, objs, o)
    BY <2>1 DEF IdleSound
  <2>3. ASSUME NEW p \in Pools, Live(p)
        PROVE  /\ IsInjective(pools[p].cleanups)
               /\ ToSet(pools[p].cleanups) = {o \in Objs : Exists(o) /\ objs[o].destroyerPool = p}
    <3>1. Alive(pools, p) BY <2>3 DEF Live, Alive
    <3>2. /\ IsInjective(pools[p].cleanups)
          /\ \A o \in Objs : In(o, pools[p].cleanups) => Made(objs, o) /\ objs[o].destroyerPool = p
      BY <3>1, <2>2 DEF IdleCleanups
    <3>3. pools[p].cleanups \in Seq(Objs) /\ \A x : In(x, pools[p].cleanups) => x \in Objs
      BY <3>1, <2>2, TypedPools
    <3>4. \A x : In(x, pools[p].cleanups) <=> x \in ToSet(pools[p].cleanups) BY <3>3, InElements
    <3>5. ASSUME NEW o \in Objs, Made(objs, o), objs[o].destroyerPool = p PROVE In(o, pools[p].cleanups)
      <4>1. Registered(objs, o) BY <3>5, NoNone DEF Registered
      <4>2. QED BY <4>1, <3>5, <2>2 DEF IdleObject
    <3>6. ToSet(pools[p].cleanups) = {o \in Objs : Exists(o) /\ objs[o].destroyerPool = p}
      BY <3>2, <3>3, <3>4, <3>5 DEF Exists, Made
    <3>7. QED BY <3>2, <3>6
  <2>4. ASSUME NEW p \in Pools \ {pconf}, Live(p)
        PROVE  \/ \E i \in Recs : There(i) /\ recs[i].pool = p
               \/ \E o \in Objs : Exists(o) /\ ((objs[o].usage /\ objs[o].objPool = p) \/ objs[o].tmp = p)
    <3>1. Alive(pools, p) BY <2>4 DEF Live, Alive
    <3>2. ASSUME NEW i \in Recs, p = recordPool(i) PROVE There(i) /\ recs[i].pool = p
      BY <3>1, <3>2, <2>1 DEF RecordsSound, There, RecordThere
    <3>3. ASSUME NEW o \in Objs, p = subPool(o) PROVE Exists(o) /\ objs[o].usage /\ objs[o].objPool = p
      BY <3>1, <3>3, <2>2 DEF IdlePools, Exists, Made
    <3>4. ASSUME NEW o \in Objs, p = tmpPool(o) PROVE Exists(o) /\ objs[o].tmp = p
      BY <3>1, <3>4, <2>2 DEF IdlePools, AllPlaced, Placed, Exists, Made
    <3>5. QED BY <3>2, <3>3, <3>4, PoolKinds
  <2>5. QED BY <2>3, <2>4 DEF NothingLeft, CleanupsExact, NoPoolLeft
<1>3. QED BY <1>1, <1>2

LEMMA IInvStrings == IInv => StringsLive
<1> SUFFICES ASSUME IInv PROVE StringsLive OBVIOUS
<1>1. Typed(pools, objs, work) /\ Tree(pools) /\ AllPlaced(pools, objs) /\ RecordsSound(pools, recs)
  BY DEF IInv, Sound, Standing
<1>2. ASSUME NEW o \in Objs, Exists(o), NEW i \in DOMAIN objs[o].strs PROVE Live(objs[o].strs[i])
  <2>1. Made(objs, o) /\ Placed(pools, objs, o) BY <1>1, <1>2 DEF AllPlaced, Exists, Made
  <2>2. objs[o].objPool \in Pools /\ Alive(pools, objs[o].objPool) BY <2>1, <1>1, PlacedUp
  <2>3. In(objs[o].strs[i], objs[o].strs) BY <1>2 DEF In
  <2>4. objs[o].strs[i] \in Up(pools, objs[o].objPool) BY <2>1, <2>3 DEF Placed
  <2>5. Alive(pools, objs[o].strs[i]) BY <2>2, <2>4, <1>1, TreeUp
  <2>6. QED BY <2>5 DEF Live, Alive
<1>3. ASSUME NEW i \in Recs, There(i), NEW f \in DOMAIN recs[i].val,
             FieldHandlers[recs[i].type][f] = "CharPtr", recs[i].val[f] # None
      PROVE  Live(recs[i].val[f])
  <2>1. RecordThere(recs, i) BY <1>3 DEF There, RecordThere
  <2>2. recs[i].pool \in Pools /\ Alive(pools, recs[i].pool) /\ RecordSound(pools, recs, i)
    BY <2>1, <1>1, RecordPoolUp
  <2>3. recs[i].val[f] \in Up(pools, recs[i].pool) BY <2>2, <1>3 DEF RecordSound, Fits
  <2>4. Alive(pools, recs[i].val[f]) BY <2>2, <2>3, <1>1, TreeUp
  <2>5. QED BY <2>4 DEF Live, Alive
<1>4. QED BY <1>2, <1>3 DEF StringsLive

LEMMA IInvTables == IInv => TableReadsAgree
<1> SUFFICES ASSUME IInv PROVE TableReadsAgree OBVIOUS
<1>1. RecordsSound(pools, recs) BY DEF IInv, Sound, Standing
<1>2. ASSUME NEW t \in LiveTables PROVE t \in Seq(Entries)
  <2>1. PICK i \in Recs : There(i) /\ t = recs[i].table BY <1>2 DEF LiveTables
  <2>2. RecordThere(recs, i) BY <2>1 DEF There, RecordThere
  <2>3. t \in TableTypes BY <2>1, <2>2, <1>1, RecordFields DEF RecordsSound
  <2>4. QED BY <2>3, TablesAreSequences
<1>3. KeysReachEntries BY <1>2, TableReads, Zenon DEF KeysReachEntries
<1>4. MgetIgnoresJoins BY <1>2, MgetAfterCompress DEF MgetIgnoresJoins
<1>5. GetIsFirst BY <1>2, GetFirst DEF GetIsFirst
<1>6. QED BY <1>3, <1>4, <1>5 DEF TableReadsAgree

(* Pools, objects, calls and records have their types, and a pointer that  *)
(* a script reads from a field leads to a live record of the type          *)
(* checkPtr() asks for, whichever pools have gone.                         *)
THEOREM TypesAndPointers == Spec => []TypeOK
BY IInvHolds, IInvType, PTL

(* However pools, cleanups, containers and delete expressions come to      *)
(* delete an object, nothing is called for it after it or its memory is    *)
(* gone, its destructor does not begin twice, and it has run before the    *)
(* memory of the object goes with its pool (PoolAllocated.C).              *)
THEOREM DestructedOnceAndInTime == Spec => []DeletedOnce
BY IInvHolds, IInvDeletedOnce, PTL

(* Between destructions the cleanups of a pool are those of the registered *)
(* objects in it, each once, and every pool but those of the configuration *)
(* and of records is still some object's own or that of a TmpPool's users. *)
THEOREM NothingIsLeft == Spec => []NothingLeft
BY IInvHolds, IInvNothingLeft, PTL

(* The strings of vectors and of records are in live memory: a field that  *)
(* a script sets gets its string from the pool of the record (getPool()),  *)
(* and new StrVec(0, from) shares strings only with pools above its own.   *)
THEOREM StringsAreLive == Spec => []StringsLive
BY IInvHolds, IInvStrings, PTL

(* The calls that read a table of a live record agree, whatever scripts    *)
(* have added, merged, compressed or removed: each entry is found by its   *)
(* key, get() is the first item of mget(), and mget() does not tell values *)
(* that compress() has joined from those still in entries of their own.    *)
THEOREM TablesReadAlike == Spec => []TableReadsAgree
BY IInvHolds, IInvTables, PTL

=============================================================================
