-------------------------- MODULE RequestDataProofs --------------------------
(***************************************************************************)
(* Proofs about RequestData for any configuration, requests and texts.     *)
(***************************************************************************)
EXTENDS RequestData, WellFoundedInduction, SequenceTheorems, FiniteSetTheorems, TLAPS

(***************************************************************************)
(* Induction over data, without operator parameters: what is to be shown   *)
(* is a set.                                                               *)
(***************************************************************************)
(* A set of natural numbers has a least one. *)
LEMMA NatMin ==
  ASSUME NEW T \in SUBSET Nat, T # {}
  PROVE  \E x \in T : \A y \in T : x <= y
<1> DEFINE R == OpToRel(<, Nat)
<1>1. PICK x \in T : \A y \in T : <<y, x>> \notin R
  <2> HIDE DEF R
  <2>1. IsWellFoundedOn(R, Nat) BY NatLessThanWellFounded, Zenon DEF R
  <2>2. QED BY <2>1, WFMin
<1>2. \A y \in T : ~(y < x) BY <1>1 DEF OpToRel
<1>3. \A y \in T : y \in Nat /\ x \in Nat OBVIOUS
<1>4. QED BY <1>2, <1>3

(* A set of natural numbers with 0 and the successors of its members. *)
LEMMA SetInduction == ASSUME NEW S \in SUBSET Nat, 0 \in S, \A n \in S : n + 1 \in S PROVE S = Nat
<1>1. SUFFICES ASSUME Nat \ S # {} PROVE FALSE OBVIOUS
<1>2. PICK x \in Nat \ S : \A y \in Nat \ S : x <= y BY <1>1, NatMin
<1>3. x # 0 /\ x - 1 \in Nat OBVIOUS
<1>4. x - 1 \in S BY <1>2, <1>3
<1>5. QED BY <1>3, <1>4

(* A set of sequences over V with <<>> and whatever one more element makes *)
(* of its members.                                                         *)
LEMMA SequencesByAppend ==
  ASSUME NEW V, NEW S \in SUBSET Seq(V), <<>> \in S,
         \A s \in S, x \in V : Append(s, x) \in S
  PROVE  S = Seq(V)
<1> DEFINE N == {n \in Nat : \A s \in Seq(V) : Len(s) = n => s \in S}
<1>1. 0 \in N OBVIOUS
<1>2. ASSUME NEW n \in N PROVE n + 1 \in N
  <2> SUFFICES ASSUME NEW s \in Seq(V), Len(s) = n + 1 PROVE s \in S OBVIOUS
  <2>1. s # <<>> BY <1>2
  <2>2. PICK t \in Seq(V), x \in V : s = Append(t, x) BY <2>1, SequenceEmptyOrAppend
  <2>3. Len(t) = n BY <2>2, <1>2, AppendProperties
  <2>4. t \in S BY <2>3, <1>2
  <2>5. QED BY <2>2, <2>4
<1>3. N = Nat
  <2>1. N \in SUBSET Nat OBVIOUS
  <2> HIDE DEF N
  <2> QED BY <1>1, <1>2, <2>1, SetInduction
<1>4. ASSUME NEW s \in Seq(V) PROVE s \in S
  <2>1. Len(s) \in N BY <1>3
  <2>2. QED BY <2>1
<1>5. QED BY <1>4


(***************************************************************************)
(* FlattenSeq                                                              *)
(***************************************************************************)
(* \o as an operator of its own: the SMT solvers reason about the elements *)
(* of s \o t, which is in the way where only equations are needed.         *)
Cat(s, t) == s \o t

LEMMA CatType == ASSUME NEW V, NEW a \in Seq(V), NEW b \in Seq(V) PROVE Cat(a, b) \in Seq(V)
BY DEF Cat

LEMMA CatEmpty == ASSUME NEW V, NEW a \in Seq(V) PROVE Cat(a, <<>>) = a /\ Cat(<<>>, a) = a
BY ConcatEmptySeq DEF Cat

LEMMA CatAssociative ==
  ASSUME NEW V, NEW a \in Seq(V), NEW b \in Seq(V), NEW c \in Seq(V)
  PROVE  Cat(Cat(a, b), c) = Cat(a, Cat(b, c))
BY ConcatAssociative DEF Cat

(* Where the elements of a concatenation come from. *)
Joined(c, a, b) ==
  /\ Len(c) = Len(a) + Len(b)
  /\ \A i \in 1 .. Len(a) : c[i] = a[i]
  /\ \A i \in 1 .. Len(b) : c[Len(a) + i] = b[i]

LEMMA CatElements ==
  ASSUME NEW V, NEW a \in Seq(V), NEW b \in Seq(V)
  PROVE  Joined(Cat(a, b), a, b)
<1>1. Len(a) \in Nat /\ Len(b) \in Nat OBVIOUS
<1>2. /\ Len(a \o b) = Len(a) + Len(b)
      /\ \A i \in 1 .. Len(a) + Len(b) : (a \o b)[i] = IF i <= Len(a) THEN a[i] ELSE b[i - Len(a)]
  BY ConcatProperties
<1>3. ASSUME NEW i \in 1 .. Len(a) PROVE (a \o b)[i] = a[i]
  BY <1>1, <1>2
<1>4. ASSUME NEW i \in 1 .. Len(b) PROVE (a \o b)[Len(a) + i] = b[i]
  <2>1. Len(a) + i \in 1 .. Len(a) + Len(b) /\ ~(Len(a) + i <= Len(a)) /\ (Len(a) + i) - Len(a) = i BY <1>1
  <2>2. QED BY <1>2, <2>1
<1>5. QED BY <1>2, <1>3, <1>4 DEF Cat, Joined

LEMMA CatAppend ==
  ASSUME NEW V, NEW a \in Seq(V), NEW x \in V
  PROVE  Append(a, x) = Cat(a, <<x>>)
<1>1. Append(a, x) = a \o <<x>> BY AppendIsConcat
<1>2. QED BY <1>1, Zenon DEF Cat

(* f holds what FlattenSeq(ss) is for each number of the first sequences. *)
Flattens(ss, n, f) == f = [i \in 1 .. n |-> IF i = 1 THEN ss[i] ELSE Cat(f[i - 1], ss[i])]

(* The function that FlattenSeq is defined with exists, for any number of  *)
(* sequences, and so is what FlattenSeq chooses.                           *)
LEMMA FlattensExists == ASSUME NEW ss, NEW n \in Nat PROVE \E f : Flattens(ss, n, f)
<1> DEFINE N == {k \in Nat : \E f : Flattens(ss, k, f)}
<1>1. 0 \in N
  <2>1. Flattens(ss, 0, [i \in 1 .. 0 |-> ss[i]]) BY DEF Flattens
  <2>2. QED BY <2>1
<1>2. ASSUME NEW k \in N PROVE k + 1 \in N
  <2>1. PICK f : Flattens(ss, k, f) OBVIOUS
  <2> DEFINE x == IF k = 0 THEN ss[1] ELSE Cat(f[k], ss[k + 1])
             g == [i \in 1 .. k + 1 |-> IF i = k + 1 THEN x ELSE f[i]]
  <2>2. \A i \in 1 .. k : f[i] = IF i = 1 THEN ss[i] ELSE Cat(f[i - 1], ss[i])
    BY <2>1 DEF Flattens
  <2>3. \A i \in 1 .. k + 1 : g[i] = IF i = 1 THEN ss[i] ELSE Cat(g[i - 1], ss[i])
    <3> TAKE i \in 1 .. k + 1
    <3>1. CASE i = k + 1 BY <3>1
    <3>2. CASE i \in 1 .. k
      <4>1. g[i] = f[i] /\ (i # 1 => g[i - 1] = f[i - 1]) BY <3>2
      <4>2. QED BY <4>1, <3>2, <2>2
    <3>3. QED BY <3>1, <3>2
  <2>4. g = [i \in 1 .. k + 1 |-> IF i = 1 THEN ss[i] ELSE Cat(g[i - 1], ss[i])]
    <3>1. DOMAIN g = 1 .. k + 1 OBVIOUS
    <3>2. g = [i \in 1 .. k + 1 |-> g[i]] OBVIOUS
    <3> HIDE DEF g
    <3> QED BY <3>1, <3>2, <2>3
  <2>5. Flattens(ss, k + 1, g)
    <3> HIDE DEF g
    <3> QED BY <2>4 DEF Flattens
  <2>6. QED BY <2>5
<1>3. N = Nat
  <2>1. N \in SUBSET Nat OBVIOUS
  <2> HIDE DEF N
  <2> QED BY <1>1, <1>2, <2>1, SetInduction
<1>4. QED BY <1>3

LEMMA FlattenValue ==
  ASSUME NEW ss, Len(ss) \in Nat, Len(ss) # 0
  PROVE  \E f : Flattens(ss, Len(ss), f) /\ FlattenSeq(ss) = f[Len(ss)]
<1> DEFINE g == CHOOSE f : f = [i \in 1 .. Len(ss) |-> IF i = 1 THEN ss[i] ELSE Cat(f[i - 1], ss[i])]
<1>1. FlattenSeq(ss) = g[Len(ss)] BY Zenon DEF FlattenSeq, Cat
<1>2. \E f : f = [i \in 1 .. Len(ss) |-> IF i = 1 THEN ss[i] ELSE Cat(f[i - 1], ss[i])]
  BY FlattensExists DEF Flattens
<1>3. g = [i \in 1 .. Len(ss) |-> IF i = 1 THEN ss[i] ELSE Cat(g[i - 1], ss[i])] BY <1>2, Zenon
<1>4. QED BY <1>1, <1>3 DEF Flattens

(* The recurrence of a flattening whose parts are sequences over V. *)
FlattensOver(V, ss, n, f) ==
  n \in Nat /\ n # 0 /\ Flattens(ss, n, f) /\ \A i \in 1 .. n : ss[i] \in Seq(V)

LEMMA FlattensSteps ==
  ASSUME NEW V, NEW ss, NEW f, NEW n, FlattensOver(V, ss, n, f)
  PROVE  /\ \A i \in 1 .. n : f[i] \in Seq(V)
         /\ f[1] = ss[1]
         /\ \A i \in 2 .. n : f[i] = Cat(f[i - 1], ss[i])
<1> USE DEF FlattensOver
<1>0. \A i \in 1 .. n : f[i] = IF i = 1 THEN ss[i] ELSE Cat(f[i - 1], ss[i]) BY DEF Flattens
<1>1. f[1] = ss[1] /\ \A i \in 2 .. n : f[i] = Cat(f[i - 1], ss[i])
  <2>1. 1 \in 1 .. n /\ \A i \in 2 .. n : i \in 1 .. n /\ i # 1 OBVIOUS
  <2>2. QED BY <1>0, <2>1, Zenon
<1> DEFINE N == {k \in Nat : k + 1 \in 1 .. n => f[k + 1] \in Seq(V)}
<1>2. 0 \in N BY <1>1
<1>3. ASSUME NEW k \in N PROVE k + 1 \in N
  <2>0. k \in Nat OBVIOUS
  <2>1. (k + 1) + 1 = k + 2 BY <2>0
  <2> SUFFICES ASSUME k + 2 \in 1 .. n PROVE f[k + 2] \in Seq(V) BY <2>0, <2>1
  <2>2. k + 1 \in 1 .. n BY <2>0
  <2>3. f[k + 1] \in Seq(V) /\ ss[k + 2] \in Seq(V) BY <2>2
  <2>4. f[k + 2] = Cat(f[k + 1], ss[k + 2])
    <3>1. k + 2 \in 2 .. n /\ (k + 2) - 1 = k + 1 BY <2>0
    <3>2. f[k + 2] = Cat(f[(k + 2) - 1], ss[k + 2]) BY <1>1, <3>1, Zenon
    <3>3. QED BY <3>1, <3>2, Zenon
  <2>5. QED BY <2>3, <2>4, CatType
<1>4. N = Nat
  <2>1. N \in SUBSET Nat OBVIOUS
  <2> HIDE DEF N
  <2> QED BY <1>2, <1>3, <2>1, SetInduction
<1>5. ASSUME NEW i \in 1 .. n PROVE f[i] \in Seq(V)
  <2>1. i - 1 \in Nat /\ (i - 1) + 1 = i OBVIOUS
  <2>2. i - 1 \in N BY <2>1, <1>4
  <2>3. QED BY <2>1, <2>2
<1>6. QED BY <1>1, <1>5

LEMMA EmptyIsSeq == ASSUME NEW V PROVE <<>> \in Seq(V) /\ Len(<<>>) = 0
OBVIOUS

LEMMA FlattenEmpty == FlattenSeq(<<>>) = <<>>
BY DEF FlattenSeq

LEMMA FlattenOne == ASSUME NEW V, NEW x \in Seq(V) PROVE FlattenSeq(<<x>>) = x
<1>1. PICK s : s = <<x>> OBVIOUS
<1>2. Len(s) = 1 /\ s[1] = x BY <1>1
<1>3. PICK f : Flattens(s, 1, f) /\ FlattenSeq(s) = f[1]
  <2>1. Len(s) \in Nat /\ Len(s) # 0 BY <1>2
  <2>2. PICK f : Flattens(s, Len(s), f) /\ FlattenSeq(s) = f[Len(s)] BY <2>1, FlattenValue
  <2>3. QED BY <2>2, <1>2
<1>4. f[1] = s[1] BY <1>3 DEF Flattens
<1>5. QED BY <1>1, <1>2, <1>3, <1>4

LEMMA FlattenType == ASSUME NEW V, NEW ss \in Seq(Seq(V)) PROVE FlattenSeq(ss) \in Seq(V)
<1>0. Len(ss) \in Nat /\ \A i \in 1 .. Len(ss) : ss[i] \in Seq(V) OBVIOUS
<1>1. CASE Len(ss) = 0
  <2>1. ss = <<>> BY <1>1
  <2>2. QED BY <2>1, FlattenEmpty, EmptyIsSeq
<1>2. CASE Len(ss) # 0
  <2>1. PICK f : Flattens(ss, Len(ss), f) /\ FlattenSeq(ss) = f[Len(ss)] BY <1>0, <1>2, FlattenValue
  <2>2. \A i \in 1 .. Len(ss) : f[i] \in Seq(V)
    <3>1. FlattensOver(V, ss, Len(ss), f) BY <1>0, <1>2, <2>1 DEF FlattensOver
    <3>2. QED BY <3>1, FlattensSteps
  <2>3. QED BY <1>0, <1>2, <2>1, <2>2
<1>3. QED BY <1>1, <1>2

(* FlattenSeq of one sequence more, and of the sequences of two. *)
LEMMA FlattenAppend ==
  ASSUME NEW V, NEW ss \in Seq(Seq(V)), NEW x \in Seq(V)
  PROVE  FlattenSeq(Append(ss, x)) = Cat(FlattenSeq(ss), x)
<1>1. PICK tt, l : tt = Append(ss, x) /\ l = Len(ss) OBVIOUS
<1>2. /\ Len(tt) = l + 1 /\ l \in Nat
      /\ (\A i \in 1 .. l : tt[i] = ss[i]) /\ tt[l + 1] = x
      /\ \A i \in 1 .. l : ss[i] \in Seq(V)
  BY <1>1, AppendProperties
<1>3. \A i \in 1 .. l + 1 : tt[i] \in Seq(V) BY <1>2
<1>4. PICK g : Flattens(tt, l + 1, g) /\ FlattenSeq(tt) = g[l + 1] BY <1>2, FlattenValue
<1>5. /\ \A i \in 1 .. l + 1 : g[i] \in Seq(V)
      /\ g[1] = tt[1]
      /\ \A i \in 2 .. l + 1 : g[i] = Cat(g[i - 1], tt[i])
  <2>1. l + 1 \in Nat /\ l + 1 # 0 BY <1>2
  <2>2. FlattensOver(V, tt, l + 1, g) BY <1>3, <1>4, <2>1 DEF FlattensOver
  <2>3. QED BY <2>2, FlattensSteps
<1>6. CASE l = 0
  <2>1. ss = <<>>
    <3>1. Len(ss) = 0 BY <1>1, <1>6
    <3>2. QED BY <3>1
  <2>2. Cat(FlattenSeq(ss), x) = x BY <2>1, FlattenEmpty, CatEmpty
  <2>3. QED BY <2>2, <1>1, <1>2, <1>4, <1>5, <1>6
<1>7. CASE l # 0
  <2>1. PICK f : Flattens(ss, l, f) /\ FlattenSeq(ss) = f[l] BY <1>1, <1>2, <1>7, FlattenValue
  <2>2. /\ \A i \in 1 .. l : f[i] \in Seq(V)
        /\ f[1] = ss[1]
        /\ \A i \in 2 .. l : f[i] = Cat(f[i - 1], ss[i])
    <3>1. FlattensOver(V, ss, l, f) BY <1>2, <1>7, <2>1 DEF FlattensOver
    <3>2. QED BY <3>1, FlattensSteps
  <2> DEFINE N == {k \in Nat : k + 1 \in 1 .. l => f[k + 1] = g[k + 1]}
  <2>3. 0 \in N BY <1>2, <1>5, <1>7, <2>2
  <2>4. ASSUME NEW k \in N PROVE k + 1 \in N
    <3>0. k \in Nat OBVIOUS
    <3>1. (k + 1) + 1 = k + 2 /\ (k + 2) - 1 = k + 1 BY <3>0
    <3> SUFFICES ASSUME k + 2 \in 1 .. l PROVE f[k + 2] = g[k + 2] BY <3>0, <3>1
    <3>2. k + 1 \in 1 .. l /\ k + 2 \in 2 .. l BY <3>0, <1>2
    <3>3. f[k + 1] = g[k + 1] BY <3>2
    <3>A. tt[k + 2] = ss[k + 2] BY <1>2
    <3>B. k + 2 \in 2 .. l + 1 BY <3>0, <1>2
    <3>5. g[k + 2] = Cat(g[(k + 2) - 1], tt[k + 2]) BY <3>B, <1>5, Zenon
    <3>6. f[k + 2] = Cat(f[(k + 2) - 1], ss[k + 2]) BY <2>2, <3>2, Zenon
    <3>7. QED BY <3>1, <3>3, <3>A, <3>5, <3>6
  <2>5. N = Nat
    <3>1. N \in SUBSET Nat OBVIOUS
    <3> HIDE DEF N
    <3> QED BY <2>3, <2>4, <3>1, SetInduction
  <2>6. f[l] = g[l]
    <3>1. l - 1 \in Nat /\ (l - 1) + 1 = l /\ l \in 1 .. l BY <1>2, <1>7
    <3>2. l - 1 \in N BY <3>1, <2>5
    <3>3. QED BY <3>1, <3>2
  <2>7. g[l + 1] = Cat(g[l], tt[l + 1])
    <3>1. l + 1 \in 2 .. l + 1 /\ (l + 1) - 1 = l BY <1>2, <1>7
    <3>2. QED BY <3>1, <1>5
  <2>8. QED BY <1>1, <1>2, <1>4, <2>1, <2>6, <2>7
<1>8. QED BY <1>6, <1>7

LEMMA FlattenConcat ==
  ASSUME NEW V, NEW ss \in Seq(Seq(V)), NEW tt \in Seq(Seq(V))
  PROVE  FlattenSeq(Cat(ss, tt)) = Cat(FlattenSeq(ss), FlattenSeq(tt))
<1> DEFINE S == {u \in Seq(Seq(V)) : FlattenSeq(Cat(ss, u)) = Cat(FlattenSeq(ss), FlattenSeq(u))}
<1>1. <<>> \in S
  <2>1. Cat(ss, <<>>) = ss /\ Cat(FlattenSeq(ss), <<>>) = FlattenSeq(ss)
    BY FlattenType, CatEmpty
  <2>2. <<>> \in Seq(Seq(V)) BY EmptyIsSeq
  <2>3. QED BY <2>1, <2>2, FlattenEmpty, Zenon
<1>2. ASSUME NEW u \in Seq(Seq(V)), FlattenSeq(Cat(ss, u)) = Cat(FlattenSeq(ss), FlattenSeq(u)), NEW x \in Seq(V)
      PROVE  FlattenSeq(Cat(ss, Append(u, x))) = Cat(FlattenSeq(ss), FlattenSeq(Append(u, x)))
  <2>1. Cat(ss, Append(u, x)) = Append(Cat(ss, u), x) /\ Cat(ss, u) \in Seq(Seq(V))
    <3>1. PICK w \in Seq(Seq(V)) : w = <<x>>
      <4>1. <<x>> \in Seq(Seq(V)) OBVIOUS
      <4>2. QED BY <4>1, Zenon
    <3>2. Append(u, x) = Cat(u, <<x>>) BY CatAppend
    <3>3. Cat(ss, u) \in Seq(Seq(V)) BY CatType
    <3>4. Append(Cat(ss, u), x) = Cat(Cat(ss, u), <<x>>) BY <3>3, CatAppend
    <3>5. Cat(Cat(ss, u), w) = Cat(ss, Cat(u, w)) BY CatAssociative
    <3>6. QED BY <3>1, <3>2, <3>3, <3>4, <3>5, Zenon
  <2>2. FlattenSeq(Cat(ss, Append(u, x))) = Cat(Cat(FlattenSeq(ss), FlattenSeq(u)), x)
    BY <1>2, <2>1, FlattenAppend
  <2>3. FlattenSeq(Append(u, x)) = Cat(FlattenSeq(u), x) BY FlattenAppend
  <2>4. Cat(Cat(FlattenSeq(ss), FlattenSeq(u)), x) = Cat(FlattenSeq(ss), Cat(FlattenSeq(u), x))
    BY FlattenType, CatAssociative
  <2>5. QED BY <2>2, <2>3, <2>4
<1>3. S = Seq(Seq(V))
  <2>1. S \in SUBSET Seq(Seq(V)) OBVIOUS
  <2>2. \A u \in S, x \in Seq(V) : Append(u, x) \in S
    <3>1. \A u \in Seq(Seq(V)), x \in Seq(V) : Append(u, x) \in Seq(Seq(V)) BY AppendProperties
    <3>2. QED BY <3>1, <1>2
  <2> HIDE DEF S
  <2> QED BY <1>1, <2>1, <2>2, SequencesByAppend
<1>4. QED BY <1>3

Occurs(v, s) == \E k \in DOMAIN s : s[k] = v

LEMMA CatRange ==
  ASSUME NEW V, NEW a \in Seq(V), NEW b \in Seq(V), NEW v
  PROVE  Occurs(v, Cat(a, b)) <=> Occurs(v, a) \/ Occurs(v, b)
<1>1. PICK c \in Seq(V) : c = Cat(a, b) BY CatType
<1>2. /\ Len(c) = Len(a) + Len(b)
      /\ \A i \in 1 .. Len(a) : c[i] = a[i]
      /\ \A i \in 1 .. Len(b) : c[Len(a) + i] = b[i]
  <2>1. Joined(Cat(a, b), a, b) BY CatElements
  <2>2. QED BY <1>1, <2>1 DEF Joined
<1>3. /\ DOMAIN c = 1 .. Len(c) /\ DOMAIN a = 1 .. Len(a) /\ DOMAIN b = 1 .. Len(b)
      /\ Len(a) \in Nat /\ Len(b) \in Nat
  BY LenProperties
<1>4. \A i \in 1 .. Len(c) : i \in 1 .. Len(a) \/ (i - Len(a) \in 1 .. Len(b) /\ Len(a) + (i - Len(a)) = i)
  BY <1>2, <1>3
<1>5. /\ \A i \in 1 .. Len(a) : i \in 1 .. Len(c)
      /\ \A i \in 1 .. Len(b) : Len(a) + i \in 1 .. Len(c)
  BY <1>2, <1>3
<1>6. ASSUME NEW k \in DOMAIN c, c[k] = v
      PROVE  (\E i \in DOMAIN a : a[i] = v) \/ \E i \in DOMAIN b : b[i] = v
  <2>1. CASE k \in 1 .. Len(a) BY <2>1, <1>2, <1>3, <1>6
  <2>2. CASE k \notin 1 .. Len(a)
    <3>1. k - Len(a) \in 1 .. Len(b) /\ Len(a) + (k - Len(a)) = k BY <2>2, <1>3, <1>4
    <3>2. b[k - Len(a)] = v BY <3>1, <1>2, <1>6
    <3>3. QED BY <3>1, <3>2, <1>3
  <2>3. QED BY <2>1, <2>2
<1>7. ASSUME NEW k \in DOMAIN a, a[k] = v PROVE \E i \in DOMAIN c : c[i] = v
  BY <1>2, <1>3, <1>5, <1>7
<1>8. ASSUME NEW k \in DOMAIN b, b[k] = v PROVE \E i \in DOMAIN c : c[i] = v
  BY <1>2, <1>3, <1>5, <1>8
<1>9. QED BY <1>1, <1>6, <1>7, <1>8 DEF Occurs

(* The elements of FlattenSeq are those of its sequences. *)
LEMMA FlattenRange ==
  ASSUME NEW V, NEW ss \in Seq(Seq(V)), NEW v
  PROVE  Occurs(v, FlattenSeq(ss)) <=> \E i \in DOMAIN ss : Occurs(v, ss[i])
<1> DEFINE S == {u \in Seq(Seq(V)) : Occurs(v, FlattenSeq(u)) <=> \E i \in DOMAIN u : Occurs(v, u[i])}
<1>1. <<>> \in S
  <2>1. <<>> \in Seq(Seq(V)) /\ DOMAIN <<>> = {} BY EmptyIsSeq
  <2>2. QED BY <2>1, FlattenEmpty DEF Occurs
<1>2. ASSUME NEW u \in Seq(Seq(V)), Occurs(v, FlattenSeq(u)) <=> \E i \in DOMAIN u : Occurs(v, u[i]), NEW x \in Seq(V)
      PROVE  Occurs(v, FlattenSeq(Append(u, x))) <=> \E i \in DOMAIN Append(u, x) : Occurs(v, Append(u, x)[i])
  <2>1. PICK w : w = Append(u, x) OBVIOUS
  <2>2. (\E i \in DOMAIN w : Occurs(v, w[i])) <=> (\E i \in DOMAIN u : Occurs(v, u[i])) \/ Occurs(v, x)
    <3>1. DOMAIN w = 1 .. Len(u) + 1 /\ DOMAIN u = 1 .. Len(u) /\ Len(u) \in Nat
      BY <2>1, AppendProperties, LenProperties
    <3>2. (\A i \in 1 .. Len(u) : w[i] = u[i]) /\ w[Len(u) + 1] = x
      BY <2>1, AppendProperties
    <3>3. \A i \in 1 .. Len(u) + 1 : i \in 1 .. Len(u) \/ i = Len(u) + 1 BY <3>1
    <3>4. Len(u) + 1 \in 1 .. Len(u) + 1 /\ \A i \in 1 .. Len(u) : i \in 1 .. Len(u) + 1 BY <3>1
    <3>5. ASSUME NEW i \in DOMAIN w, Occurs(v, w[i]) PROVE (\E j \in DOMAIN u : Occurs(v, u[j])) \/ Occurs(v, x)
      BY <3>1, <3>2, <3>3, <3>5
    <3>6. ASSUME NEW i \in DOMAIN u, Occurs(v, u[i]) PROVE \E j \in DOMAIN w : Occurs(v, w[j])
      BY <3>1, <3>2, <3>4, <3>6
    <3>7. ASSUME Occurs(v, x) PROVE \E j \in DOMAIN w : Occurs(v, w[j])
      BY <3>1, <3>2, <3>4, <3>7
    <3>8. QED BY <3>5, <3>6, <3>7
  <2>3. Occurs(v, Cat(FlattenSeq(u), x)) <=> Occurs(v, FlattenSeq(u)) \/ Occurs(v, x)
    <3>1. PICK y \in Seq(V) : y = FlattenSeq(u) BY FlattenType
    <3>2. Occurs(v, Cat(y, x)) <=> Occurs(v, y) \/ Occurs(v, x) BY CatRange
    <3>3. QED BY <3>1, <3>2
  <2>4. FlattenSeq(w) = Cat(FlattenSeq(u), x) BY <2>1, FlattenAppend
  <2>5. QED BY <1>2, <2>1, <2>2, <2>3, <2>4
<1>3. S = Seq(Seq(V))
  <2>1. S \in SUBSET Seq(Seq(V)) OBVIOUS
  <2>2. \A u \in S, x \in Seq(V) : Append(u, x) \in S
    <3>1. \A u \in Seq(Seq(V)), x \in Seq(V) : Append(u, x) \in Seq(Seq(V)) BY AppendProperties
    <3>2. QED BY <3>1, <1>2
  <2> HIDE DEF S
  <2> QED BY <1>1, <2>1, <2>2, SequencesByAppend
<1>4. QED BY <1>3

(***************************************************************************)
(* Sequences whose elements are in no given set, as IsSequence has them.   *)
(***************************************************************************)
LEMMA SeqMonotone ==
  ASSUME NEW A, NEW B, A \subseteq B, NEW s \in Seq(A)
  PROVE  s \in Seq(B)
OBVIOUS

LEMMA InSeq == ASSUME NEW V, NEW s \in Seq(V) PROVE IsSequence(s) /\ Range(s) \subseteq V
<1>1. Range(s) \subseteq V BY DEF Range
<1>2. \A k \in 1 .. Len(s) : s[k] \in Range(s) BY DEF Range
<1>3. s \in Seq(Range(s)) BY <1>2
<1>4. QED BY <1>1, <1>3 DEF IsSequence

LEMMA SequenceDomain ==
  ASSUME NEW s, IsSequence(s)
  PROVE  /\ Len(s) \in Nat /\ DOMAIN s = 1 .. Len(s)
         /\ \A v : v \in Range(s) <=> Occurs(v, s)
<1>1. s \in Seq(Range(s)) BY DEF IsSequence
<1>2. Len(s) \in Nat /\ DOMAIN s = 1 .. Len(s) BY <1>1, LenProperties
<1>3. QED BY <1>2 DEF Range, Occurs

LEMMA MapIsSequence ==
  ASSUME NEW A, IsSequence(A), NEW F, DOMAIN F = DOMAIN A, F = [k \in DOMAIN A |-> F[k]]
  PROVE  IsSequence(F) /\ Len(F) = Len(A)
<1>1. Len(A) \in Nat /\ DOMAIN A = 1 .. Len(A) BY SequenceDomain
<1>2. F = [k \in 1 .. Len(A) |-> F[k]] BY <1>1
<1>3. \A k \in 1 .. Len(A) : F[k] \in Range(F) BY <1>1 DEF Range
<1>4. F \in [1 .. Len(A) -> Range(F)] BY <1>2, <1>3
<1>5. F \in Seq(Range(F)) /\ Len(F) = Len(A) BY <1>1, <1>4
<1>6. QED BY <1>5 DEF IsSequence

AllSequences(ss) == IsSequence(ss) /\ \A k \in DOMAIN ss : IsSequence(ss[k])

LEMMA OverSet == ASSUME NEW ss, AllSequences(ss) PROVE \E V : ss \in Seq(Seq(V))
<1> DEFINE V == UNION {Range(ss[k]) : k \in DOMAIN ss}
<1>1. ASSUME NEW k \in DOMAIN ss PROVE ss[k] \in Seq(V)
  <2>1. ss[k] \in Seq(Range(ss[k])) /\ Range(ss[k]) \subseteq V BY DEF AllSequences, IsSequence
  <2> HIDE DEF V
  <2>2. QED BY <2>1, SeqMonotone
<1>2. Range(ss) \subseteq Seq(V)
  <2> HIDE DEF V
  <2> QED BY <1>1 DEF Range
<1>3. ss \in Seq(Range(ss)) BY DEF AllSequences, IsSequence
<1>4. ss \in Seq(Seq(V))
  <2> HIDE DEF V
  <2> QED BY <1>2, <1>3, SeqMonotone
<1>5. QED BY <1>4

LEMMA FlattenFacts ==
  ASSUME NEW ss, AllSequences(ss)
  PROVE  /\ IsSequence(FlattenSeq(ss))
         /\ \A v : v \in Range(FlattenSeq(ss)) <=> \E k \in DOMAIN ss : v \in Range(ss[k])
<1>1. PICK V : ss \in Seq(Seq(V)) BY OverSet
<1>2. IsSequence(FlattenSeq(ss)) BY <1>1, FlattenType, InSeq
<1>3. ASSUME NEW v PROVE v \in Range(FlattenSeq(ss)) <=> \E k \in DOMAIN ss : v \in Range(ss[k])
  <2>1. Occurs(v, FlattenSeq(ss)) <=> \E k \in DOMAIN ss : Occurs(v, ss[k]) BY <1>1, FlattenRange
  <2>2. v \in Range(FlattenSeq(ss)) <=> Occurs(v, FlattenSeq(ss)) BY <1>2, SequenceDomain
  <2>3. \A k \in DOMAIN ss : v \in Range(ss[k]) <=> Occurs(v, ss[k])
    BY SequenceDomain DEF AllSequences
  <2>4. QED BY <2>1, <2>2, <2>3
<1>4. QED BY <1>2, <1>3

(* Two sequences of the same length whose elements are pairs of R. *)
Paired(R, s, t) == Len(s) = Len(t) /\ \A i \in 1 .. Len(s) : <<s[i], t[i]>> \in R

LEMMA CatPaired ==
  ASSUME NEW V, NEW W, NEW R, NEW a \in Seq(V), NEW b \in Seq(V), NEW c \in Seq(W), NEW d \in Seq(W),
         Paired(R, a, c), Paired(R, b, d)
  PROVE  Paired(R, Cat(a, b), Cat(c, d))
<1>1. PICK s : s = Cat(a, b) OBVIOUS
<1>2. PICK t : t = Cat(c, d) OBVIOUS
<1>3. /\ Len(s) = Len(a) + Len(b)
      /\ \A i \in 1 .. Len(a) : s[i] = a[i]
      /\ \A i \in 1 .. Len(b) : s[Len(a) + i] = b[i]
  <2>1. Joined(Cat(a, b), a, b) BY CatElements
  <2>2. QED BY <1>1, <2>1 DEF Joined
<1>4. /\ Len(t) = Len(c) + Len(d)
      /\ \A i \in 1 .. Len(c) : t[i] = c[i]
      /\ \A i \in 1 .. Len(d) : t[Len(c) + i] = d[i]
  <2>1. Joined(Cat(c, d), c, d) BY CatElements
  <2>2. QED BY <1>2, <2>1 DEF Joined
<1>5. /\ Len(a) \in Nat /\ Len(b) \in Nat /\ Len(a) = Len(c) /\ Len(b) = Len(d)
      /\ \A i \in 1 .. Len(a) : <<a[i], c[i]>> \in R
      /\ \A i \in 1 .. Len(b) : <<b[i], d[i]>> \in R
  <2>1. Len(a) \in Nat /\ Len(b) \in Nat OBVIOUS
  <2>2. QED BY <2>1 DEF Paired
<1>6. ASSUME NEW i \in 1 .. Len(s) PROVE <<s[i], t[i]>> \in R
  <2>1. CASE i \in 1 .. Len(a) BY <2>1, <1>3, <1>4, <1>5
  <2>2. CASE i \notin 1 .. Len(a)
    <3>1. PICK j \in 1 .. Len(b) : i = Len(a) + j
      <4>1. i - Len(a) \in 1 .. Len(b) /\ i = Len(a) + (i - Len(a)) BY <2>2, <1>3, <1>5
      <4>2. QED BY <4>1
    <3>2. s[i] = b[j] /\ t[i] = d[j] BY <3>1, <1>3, <1>4, <1>5
    <3>3. QED BY <3>2, <1>5
  <2>3. QED BY <2>1, <2>2
<1>7. Len(s) = Len(t) BY <1>3, <1>4, <1>5
<1>8. Paired(R, s, t) BY <1>6, <1>7 DEF Paired
<1>9. QED BY <1>1, <1>2, <1>8

PairedParts(R, ss, tt) == Len(ss) = Len(tt) /\ \A i \in 1 .. Len(ss) : Paired(R, ss[i], tt[i])

(* Sequences paired part by part flatten to paired ones. *)
LEMMA FlattenPaired ==
  ASSUME NEW V, NEW W, NEW R, NEW ss \in Seq(Seq(V)), NEW tt \in Seq(Seq(W)), PairedParts(R, ss, tt)
  PROVE  Paired(R, FlattenSeq(ss), FlattenSeq(tt))
<1> DEFINE S == {u \in Seq(Seq(V)) :
                  \A w \in Seq(Seq(W)) : PairedParts(R, u, w) => Paired(R, FlattenSeq(u), FlattenSeq(w))}
<1>1. ASSUME NEW w \in Seq(Seq(W)), PairedParts(R, <<>>, w) PROVE Paired(R, FlattenSeq(<<>>), FlattenSeq(w))
  <2>1. Len(w) = 0 BY <1>1, EmptyIsSeq DEF PairedParts
  <2>2. w = <<>> BY <2>1
  <2>3. QED BY <2>2, FlattenEmpty DEF Paired
<1>2. ASSUME NEW u \in Seq(Seq(V)), NEW x \in Seq(V), NEW w \in Seq(Seq(W)),
             \A z \in Seq(Seq(W)) : PairedParts(R, u, z) => Paired(R, FlattenSeq(u), FlattenSeq(z)),
             PairedParts(R, Append(u, x), w)
      PROVE  Paired(R, FlattenSeq(Append(u, x)), FlattenSeq(w))
  <2>1. /\ Len(Append(u, x)) = Len(u) + 1 /\ Len(u) \in Nat
        /\ (\A i \in 1 .. Len(u) : Append(u, x)[i] = u[i]) /\ Append(u, x)[Len(u) + 1] = x
    BY AppendProperties
  <2>2. Len(w) = Len(u) + 1 /\ w # <<>>
    <3>1. Len(w) = Len(Append(u, x)) BY <1>2 DEF PairedParts
    <3>2. Len(w) = Len(u) + 1 /\ Len(w) # 0 BY <3>1, <2>1
    <3>3. QED BY <3>2
  <2>3. PICK z \in Seq(Seq(W)), y \in Seq(W) : w = Append(z, y) BY <2>2, SequenceEmptyOrAppend
  <2>4. /\ Len(z) = Len(u)
        /\ (\A i \in 1 .. Len(z) : w[i] = z[i]) /\ w[Len(z) + 1] = y
    BY <2>1, <2>2, <2>3, AppendProperties
  <2>5. \A i \in 1 .. Len(u) + 1 : Paired(R, Append(u, x)[i], w[i]) BY <1>2, <2>1 DEF PairedParts
  <2>6. Paired(R, x, y)
    <3>1. Len(u) + 1 \in 1 .. Len(u) + 1 BY <2>1
    <3>2. QED BY <3>1, <2>1, <2>4, <2>5
  <2>7. PairedParts(R, u, z)
    <3>1. ASSUME NEW i \in 1 .. Len(u) PROVE Paired(R, u[i], z[i])
      <4>1. i \in 1 .. Len(u) + 1 BY <2>1
      <4>2. QED BY <4>1, <2>1, <2>4, <2>5
    <3>2. QED BY <3>1, <2>4 DEF PairedParts
  <2>8. Paired(R, FlattenSeq(u), FlattenSeq(z)) BY <1>2, <2>7
  <2>9. Paired(R, Cat(FlattenSeq(u), x), Cat(FlattenSeq(z), y))
    <3>1. PICK a \in Seq(V), c \in Seq(W) : a = FlattenSeq(u) /\ c = FlattenSeq(z) BY FlattenType
    <3>2. Paired(R, a, c) BY <2>8, <3>1
    <3>3. Paired(R, Cat(a, x), Cat(c, y)) BY <3>2, <2>6, CatPaired
    <3>4. QED BY <3>1, <3>3
  <2>10. QED BY <2>3, <2>9, FlattenAppend
<1>3. S = Seq(Seq(V))
  <2>1. S \in SUBSET Seq(Seq(V)) OBVIOUS
  <2>2. <<>> \in S
    <3>1. <<>> \in Seq(Seq(V)) BY EmptyIsSeq
    <3>2. QED BY <3>1, <1>1
  <2>3. \A u \in S, x \in Seq(V) : Append(u, x) \in S
    <3>1. \A u \in Seq(Seq(V)), x \in Seq(V) : Append(u, x) \in Seq(Seq(V)) BY AppendProperties
    <3>2. QED BY <3>1, <1>2
  <2> HIDE DEF S
  <2> QED BY <2>1, <2>2, <2>3, SequencesByAppend
<1>4. QED BY <1>3

(***************************************************************************)
(* The filter conditions that capture something.                           *)
(***************************************************************************)
CapturingParts(F) == [k \in DOMAIN F |-> IF HasCaptures(F[k]) THEN <<F[k]>> ELSE <<>>]

LEMMA CapturingPartsType ==
  ASSUME NEW V, NEW F \in Seq(V)
  PROVE  CapturingParts(F) \in Seq(Seq(V)) /\ Len(CapturingParts(F)) = Len(F)
<1>1. Len(F) \in Nat /\ DOMAIN F = 1 .. Len(F) BY LenProperties
<1>2. \A k \in 1 .. Len(F) : (IF HasCaptures(F[k]) THEN <<F[k]>> ELSE <<>>) \in Seq(V)
  <2>1. \A k \in 1 .. Len(F) : <<F[k]>> \in Seq(V) OBVIOUS
  <2>2. QED BY <2>1, EmptyIsSeq
<1>3. CapturingParts(F) \in [1 .. Len(F) -> Seq(V)] BY <1>1, <1>2, Zenon DEF CapturingParts
<1>4. QED BY <1>1, <1>3

LEMMA CapturingType == ASSUME NEW V, NEW F \in Seq(V) PROVE Capturing(F) \in Seq(V)
<1>1. Capturing(F) = FlattenSeq(CapturingParts(F)) BY DEF Capturing, CapturingParts
<1>2. QED BY <1>1, CapturingPartsType, FlattenType

LEMMA CapturingCat ==
  ASSUME NEW V, NEW a \in Seq(V), NEW b \in Seq(V)
  PROVE  Capturing(Cat(a, b)) = Cat(Capturing(a), Capturing(b))
<1>1. PICK c \in Seq(V) : c = Cat(a, b) BY CatType
<1>2. PICK A \in Seq(Seq(V)), B \in Seq(Seq(V)) :
        A = CapturingParts(a) /\ B = CapturingParts(b) /\ Len(A) = Len(a) /\ Len(B) = Len(b)
  BY CapturingPartsType
<1>3. PICK C \in Seq(Seq(V)) : C = CapturingParts(c) /\ Len(C) = Len(c) BY CapturingPartsType
<1>4. PICK D \in Seq(Seq(V)) : D = Cat(A, B) BY CatType
<1>5. /\ Len(c) = Len(a) + Len(b)
      /\ \A i \in 1 .. Len(a) : c[i] = a[i]
      /\ \A i \in 1 .. Len(b) : c[Len(a) + i] = b[i]
  <2>1. Joined(Cat(a, b), a, b) BY CatElements
  <2>2. QED BY <1>1, <2>1 DEF Joined
<1>6. /\ Len(D) = Len(A) + Len(B)
      /\ \A i \in 1 .. Len(A) : D[i] = A[i]
      /\ \A i \in 1 .. Len(B) : D[Len(A) + i] = B[i]
  <2>1. Joined(Cat(A, B), A, B) BY CatElements
  <2>2. QED BY <1>4, <2>1 DEF Joined
<1>7. /\ Len(a) \in Nat /\ Len(b) \in Nat /\ Len(c) \in Nat
      /\ DOMAIN a = 1 .. Len(a) /\ DOMAIN b = 1 .. Len(b) /\ DOMAIN c = 1 .. Len(c)
  BY LenProperties
<1>8. /\ \A i \in 1 .. Len(a) : A[i] = IF HasCaptures(a[i]) THEN <<a[i]>> ELSE <<>>
      /\ \A i \in 1 .. Len(b) : B[i] = IF HasCaptures(b[i]) THEN <<b[i]>> ELSE <<>>
      /\ \A i \in 1 .. Len(c) : C[i] = IF HasCaptures(c[i]) THEN <<c[i]>> ELSE <<>>
  BY <1>2, <1>3, <1>7, Zenon DEF CapturingParts
<1>9. ASSUME NEW i \in 1 .. Len(C) PROVE C[i] = D[i]
  <2>0. i \in 1 .. Len(c) BY <1>3
  <2>1. CASE i \in 1 .. Len(a)
    <3>1. c[i] = a[i] /\ D[i] = A[i] BY <2>1, <1>2, <1>5, <1>6
    <3>2. QED BY <2>0, <2>1, <3>1, <1>8, Zenon
  <2>2. CASE i \notin 1 .. Len(a)
    <3>1. PICK j \in 1 .. Len(b) : i = Len(a) + j
      <4>1. i - Len(a) \in 1 .. Len(b) /\ i = Len(a) + (i - Len(a)) BY <2>0, <2>2, <1>5, <1>7
      <4>2. QED BY <4>1
    <3>2. c[i] = b[j] /\ D[i] = B[j] BY <3>1, <1>2, <1>5, <1>6
    <3>3. QED BY <2>0, <3>2, <1>8, Zenon
  <2>3. QED BY <2>1, <2>2
<1>10. C = D
  <2>1. Len(C) = Len(D) BY <1>2, <1>3, <1>5, <1>6
  <2>2. QED BY <2>1, <1>9, SeqEqual
<1>11. FlattenSeq(Cat(A, B)) = Cat(FlattenSeq(A), FlattenSeq(B)) BY FlattenConcat
<1>12. QED BY <1>1, <1>2, <1>3, <1>4, <1>10, <1>11, Zenon DEF Capturing, CapturingParts

(* Whether one looks for those that capture before or after flattening. *)
CapturingEach(ss) == [i \in DOMAIN ss |-> Capturing(ss[i])]

LEMMA FunctionIsSeq ==
  ASSUME NEW X, NEW n \in Nat, NEW F \in [1 .. n -> X]
  PROVE  F \in Seq(X) /\ Len(F) = n
OBVIOUS

LEMMA CapturingEachType ==
  ASSUME NEW V, NEW ss \in Seq(Seq(V))
  PROVE  /\ CapturingEach(ss) \in Seq(Seq(V)) /\ Len(CapturingEach(ss)) = Len(ss)
         /\ \A i \in 1 .. Len(ss) : CapturingEach(ss)[i] = Capturing(ss[i])
<1>1. Len(ss) \in Nat /\ DOMAIN ss = 1 .. Len(ss) /\ \A i \in 1 .. Len(ss) : ss[i] \in Seq(V)
  BY LenProperties
<1>2. \A i \in 1 .. Len(ss) : Capturing(ss[i]) \in Seq(V) BY <1>1, CapturingType
<1>3. CapturingEach(ss) \in [1 .. Len(ss) -> Seq(V)] BY <1>1, <1>2, Zenon DEF CapturingEach
<1>4. CapturingEach(ss) \in Seq(Seq(V)) /\ Len(CapturingEach(ss)) = Len(ss)
  <2>1. PICK F : F = CapturingEach(ss) OBVIOUS
  <2>2. F \in [1 .. Len(ss) -> Seq(V)] BY <1>3, <2>1
  <2>3. F \in Seq(Seq(V)) /\ Len(F) = Len(ss) BY <1>1, <2>2, FunctionIsSeq
  <2>4. QED BY <2>1, <2>3
<1>5. QED BY <1>1, <1>4 DEF CapturingEach

LEMMA CapturingFlatten ==
  ASSUME NEW V, NEW ss \in Seq(Seq(V))
  PROVE  Capturing(FlattenSeq(ss)) = FlattenSeq(CapturingEach(ss))
<1> DEFINE S == {u \in Seq(Seq(V)) : Capturing(FlattenSeq(u)) = FlattenSeq(CapturingEach(u))}
<1>1. Capturing(FlattenSeq(<<>>)) = FlattenSeq(CapturingEach(<<>>))
  <2>1. CapturingEach(<<>>) = <<>> /\ CapturingParts(<<>>) = <<>>
    BY DEF CapturingEach, CapturingParts
  <2>2. Capturing(<<>>) = FlattenSeq(CapturingParts(<<>>)) BY Zenon DEF Capturing, CapturingParts
  <2>3. QED BY <2>1, <2>2, FlattenEmpty, Zenon
<1>2. ASSUME NEW u \in Seq(Seq(V)), NEW x \in Seq(V),
             Capturing(FlattenSeq(u)) = FlattenSeq(CapturingEach(u))
      PROVE  Capturing(FlattenSeq(Append(u, x))) = FlattenSeq(CapturingEach(Append(u, x)))
  <2>1. PICK w \in Seq(Seq(V)) : w = Append(u, x) BY AppendProperties
  <2>2. /\ Len(w) = Len(u) + 1 /\ Len(u) \in Nat
        /\ (\A i \in 1 .. Len(u) : w[i] = u[i]) /\ w[Len(u) + 1] = x
    BY <2>1, AppendProperties
  <2>3. PICK A \in Seq(Seq(V)), B \in Seq(Seq(V)), y \in Seq(V) :
          /\ A = CapturingEach(u) /\ Len(A) = Len(u) /\ \A i \in 1 .. Len(u) : A[i] = Capturing(u[i])
          /\ B = CapturingEach(w) /\ Len(B) = Len(w) /\ \A i \in 1 .. Len(w) : B[i] = Capturing(w[i])
          /\ y = Capturing(x)
    BY CapturingEachType, CapturingType
  <2>4. B = Append(A, y)
    <3>1. PICK D \in Seq(Seq(V)) : D = Append(A, y) BY AppendProperties
    <3>2. /\ Len(D) = Len(u) + 1
          /\ (\A i \in 1 .. Len(u) : D[i] = A[i]) /\ D[Len(u) + 1] = y
      BY <2>3, <3>1, AppendProperties
    <3>3. ASSUME NEW i \in 1 .. Len(B) PROVE B[i] = D[i]
      <4>1. i \in 1 .. Len(w) BY <2>3
      <4>2. CASE i = Len(u) + 1 BY <4>1, <4>2, <2>2, <2>3, <3>2
      <4>3. CASE i # Len(u) + 1
        <5>0. \A n \in Nat : i \in 1 .. n + 1 /\ i # n + 1 => i \in 1 .. n OBVIOUS
        <5>1. i \in 1 .. Len(u) BY <5>0, <4>1, <4>3, <2>2
        <5>2. QED BY <4>1, <5>1, <2>2, <2>3, <3>2
      <4>4. QED BY <4>2, <4>3
    <3>4. Len(B) = Len(D) BY <2>2, <2>3, <3>2
    <3>5. QED BY <3>1, <3>3, <3>4, SeqEqual
  <2>5. Capturing(Cat(FlattenSeq(u), x)) = Cat(Capturing(FlattenSeq(u)), y)
    <3>1. PICK a \in Seq(V) : a = FlattenSeq(u) BY FlattenType
    <3>2. Capturing(Cat(a, x)) = Cat(Capturing(a), Capturing(x)) BY CapturingCat
    <3>3. QED BY <3>1, <3>2, <2>3
  <2>6. FlattenSeq(w) = Cat(FlattenSeq(u), x) /\ FlattenSeq(B) = Cat(FlattenSeq(A), y)
    BY <2>1, <2>4, FlattenAppend
  <2>7. QED BY <1>2, <2>1, <2>3, <2>5, <2>6
<1>3. S = Seq(Seq(V))
  <2>1. S \in SUBSET Seq(Seq(V)) OBVIOUS
  <2>2. <<>> \in S
    <3>1. <<>> \in Seq(Seq(V)) BY EmptyIsSeq
    <3>2. QED BY <3>1, <1>1
  <2>3. \A u \in S, x \in Seq(V) : Append(u, x) \in S
    <3>1. \A u \in Seq(Seq(V)), x \in Seq(V) : Append(u, x) \in Seq(Seq(V)) BY AppendProperties
    <3>2. QED BY <3>1, <1>2
  <2> HIDE DEF S
  <2> QED BY <2>1, <2>2, <2>3, SequencesByAppend
<1>4. QED BY <1>3

(***************************************************************************)
(* QueryArgReqData::parse(): the vector of a name has the values of the    *)
(* arguments of that name, raw or decoded, in the same places.             *)
(***************************************************************************)
LEMMA ArgsSequence ==
  ASSUME NEW q, IsArgs(q.args)
  PROVE  /\ IsSequence(ArgsOf(q))
         /\ \A k \in DOMAIN ArgsOf(q) :
              ArgsOf(q)[k].val # NoVal => DecodeOf[ArgsOf(q)[k].val] # NoVal
<1>1. CASE q.args = NoArgs
  <2>1. ArgsOf(q) = <<>> BY <1>1 DEF ArgsOf
  <2>2. IsSequence(<<>>) /\ DOMAIN <<>> = {} BY EmptyIsSeq DEF IsSequence
  <2>3. QED BY <2>1, <2>2, Zenon
<1>2. CASE q.args # NoArgs BY <1>2 DEF ArgsOf, IsArgs
<1>3. QED BY <1>1, <1>2

PushedParts(n, A, raw) == [k \in DOMAIN A |-> PushedFor(n, A[k], raw)]

LEMMA PushedPartsType ==
  ASSUME NEW n, NEW A, IsSequence(A), NEW raw
  PROVE  /\ AllSequences(PushedParts(n, A, raw)) /\ Len(PushedParts(n, A, raw)) = Len(A)
         /\ \A k \in DOMAIN A : PushedParts(n, A, raw)[k] = PushedFor(n, A[k], raw)
<1>1. PICK F : F = PushedParts(n, A, raw) OBVIOUS
<1>2. DOMAIN F = DOMAIN A /\ F = [k \in DOMAIN A |-> F[k]] BY <1>1 DEF PushedParts
<1>3. IsSequence(F) /\ Len(F) = Len(A) BY <1>2, MapIsSequence
<1>4. \A k \in DOMAIN A : F[k] = PushedFor(n, A[k], raw) BY <1>1 DEF PushedParts
<1>5. ASSUME NEW k \in DOMAIN A PROVE IsSequence(PushedFor(n, A[k], raw))
  <2>1. <<ValueOf(A[k].val, raw)>> \in Seq({ValueOf(A[k].val, raw)}) OBVIOUS
  <2>2. <<>> \in Seq({}) BY EmptyIsSeq
  <2>3. IsSequence(<<ValueOf(A[k].val, raw)>>) BY <2>1, InSeq
  <2>4. IsSequence(<<>>) BY <2>2, InSeq
  <2>5. QED BY <2>3, <2>4, Zenon DEF PushedFor
<1>6. QED BY <1>1, <1>2, <1>3, <1>4, <1>5 DEF AllSequences

LEMMA ParseDomain ==
  ASSUME NEW q, IsArgs(q.args), NEW raw, NEW n
  PROVE  /\ n \in DOMAIN Parse(q, raw) <=> \E a \in Range(ArgsOf(q)) : DecodeOf[a.name] = n
         /\ n \in DOMAIN Parse(q, raw) => Parse(q, raw)[n] = FlattenSeq(PushedParts(n, ArgsOf(q), raw))
<1> DEFINE A == ArgsOf(q)
<1>1. DOMAIN Parse(q, raw) = {DecodeOf[A[k].name] : k \in DOMAIN A} BY Zenon DEF Parse
<1>2. \A m \in {DecodeOf[A[k].name] : k \in DOMAIN A} : Parse(q, raw)[m] = FlattenSeq(PushedParts(m, A, raw))
  BY Zenon DEF Parse, PushedParts
<1> HIDE DEF A
<1>3. \A a : a \in Range(A) <=> \E k \in DOMAIN A : A[k] = a BY DEF Range
<1>4. n \in DOMAIN Parse(q, raw) <=> \E a \in Range(A) : DecodeOf[a.name] = n BY <1>1, <1>3
<1>5. QED BY <1>1, <1>2, <1>4 DEF A

LEMMA ParseValues ==
  ASSUME NEW q, IsArgs(q.args), NEW raw, NEW n \in DOMAIN Parse(q, raw)
  PROVE  /\ IsSequence(Parse(q, raw)[n])
         /\ \A v : v \in Range(Parse(q, raw)[n])
              <=> \E a \in Range(ArgsOf(q)) : DecodeOf[a.name] = n /\ ValueOf(a.val, raw) = v
<1>1. PICK A : A = ArgsOf(q) /\ IsSequence(A) BY ArgsSequence
<1>2. PICK ss : ss = PushedParts(n, A, raw) OBVIOUS
<1>3. AllSequences(ss) /\ \A k \in DOMAIN A : ss[k] = PushedFor(n, A[k], raw) BY <1>1, <1>2, PushedPartsType
<1>4. DOMAIN ss = DOMAIN A BY <1>2 DEF PushedParts
<1>5. Parse(q, raw)[n] = FlattenSeq(ss) BY <1>1, <1>2, ParseDomain
<1>6. /\ IsSequence(FlattenSeq(ss))
      /\ \A v : v \in Range(FlattenSeq(ss)) <=> \E k \in DOMAIN ss : v \in Range(ss[k])
  BY <1>3, FlattenFacts
<1>7. ASSUME NEW v, NEW k \in DOMAIN A
      PROVE  v \in Range(ss[k]) <=> DecodeOf[A[k].name] = n /\ ValueOf(A[k].val, raw) = v
  <2>1. CASE DecodeOf[A[k].name] = n
    <3>1. ss[k] = <<ValueOf(A[k].val, raw)>> BY <1>3, <2>1 DEF PushedFor
    <3>2. QED BY <2>1, <3>1 DEF Range
  <2>2. CASE DecodeOf[A[k].name] # n
    <3>1. ss[k] = <<>> BY <1>3, <2>2 DEF PushedFor
    <3>2. QED BY <2>2, <3>1 DEF Range
  <2>3. QED BY <2>1, <2>2
<1>8. \A a : a \in Range(A) <=> \E k \in DOMAIN A : A[k] = a BY DEF Range
<1>9. QED BY <1>1, <1>4, <1>5, <1>6, <1>7, <1>8

(* A name has as many raw as decoded values, and no value in the same places. *)
LEMMA ParsePaired ==
  ASSUME NEW q, IsArgs(q.args), NEW r \in BOOLEAN, NEW t \in BOOLEAN, NEW n \in DOMAIN Parse(q, r)
  PROVE  /\ n \in DOMAIN Parse(q, t)
         /\ Len(Parse(q, r)[n]) = Len(Parse(q, t)[n])
         /\ 1 \in DOMAIN Parse(q, r)[n]
         /\ Parse(q, r)[n][1] = NoVal <=> Parse(q, t)[n][1] = NoVal
<1>1. PICK A : A = ArgsOf(q) /\ IsSequence(A) BY ArgsSequence
<1>2. \A k \in DOMAIN A : A[k].val # NoVal => DecodeOf[A[k].val] # NoVal BY <1>1, ArgsSequence
<1>3. n \in DOMAIN Parse(q, t) BY ParseDomain
<1>4. PICK ss : ss = PushedParts(n, A, r) OBVIOUS
<1>5. PICK tt : tt = PushedParts(n, A, t) OBVIOUS
<1>6. Parse(q, r)[n] = FlattenSeq(ss) /\ Parse(q, t)[n] = FlattenSeq(tt)
  BY <1>1, <1>3, <1>4, <1>5, ParseDomain
<1>7. /\ AllSequences(ss) /\ \A k \in DOMAIN A : ss[k] = PushedFor(n, A[k], r)
      /\ AllSequences(tt) /\ \A k \in DOMAIN A : tt[k] = PushedFor(n, A[k], t)
      /\ Len(ss) = Len(A) /\ Len(tt) = Len(A)
  <2>1. /\ AllSequences(PushedParts(n, A, r)) /\ Len(PushedParts(n, A, r)) = Len(A)
        /\ \A k \in DOMAIN A : PushedParts(n, A, r)[k] = PushedFor(n, A[k], r)
    BY <1>1, PushedPartsType
  <2>2. /\ AllSequences(PushedParts(n, A, t)) /\ Len(PushedParts(n, A, t)) = Len(A)
        /\ \A k \in DOMAIN A : PushedParts(n, A, t)[k] = PushedFor(n, A[k], t)
    BY <1>1, PushedPartsType
  <2>3. QED BY <1>4, <1>5, <2>1, <2>2
<1>8. PICK V : ss \in Seq(Seq(V)) BY <1>7, OverSet
<1>9. PICK W : tt \in Seq(Seq(W)) BY <1>7, OverSet
<1> DEFINE X == {ValueOf(A[k].val, r) : k \in DOMAIN A}
           Y == {ValueOf(A[k].val, t) : k \in DOMAIN A}
           R == {xy \in X \X Y : xy[1] = NoVal <=> xy[2] = NoVal}
<1>10. ASSUME NEW k \in 1 .. Len(ss) PROVE Paired(R, ss[k], tt[k])
  <2>1. k \in DOMAIN A BY <1>1, <1>7, SequenceDomain
  <2>2. CASE DecodeOf[A[k].name] = n
    <3>1. PICK x, y : x = ValueOf(A[k].val, r) /\ y = ValueOf(A[k].val, t) OBVIOUS
    <3>2. ss[k] = <<x>> /\ tt[k] = <<y>> BY <1>7, <2>1, <2>2, <3>1 DEF PushedFor
    <3>3. x = NoVal <=> y = NoVal BY <1>2, <2>1, <3>1 DEF ValueOf
    <3>4. x \in X /\ y \in Y BY <2>1, <3>1
    <3>5. <<x, y>> \in R BY <3>3, <3>4
    <3> HIDE DEF R
    <3>6. QED BY <3>2, <3>5 DEF Paired
  <2>3. CASE DecodeOf[A[k].name] # n
    <3>1. ss[k] = <<>> /\ tt[k] = <<>> BY <1>7, <2>1, <2>3 DEF PushedFor
    <3>2. QED BY <3>1, EmptyIsSeq DEF Paired
  <2>4. QED BY <2>2, <2>3
<1>11. PICK x, y : x = FlattenSeq(ss) /\ y = FlattenSeq(tt) OBVIOUS
<1>12. Paired(R, x, y)
  <2> HIDE DEF R
  <2>1. PairedParts(R, ss, tt) BY <1>7, <1>10 DEF PairedParts
  <2>2. QED BY <2>1, <1>8, <1>9, <1>11, FlattenPaired
<1>13. 1 \in DOMAIN x /\ DOMAIN x = 1 .. Len(x)
  <2>1. IsSequence(x)
    <3>1. IsSequence(Parse(q, r)[n]) BY ParseValues
    <3>2. QED BY <3>1, <1>6, <1>11
  <2>2. PICK a \in Range(ArgsOf(q)) : DecodeOf[a.name] = n BY ParseDomain
  <2>3. ValueOf(a.val, r) \in Range(x)
    <3>1. \A v : v \in Range(Parse(q, r)[n])
            <=> \E b \in Range(ArgsOf(q)) : DecodeOf[b.name] = n /\ ValueOf(b.val, r) = v
      BY ParseValues
    <3>2. ValueOf(a.val, r) \in Range(Parse(q, r)[n]) BY <3>1, <2>2
    <3>3. QED BY <3>2, <1>6, <1>11
  <2>4. Len(x) \in Nat /\ DOMAIN x = 1 .. Len(x) BY <2>1, SequenceDomain
  <2>5. DOMAIN x # {} BY <2>3 DEF Range
  <2>6. QED BY <2>4, <2>5
<1>14. x[1] = NoVal <=> y[1] = NoVal
  <2>1. <<x[1], y[1]>> \in R BY <1>12, <1>13 DEF Paired
  <2>2. QED BY <2>1
<1>15. Len(x) = Len(y) BY <1>12 DEF Paired
<1>16. QED BY <1>3, <1>6, <1>11, <1>13, <1>14, <1>15

(* The decoded arguments of a request. *)
Decoded(q) == Parse(q, FALSE)

LEMMA DecodedNames ==
  ASSUME NEW q, IsArgs(q.args), NEW n
  PROVE  n \in DOMAIN Decoded(q) <=> \E a \in Range(ArgsOf(q)) : DecodeOf[a.name] = n
<1>1. PICK r \in BOOLEAN : r = FALSE OBVIOUS
<1>2. n \in DOMAIN Parse(q, r) <=> \E a \in Range(ArgsOf(q)) : DecodeOf[a.name] = n BY ParseDomain
<1>3. QED BY <1>1, <1>2, Zenon DEF Decoded

LEMMA DecodedValues ==
  ASSUME NEW q, IsArgs(q.args), NEW n, n \in DOMAIN Decoded(q), NEW v, v # NoVal
  PROVE  v \in Range(Decoded(q)[n])
           <=> \E a \in Range(ArgsOf(q)) : DecodeOf[a.name] = n /\ a.val # NoVal /\ DecodeOf[a.val] = v
<1>1. PICK r \in BOOLEAN : r = FALSE OBVIOUS
<1>2. n \in DOMAIN Parse(q, r) BY <1>1, Zenon DEF Decoded
<1>3. v \in Range(Parse(q, r)[n]) <=> \E a \in Range(ArgsOf(q)) : DecodeOf[a.name] = n /\ ValueOf(a.val, r) = v
  BY <1>2, ParseValues
<1>4. \A x : ValueOf(x, r) = v <=> x # NoVal /\ DecodeOf[x] = v BY <1>1 DEF ValueOf
<1>5. v \in Range(Parse(q, r)[n])
        <=> \E a \in Range(ArgsOf(q)) : DecodeOf[a.name] = n /\ a.val # NoVal /\ DecodeOf[a.val] = v
  BY <1>3, <1>4
<1>6. QED BY <1>1, <1>5, Zenon DEF Decoded

(***************************************************************************)
(* The filter conditions of a child, and what they say together.           *)
(***************************************************************************)
Classes == {"CoreServerName", "RequestSubreq", "RequestIntRedir", "QueryArgName",
            "QueryArgNameVal", "PathSlash", "PathMatched", "PathRegEx"}

IsFilter(f, p) == f.class \in Classes /\ f.phase = p

LEMMA FilterFields ==
  ASSUME NEW c, NEW p, NEW a, NEW v
  PROVE  /\ Filter(c, p, a, v).class = c /\ Filter(c, p, a, v).phase = p
         /\ Filter(c, p, a, v).arg = a /\ Filter(c, p, a, v).val = v
BY DEF Filter

(* What stands for the pattern itself. *)
PatternFilter(c, p) ==
  IF RegExOf[c.arg] # NoRegEx THEN PathRegExFiltCond(p, RegExOf[c.arg]) ELSE PathMatchedFiltCond(p)

LEMMA PatternFilters ==
  ASSUME NEW c, NEW p, c.elem = "Pattern"
  PROVE  PathFilters(c, p) = IF c.opt THEN <<PatternFilter(c, p)>>
                             ELSE <<PatternFilter(c, p), PathSlashFiltCond(p, c.arg \in SlashEnd)>>
<1>1. PICK x, y : x = PatternFilter(c, p) /\ y = PathSlashFiltCond(p, c.arg \in SlashEnd) OBVIOUS
<1>2. PathFilters(c, p) = <<x>> \o (IF c.opt THEN <<>> ELSE <<y>>)
  BY <1>1, Zenon DEF PathFilters, PatternFilter
<1>3. <<x>> \o <<>> = <<x>> /\ <<x>> \o <<y>> = <<x, y>>
  <2>1. <<x>> \in Seq({x, y}) /\ y \in {x, y} OBVIOUS
  <2>2. Append(<<x>>, y) = <<x>> \o <<y>> BY <2>1, AppendIsConcat, Zenon
  <2>3. Append(<<x>>, y) = <<x, y>>
    <3>1. PICK s, t : s = Append(<<x>>, y) /\ t = <<x, y>> OBVIOUS
    <3>2. Len(<<x>>) = 1 /\ <<x>>[1] = x OBVIOUS
    <3>3. s \in Seq({x, y}) /\ Len(s) = 2 /\ s[1] = x /\ s[2] = y BY <2>1, <3>1, <3>2, AppendProperties
    <3>4. t \in Seq({x, y}) /\ Len(t) = 2 /\ t[1] = x /\ t[2] = y BY <3>1
    <3>5. \A i \in 1 .. 2 : i = 1 \/ i = 2 OBVIOUS
    <3>6. s = t BY <3>3, <3>4, <3>5, SeqEqual
    <3>7. QED BY <3>1, <3>6
  <2>4. <<x>> \o <<>> = <<x>> BY <2>1, ConcatEmptySeq, Zenon
  <2>5. QED BY <2>2, <2>3, <2>4, Zenon
<1>4. PathFilters(c, p) = IF c.opt THEN <<x>> ELSE <<x, y>> BY <1>2, <1>3, Zenon
<1>5. QED BY <1>1, <1>4, Zenon

LEMMA ShortSequences ==
  ASSUME NEW x, NEW y
  PROVE  /\ IsSequence(<<>>) /\ Range(<<>>) = {}
         /\ IsSequence(<<x>>) /\ Range(<<x>>) = {x}
         /\ IsSequence(<<x, y>>) /\ Range(<<x, y>>) = {x, y}
<1>1. Range(<<>>) = {} /\ Range(<<x>>) = {x} /\ Range(<<x, y>>) = {x, y} BY DEF Range
<1>2. <<>> \in Seq({}) /\ <<x>> \in Seq({x}) /\ <<x, y>> \in Seq({x, y}) OBVIOUS
<1>3. QED BY <1>1, <1>2, Zenon DEF IsSequence

LEMMA ChildFiltersType ==
  ASSUME NEW m \in Modules, NEW c, NEW p
  PROVE  /\ IsSequence(ChildFilters(m, c, p))
         /\ \A f \in Range(ChildFilters(m, c, p)) : IsFilter(f, p)
<1> DEFINE Good(s) == IsSequence(s) /\ \A f \in Range(s) : IsFilter(f, p)
<1>1. Good(<<>>) BY ShortSequences
<1>2. ASSUME NEW x, IsFilter(x, p) PROVE Good(<<x>>)
  <2>1. IsSequence(<<x>>) /\ Range(<<x>>) = {x} BY ShortSequences, Zenon
  <2>2. QED BY <1>2, <2>1, Zenon
<1>3. ASSUME NEW x, NEW y, IsFilter(x, p), IsFilter(y, p) PROVE Good(<<x, y>>)
  <2>1. IsSequence(<<x, y>>) /\ Range(<<x, y>>) = {x, y} BY ShortSequences, Zenon
  <2>2. QED BY <1>3, <2>1, Zenon
<1>4. \A k \in Classes : \A a, v : IsFilter(Filter(k, p, a, v), p) BY FilterFields DEF IsFilter
<1> HIDE DEF Good
<1>5. CASE m = "Core"
  <2>1. \A a : IsFilter(CoreServerNameFiltCond(p, a), p) BY <1>4 DEF CoreServerNameFiltCond, Classes
  <2>2. Good(CoreFilters(c, p)) BY <2>1, <1>1, <1>2 DEF CoreFilters
  <2>3. ChildFilters(m, c, p) = CoreFilters(c, p) BY <1>5 DEF ChildFilters
  <2>4. QED BY <2>2, <2>3 DEF Good
<1>6. CASE m = "Request"
  <2>1. \A a : IsFilter(RequestSubreqFiltCond(p, a), p) /\ IsFilter(RequestIntRedirFiltCond(p, a), p)
    BY <1>4 DEF RequestSubreqFiltCond, RequestIntRedirFiltCond, Classes
  <2>2. Good(RequestFilters(c, p)) BY <2>1, <1>1, <1>2 DEF RequestFilters
  <2>3. ChildFilters(m, c, p) = RequestFilters(c, p) BY <1>6 DEF ChildFilters
  <2>4. QED BY <2>2, <2>3 DEF Good
<1>7. CASE m = "QueryArg"
  <2>1. \A a, v : IsFilter(QueryArgNameFiltCond(p, a), p) /\ IsFilter(QueryArgNameValFiltCond(p, a, v), p)
    BY <1>4 DEF QueryArgNameFiltCond, QueryArgNameValFiltCond, Classes
  <2>2. Good(QueryArgFilters(c, p)) BY <2>1, <1>1, <1>2 DEF QueryArgFilters
  <2>3. ChildFilters(m, c, p) = QueryArgFilters(c, p) BY <1>7 DEF ChildFilters
  <2>4. QED BY <2>2, <2>3 DEF Good
<1>8. CASE m = "Path"
  <2>1. \A a : /\ IsFilter(PathRegExFiltCond(p, a), p) /\ IsFilter(PathMatchedFiltCond(p), p)
               /\ IsFilter(PathSlashFiltCond(p, a), p)
    BY <1>4 DEF PathRegExFiltCond, PathMatchedFiltCond, PathSlashFiltCond, Classes
  <2>2. Good(PathFilters(c, p))
    <3>1. CASE c.elem = "Pattern"
      <4>1. IsFilter(PatternFilter(c, p), p) BY <2>1 DEF PatternFilter
      <4>2. PICK x : x = (c.arg \in SlashEnd) OBVIOUS
      <4>3. IsFilter(PathSlashFiltCond(p, c.arg \in SlashEnd), p) BY <2>1, <4>2, Zenon
      <4>4. QED BY <3>1, <4>1, <4>3, <1>2, <1>3, PatternFilters, Zenon
    <3>2. CASE c.elem # "Pattern" BY <3>2, <2>1, <1>1, <1>2 DEF PathFilters
    <3>3. QED BY <3>1, <3>2
  <2>3. ChildFilters(m, c, p) = PathFilters(c, p) BY <1>8 DEF ChildFilters
  <2>4. QED BY <2>2, <2>3 DEF Good
<1>9. QED BY <1>5, <1>6, <1>7, <1>8 DEF Modules

(* What the filter conditions of a child ask of a request, and what the    *)
(* narrowing does.                                                         *)
FiltersHold(m, c, p, q) == \A f \in Range(ChildFilters(m, c, p)) : Matches(f, q, Decoded(q))
Narrowed(m, c, q) == m = "Path" /\ c.elem = "Pattern" => c.arg \in MatchAll \/ Tokens[q.uri] \in Narrows[c.arg]

(* A child that has one filter condition, or none. *)
LEMMA OneHolds ==
  ASSUME NEW m, NEW c, NEW p, NEW q, NEW f, ChildFilters(m, c, p) = <<f>>
  PROVE  FiltersHold(m, c, p, q) <=> Matches(f, q, Decoded(q))
<1>1. Range(ChildFilters(m, c, p)) = {f} BY ShortSequences
<1>2. QED BY <1>1 DEF FiltersHold

LEMMA NoneHolds ==
  ASSUME NEW m, NEW c, NEW p, NEW q, ChildFilters(m, c, p) = <<>>
  PROVE  FiltersHold(m, c, p, q)
<1>1. Range(ChildFilters(m, c, p)) = {} BY ShortSequences
<1>2. QED BY <1>1 DEF FiltersHold

LEMMA CoreSays ==
  ASSUME NEW c, NEW p, NEW q
  PROVE  Says("Core", c, q) <=> FiltersHold("Core", c, p, q)
<1>1. PICK m : m = "Core" OBVIOUS
<1>2. ChildFilters(m, c, p) = CoreFilters(c, p) BY <1>1 DEF ChildFilters
<1>3. CASE c.elem = "ServerName"
  <2>1. PICK f : f = CoreServerNameFiltCond(p, c.arg) OBVIOUS
  <2>2. f.class = "CoreServerName" /\ f.arg = c.arg BY <2>1, FilterFields DEF CoreServerNameFiltCond
  <2>3. FiltersHold(m, c, p, q) <=> Matches(f, q, Decoded(q)) BY <1>2, <1>3, <2>1, OneHolds DEF CoreFilters
  <2>4. Matches(f, q, Decoded(q)) <=> q.host = c.arg BY <2>2 DEF Matches, MatchServerName
  <2>5. Says(m, c, q) <=> q.host = c.arg BY <1>1, <1>3 DEF Says
  <2>6. QED BY <1>1, <2>3, <2>4, <2>5
<1>4. CASE c.elem # "ServerName"
  <2>1. FiltersHold(m, c, p, q) BY <1>2, <1>4, NoneHolds DEF CoreFilters
  <2>2. Says(m, c, q) BY <1>1, <1>4 DEF Says
  <2>3. QED BY <1>1, <2>1, <2>2
<1>5. QED BY <1>3, <1>4

LEMMA RequestSays ==
  ASSUME NEW c, NEW p, NEW q, q.isSub \in BOOLEAN, q.isRedir \in BOOLEAN
  PROVE  Says("Request", c, q) <=> FiltersHold("Request", c, p, q)
<1>1. PICK m : m = "Request" OBVIOUS
<1>2. ChildFilters(m, c, p) = RequestFilters(c, p) BY <1>1 DEF ChildFilters
<1>3. ASSUME NEW b \in BOOLEAN, RequestFilters(c, p) = <<RequestSubreqFiltCond(p, b)>>
      PROVE  FiltersHold(m, c, p, q) <=> q.isSub = b
  <2>1. PICK f : f = RequestSubreqFiltCond(p, b) OBVIOUS
  <2>2. f.class = "RequestSubreq" /\ f.arg = b BY <2>1, FilterFields DEF RequestSubreqFiltCond
  <2>3. FiltersHold(m, c, p, q) <=> Matches(f, q, Decoded(q)) BY <1>2, <1>3, <2>1, OneHolds
  <2>4. Matches(f, q, Decoded(q)) <=> q.isSub = b BY <2>2 DEF Matches, MatchSubreq
  <2>5. QED BY <2>3, <2>4
<1>4. ASSUME NEW b \in BOOLEAN, RequestFilters(c, p) = <<RequestIntRedirFiltCond(p, b)>>
      PROVE  FiltersHold(m, c, p, q) <=> q.isRedir = b
  <2>1. PICK f : f = RequestIntRedirFiltCond(p, b) OBVIOUS
  <2>2. f.class = "RequestIntRedir" /\ f.arg = b BY <2>1, FilterFields DEF RequestIntRedirFiltCond
  <2>3. FiltersHold(m, c, p, q) <=> Matches(f, q, Decoded(q)) BY <1>2, <1>4, <2>1, OneHolds
  <2>4. Matches(f, q, Decoded(q)) <=> q.isRedir = b BY <2>2 DEF Matches, MatchIntRedir
  <2>5. QED BY <2>3, <2>4
<1>5. CASE c.elem = "IsSubrequest"
  <2>1. PICK b \in BOOLEAN : b = TRUE OBVIOUS
  <2>2. RequestFilters(c, p) = <<RequestSubreqFiltCond(p, b)>> BY <1>5, <2>1, Zenon DEF RequestFilters
  <2>3. FiltersHold(m, c, p, q) <=> q.isSub = b BY <2>2, <1>3
  <2>4. Says(m, c, q) <=> q.isSub BY <1>1, <1>5 DEF Says
  <2>5. QED BY <1>1, <2>1, <2>3, <2>4
<1>6. CASE c.elem = "NotSubrequest"
  <2>1. PICK b \in BOOLEAN : b = FALSE OBVIOUS
  <2>2. RequestFilters(c, p) = <<RequestSubreqFiltCond(p, b)>>
    BY <1>6, <2>1 DEF RequestFilters
  <2>3. FiltersHold(m, c, p, q) <=> q.isSub = b BY <2>2, <1>3
  <2>4. Says(m, c, q) <=> ~q.isSub BY <1>1, <1>6 DEF Says
  <2>5. QED BY <1>1, <2>1, <2>3, <2>4
<1>7. CASE c.elem = "IsInternalRedirect"
  <2>1. PICK b \in BOOLEAN : b = TRUE OBVIOUS
  <2>2. RequestFilters(c, p) = <<RequestIntRedirFiltCond(p, b)>>
    BY <1>7, <2>1 DEF RequestFilters
  <2>3. FiltersHold(m, c, p, q) <=> q.isRedir = b BY <2>2, <1>4
  <2>4. Says(m, c, q) <=> q.isRedir BY <1>1, <1>7 DEF Says
  <2>5. QED BY <1>1, <2>1, <2>3, <2>4
<1>8. CASE c.elem = "NotInternalRedirect"
  <2>1. PICK b \in BOOLEAN : b = FALSE OBVIOUS
  <2>2. RequestFilters(c, p) = <<RequestIntRedirFiltCond(p, b)>>
    BY <1>8, <2>1 DEF RequestFilters
  <2>3. FiltersHold(m, c, p, q) <=> q.isRedir = b BY <2>2, <1>4
  <2>4. Says(m, c, q) <=> ~q.isRedir BY <1>1, <1>8 DEF Says
  <2>5. QED BY <1>1, <2>1, <2>3, <2>4
<1>9. CASE c.elem \notin {"IsSubrequest", "NotSubrequest", "IsInternalRedirect", "NotInternalRedirect"}
  <2>1. RequestFilters(c, p) = <<>> BY <1>9 DEF RequestFilters
  <2>2. FiltersHold(m, c, p, q) BY <1>2, <2>1, NoneHolds
  <2>3. Says(m, c, q) BY <1>1, <1>9 DEF Says
  <2>4. QED BY <1>1, <2>2, <2>3
<1>10. QED BY <1>5, <1>6, <1>7, <1>8, <1>9

LEMMA QueryArgSays ==
  ASSUME NEW c, NEW p, NEW q, IsArgs(q.args)
  PROVE  Says("QueryArg", c, q) <=> FiltersHold("QueryArg", c, p, q)
<1>1. PICK m : m = "QueryArg" OBVIOUS
<1>2. ChildFilters(m, c, p) = QueryArgFilters(c, p) BY <1>1 DEF ChildFilters
<1>3. CASE c.elem = "Name"
  <2>1. PICK f : f = QueryArgNameFiltCond(p, c.arg) OBVIOUS
  <2>2. f.class = "QueryArgName" /\ f.arg = c.arg BY <2>1, FilterFields DEF QueryArgNameFiltCond
  <2>3. FiltersHold(m, c, p, q) <=> Matches(f, q, Decoded(q)) BY <1>2, <1>3, <2>1, OneHolds DEF QueryArgFilters
  <2>4. Matches(f, q, Decoded(q)) <=> \E a \in Range(ArgsOf(q)) : DecodeOf[a.name] = c.arg
    BY <2>2, DecodedNames DEF Matches, MatchName
  <2>5. Says(m, c, q) <=> \E a \in Range(ArgsOf(q)) : DecodeOf[a.name] = c.arg BY <1>1, <1>3 DEF Says
  <2>6. QED BY <1>1, <2>3, <2>4, <2>5
<1>4. CASE c.elem = "NameVal" /\ c.opt # NoVal
  <2>1. PICK f : f = QueryArgNameValFiltCond(p, c.arg, c.opt) OBVIOUS
  <2>2. f.class = "QueryArgNameVal" /\ f.arg = c.arg /\ f.val = c.opt
    BY <2>1, FilterFields DEF QueryArgNameValFiltCond
  <2>3. FiltersHold(m, c, p, q) <=> Matches(f, q, Decoded(q)) BY <1>2, <1>4, <2>1, OneHolds DEF QueryArgFilters
  <2>4. Matches(f, q, Decoded(q)) <=> c.arg \in DOMAIN Decoded(q) /\ c.opt \in Range(Decoded(q)[c.arg])
    BY <2>2 DEF Matches, MatchNameVal
  <2>5. c.arg \in DOMAIN Decoded(q) <=> \E a \in Range(ArgsOf(q)) : DecodeOf[a.name] = c.arg
    BY DecodedNames
  <2>6. c.arg \in DOMAIN Decoded(q) =>
          (c.opt \in Range(Decoded(q)[c.arg])
             <=> \E a \in Range(ArgsOf(q)) : DecodeOf[a.name] = c.arg /\ a.val # NoVal /\ DecodeOf[a.val] = c.opt)
    BY <1>4, DecodedValues
  <2>7. Says(m, c, q)
          <=> \E a \in Range(ArgsOf(q)) : DecodeOf[a.name] = c.arg /\ a.val # NoVal /\ DecodeOf[a.val] = c.opt
    BY <1>1, <1>4 DEF Says
  <2>8. QED BY <1>1, <2>3, <2>4, <2>5, <2>6, <2>7
<1>5. CASE ~(c.elem = "Name") /\ ~(c.elem = "NameVal" /\ c.opt # NoVal)
  <2>1. FiltersHold(m, c, p, q) BY <1>2, <1>5, NoneHolds DEF QueryArgFilters
  <2>2. Says(m, c, q) BY <1>1, <1>5 DEF Says
  <2>3. QED BY <1>1, <2>1, <2>2
<1>6. QED BY <1>3, <1>4, <1>5

LEMMA PathSays ==
  ASSUME NEW c, NEW p, NEW q, c.elem = "Pattern" => c.opt \in BOOLEAN
  PROVE  Says("Path", c, q) <=> FiltersHold("Path", c, p, q) /\ Narrowed("Path", c, q)
<1>1. PICK m : m = "Path" OBVIOUS
<1>2. ChildFilters(m, c, p) = PathFilters(c, p) BY <1>1 DEF ChildFilters
<1>3. CASE c.elem = "RegEx"
  <2>1. PICK f : f = PathRegExFiltCond(p, c.arg) OBVIOUS
  <2>2. f.class = "PathRegEx" /\ f.arg = c.arg BY <2>1, FilterFields DEF PathRegExFiltCond
  <2>3. FiltersHold(m, c, p, q) <=> Matches(f, q, Decoded(q)) BY <1>2, <1>3, <2>1, OneHolds DEF PathFilters
  <2>4. Matches(f, q, Decoded(q)) <=> MatchRegEx(c.arg, q.uri) BY <2>2 DEF Matches
  <2>5. Says(m, c, q) <=> MatchRegEx(c.arg, q.uri) BY <1>1, <1>3 DEF Says
  <2>6. Narrowed(m, c, q) BY <1>3 DEF Narrowed
  <2>7. QED BY <1>1, <2>3, <2>4, <2>5, <2>6
<1>4. CASE c.elem = "Pattern"
  <2>1. PICK x, f, g : x = (c.arg \in SlashEnd) /\ f = PatternFilter(c, p) /\ g = PathSlashFiltCond(p, x) OBVIOUS
  <2>2. Matches(f, q, Decoded(q)) <=> (RegExOf[c.arg] # NoRegEx => MatchRegEx(RegExOf[c.arg], q.uri))
    <3>1. CASE RegExOf[c.arg] # NoRegEx
      <4>1. f.class = "PathRegEx" /\ f.arg = RegExOf[c.arg]
        BY <2>1, <3>1, FilterFields DEF PatternFilter, PathRegExFiltCond
      <4>2. QED BY <3>1, <4>1 DEF Matches
    <3>2. CASE RegExOf[c.arg] = NoRegEx
      <4>1. f.class = "PathMatched" BY <2>1, <3>2, FilterFields DEF PatternFilter, PathMatchedFiltCond
      <4>2. QED BY <3>2, <4>1 DEF Matches
    <3>3. QED BY <3>1, <3>2
  <2>3. Matches(g, q, Decoded(q)) <=> q.uri \notin EmptyURIs /\ (q.uri \in SlashURIs <=> c.arg \in SlashEnd)
    <3>1. g.class = "PathSlash" /\ g.arg = x BY <2>1, FilterFields DEF PathSlashFiltCond
    <3>2. Matches(g, q, Decoded(q)) <=> q.uri \notin EmptyURIs /\ (q.uri \in SlashURIs) = x
      BY <3>1 DEF Matches, MatchSlash
    <3>3. QED BY <2>1, <3>2
  <2>4. FiltersHold(m, c, p, q) <=> Matches(f, q, Decoded(q)) /\ (~c.opt => Matches(g, q, Decoded(q)))
    <3>0. PathFilters(c, p) = IF c.opt THEN <<f>> ELSE <<f, g>> BY <1>4, <2>1, PatternFilters, Zenon
    <3>1. CASE c.opt
      <4>1. ChildFilters(m, c, p) = <<f>> BY <1>2, <3>0, <3>1, Zenon
      <4>2. QED BY <3>1, <4>1, OneHolds
    <3>2. CASE ~c.opt
      <4>1. ChildFilters(m, c, p) = <<f, g>> BY <1>2, <3>0, <3>2, Zenon
      <4>2. Range(ChildFilters(m, c, p)) = {f, g} BY <4>1, ShortSequences, Zenon
      <4>3. QED BY <3>2, <4>2, Zenon DEF FiltersHold
    <3>3. QED BY <3>1, <3>2
  <2>5. Says(m, c, q) <=>
          /\ c.arg \in MatchAll \/ Tokens[q.uri] \in Narrows[c.arg]
          /\ RegExOf[c.arg] # NoRegEx => MatchRegEx(RegExOf[c.arg], q.uri)
          /\ ~c.opt => q.uri \notin EmptyURIs /\ (q.uri \in SlashURIs <=> c.arg \in SlashEnd)
    BY <1>1, <1>4 DEF Says
  <2>6. Narrowed(m, c, q) <=> c.arg \in MatchAll \/ Tokens[q.uri] \in Narrows[c.arg]
    BY <1>1, <1>4 DEF Narrowed
  <2>7. QED BY <1>1, <2>2, <2>3, <2>4, <2>5, <2>6
<1>5. CASE c.elem \notin {"RegEx", "Pattern"}
  <2>1. FiltersHold(m, c, p, q) BY <1>2, <1>5, NoneHolds DEF PathFilters
  <2>2. Says(m, c, q) BY <1>1, <1>5 DEF Says
  <2>3. Narrowed(m, c, q) BY <1>5 DEF Narrowed
  <2>4. QED BY <1>1, <2>1, <2>2, <2>3
<1>6. QED BY <1>3, <1>4, <1>5

(* A child says what its filter conditions and the narrowing ask for. *)
LEMMA ChildSays ==
  ASSUME NEW m \in Modules, NEW c, NEW p, NEW q, IsRequest(q),
         m = "Path" /\ c.elem = "Pattern" => c.opt \in BOOLEAN
  PROVE  Says(m, c, q) <=> FiltersHold(m, c, p, q) /\ Narrowed(m, c, q)
<1>1. IsArgs(q.args) /\ q.isSub \in BOOLEAN /\ q.isRedir \in BOOLEAN BY DEF IsRequest
<1>2. m # "Path" => Narrowed(m, c, q) BY DEF Narrowed
<1>3. CASE m = "Core" BY <1>2, <1>3, CoreSays
<1>4. CASE m = "Request" BY <1>1, <1>2, <1>4, RequestSays
<1>5. CASE m = "QueryArg" BY <1>1, <1>2, <1>5, QueryArgSays
<1>6. CASE m = "Path" BY <1>6, PathSays
<1>7. QED BY <1>3, <1>4, <1>5, <1>6 DEF Modules

(***************************************************************************)
(* The filter conditions of a rule.                                        *)
(***************************************************************************)
IsRule(rule) == IsSequence(rule.conds) /\ \A k \in DOMAIN rule.conds : IsElement(rule.conds[k])

LEMMA ElementFiltersType ==
  ASSUME NEW e, NEW p, IsElement(e)
  PROVE  /\ IsSequence(ElementFilters(e, p))
         /\ \A f : f \in Range(ElementFilters(e, p))
              <=> \E c \in Range(e.children) : f \in Range(ChildFilters(e.module, c, p))
<1>0. e.module \in Modules /\ IsSequence(e.children) BY DEF IsElement
<1>1. PICK A : A = e.children OBVIOUS
<1>2. PICK ss : ss = [k \in DOMAIN A |-> ChildFilters(e.module, A[k], p)] OBVIOUS
<1>3. DOMAIN ss = DOMAIN A /\ (\A k \in DOMAIN A : ss[k] = ChildFilters(e.module, A[k], p))
      /\ ss = [k \in DOMAIN A |-> ss[k]]
  BY <1>2, Zenon
<1>4. IsSequence(ss) BY <1>0, <1>1, <1>3, MapIsSequence
<1>5. \A k \in DOMAIN A : IsSequence(ss[k]) BY <1>0, <1>3, ChildFiltersType
<1>6. AllSequences(ss) BY <1>3, <1>4, <1>5 DEF AllSequences
<1>7. ElementFilters(e, p) = FlattenSeq(ss) BY <1>1, <1>2, Zenon DEF ElementFilters
<1>8. /\ IsSequence(FlattenSeq(ss))
      /\ \A f : f \in Range(FlattenSeq(ss)) <=> \E k \in DOMAIN ss : f \in Range(ss[k])
  BY <1>6, FlattenFacts
<1>9. \A c : c \in Range(A) <=> \E k \in DOMAIN A : A[k] = c BY DEF Range
<1>10. \A f : (\E k \in DOMAIN ss : f \in Range(ss[k]))
           <=> \E c \in Range(A) : f \in Range(ChildFilters(e.module, c, p))
  BY <1>3, <1>9
<1>11. QED BY <1>1, <1>7, <1>8, <1>10

LEMMA ChildOf ==
  ASSUME NEW rule, NEW m, NEW c
  PROVE  c \in ChildrenOf(rule, m)
           <=> \E k \in DOMAIN rule.conds : rule.conds[k].module = m /\ c \in Range(rule.conds[k].children)
BY DEF ChildrenOf

LEMMA FiltersType ==
  ASSUME NEW rule, IsRule(rule)
  PROVE  /\ IsSequence(Filters(rule))
         /\ \A f : f \in Range(Filters(rule))
              <=> \E m \in Modules : \E c \in ChildrenOf(rule, m) : f \in Range(ChildFilters(m, c, rule.phase))
         /\ \A f \in Range(Filters(rule)) : IsFilter(f, rule.phase)
<1>0. PICK p : p = rule.phase OBVIOUS
<1>1. PICK A : A = rule.conds OBVIOUS
<1>2. PICK ss : ss = [k \in DOMAIN A |-> ElementFilters(A[k], p)] OBVIOUS
<1>3. DOMAIN ss = DOMAIN A /\ (\A k \in DOMAIN A : ss[k] = ElementFilters(A[k], p))
      /\ ss = [k \in DOMAIN A |-> ss[k]]
  BY <1>2, Zenon
<1>4. IsSequence(A) /\ \A k \in DOMAIN A : IsElement(A[k]) /\ A[k].module \in Modules
  BY <1>1 DEF IsRule, IsElement
<1>5. \A k \in DOMAIN A :
        /\ IsSequence(ss[k])
        /\ \A f : f \in Range(ss[k]) <=> \E c \in Range(A[k].children) : f \in Range(ChildFilters(A[k].module, c, p))
  BY <1>3, <1>4, ElementFiltersType
<1>6. AllSequences(ss)
  <2>1. IsSequence(ss) BY <1>3, <1>4, MapIsSequence
  <2>2. QED BY <1>3, <1>5, <2>1 DEF AllSequences
<1>7. Filters(rule) = FlattenSeq(ss) BY <1>0, <1>1, <1>2, Zenon DEF Filters
<1>8. /\ IsSequence(FlattenSeq(ss))
      /\ \A f : f \in Range(FlattenSeq(ss)) <=> \E k \in DOMAIN ss : f \in Range(ss[k])
  BY <1>6, FlattenFacts
<1>9. ASSUME NEW f
      PROVE  (\E k \in DOMAIN ss : f \in Range(ss[k]))
               <=> \E m \in Modules : \E c \in ChildrenOf(rule, m) : f \in Range(ChildFilters(m, c, p))
  <2>1. (\E k \in DOMAIN ss : f \in Range(ss[k]))
          <=> \E k \in DOMAIN A : \E c \in Range(A[k].children) : f \in Range(ChildFilters(A[k].module, c, p))
    BY <1>3, <1>5
  <2>2. \A m, c : c \in ChildrenOf(rule, m) <=> \E k \in DOMAIN A : A[k].module = m /\ c \in Range(A[k].children)
    BY <1>1, ChildOf
  <2>3. (\E k \in DOMAIN A : \E c \in Range(A[k].children) : f \in Range(ChildFilters(A[k].module, c, p)))
          => \E m \in Modules : \E c \in ChildrenOf(rule, m) : f \in Range(ChildFilters(m, c, p))
    BY <1>4, <2>2, Zenon
  <2>4. (\E m \in Modules : \E c \in ChildrenOf(rule, m) : f \in Range(ChildFilters(m, c, p)))
          => \E k \in DOMAIN A : \E c \in Range(A[k].children) : f \in Range(ChildFilters(A[k].module, c, p))
    BY <2>2, Zenon
  <2>5. QED BY <2>1, <2>3, <2>4
<1>10. \A f \in Range(FlattenSeq(ss)) : IsFilter(f, p)
  BY <1>8, <1>9, ChildFiltersType
<1>11. QED BY <1>0, <1>7, <1>8, <1>9, <1>10

(* A rule is as written if its filter conditions match and its patterns    *)
(* are found.                                                              *)
LEMMA RuleSays ==
  ASSUME NEW rule, IsRule(rule), NEW q, IsRequest(q)
  PROVE  AllSay(rule, q)
           <=> /\ \A f \in Range(Filters(rule)) : Matches(f, q, Decoded(q))
               /\ \A c \in ChildrenOf(rule, "Path") : Narrowed("Path", c, q)
<1>1. ASSUME NEW m \in Modules, NEW c \in ChildrenOf(rule, m)
      PROVE  Says(m, c, q) <=> FiltersHold(m, c, rule.phase, q) /\ Narrowed(m, c, q)
  <2>1. PICK k \in DOMAIN rule.conds : rule.conds[k].module = m /\ c \in Range(rule.conds[k].children) BY ChildOf
  <2>2. IsElement(rule.conds[k]) BY DEF IsRule
  <2>3. c.elem = "Pattern" => c.opt \in BOOLEAN BY <2>1, <2>2 DEF IsElement, Range
  <2>4. QED BY <2>3, ChildSays
<1>2. (\A f \in Range(Filters(rule)) : Matches(f, q, Decoded(q)))
        <=> \A m \in Modules : \A c \in ChildrenOf(rule, m) : FiltersHold(m, c, rule.phase, q)
  BY FiltersType DEF FiltersHold
<1>3. (\A c \in ChildrenOf(rule, "Path") : Narrowed("Path", c, q))
        <=> \A m \in Modules : \A c \in ChildrenOf(rule, m) : Narrowed(m, c, q)
  BY DEF Narrowed, Modules
<1>4. QED BY <1>1, <1>2, <1>3, Zenon DEF AllSay

(***************************************************************************)
(* The narrowing tables.                                                   *)
(***************************************************************************)
LEMMA PhaseRulesFinite ==
  ASSUME NEW c, IsConfig(c), NEW p
  PROVE  IsFiniteSet(PhaseRules(c, p))
<1>1. Len(c) \in Nat /\ DOMAIN c = 1 .. Len(c) BY SequenceDomain DEF IsConfig
<1>2. IsFiniteSet(1 .. Len(c))
  <2>1. 1 \in Int /\ Len(c) \in Int BY <1>1
  <2>2. QED BY <2>1, FS_Interval
<1>3. PhaseRules(c, p) \subseteq 1 .. Len(c) BY <1>1 DEF PhaseRules
<1>4. QED BY <1>2, <1>3, FS_Subset

(* As many rules that match all requests as rules are all of them. *)
LEMMA AllMatchIsAll ==
  ASSUME NEW m, NEW p, IsConfig(conf), AllMatch(m, p)
  PROVE  MatchAllRules(conf, m, p) = PhaseRules(conf, p)
<1>1. IsFiniteSet(PhaseRules(conf, p)) BY PhaseRulesFinite
<1>2. MatchAllRules(conf, m, p) \subseteq PhaseRules(conf, p) BY DEF MatchAllRules
<1>3. Cardinality(MatchAllRules(conf, m, p)) <= Cardinality(PhaseRules(conf, p))
  BY <1>1, <1>2, FS_Subset
<1>4. Cardinality(MatchAllRules(conf, m, p)) \in Nat /\ Cardinality(PhaseRules(conf, p)) \in Nat
  BY <1>1, <1>2, FS_Subset, FS_CardinalityType
<1>5. Cardinality(MatchAllRules(conf, m, p)) = Cardinality(PhaseRules(conf, p))
  BY <1>3, <1>4 DEF AllMatch
<1>6. QED BY <1>1, <1>2, <1>5, FS_Subset

(* No module loses a rule of which every child says the truth. *)
LEMMA NarrowingKeeps ==
  ASSUME NEW p, NEW r \in PhaseRules(conf, p), NEW q, IsConfig(conf), IsRequest(q),
         AllSay(conf[r], q), NEW m \in Modules
  PROVE  r \in Lookup(m, p, Tokens[q.uri], Decoded(q))
<1>1. PICK toks, vals : toks = Tokens[q.uri] /\ vals = Decoded(q) OBVIOUS
<1>2. SUFFICES ASSUME ~AllMatch(m, p), r \notin MatchAllRules(conf, m, p)
               PROVE  r \in Lookup2(m, p, toks, vals)
  BY <1>1 DEF Lookup
<1>3. PICK rule : rule = conf[r] OBVIOUS
<1>4. PICK k \in DOMAIN rule.conds : rule.conds[k].module = m /\ ~MatchesAll(rule.conds[k])
  BY <1>2, <1>3, Zenon DEF MatchAllRules
<1>5. PICK e : e = rule.conds[k] OBVIOUS
<1>6. \A j \in DOMAIN e.children : e.children[j] \in ChildrenOf(rule, m) /\ Says(m, e.children[j], q)
  <2>1. \A j \in DOMAIN e.children : e.children[j] \in Range(e.children) BY DEF Range
  <2>2. \A j \in DOMAIN e.children : e.children[j] \in ChildrenOf(rule, m) BY <1>4, <1>5, <2>1, ChildOf
  <2>3. QED BY <1>3, <2>2, Zenon DEF AllSay
<1>7. m \in {"Path", "QueryArg"} BY <1>4, <1>5 DEF MatchesAll, Modules
<1>8. CASE m = "Path"
  <2>1. PICK j \in DOMAIN e.children : e.children[j].elem = "Pattern" /\ e.children[j].arg \notin MatchAll
    BY <1>4, <1>5, <1>8, Zenon DEF MatchesAll
  <2>2. PICK c : c = e.children[j] OBVIOUS
  <2>3. c \in ChildrenOf(rule, "Path") /\ c.elem = "Pattern" /\ c.arg \notin MatchAll /\ Says(m, c, q)
    BY <1>6, <1>8, <2>1, <2>2
  <2>4. toks \in Narrows[c.arg] BY <1>1, <1>8, <2>3 DEF Says
  <2>5. r \in TokenRules(conf, p, toks) BY <1>3, <2>3, <2>4, Zenon DEF TokenRules
  <2>6. QED BY <1>8, <2>5 DEF Lookup2
<1>9. CASE m = "QueryArg"
  <2>1. PICK j \in DOMAIN e.children : NarrowingName(e.children[j])
    BY <1>4, <1>5, <1>9 DEF MatchesAll
  <2>2. PICK c : c = e.children[j] OBVIOUS
  <2>3. c \in ChildrenOf(rule, "QueryArg") /\ NarrowingName(c) /\ Says(m, c, q)
    BY <1>6, <1>9, <2>1, <2>2
  <2>4. \E a \in Range(ArgsOf(q)) : DecodeOf[a.name] = c.arg BY <1>9, <2>3 DEF Says, NarrowingName
  <2>5. c.arg \in DOMAIN vals
    <3>1. IsArgs(q.args) BY DEF IsRequest
    <3>2. QED BY <1>1, <2>4, <3>1, DecodedNames
  <2>6. r \in ArgNameRules(conf, p, c.arg) BY <1>3, <2>3, Zenon DEF ArgNameRules
  <2>7. QED BY <1>9, <2>5, <2>6 DEF Lookup2
<1>10. QED BY <1>7, <1>8, <1>9

LEMMA AtMostOne ==
  ASSUME NEW S, IsFiniteSet(S), Cardinality(S) <= 1, NEW x \in S, NEW y \in S
  PROVE  x = y
<1>1. SUFFICES ASSUME x # y PROVE FALSE OBVIOUS
<1>2. IsFiniteSet({x, y}) /\ Cardinality({x, y}) <= Cardinality(S)
  <2>1. {x, y} \subseteq S OBVIOUS
  <2>2. QED BY <2>1, FS_Subset
<1>3. Cardinality({x}) = 1 /\ IsFiniteSet({x}) BY FS_Singleton
<1>4. Cardinality({x} \cup {y}) = Cardinality({x}) + 1 BY <1>1, <1>3, FS_AddElement
<1>5. {x} \cup {y} = {x, y} OBVIOUS
<1>6. Cardinality(S) \in Nat BY FS_CardinalityType
<1>7. QED BY <1>2, <1>3, <1>4, <1>5, <1>6

LEMMA ImageFinite ==
  ASSUME NEW S, IsFiniteSet(S), NEW F, DOMAIN F = S, F = [x \in S |-> F[x]]
  PROVE  IsFiniteSet({F[x] : x \in S})
<1>1. PICK T : T = {F[x] : x \in S} OBVIOUS
<1>2. F \in [S -> T] /\ \A t \in T : \E x \in S : F[x] = t BY <1>1
<1>3. F \in Surjection(S, T) BY <1>2 DEF Surjection
<1>4. IsFiniteSet(T) BY <1>3, FS_Surjection
<1>5. QED BY <1>1, <1>4

LEMMA RangeFinite == ASSUME NEW s, IsSequence(s) PROVE IsFiniteSet(DOMAIN s) /\ IsFiniteSet(Range(s))
<1>1. Len(s) \in Nat /\ DOMAIN s = 1 .. Len(s) BY SequenceDomain
<1>2. IsFiniteSet(DOMAIN s)
  <2>1. 1 \in Int /\ Len(s) \in Int BY <1>1
  <2>2. IsFiniteSet(1 .. Len(s)) BY <2>1, FS_Interval
  <2>3. QED BY <1>1, <2>2
<1>3. Range(s) = {s[k] : k \in DOMAIN s} BY DEF Range
<1>4. s = [k \in DOMAIN s |-> s[k]] BY <1>1 DEF IsSequence
<1>5. IsFiniteSet({s[k] : k \in DOMAIN s}) BY <1>2, <1>4, ImageFinite
<1>6. QED BY <1>2, <1>3, <1>5

LEMMA ChildrenFinite ==
  ASSUME NEW rule, IsRule(rule), NEW m
  PROVE  /\ IsFiniteSet({k \in DOMAIN rule.conds : rule.conds[k].module = m})
         /\ IsFiniteSet(ChildrenOf(rule, m))
<1> DEFINE K == {k \in DOMAIN rule.conds : rule.conds[k].module = m}
           S == {Range(rule.conds[k].children) : k \in K}
<1>1. IsFiniteSet(DOMAIN rule.conds) BY RangeFinite DEF IsRule
<1>2. IsFiniteSet(K)
  <2>1. K \subseteq DOMAIN rule.conds OBVIOUS
  <2>2. QED BY <1>1, <2>1, FS_Subset
<1>3. IsFiniteSet(S)
  <2>1. PICK F : F = [k \in K |-> Range(rule.conds[k].children)] OBVIOUS
  <2>2. DOMAIN F = K /\ F = [k \in K |-> F[k]] /\ \A k \in K : F[k] = Range(rule.conds[k].children) BY <2>1
  <2> HIDE DEF K
  <2>3. IsFiniteSet({F[k] : k \in K}) BY <1>2, <2>2, ImageFinite
  <2>4. S = {F[k] : k \in K} BY <2>2
  <2>5. QED BY <2>3, <2>4
<1>4. \A x \in S : IsFiniteSet(x)
  <2>1. \A k \in K : IsFiniteSet(Range(rule.conds[k].children)) BY RangeFinite DEF IsRule, IsElement
  <2>2. QED BY <2>1
<1>5. IsFiniteSet(UNION S) BY <1>3, <1>4, FS_UNION
<1>6. ChildrenOf(rule, m) = UNION S BY Zenon DEF ChildrenOf
<1>7. QED BY <1>2, <1>5, <1>6

(* The rules narrowed to by path have their pattern found. *)
LEMMA NarrowingFinds ==
  ASSUME NEW p, NEW q, NEW vals, NEW r \in Lookup("Path", p, Tokens[q.uri], vals),
         IsConfig(conf), OnePattern(conf[r]), NEW c \in ChildrenOf(conf[r], "Path")
  PROVE  Narrowed("Path", c, q)
<1>1. PICK m, toks, rule : m = "Path" /\ toks = Tokens[q.uri] /\ rule = conf[r] OBVIOUS
<1>2. SUFFICES ASSUME c.elem = "Pattern" PROVE c.arg \in MatchAll \/ toks \in Narrows[c.arg]
  BY <1>1 DEF Narrowed
<1>3. r \in TokenRules(conf, p, toks) \/ r \in MatchAllRules(conf, m, p)
  <2>1. CASE AllMatch(m, p)
    <3>1. Lookup(m, p, toks, vals) = PhaseRules(conf, p) BY <2>1 DEF Lookup
    <3>2. QED BY <1>1, <2>1, <3>1, AllMatchIsAll
  <2>2. CASE ~AllMatch(m, p) BY <1>1, <2>2 DEF Lookup, Lookup2
  <2>3. QED BY <2>1, <2>2
<1>4. r \in DOMAIN conf
  <2>1. r \in PhaseRules(conf, p) BY <1>3 DEF TokenRules, MatchAllRules
  <2>2. QED BY <2>1 DEF PhaseRules
<1>5. IsRule(rule) BY <1>1, <1>4 DEF IsConfig, IsRule
<1>6. ASSUME NEW d \in ChildrenOf(rule, m), d.elem = "Pattern" PROVE d = c
  <2>1. PICK P : P = {x \in ChildrenOf(rule, m) : x.elem = "Pattern"} OBVIOUS
  <2>2. IsFiniteSet(P)
    <3>1. IsFiniteSet(ChildrenOf(rule, m)) BY <1>5, ChildrenFinite
    <3>2. P \subseteq ChildrenOf(rule, m) BY <2>1
    <3>3. QED BY <3>1, <3>2, FS_Subset
  <2>3. Cardinality(P) <= 1 BY <1>1, <2>1 DEF OnePattern
  <2>4. c \in P /\ d \in P BY <1>1, <1>2, <1>6, <2>1
  <2>5. QED BY <2>2, <2>3, <2>4, AtMostOne
<1>7. CASE r \in TokenRules(conf, p, toks)
  <2>1. PICK d \in ChildrenOf(rule, m) : d.elem = "Pattern" /\ toks \in Narrows[d.arg]
    BY <1>1, <1>7, Zenon DEF TokenRules
  <2>2. QED BY <1>6, <2>1
<1>8. CASE r \in MatchAllRules(conf, m, p)
  <2>1. PICK es : es = {k \in DOMAIN rule.conds : rule.conds[k].module = m} OBVIOUS
  <2>2. es = {} \/ \E k \in es : MatchesAll(rule.conds[k]) BY <1>1, <1>8, <2>1, Zenon DEF MatchAllRules
  <2>3. PICK k \in es : c \in Range(rule.conds[k].children) BY <1>1, <2>1, ChildOf
  <2>4. MatchesAll(rule.conds[k])
    <3>1. PICK j \in es : MatchesAll(rule.conds[j]) BY <2>2, <2>3
    <3>2. IsFiniteSet(es) /\ Cardinality(es) <= 1 BY <1>1, <1>5, <2>1, ChildrenFinite DEF OnePattern
    <3>3. j = k BY <3>2, AtMostOne
    <3>4. QED BY <3>1, <3>3
  <2>5. PICK e : e = rule.conds[k] /\ e.module = "Path" BY <1>1, <2>1, <2>3
  <2>6. PICK j \in DOMAIN e.children : e.children[j] = c BY <2>3, <2>5 DEF Range
  <2>7. PICK i \in DOMAIN e.children : e.children[i].elem = "Pattern" /\ e.children[i].arg \in MatchAll
    BY <1>2, <2>4, <2>5, <2>6 DEF MatchesAll
  <2>8. e.children[i] \in ChildrenOf(rule, m)
    <3>1. e.children[i] \in Range(e.children) BY DEF Range
    <3>2. k \in DOMAIN rule.conds /\ e.module = m BY <1>1, <2>1, <2>3, <2>5
    <3>3. QED BY <3>1, <3>2, <2>5, ChildOf
  <2>9. e.children[i] = c BY <1>6, <2>7, <2>8
  <2>10. QED BY <2>7, <2>9
<1>9. QED BY <1>3, <1>7, <1>8

(***************************************************************************)
(* The k-th filter condition that captures is that of the k-th path        *)
(* condition of the rule.                                                  *)
(***************************************************************************)
LEMMA CapturingSequences ==
  ASSUME NEW ss, AllSequences(ss)
  PROVE  /\ Capturing(FlattenSeq(ss)) = FlattenSeq(CapturingEach(ss))
         /\ AllSequences(CapturingEach(ss)) /\ Len(CapturingEach(ss)) = Len(ss)
         /\ \A i \in 1 .. Len(ss) : CapturingEach(ss)[i] = Capturing(ss[i])
<1>1. PICK V : ss \in Seq(Seq(V)) BY OverSet
<1>2. PICK tt : tt = CapturingEach(ss) OBVIOUS
<1>3. tt \in Seq(Seq(V)) BY <1>1, <1>2, CapturingEachType
<1>4. AllSequences(tt)
  <2>1. IsSequence(tt) BY <1>3, InSeq
  <2>2. \A k \in DOMAIN tt : tt[k] \in Seq(V) BY <1>3
  <2>3. \A k \in DOMAIN tt : IsSequence(tt[k]) BY <2>2, InSeq
  <2>4. QED BY <2>1, <2>3 DEF AllSequences
<1>5. QED BY <1>1, <1>2, <1>4, CapturingFlatten, CapturingEachType

LEMMA FlattenPairs ==
  ASSUME NEW R, NEW ss, NEW tt, AllSequences(ss), AllSequences(tt), PairedParts(R, ss, tt)
  PROVE  Paired(R, FlattenSeq(ss), FlattenSeq(tt))
<1>1. PICK V : ss \in Seq(Seq(V)) BY OverSet
<1>2. PICK W : tt \in Seq(Seq(W)) BY OverSet
<1>3. QED BY <1>1, <1>2, FlattenPaired

LEMMA CapturingShort ==
  ASSUME NEW f, NEW g
  PROVE  /\ Capturing(<<>>) = <<>>
         /\ Capturing(<<f>>) = IF HasCaptures(f) THEN <<f>> ELSE <<>>
         /\ HasCaptures(f) /\ ~HasCaptures(g) => Capturing(<<f, g>>) = <<f>>
<1>1. Capturing(<<>>) = <<>>
  <2>1. CapturingParts(<<>>) = <<>> BY DEF CapturingParts
  <2>2. Capturing(<<>>) = FlattenSeq(CapturingParts(<<>>)) BY Zenon DEF Capturing, CapturingParts
  <2>3. QED BY <2>1, <2>2, FlattenEmpty, Zenon
<1>2. ASSUME NEW h PROVE Capturing(<<h>>) = IF HasCaptures(h) THEN <<h>> ELSE <<>>
  <2>1. PICK x : x = IF HasCaptures(h) THEN <<h>> ELSE <<>> OBVIOUS
  <2>2. x \in Seq({h})
    <3>1. <<h>> \in Seq({h}) /\ <<>> \in Seq({h}) OBVIOUS
    <3>2. QED BY <2>1, <3>1, Zenon
  <2>3. PICK s : s = <<h>> OBVIOUS
  <2>4. DOMAIN s = {1} /\ s[1] = h BY <2>3
  <2>5. CapturingParts(s) = [k \in {1} |-> x] BY <2>1, <2>4 DEF CapturingParts
  <2>6. <<x>> = [k \in {1} |-> x] OBVIOUS
  <2>7. Capturing(s) = FlattenSeq(CapturingParts(s)) BY Zenon DEF Capturing, CapturingParts
  <2>8. Capturing(s) = x BY <2>2, <2>5, <2>6, <2>7, FlattenOne, Zenon
  <2>9. QED BY <2>1, <2>3, <2>8, Zenon
<1>3. ASSUME HasCaptures(f), ~HasCaptures(g) PROVE Capturing(<<f, g>>) = <<f>>
  <2>1. PICK V : V = {f, g} BY Zenon
  <2>2. PICK a, b : a = <<f>> /\ b = <<g>> BY Zenon
  <2>3. a \in Seq(V) /\ b \in Seq(V) /\ g \in V BY <2>1, <2>2
  <2>4. Cat(a, b) = <<f, g>>
    <3>1. Cat(a, b) = Append(a, g) BY <2>2, <2>3, CatAppend
    <3>2. Append(a, g) = <<f, g>>
      <4>1. PICK s, t : s = Append(a, g) /\ t = <<f, g>> OBVIOUS
      <4>2. Len(a) = 1 /\ a[1] = f BY <2>2
      <4>A. /\ Append(a, g) \in Seq(V) /\ Len(Append(a, g)) = Len(a) + 1
            /\ \A i \in 1 .. Len(a) : Append(a, g)[i] = a[i]
            /\ Append(a, g)[Len(a) + 1] = g
        BY <2>3, AppendProperties
      <4>B. 1 \in 1 .. Len(a) /\ Len(a) + 1 = 2 BY <4>2
      <4>3. s \in Seq(V) /\ Len(s) = 2 /\ s[1] = f /\ s[2] = g BY <4>1, <4>2, <4>A, <4>B
      <4>4. t \in Seq(V) /\ Len(t) = 2 /\ t[1] = f /\ t[2] = g BY <2>1, <4>1
      <4>5. \A i \in 1 .. 2 : i = 1 \/ i = 2 OBVIOUS
      <4>6. s = t BY <4>3, <4>4, <4>5, SeqEqual
      <4>7. QED BY <4>1, <4>6
    <3>3. QED BY <3>1, <3>2, Zenon
  <2>5. Capturing(Cat(a, b)) = Cat(Capturing(a), Capturing(b)) BY <2>3, CapturingCat
  <2>6. Capturing(a) = a /\ Capturing(b) = <<>> BY <1>2, <1>3, <2>2, Zenon
  <2>7. Cat(a, <<>>) = a BY <2>3, CatEmpty
  <2>8. QED BY <2>2, <2>4, <2>5, <2>6, <2>7, Zenon
<1>4. QED BY <1>1, <1>2, <1>3, Zenon

(* The filter condition of a path condition. *)
CaptureOf(c, p) == IF c.elem = "RegEx" THEN PathRegExFiltCond(p, c.arg) ELSE PatternFilter(c, p)

Written(m, c) == m = "Path" /\ IsPathCond(c)

LEMMA CaptureClass ==
  ASSUME NEW c, NEW p
  PROVE  HasCaptures(CaptureOf(c, p)) /\ HasCaptures(PatternFilter(c, p))
<1>1. \A x : PathRegExFiltCond(p, x).class = "PathRegEx" BY FilterFields DEF PathRegExFiltCond
<1>2. PathMatchedFiltCond(p).class = "PathMatched" BY FilterFields DEF PathMatchedFiltCond
<1>3. QED BY <1>1, <1>2 DEF HasCaptures, CaptureOf, PatternFilter

LEMMA CapturingChild ==
  ASSUME NEW m \in Modules, NEW c, NEW p
  PROVE  Capturing(ChildFilters(m, c, p)) = IF Written(m, c) THEN <<CaptureOf(c, p)>> ELSE <<>>
<1>1. ASSUME NEW k, NEW a, NEW v, k \notin {"PathRegEx", "PathMatched"}
      PROVE  ~HasCaptures(Filter(k, p, a, v))
  BY <1>1, FilterFields DEF HasCaptures
<1>2. CASE m # "Path"
  <2>1. ChildFilters(m, c, p) = <<>> \/ \E f : ~HasCaptures(f) /\ ChildFilters(m, c, p) = <<f>>
    <3>1. \A a, v : /\ ~HasCaptures(CoreServerNameFiltCond(p, a))
                    /\ ~HasCaptures(RequestSubreqFiltCond(p, a)) /\ ~HasCaptures(RequestIntRedirFiltCond(p, a))
                    /\ ~HasCaptures(QueryArgNameFiltCond(p, a)) /\ ~HasCaptures(QueryArgNameValFiltCond(p, a, v))
      BY <1>1 DEF CoreServerNameFiltCond, RequestSubreqFiltCond, RequestIntRedirFiltCond,
                  QueryArgNameFiltCond, QueryArgNameValFiltCond
    <3>2. CASE m = "Core"
      <4>1. ChildFilters(m, c, p) = CoreFilters(c, p) BY <3>2 DEF ChildFilters
      <4>2. QED BY <3>1, <4>1, Zenon DEF CoreFilters
    <3>3. CASE m = "Request"
      <4>1. ChildFilters(m, c, p) = RequestFilters(c, p) BY <3>3 DEF ChildFilters
      <4>2. PICK t \in BOOLEAN, u \in BOOLEAN : t = TRUE /\ u = FALSE OBVIOUS
      <4>3. \/ RequestFilters(c, p) = <<>>
            \/ RequestFilters(c, p) \in {<<RequestSubreqFiltCond(p, t)>>, <<RequestSubreqFiltCond(p, u)>>,
                                         <<RequestIntRedirFiltCond(p, t)>>, <<RequestIntRedirFiltCond(p, u)>>}
        BY <4>2 DEF RequestFilters
      <4>4. \/ RequestFilters(c, p) = <<>>
            \/ \E b : RequestFilters(c, p) = <<RequestSubreqFiltCond(p, b)>>
            \/ \E b : RequestFilters(c, p) = <<RequestIntRedirFiltCond(p, b)>>
        BY <4>3
      <4>5. QED BY <3>1, <4>1, <4>4
    <3>4. CASE m = "QueryArg"
      <4>1. ChildFilters(m, c, p) = QueryArgFilters(c, p) BY <3>4 DEF ChildFilters
      <4>2. \/ QueryArgFilters(c, p) = <<>>
            \/ QueryArgFilters(c, p) = <<QueryArgNameFiltCond(p, c.arg)>>
            \/ QueryArgFilters(c, p) = <<QueryArgNameValFiltCond(p, c.arg, c.opt)>>
        BY DEF QueryArgFilters
      <4>3. QED BY <3>1, <4>1, <4>2
    <3>5. QED BY <1>2, <3>2, <3>3, <3>4 DEF Modules
  <2>2. Capturing(ChildFilters(m, c, p)) = <<>> BY <2>1, CapturingShort
  <2>3. QED BY <1>2, <2>2 DEF Written
<1>3. CASE m = "Path"
  <2>0. ChildFilters(m, c, p) = PathFilters(c, p) BY <1>3 DEF ChildFilters
  <2>1. CASE c.elem = "RegEx"
    <3>1. ChildFilters(m, c, p) = <<CaptureOf(c, p)>> BY <2>0, <2>1 DEF PathFilters, CaptureOf
    <3>2. Capturing(ChildFilters(m, c, p)) = <<CaptureOf(c, p)>> BY <3>1, CaptureClass, CapturingShort
    <3>3. Written(m, c) BY <1>3, <2>1 DEF Written, IsPathCond
    <3>4. QED BY <3>2, <3>3, Zenon
  <2>2. CASE c.elem = "Pattern"
    <3>1. PICK f, x : f = PatternFilter(c, p) /\ x = (c.arg \in SlashEnd) OBVIOUS
    <3>2. PICK g : g = PathSlashFiltCond(p, x) OBVIOUS
    <3>3. HasCaptures(f) /\ ~HasCaptures(g)
      BY <1>1, <3>1, <3>2, CaptureClass DEF PathSlashFiltCond
    <3>4. PathFilters(c, p) = IF c.opt THEN <<f>> ELSE <<f, g>> BY <2>2, <3>1, <3>2, PatternFilters, Zenon
    <3>5. Capturing(<<f>>) = <<f>> /\ Capturing(<<f, g>>) = <<f>> BY <3>3, CapturingShort
    <3>6. Capturing(PathFilters(c, p)) = <<f>> BY <3>4, <3>5, Zenon
    <3>7. f = CaptureOf(c, p) BY <2>2, <3>1 DEF CaptureOf
    <3>8. Written(m, c) BY <1>3, <2>2 DEF Written, IsPathCond
    <3>9. QED BY <2>0, <3>6, <3>7, <3>8, Zenon
  <2>3. CASE c.elem \notin {"RegEx", "Pattern"}
    <3>1. ChildFilters(m, c, p) = <<>> BY <2>0, <2>3 DEF PathFilters
    <3>2. Capturing(ChildFilters(m, c, p)) = <<>> BY <3>1, CapturingShort
    <3>3. ~Written(m, c) BY <2>3 DEF Written, IsPathCond
    <3>4. QED BY <3>2, <3>3, Zenon
  <2>4. QED BY <2>1, <2>2, <2>3
<1>4. QED BY <1>2, <1>3

(* The pairs of a filter condition and the path condition it is for. *)
Pairs(W, p) == {<<CaptureOf(c, p), c>> : c \in {d \in W : IsPathCond(d)}}

LEMMA PairsIn ==
  ASSUME NEW W, NEW p, NEW f, NEW c
  PROVE  <<f, c>> \in Pairs(W, p) <=> c \in W /\ IsPathCond(c) /\ f = CaptureOf(c, p)
<1> DEFINE X == {d \in W : IsPathCond(d)}
<1>1. <<f, c>> \in {<<CaptureOf(d, p), d>> : d \in X} <=> c \in X /\ f = CaptureOf(c, p)
  <2>1. PICK G : G = [d \in X |-> CaptureOf(d, p)] BY Zenon
  <2>2. \A d \in X : G[d] = CaptureOf(d, p) BY <2>1, Zenon
  <2> HIDE DEF X
  <2>3. <<f, c>> \in {<<G[d], d>> : d \in X} <=> c \in X /\ f = G[c] OBVIOUS
  <2>4. {<<G[d], d>> : d \in X} = {<<CaptureOf(d, p), d>> : d \in X} BY <2>2
  <2>5. QED BY <2>2, <2>3, <2>4
<1>2. QED BY <1>1, Zenon DEF Pairs

LEMMA ElementPaired ==
  ASSUME NEW e, NEW p, IsElement(e), NEW W, e.module = "Path" => Range(e.children) \subseteq W
  PROVE  /\ Paired(Pairs(W, p), Capturing(ElementFilters(e, p)), PathCondsOf(e))
         /\ IsSequence(PathCondsOf(e))
<1>1. PICK A, m : A = e.children /\ m = e.module OBVIOUS
<1>2. IsSequence(A) /\ m \in Modules BY <1>1 DEF IsElement
<1>3. PICK ss : ss = [k \in DOMAIN A |-> ChildFilters(m, A[k], p)] OBVIOUS
<1>4. PICK tt : tt = [k \in DOMAIN A |-> IF Written(m, A[k]) THEN <<A[k]>> ELSE <<>>] OBVIOUS
<1>5. /\ DOMAIN ss = DOMAIN A /\ (\A k \in DOMAIN A : ss[k] = ChildFilters(m, A[k], p))
      /\ ss = [k \in DOMAIN A |-> ss[k]]
  BY <1>3, Zenon
<1>6. /\ DOMAIN tt = DOMAIN A /\ (\A k \in DOMAIN A : tt[k] = IF Written(m, A[k]) THEN <<A[k]>> ELSE <<>>)
      /\ tt = [k \in DOMAIN A |-> tt[k]]
  BY <1>4, Zenon
<1>7. AllSequences(ss) /\ Len(ss) = Len(A)
  <2>1. IsSequence(ss) /\ Len(ss) = Len(A) BY <1>2, <1>5, MapIsSequence
  <2>2. \A k \in DOMAIN A : IsSequence(ss[k]) BY <1>2, <1>5, ChildFiltersType
  <2>3. QED BY <1>5, <2>1, <2>2 DEF AllSequences
<1>8. AllSequences(tt) /\ Len(tt) = Len(A)
  <2>1. IsSequence(tt) /\ Len(tt) = Len(A) BY <1>2, <1>6, MapIsSequence
  <2>2. \A k \in DOMAIN A : IsSequence(tt[k]) BY <1>6, ShortSequences
  <2>3. QED BY <1>6, <2>1, <2>2 DEF AllSequences
<1>9. PICK cc : /\ cc = CapturingEach(ss) /\ AllSequences(cc) /\ Len(cc) = Len(ss)
                /\ \A i \in 1 .. Len(ss) : cc[i] = Capturing(ss[i])
                /\ Capturing(FlattenSeq(ss)) = FlattenSeq(cc)
  BY <1>7, CapturingSequences
<1>10. PICK R : R = Pairs(W, p) OBVIOUS
<1>11. ASSUME NEW i \in 1 .. Len(A) PROVE Paired(R, cc[i], tt[i])
  <2>0. i \in DOMAIN A BY <1>2, SequenceDomain
  <2>1. cc[i] = IF Written(m, A[i]) THEN <<CaptureOf(A[i], p)>> ELSE <<>>
    BY <1>2, <1>5, <1>7, <1>9, <2>0, CapturingChild
  <2>2. tt[i] = IF Written(m, A[i]) THEN <<A[i]>> ELSE <<>> BY <1>6, <2>0
  <2>3. CASE Written(m, A[i])
    <3>1. PICK x, y : x = CaptureOf(A[i], p) /\ y = A[i] OBVIOUS
    <3>2. cc[i] = <<x>> /\ tt[i] = <<y>> BY <2>1, <2>2, <2>3, <3>1, Zenon
    <3>3. y \in W /\ IsPathCond(y)
      <4>1. m = "Path" /\ IsPathCond(y) BY <2>3, <3>1 DEF Written
      <4>2. y \in Range(A) BY <2>0, <3>1 DEF Range
      <4>3. QED BY <1>1, <4>1, <4>2
    <3>4. <<x, y>> \in R BY <1>10, <3>1, <3>3, PairsIn
    <3>5. QED BY <3>2, <3>4 DEF Paired
  <2>4. CASE ~Written(m, A[i])
    <3>1. cc[i] = <<>> /\ tt[i] = <<>> BY <2>1, <2>2, <2>4, Zenon
    <3>2. QED BY <3>1, EmptyIsSeq DEF Paired
  <2>5. QED BY <2>3, <2>4
<1>12. PairedParts(R, cc, tt) BY <1>7, <1>8, <1>9, <1>11 DEF PairedParts
<1>13. Paired(R, FlattenSeq(cc), FlattenSeq(tt)) BY <1>8, <1>9, <1>12, FlattenPairs
<1>14. ElementFilters(e, p) = FlattenSeq(ss) BY <1>1, <1>3, Zenon DEF ElementFilters
<1>15. PathCondsOf(e) = FlattenSeq(tt) BY <1>1, <1>4, Zenon DEF PathCondsOf, Written
<1>16. IsSequence(FlattenSeq(tt)) BY <1>8, FlattenFacts
<1>17. QED BY <1>9, <1>10, <1>13, <1>14, <1>15, <1>16

PathCondsIn(rule) == FlattenSeq([k \in DOMAIN rule.conds |-> PathCondsOf(rule.conds[k])])

LEMMA RulePaired ==
  ASSUME NEW rule, IsRule(rule)
  PROVE  /\ Paired(Pairs(ChildrenOf(rule, "Path"), rule.phase), Capturing(Filters(rule)), PathCondsIn(rule))
         /\ IsSequence(PathCondsIn(rule))
<1>1. PICK A, p, W, R :
        A = rule.conds /\ p = rule.phase /\ W = ChildrenOf(rule, "Path") /\ R = Pairs(W, p)
  OBVIOUS
<1>2. IsSequence(A) /\ \A k \in DOMAIN A : IsElement(A[k]) BY <1>1 DEF IsRule
<1>3. PICK ss : ss = [k \in DOMAIN A |-> ElementFilters(A[k], p)] OBVIOUS
<1>4. PICK tt : tt = [k \in DOMAIN A |-> PathCondsOf(A[k])] OBVIOUS
<1>5. /\ DOMAIN ss = DOMAIN A /\ (\A k \in DOMAIN A : ss[k] = ElementFilters(A[k], p))
      /\ ss = [k \in DOMAIN A |-> ss[k]]
  BY <1>3, Zenon
<1>6. /\ DOMAIN tt = DOMAIN A /\ (\A k \in DOMAIN A : tt[k] = PathCondsOf(A[k]))
      /\ tt = [k \in DOMAIN A |-> tt[k]]
  BY <1>4, Zenon
<1>7. ASSUME NEW k \in DOMAIN A
      PROVE  Paired(R, Capturing(ss[k]), tt[k]) /\ IsSequence(ss[k]) /\ IsSequence(tt[k])
  <2>1. A[k].module = "Path" => Range(A[k].children) \subseteq W BY <1>1, ChildOf
  <2>2. /\ Paired(R, Capturing(ElementFilters(A[k], p)), PathCondsOf(A[k]))
        /\ IsSequence(PathCondsOf(A[k]))
    BY <1>1, <1>2, <2>1, ElementPaired
  <2>3. IsSequence(ElementFilters(A[k], p)) BY <1>2, ElementFiltersType
  <2>4. QED BY <1>5, <1>6, <2>2, <2>3
<1>8. AllSequences(ss) /\ Len(ss) = Len(A)
  <2>1. IsSequence(ss) /\ Len(ss) = Len(A) BY <1>2, <1>5, MapIsSequence
  <2>2. QED BY <1>5, <1>7, <2>1 DEF AllSequences
<1>9. AllSequences(tt) /\ Len(tt) = Len(A)
  <2>1. IsSequence(tt) /\ Len(tt) = Len(A) BY <1>2, <1>6, MapIsSequence
  <2>2. QED BY <1>6, <1>7, <2>1 DEF AllSequences
<1>10. PICK cc : /\ cc = CapturingEach(ss) /\ AllSequences(cc) /\ Len(cc) = Len(ss)
                 /\ \A i \in 1 .. Len(ss) : cc[i] = Capturing(ss[i])
                 /\ Capturing(FlattenSeq(ss)) = FlattenSeq(cc)
  BY <1>8, CapturingSequences
<1>11. ASSUME NEW i \in 1 .. Len(cc) PROVE Paired(R, cc[i], tt[i])
  <2>1. i \in DOMAIN A BY <1>2, <1>8, <1>10, SequenceDomain
  <2>2. QED BY <1>7, <1>10, <2>1
<1>12. PairedParts(R, cc, tt) BY <1>8, <1>9, <1>10, <1>11 DEF PairedParts
<1>13. Paired(R, FlattenSeq(cc), FlattenSeq(tt)) BY <1>9, <1>10, <1>12, FlattenPairs
<1>14. Filters(rule) = FlattenSeq(ss) BY <1>1, <1>3, Zenon DEF Filters
<1>15. PathCondsIn(rule) = FlattenSeq(tt) BY <1>1, <1>4, Zenon DEF PathCondsIn
<1>16. IsSequence(FlattenSeq(tt)) BY <1>9, FlattenFacts
<1>17. QED BY <1>1, <1>10, <1>13, <1>14, <1>15, <1>16

LEMMA CapturingWithin ==
  ASSUME NEW F, IsSequence(F)
  PROVE  IsSequence(Capturing(F)) /\ \A f \in Range(Capturing(F)) : f \in Range(F) /\ HasCaptures(f)
<1>1. PICK cc : cc = CapturingParts(F) OBVIOUS
<1>2. PICK V : F \in Seq(V) BY DEF IsSequence
<1>3. DOMAIN cc = DOMAIN F /\ \A k \in DOMAIN F : cc[k] = IF HasCaptures(F[k]) THEN <<F[k]>> ELSE <<>>
  BY <1>1, Zenon DEF CapturingParts
<1>4. AllSequences(cc)
  <2>1. cc \in Seq(Seq(V)) BY <1>1, <1>2, CapturingPartsType
  <2>2. \A k \in DOMAIN cc : cc[k] \in Seq(V) BY <2>1
  <2>3. QED BY <2>1, <2>2, InSeq DEF AllSequences
<1>5. Capturing(F) = FlattenSeq(cc) BY <1>1, Zenon DEF Capturing, CapturingParts
<1>6. ASSUME NEW k \in DOMAIN F, NEW f \in Range(cc[k]) PROVE f \in Range(F) /\ HasCaptures(f)
  <2>0. cc[k] = IF HasCaptures(F[k]) THEN <<F[k]>> ELSE <<>> BY <1>3
  <2>1. HasCaptures(F[k]) /\ f = F[k]
    <3>1. CASE HasCaptures(F[k])
      <4>1. cc[k] = <<F[k]>> BY <2>0, <3>1, Zenon
      <4>2. Range(cc[k]) = {F[k]} BY <4>1, ShortSequences, Zenon
      <4>3. QED BY <3>1, <4>2
    <3>2. CASE ~HasCaptures(F[k])
      <4>1. cc[k] = <<>> BY <2>0, <3>2, Zenon
      <4>2. Range(cc[k]) = {} BY <4>1, ShortSequences, Zenon
      <4>3. QED BY <4>2
    <3>3. QED BY <3>1, <3>2
  <2>2. QED BY <2>1 DEF Range
<1>7. QED BY <1>3, <1>4, <1>5, <1>6, FlattenFacts

(* The k-th filter condition that captures, and the k-th path condition.   *)
LEMMA CapturesLineUp ==
  ASSUME NEW rule, IsRule(rule)
  PROVE  /\ Len(Capturing(Filters(rule))) = Len(PathCondsIn(rule))
         /\ DOMAIN Capturing(Filters(rule)) = DOMAIN PathCondsIn(rule)
         /\ \A k \in DOMAIN PathCondsIn(rule) :
              /\ Capturing(Filters(rule))[k] = CaptureOf(PathCondsIn(rule)[k], rule.phase)
              /\ Capturing(Filters(rule))[k] \in Range(Filters(rule))
              /\ IsPathCond(PathCondsIn(rule)[k])
<1>1. PICK s, t, W, p :
        /\ s = Capturing(Filters(rule)) /\ t = PathCondsIn(rule)
        /\ W = ChildrenOf(rule, "Path") /\ p = rule.phase
  OBVIOUS
<1>2. Paired(Pairs(W, p), s, t) /\ IsSequence(t) BY <1>1, RulePaired
<1>3. IsSequence(s) /\ \A f \in Range(s) : f \in Range(Filters(rule)) BY <1>1, FiltersType, CapturingWithin
<1>4. Len(s) = Len(t) /\ DOMAIN s = DOMAIN t /\ DOMAIN t = 1 .. Len(s)
  BY <1>2, <1>3, SequenceDomain DEF Paired
<1>5. ASSUME NEW k \in DOMAIN t PROVE s[k] = CaptureOf(t[k], p) /\ IsPathCond(t[k]) /\ s[k] \in Range(Filters(rule))
  <2>1. <<s[k], t[k]>> \in Pairs(W, p) BY <1>2, <1>4 DEF Paired
  <2>2. s[k] \in Range(s) BY <1>4 DEF Range
  <2>3. QED BY <2>1, <2>2, <1>3, PairsIn
<1>6. QED BY <1>1, <1>4, <1>5

(***************************************************************************)
(* The inductive invariant.                                                *)
(***************************************************************************)
(* A filter condition matches a request, and that is what is kept of it. *)
Matched(f, q, mt) ==
  /\ Matches(f, q, Decoded(q))
  /\ f \in DOMAIN mt /\ mt[f] = Match(f, q, Tokens[q.uri], Decoded(q))

(* So do the filter conditions of the rules found the request that these   *)
(* were looked up with.                                                    *)
MatchesOf(c, sel, sn, mt) ==
  \A p \in Phases : \A r \in sel[p] : \A f \in Range(Filters(c[r])) : Matched(f, sn[p], mt)

(* NULL is not a vector of values of the request. *)
NotNull(q) == \A raw \in BOOLEAN : NotCached \notin Range(Parse(q, raw))

Typed ==
  /\ conf \in Configs /\ Requests # {}
  /\ phase \in Phases /\ lookups \in 0 .. MaxLookups /\ firstLookup \in BOOLEAN
  /\ DOMAIN selected = Phases /\ DOMAIN seen = Phases
  /\ IsRequest(req) /\ NotNull(req) /\ \A p \in Phases : IsRequest(seen[p])
  /\ \A p \in Phases : selected[p] \subseteq PhaseRules(conf, p)
  /\ \A f \in DOMAIN matches : matches[f].holds \in BOOLEAN

(* Before the first lookup there is nothing to keep. *)
AtFirst ==
  /\ lookups = 0 => phase = 0
  /\ firstLookup =>
       /\ matches = NoMatches /\ \A p \in Phases : selected[p] = {}
       /\ pathTokens = NotCached /\ argVals = NotCached /\ rawVals = NotCached

(* What is cached is what the request had, if it has not changed. *)
CachesHold ==
  /\ pathTokens \in {NotCached} \cup {Tokens[u] : u \in DOMAIN Tokens}
  /\ uriKept => pathTokens \in {NotCached, Tokens[req.uri]}
  /\ argsKept => argVals \in {NotCached, Parse(req, FALSE)} /\ rawVals \in {NotCached, Parse(req, TRUE)}

IInv == Typed /\ AtFirst /\ CachesHold /\ RulesAsWritten /\ MatchesOf(conf, selected, seen, matches)

LEMMA PhasesFrom0 == 0 \in Phases /\ NumPhases \in Nat /\ NumPhases # 0
BY LookupsAssumption DEF Phases

LEMMA ConfigFacts ==
  ASSUME conf \in Configs
  PROVE  /\ IsConfig(conf)
         /\ \A p : \A r \in PhaseRules(conf, p) : IsRule(conf[r]) /\ conf[r].phase = p
<1>1. IsConfig(conf) BY ConfigsAssumption
<1>2. QED BY <1>1 DEF IsConfig, IsRule, PhaseRules

(* A match of a filter condition of a rule holds or does not. *)
LEMMA MatchHolds ==
  ASSUME NEW f, NEW p, IsFilter(f, p), NEW q, NEW toks, NEW vals
  PROVE  Match(f, q, toks, vals).holds \in BOOLEAN
<1>1. ASSUME f.class \notin {"PathMatched", "PathRegEx"} PROVE Matches(f, q, vals) \in BOOLEAN
  <2>1. CASE f.class = "CoreServerName" BY <2>1 DEF Matches, MatchServerName
  <2>2. CASE f.class = "RequestSubreq" BY <2>2 DEF Matches, MatchSubreq
  <2>3. CASE f.class = "RequestIntRedir" BY <2>3 DEF Matches, MatchIntRedir
  <2>4. CASE f.class = "QueryArgName" BY <2>4 DEF Matches, MatchName
  <2>5. CASE f.class = "QueryArgNameVal" BY <2>5 DEF Matches, MatchNameVal
  <2>6. CASE f.class = "PathSlash" BY <2>6 DEF Matches, MatchSlash
  <2>7. QED BY <1>1, <2>1, <2>2, <2>3, <2>4, <2>5, <2>6 DEF IsFilter, Classes
<1>2. CASE f.class = "PathMatched"
  <2>1. Match(f, q, toks, vals) = PathMatchedFiltCondMatch(toks) BY <1>2 DEF Match
  <2>2. QED BY <2>1 DEF PathMatchedFiltCondMatch
<1>3. CASE f.class = "PathRegEx"
  <2>1. Match(f, q, toks, vals) = PathRegExFiltCondMatch(f.arg, q.uri) BY <1>3 DEF Match
  <2>2. QED BY <2>1 DEF PathRegExFiltCondMatch, MatchRegEx
<1>4. CASE f.class \notin {"PathMatched", "PathRegEx"}
  <2>1. Match(f, q, toks, vals) = FiltCondMatch(Matches(f, q, vals)) BY <1>4 DEF Match
  <2>2. QED BY <1>1, <1>4, <2>1 DEF FiltCondMatch
<1>5. QED BY <1>2, <1>3, <1>4

(* NotNull is about the arguments alone. *)
LEMMA NotNullArgs ==
  ASSUME NEW q, NEW s, q.args = s.args, NotNull(q)
  PROVE  NotNull(s)
<1>1. ArgsOf(q) = ArgsOf(s) BY Zenon DEF ArgsOf
<1>2. \A raw : Parse(q, raw) = Parse(s, raw) BY <1>1, Zenon DEF Parse
<1>3. QED BY <1>2, Zenon DEF NotNull

LEMMA RequestChanged ==
  ASSUME NEW q, IsRequest(q), NEW x
  PROVE  /\ [q EXCEPT !.uri = x] = [uri |-> x, args |-> q.args, host |-> q.host, isSub |-> q.isSub, isRedir |-> q.isRedir]
         /\ [q EXCEPT !.args = x] = [uri |-> q.uri, args |-> x, host |-> q.host, isSub |-> q.isSub, isRedir |-> q.isRedir]
<1>1. PICK a, b, c, d, e : a = q.uri /\ b = q.args /\ c = q.host /\ d = q.isSub /\ e = q.isRedir OBVIOUS
<1>2. q = [uri |-> a, args |-> b, host |-> c, isSub |-> d, isRedir |-> e] BY <1>1 DEF IsRequest
<1>3. QED BY <1>1, <1>2

LEMMA RequestsFacts ==
  ASSUME NEW q \in Requests
  PROVE  /\ IsRequest(q) /\ NotNull(q)
         /\ \A a \in ArgSeqs : IsArgs(a) /\ NotNull([q EXCEPT !.args = a])
<1>1. IsRequest(q) BY RequestsAssumption
<1>2. ASSUME NEW a \in ArgSeqs \cup {q.args} PROVE NotNull([q EXCEPT !.args = a])
  BY NotCachedAssumption, Zenon DEF NotNull
<1>3. [q EXCEPT !.args = q.args].args = q.args BY <1>1, RequestChanged
<1>4. NotNull([q EXCEPT !.args = q.args]) BY <1>2
<1>5. NotNull(q) BY <1>3, <1>4, NotNullArgs
<1>6. QED BY <1>1, <1>2, <1>5, RequestsAssumption

LEMMA InitInv == Init => IInv
<1> SUFFICES ASSUME Init PROVE IInv OBVIOUS
<1> USE DEF Init
<1>1. Typed
  <2>1. phase \in Phases /\ lookups \in 0 .. MaxLookups BY PhasesFrom0, LookupsAssumption
  <2>2. IsRequest(req) /\ NotNull(req) BY RequestsFacts
  <2>3. DOMAIN matches = {} BY DEF NoMatches
  <2>4. QED BY <2>1, <2>2, <2>3 DEF Typed
<1>2. AtFirst BY DEF AtFirst
<1>3. CachesHold BY DEF CachesHold
<1>4. RulesAsWritten BY DEF RulesAsWritten, NoRuleLost, NoRuleTooMany
<1>5. MatchesOf(conf, selected, seen, matches) BY DEF MatchesOf
<1>6. QED BY <1>1, <1>2, <1>3, <1>4, <1>5 DEF IInv

(***************************************************************************)
(* Config::lookupRules(): the rules it finds, and what it keeps.           *)
(***************************************************************************)
(* S is what a lookup of phase p finds with request q. *)
Finds(c, p, q, S) ==
  /\ S \subseteq PhaseRules(c, p)
  /\ \A r \in S : OnePattern(c[r]) => AllSay(c[r], q)
  /\ \A r \in PhaseRules(c, p) : AllSay(c[r], q) => r \in S

(* The matches of other phases stay; those of the rules found are made.    *)
Rematched(c, p, q, S, mt, mtNext) ==
  /\ \A f \in DOMAIN mt : f.phase # p => f \in DOMAIN mtNext /\ mtNext[f] = mt[f]
  /\ \A f \in DOMAIN mtNext : mtNext[f].holds \in BOOLEAN
  /\ \A r \in S : \A f \in Range(Filters(c[r])) : Matched(f, q, mtNext)

LEMMA NarrowedByAll ==
  ASSUME NEW p, NEW toks, NEW vals
  PROVE  NarrowedBy(Len(ModuleOrder), p, toks, vals)
           = {r \in PhaseRules(conf, p) : \A m \in Modules : r \in Lookup(m, p, toks, vals)}
<1>1. Len(ModuleOrder) \in Nat /\ DOMAIN ModuleOrder = 1 .. Len(ModuleOrder)
  BY ModuleOrderAssumption, SequenceDomain
<1>2. \A m : m \in Modules <=> \E k \in 1 .. Len(ModuleOrder) : ModuleOrder[k] = m
  BY <1>1, ModuleOrderAssumption DEF Range
<1>3. \A r : (\A k \in 1 .. Len(ModuleOrder) : r \in Lookup(ModuleOrder[k], p, toks, vals))
         <=> \A m \in Modules : r \in Lookup(m, p, toks, vals)
  BY <1>2
<1>4. QED BY <1>3 DEF NarrowedBy

LEMMA MatchesLeftOver ==
  ASSUME Typed, AtFirst, NEW p
  PROVE  \A f : /\ f \in DOMAIN MatchesLeft(p) <=> f \in DOMAIN matches /\ f.phase # p
                /\ f \in DOMAIN MatchesLeft(p) => MatchesLeft(p)[f] = matches[f]
<1>1. CASE firstLookup
  <2>1. MatchesLeft(p) = matches BY <1>1 DEF MatchesLeft
  <2>2. DOMAIN matches = {} BY <1>1 DEF AtFirst, NoMatches
  <2>3. QED BY <2>1, <2>2
<1>2. CASE ~firstLookup
  <2>1. MatchesLeft(p) = [f \in {g \in DOMAIN matches : g.phase # p} |-> matches[f]] BY <1>2 DEF MatchesLeft
  <2>2. QED BY <2>1
<1>3. QED BY <1>1, <1>2

LEMMA LookupFinds ==
  ASSUME Typed, AtFirst, NEW p, LookupRules(p)
  PROVE  \E S : /\ selected' = [selected EXCEPT ![p] = S]
                /\ Finds(conf, p, req, S)
                /\ Rematched(conf, p, req, S, matches, matches')
                /\ pathTokens' \in {NotCached, Tokens[req.uri]}
                /\ argVals' \in {NotCached, Decoded(req)}
                /\ rawVals' = NotCached
<1> DEFINE toks0 == IF firstLookup THEN pathTokens ELSE EmptyTokens
           vals0 == IF firstLookup THEN argVals ELSE EmptyArgs
           toks  == IF toks0 = NotCached THEN Tokens[req.uri] ELSE toks0
           vals  == IF vals0 = NotCached THEN Parse(req, FALSE) ELSE vals0
           kept  == MatchesLeft(p)
           Holds(f) == IF f \in DOMAIN kept THEN kept[f].holds ELSE Matches(f, req, vals)
           holding == {f \in UNION {Range(Filters(conf[r])) : r \in PhaseRules(conf, p)} : Holds(f)}
           asked == {m \in Asked(p, toks, vals) : ~AllMatch(m, p)}
           narr  == NarrowedBy(Len(ModuleOrder), p, toks, vals)
           fresh == (UNION {Tried(r, holding) : r \in narr}) \ DOMAIN kept
           S == {r \in narr : Range(Filters(conf[r])) \subseteq holding}
<1>1. /\ selected' = [selected EXCEPT ![p] = S]
      /\ matches' = [f \in DOMAIN kept \cup fresh |->
                       IF f \in DOMAIN kept THEN kept[f] ELSE Match(f, req, toks, vals)]
      /\ pathTokens' \in {toks, toks0}
      /\ argVals' \in {vals, vals0}
      /\ rawVals' = IF firstLookup THEN rawVals ELSE EmptyArgs
  BY Zenon DEF LookupRules
<1>2. toks0 = NotCached /\ vals0 = NotCached /\ (IF firstLookup THEN rawVals ELSE EmptyArgs) = NotCached
  BY DEF AtFirst, EmptyTokens, EmptyArgs
<1>3. toks = Tokens[req.uri] /\ vals = Decoded(req) BY <1>2, Zenon DEF Decoded
<1>4. conf \in Configs /\ IsConfig(conf) /\ IsRequest(req) BY ConfigFacts DEF Typed
<1>5. \A r \in PhaseRules(conf, p) : /\ IsRule(conf[r])
                                     /\ \A f \in Range(Filters(conf[r])) : IsFilter(f, p) /\ f \notin DOMAIN kept
  <2>1. \A r \in PhaseRules(conf, p) : IsRule(conf[r]) /\ conf[r].phase = p BY <1>4, ConfigFacts
  <2>2. \A r \in PhaseRules(conf, p) : \A f \in Range(Filters(conf[r])) : IsFilter(f, p) BY <2>1, FiltersType
  <2>3. \A f \in DOMAIN kept : f.phase # p BY MatchesLeftOver
  <2> HIDE DEF kept
  <2>4. QED BY <2>1, <2>2, <2>3 DEF IsFilter
<1>6. \A r \in PhaseRules(conf, p) : \A f \in Range(Filters(conf[r])) :
        f \in holding <=> Matches(f, req, Decoded(req))
  <2>1. \A f : f \notin DOMAIN kept => (Holds(f) <=> Matches(f, req, Decoded(req))) BY <1>3
  <2>2. \A r \in PhaseRules(conf, p) : \A f \in Range(Filters(conf[r])) :
          f \in holding <=> Holds(f)
    <3> HIDE DEF Holds
    <3> QED OBVIOUS
  <2> HIDE DEF Holds, holding, kept
  <2>3. QED BY <1>5, <2>1, <2>2
<1>7. narr = {r \in PhaseRules(conf, p) : \A m \in Modules : r \in Lookup(m, p, Tokens[req.uri], Decoded(req))}
  <2> HIDE DEF toks, vals
  <2>1. narr = {r \in PhaseRules(conf, p) : \A m \in Modules : r \in Lookup(m, p, toks, vals)} BY NarrowedByAll
  <2>2. QED BY <1>3, <2>1
<1>8. \A r : r \in S <=> r \in narr /\ \A f \in Range(Filters(conf[r])) : Matches(f, req, Decoded(req))
  <2>1. narr \subseteq PhaseRules(conf, p) BY <1>7
  <2> HIDE DEF narr, holding
  <2>2. QED BY <1>6, <2>1
<1>9. \A f : /\ f \in DOMAIN kept <=> f \in DOMAIN matches /\ f.phase # p
             /\ f \in DOMAIN kept => kept[f] = matches[f]
  BY MatchesLeftOver
<1>10. \A r \in S : \A f \in Range(Filters(conf[r])) : f \in fresh
  <2> SUFFICES ASSUME NEW r \in S, NEW f \in Range(Filters(conf[r])) PROVE f \in fresh OBVIOUS
  <2>1. r \in narr /\ Range(Filters(conf[r])) \subseteq holding OBVIOUS
  <2>2. r \in PhaseRules(conf, p) BY <1>7, <2>1
  <2>3. f \notin DOMAIN kept BY <1>5, <2>2
  <2>4. f \in Tried(r, holding)
    <3>1. PICK F : F = Filters(conf[r]) OBVIOUS
    <3>2. IsSequence(F) BY <1>5, <2>2, <3>1, FiltersType
    <3>3. DOMAIN F = 1 .. Len(F) /\ Len(F) \in Nat BY <3>2, SequenceDomain
    <3>4. PICK k \in DOMAIN F : F[k] = f BY <3>1 DEF Range
    <3> HIDE DEF holding
    <3>5. \A i \in 1 .. k - 1 : F[i] \in holding
      <4>1. \A i \in 1 .. k - 1 : i \in DOMAIN F BY <3>3
      <4>2. \A i \in DOMAIN F : F[i] \in Range(F) BY DEF Range
      <4>3. QED BY <2>1, <3>1, <4>1, <4>2
    <3>6. f \in {F[l] : l \in {j \in DOMAIN F : \A i \in 1 .. j - 1 : F[i] \in holding}} BY <3>4, <3>5
    <3>7. QED BY <3>1, <3>6, Zenon DEF Tried
  <2> HIDE DEF kept, holding, narr
  <2>5. Tried(r, holding) \in {Tried(x, holding) : x \in narr} BY <2>1, Zenon
  <2>6. f \in UNION {Tried(x, holding) : x \in narr} BY <2>4, <2>5, Zenon
  <2>7. QED BY <2>3, <2>6
<1>11. \A f \in fresh : IsFilter(f, p) /\ f \notin DOMAIN kept
  <2>1. \A r : Tried(r, holding) \subseteq Range(Filters(conf[r]))
    <3> HIDE DEF holding
    <3>1. \A F, H : {F[k] : k \in {j \in DOMAIN F : \A i \in 1 .. j - 1 : F[i] \in H}} \subseteq Range(F) BY DEF Range
    <3>2. QED BY <3>1, Zenon DEF Tried
  <2>2. narr \subseteq PhaseRules(conf, p) BY <1>7
  <2> HIDE DEF narr, holding, kept
  <2>3. \A f \in fresh : (\E r \in narr : f \in Tried(r, holding)) /\ f \notin DOMAIN kept
    <3>1. \A t \in {Tried(x, holding) : x \in narr} : \E r \in narr : t = Tried(r, holding) BY Zenon
    <3>2. PICK T : T = {Tried(x, holding) : x \in narr} BY Zenon
    <3>3. fresh = (UNION T) \ DOMAIN kept
      <4>1. fresh = (UNION {Tried(x, holding) : x \in narr}) \ DOMAIN kept OBVIOUS
      <4> HIDE DEF fresh
      <4>2. QED BY <3>2, <4>1
    <3> HIDE DEF fresh
    <3>4. \A f \in fresh : f \notin DOMAIN kept /\ \E t \in T : f \in t BY <3>3
    <3>5. QED BY <3>1, <3>2, <3>4, Zenon
  <2>4. QED BY <1>5, <2>1, <2>2, <2>3
<1> HIDE DEF toks0, vals0, toks, vals, kept, holding, narr, fresh, S
<1>12. Finds(conf, p, req, S)
  <2>1. S \subseteq PhaseRules(conf, p) BY <1>7, <1>8
  <2>2. ASSUME NEW r \in PhaseRules(conf, p), AllSay(conf[r], req) PROVE r \in S
    <3>1. \A m \in Modules : r \in Lookup(m, p, Tokens[req.uri], Decoded(req)) BY <1>4, <2>2, NarrowingKeeps
    <3>2. \A f \in Range(Filters(conf[r])) : Matches(f, req, Decoded(req)) BY <1>4, <1>5, <2>2, RuleSays
    <3>3. QED BY <1>7, <1>8, <3>1, <3>2
  <2>3. ASSUME NEW r \in S, OnePattern(conf[r]) PROVE AllSay(conf[r], req)
    <3>1. r \in Lookup("Path", p, Tokens[req.uri], Decoded(req)) BY <1>7, <1>8 DEF Modules
    <3>2. \A c \in ChildrenOf(conf[r], "Path") : Narrowed("Path", c, req) BY <1>4, <2>3, <3>1, NarrowingFinds
    <3>3. \A f \in Range(Filters(conf[r])) : Matches(f, req, Decoded(req)) BY <1>8
    <3>4. IsRule(conf[r]) BY <1>5, <2>1
    <3>5. QED BY <1>4, <3>2, <3>3, <3>4, RuleSays
  <2>4. QED BY <2>1, <2>2, <2>3 DEF Finds
<1>13. Rematched(conf, p, req, S, matches, matches')
  <2>1. /\ DOMAIN matches' = DOMAIN kept \cup fresh
        /\ \A f \in DOMAIN kept : matches'[f] = kept[f]
        /\ \A f \in fresh : matches'[f] = Match(f, req, Tokens[req.uri], Decoded(req))
    BY <1>1, <1>3, <1>11
  <2>2. \A f \in DOMAIN kept : matches'[f].holds \in BOOLEAN BY <1>9, <2>1 DEF Typed
  <2>3. \A f \in fresh : matches'[f].holds \in BOOLEAN BY <1>11, <2>1, MatchHolds
  <2>4. \A r \in S : \A f \in Range(Filters(conf[r])) : Matched(f, req, matches')
    BY <1>8, <1>10, <2>1 DEF Matched
  <2>5. QED BY <1>9, <2>1, <2>2, <2>3, <2>4 DEF Rematched
<1>14. QED BY <1>1, <1>2, <1>3, <1>12, <1>13

(* A call of lookupRules() for the phase of the call, which is the same or *)
(* the next.                                                               *)
Entered(p) ==
  /\ p \in Phases /\ phase' = p
  /\ lookups' \in 0 .. MaxLookups /\ lookups' # 0
  /\ p # phase => lookups > 0 /\ p = phase + 1
  /\ UNCHANGED <<conf, req>>

(* A phase up to the one entered was entered before, or is that one. *)
LEMMA EnteredPhases ==
  ASSUME Typed, AtFirst, NEW p, Entered(p), NEW o \in Phases, o <= phase', o # p
  PROVE  lookups > 0 /\ o <= phase
<1>1. /\ o \in Nat /\ phase \in Nat /\ p \in Nat /\ phase' = p /\ lookups \in Nat
      /\ p # phase => lookups > 0 /\ p = phase + 1
      /\ lookups = 0 => phase = 0
  BY LookupsAssumption DEF Typed, AtFirst, Entered, Phases
<1>2. o < p BY <1>1
<1>3. CASE p = phase
  <2>1. phase # 0 BY <1>1, <1>2, <1>3
  <2>2. QED BY <1>1, <1>2, <1>3, <2>1
<1>4. CASE p # phase BY <1>1, <1>2, <1>4
<1>5. QED BY <1>3, <1>4

LEMMA LookupRulesInv ==
  ASSUME IInv, NEW p, Entered(p), LookupRules(p)
  PROVE  IInv'
<1>0. /\ Typed /\ AtFirst /\ NoRuleLost /\ NoRuleTooMany
      /\ MatchesOf(conf, selected, seen, matches)
  BY DEF IInv, RulesAsWritten
<1>1. PICK S : /\ selected' = [selected EXCEPT ![p] = S]
               /\ Finds(conf, p, req, S)
               /\ Rematched(conf, p, req, S, matches, matches')
               /\ pathTokens' \in {NotCached, Tokens[req.uri]}
               /\ argVals' \in {NotCached, Decoded(req)}
               /\ rawVals' = NotCached
  BY <1>0, LookupFinds
<1>2. firstLookup' = FALSE /\ seen' = [seen EXCEPT ![p] = req] /\ uriKept' = TRUE /\ argsKept' = TRUE
  BY Zenon DEF LookupRules
<1>3. /\ conf' = conf /\ req' = req /\ phase' = p /\ p \in Phases
      /\ lookups' \in 0 .. MaxLookups /\ lookups' # 0
  BY DEF Entered
<1>4. /\ DOMAIN selected' = Phases /\ selected'[p] = S
      /\ \A o \in Phases : o # p => selected'[o] = selected[o]
  BY <1>0, <1>1, <1>3 DEF Typed
<1>5. /\ DOMAIN seen' = Phases /\ seen'[p] = req
      /\ \A o \in Phases : o # p => seen'[o] = seen[o]
  BY <1>0, <1>2, <1>3 DEF Typed
<1>6. \A o \in Phases : selected[o] \subseteq PhaseRules(conf, o) BY <1>0 DEF Typed
<1>7. Typed'
  <2>1. \A o \in Phases : selected'[o] \subseteq PhaseRules(conf, o) BY <1>1, <1>4, <1>6 DEF Finds
  <2>2. \A o \in Phases : IsRequest(seen'[o]) BY <1>0, <1>5 DEF Typed
  <2>3. \A f \in DOMAIN matches' : matches'[f].holds \in BOOLEAN BY <1>1 DEF Rematched
  <2>4. QED BY <1>0, <1>2, <1>3, <1>4, <1>5, <2>1, <2>2, <2>3 DEF Typed
<1>8. AtFirst' BY <1>2, <1>3 DEF AtFirst
<1>9. CachesHold'
  <2>1. req.uri \in DOMAIN Tokens BY <1>0 DEF Typed, IsRequest
  <2>2. pathTokens' \in {NotCached} \cup {Tokens[u] : u \in DOMAIN Tokens} BY <1>1, <2>1
  <2>3. QED BY <1>1, <1>3, <2>2 DEF CachesHold, Decoded
<1>10. NoRuleLost'
  <2>1. SUFFICES ASSUME NEW o \in Phases, o <= phase', NEW r \in PhaseRules(conf, o), AllSay(conf[r], seen'[o])
                 PROVE  r \in selected'[o]
    BY <1>3 DEF NoRuleLost
  <2>2. CASE o = p BY <1>1, <1>4, <1>5, <2>1, <2>2 DEF Finds
  <2>3. CASE o # p
    <3>1. lookups > 0 /\ o <= phase BY <1>0, <2>1, <2>3, EnteredPhases
    <3>2. QED BY <1>0, <1>4, <1>5, <2>1, <2>3, <3>1 DEF NoRuleLost
  <2>4. QED BY <2>2, <2>3
<1>11. NoRuleTooMany'
  <2>1. SUFFICES ASSUME NEW o \in Phases, NEW r \in selected'[o], OnePattern(conf[r])
                 PROVE  AllSay(conf[r], seen'[o])
    BY <1>3 DEF NoRuleTooMany
  <2>2. CASE o = p BY <1>1, <1>4, <1>5, <2>1, <2>2 DEF Finds
  <2>3. CASE o # p BY <1>0, <1>4, <1>5, <2>1, <2>3 DEF NoRuleTooMany
  <2>4. QED BY <2>2, <2>3
<1>12. MatchesOf(conf', selected', seen', matches')
  <2>1. SUFFICES ASSUME NEW o \in Phases, NEW r \in selected'[o], NEW f \in Range(Filters(conf[r]))
                 PROVE  Matched(f, seen'[o], matches')
    BY <1>3 DEF MatchesOf
  <2>2. CASE o = p BY <1>1, <1>4, <1>5, <2>1, <2>2 DEF Rematched
  <2>3. CASE o # p
    <3>1. r \in PhaseRules(conf, o) /\ r \in selected[o] BY <1>4, <1>6, <2>1, <2>3
    <3>2. f.phase = o
      <4>1. IsRule(conf[r]) /\ conf[r].phase = o BY <1>0, <3>1, ConfigFacts DEF Typed
      <4>2. QED BY <2>1, <4>1, FiltersType DEF IsFilter
    <3>3. Matched(f, seen[o], matches) BY <1>0, <2>1, <3>1 DEF MatchesOf
    <3>4. f \in DOMAIN matches' /\ matches'[f] = matches[f] BY <1>1, <2>3, <3>2, <3>3 DEF Rematched, Matched
    <3>5. QED BY <1>5, <2>3, <3>3, <3>4 DEF Matched
  <2>4. QED BY <2>2, <2>3
<1>13. QED BY <1>7, <1>8, <1>9, <1>10, <1>11, <1>12 DEF IInv, RulesAsWritten

LEMMA LookupNothingInv ==
  ASSUME IInv, NEW p, Entered(p), LookupNothing(p)
  PROVE  IInv'
<1>0. /\ Typed /\ AtFirst /\ CachesHold /\ NoRuleLost /\ NoRuleTooMany
      /\ MatchesOf(conf, selected, seen, matches)
  BY DEF IInv, RulesAsWritten
<1>1. /\ conf' = conf /\ req' = req /\ phase' = p /\ p \in Phases
      /\ lookups' \in 0 .. MaxLookups /\ lookups' # 0
  BY DEF Entered
<1>2. /\ PhaseRules(conf, p) = {}
      /\ firstLookup' = firstLookup /\ matches' = matches /\ selected' = selected /\ seen' = seen
      /\ pathTokens' = pathTokens /\ argVals' = argVals /\ rawVals' = rawVals
      /\ uriKept' = uriKept /\ argsKept' = argsKept
  BY DEF LookupNothing, cacheVars, histVars
<1>3. Typed' BY <1>0, <1>1, <1>2 DEF Typed
<1>4. AtFirst' BY <1>0, <1>1, <1>2 DEF AtFirst
<1>5. CachesHold' BY <1>0, <1>1, <1>2 DEF CachesHold
<1>6. NoRuleLost'
  <2>1. SUFFICES ASSUME NEW o \in Phases, o <= phase', NEW r \in PhaseRules(conf, o), AllSay(conf[r], seen[o])
                 PROVE  r \in selected[o]
    BY <1>1, <1>2 DEF NoRuleLost
  <2>2. o # p BY <1>2, <2>1
  <2>3. lookups > 0 /\ o <= phase BY <1>0, <2>1, <2>2, EnteredPhases
  <2>4. QED BY <1>0, <2>1, <2>3 DEF NoRuleLost
<1>7. NoRuleTooMany' BY <1>0, <1>1, <1>2 DEF NoRuleTooMany
<1>8. MatchesOf(conf', selected', seen', matches') BY <1>0, <1>1, <1>2
<1>9. QED BY <1>3, <1>4, <1>5, <1>6, <1>7, <1>8 DEF IInv, RulesAsWritten

LEMMA EnterPhaseInv == IInv /\ EnterPhase => IInv'
<1> SUFFICES ASSUME IInv, EnterPhase PROVE IInv' OBVIOUS
<1>1. PICK p : p = phase + 1 OBVIOUS
<1>2. /\ lookups > 0 /\ p \in Phases /\ phase' = p /\ lookups' = 1
      /\ LookupRules(p) \/ LookupNothing(p)
      /\ conf' = conf /\ req' = req
  BY <1>1, Zenon DEF EnterPhase
<1>3. 1 \in 0 .. MaxLookups
  <2>1. lookups \in 0 .. MaxLookups BY DEF IInv, Typed
  <2>2. QED BY <1>2, <2>1, LookupsAssumption
<1>4. Entered(p) BY <1>1, <1>2, <1>3 DEF Entered
<1>5. QED BY <1>2, <1>4, LookupRulesInv, LookupNothingInv

LEMMA LookupAgainInv == IInv /\ LookupAgain => IInv'
<1> SUFFICES ASSUME IInv, LookupAgain PROVE IInv' OBVIOUS
<1>1. PICK p : p = phase OBVIOUS
<1>2. /\ lookups < MaxLookups /\ lookups' = lookups + 1 /\ phase' = p
      /\ LookupRules(p) \/ LookupNothing(p)
      /\ conf' = conf /\ req' = req
  BY <1>1, Zenon DEF LookupAgain
<1>3. p \in Phases /\ lookups \in 0 .. MaxLookups BY <1>1 DEF IInv, Typed
<1>4. lookups' \in 0 .. MaxLookups /\ lookups' # 0 BY <1>2, <1>3, LookupsAssumption
<1>5. Entered(p) BY <1>1, <1>2, <1>3, <1>4 DEF Entered
<1>6. QED BY <1>2, <1>5, LookupRulesInv, LookupNothingInv

(***************************************************************************)
(* What scripts do: no rule is looked up, and they run after a lookup.     *)
(***************************************************************************)
LEMMA ScriptInv ==
  ASSUME IInv, Running, UNCHANGED ruleVars, IsRequest(req'), NotNull(req'), CachesHold'
  PROVE  IInv'
<1>0. /\ Typed /\ AtFirst /\ NoRuleLost /\ NoRuleTooMany
      /\ MatchesOf(conf, selected, seen, matches)
  BY DEF IInv, RulesAsWritten
<1>1. /\ conf' = conf /\ phase' = phase /\ lookups' = lookups /\ firstLookup' = firstLookup
      /\ matches' = matches /\ selected' = selected /\ seen' = seen
  BY DEF ruleVars
<1>2. ~firstLookup /\ lookups # 0
  <2>1. PICK p \in Phases : selected[p] # {} BY DEF Running, InForce
  <2>2. ~firstLookup BY <1>0, <2>1 DEF AtFirst
  <2>3. lookups # 0 BY <1>0, LookupsAssumption DEF Running, Typed
  <2>4. QED BY <2>2, <2>3
<1>3. Typed' BY <1>0, <1>1 DEF Typed
<1>4. AtFirst' BY <1>1, <1>2 DEF AtFirst
<1>5. NoRuleLost' /\ NoRuleTooMany' BY <1>0, <1>1 DEF NoRuleLost, NoRuleTooMany
<1>6. MatchesOf(conf', selected', seen', matches') BY <1>0, <1>1
<1>7. QED BY <1>3, <1>4, <1>5, <1>6 DEF IInv, RulesAsWritten

LEMMA SameArguments ==
  ASSUME NEW q, NEW s, q.args = s.args
  PROVE  \A raw : Parse(q, raw) = Parse(s, raw)
<1>1. ArgsOf(q) = ArgsOf(s) BY Zenon DEF ArgsOf
<1>2. QED BY <1>1, Zenon DEF Parse

LEMMA SetURIInv == ASSUME IInv, NEW u \in URIs, SetURI(u) PROVE IInv'
<1>1. /\ Running /\ UNCHANGED ruleVars
      /\ req' = [req EXCEPT !.uri = u] /\ uriKept' = (uriKept /\ u = req.uri)
      /\ pathTokens' = pathTokens /\ argVals' = argVals /\ rawVals' = rawVals /\ argsKept' = argsKept
  BY DEF SetURI, cacheVars
<1>2. IsRequest(req) /\ NotNull(req) /\ CachesHold BY DEF IInv, Typed
<1>3. req' = [uri |-> u, args |-> req.args, host |-> req.host, isSub |-> req.isSub, isRedir |-> req.isRedir]
  BY <1>1, <1>2, RequestChanged
<1>4. IsRequest(req') BY <1>2, <1>3, RequestsAssumption DEF IsRequest
<1>5. req'.args = req.args /\ req'.uri = u BY <1>3
<1>6. NotNull(req') BY <1>2, <1>5, NotNullArgs
<1>7. \A raw : Parse(req', raw) = Parse(req, raw) BY <1>5, SameArguments
<1>8. CachesHold'
  <2>1. uriKept' => pathTokens' \in {NotCached, Tokens[req'.uri]} BY <1>1, <1>2, <1>5 DEF CachesHold
  <2>2. argsKept' => argVals' \in {NotCached, Parse(req', FALSE)} /\ rawVals' \in {NotCached, Parse(req', TRUE)}
    BY <1>1, <1>2, <1>7 DEF CachesHold
  <2>3. QED BY <1>1, <1>2, <2>1, <2>2 DEF CachesHold
<1>9. QED BY <1>1, <1>4, <1>6, <1>8, ScriptInv

LEMMA SetArgsInv == ASSUME IInv, NEW a \in ArgSeqs, SetArgs(a) PROVE IInv'
<1>1. /\ Running /\ UNCHANGED ruleVars
      /\ req' = [req EXCEPT !.args = a] /\ argsKept' = (argsKept /\ a = req.args)
      /\ pathTokens' = pathTokens /\ argVals' = argVals /\ rawVals' = rawVals /\ uriKept' = uriKept
  BY DEF SetArgs, cacheVars
<1>2. IsRequest(req) /\ NotNull(req) /\ CachesHold /\ Requests # {} BY DEF IInv, Typed
<1>3. req' = [uri |-> req.uri, args |-> a, host |-> req.host, isSub |-> req.isSub, isRedir |-> req.isRedir]
  BY <1>1, <1>2, RequestChanged
<1>4. IsRequest(req')
  <2>1. IsArgs(a) BY RequestsAssumption
  <2>2. QED BY <1>2, <1>3, <2>1 DEF IsRequest
<1>5. req'.args = a /\ req'.uri = req.uri BY <1>3
<1>6. NotNull(req')
  <2>1. PICK q \in Requests : TRUE BY <1>2
  <2>2. NotNull([q EXCEPT !.args = a]) /\ IsRequest(q) BY RequestsFacts
  <2>3. [q EXCEPT !.args = a].args = a BY <2>2, RequestChanged
  <2>4. QED BY <1>5, <2>2, <2>3, NotNullArgs
<1>7. CachesHold'
  <2>1. uriKept' => pathTokens' \in {NotCached, Tokens[req'.uri]} BY <1>1, <1>2, <1>5 DEF CachesHold
  <2>2. ASSUME argsKept'
        PROVE  argVals' \in {NotCached, Parse(req', FALSE)} /\ rawVals' \in {NotCached, Parse(req', TRUE)}
    <3>1. argsKept /\ req'.args = req.args BY <1>1, <1>5, <2>2
    <3>2. \A raw : Parse(req', raw) = Parse(req, raw) BY <3>1, SameArguments
    <3>3. QED BY <1>1, <1>2, <3>1, <3>2 DEF CachesHold
  <2>3. QED BY <1>1, <1>2, <2>1, <2>2 DEF CachesHold
<1>8. QED BY <1>1, <1>4, <1>6, <1>7, ScriptInv

LEMMA QueryArgResetInv == ASSUME IInv, QueryArgReset PROVE IInv'
<1>1. /\ Running /\ UNCHANGED ruleVars /\ req' = req
      /\ argVals' = NotCached /\ rawVals' = NotCached /\ pathTokens' = pathTokens /\ uriKept' = uriKept
  BY DEF QueryArgReset
<1>2. IsRequest(req) /\ NotNull(req) /\ CachesHold BY DEF IInv, Typed
<1>3. CachesHold' BY <1>1, <1>2 DEF CachesHold
<1>4. QED BY <1>1, <1>2, <1>3, ScriptInv

(* What reading caches is what was cached already or what the request has. *)
LEMMA ReadInv ==
  ASSUME IInv, Running, UNCHANGED <<ruleVars, req, uriKept, argsKept>>,
         pathTokens' \in {pathTokens, PathTokens}, argVals' \in {argVals, ArgVals}, rawVals' \in {rawVals, RawVals}
  PROVE  IInv'
<1>1. UNCHANGED ruleVars /\ req' = req /\ uriKept' = uriKept /\ argsKept' = argsKept OBVIOUS
<1>2. IsRequest(req) /\ NotNull(req) /\ CachesHold BY DEF IInv, Typed
<1>3. pathTokens' \in {pathTokens, Tokens[req.uri]} BY DEF PathTokens
<1>4. argVals' \in {argVals, Parse(req, FALSE)} BY Zenon DEF ArgVals
<1>5. rawVals' \in {rawVals, Parse(req, TRUE)} BY Zenon DEF RawVals
<1>6. Tokens[req.uri] \in {Tokens[u] : u \in DOMAIN Tokens} BY <1>2 DEF IsRequest
<1>7. /\ pathTokens' \in {NotCached} \cup {Tokens[u] : u \in DOMAIN Tokens}
      /\ uriKept' => pathTokens' \in {NotCached, Tokens[req'.uri]}
  BY <1>1, <1>2, <1>3, <1>6 DEF CachesHold
<1>8. argsKept' => argVals' \in {NotCached, Parse(req', FALSE)} /\ rawVals' \in {NotCached, Parse(req', TRUE)}
  <2>1. argsKept => argVals \in {NotCached, Parse(req, FALSE)} /\ rawVals \in {NotCached, Parse(req, TRUE)}
    BY <1>2 DEF CachesHold
  <2>2. PICK x, y : x = Parse(req, FALSE) /\ y = Parse(req, TRUE) BY Zenon
  <2>3. argsKept => argVals \in {NotCached, x} /\ rawVals \in {NotCached, y} BY <2>1, <2>2, Zenon
  <2>4. argVals' \in {argVals, x} /\ rawVals' \in {rawVals, y} BY <1>4, <1>5, <2>2, Zenon
  <2>5. argsKept' => argVals' \in {NotCached, x} /\ rawVals' \in {NotCached, y} BY <1>1, <2>3, <2>4
  <2>6. QED BY <1>1, <2>2, <2>5, Zenon
<1>9. CachesHold' BY <1>7, <1>8 DEF CachesHold
<1>10. QED BY <1>1, <1>2, <1>9, ScriptInv

LEMMA NextInv == IInv /\ [Next]_vars => IInv'
<1> SUFFICES ASSUME IInv, [Next]_vars PROVE IInv' OBVIOUS
<1>1. CASE EnterPhase BY <1>1, EnterPhaseInv
<1>2. CASE LookupAgain BY <1>2, LookupAgainInv
<1>3. CASE \E u \in URIs : SetURI(u) BY <1>3, SetURIInv
<1>4. CASE \E a \in ArgSeqs : SetArgs(a) BY <1>4, SetArgsInv
<1>5. CASE QueryArgReset BY <1>5, QueryArgResetInv
<1>6. CASE ReadArgs BY <1>6, ReadInv DEF ReadArgs
<1>7. CASE ReadRawArgs BY <1>7, ReadInv DEF ReadRawArgs
<1>8. CASE ReadKeys BY <1>8, ReadInv DEF ReadKeys
<1>9. CASE ReadTokens BY <1>9, ReadInv DEF ReadTokens
<1>10. CASE UNCHANGED vars
  <2>1. /\ conf' = conf /\ req' = req /\ phase' = phase /\ lookups' = lookups /\ firstLookup' = firstLookup
        /\ matches' = matches /\ pathTokens' = pathTokens /\ argVals' = argVals /\ rawVals' = rawVals
        /\ selected' = selected /\ seen' = seen /\ uriKept' = uriKept /\ argsKept' = argsKept
    BY <1>10 DEF vars, cacheVars, histVars
  <2>2. /\ Typed /\ AtFirst /\ CachesHold /\ NoRuleLost /\ NoRuleTooMany
        /\ MatchesOf(conf, selected, seen, matches)
    BY DEF IInv, RulesAsWritten
  <2>3. Typed' /\ AtFirst' /\ CachesHold' BY <2>1, <2>2 DEF Typed, AtFirst, CachesHold
  <2>4. NoRuleLost' /\ NoRuleTooMany' BY <2>1, <2>2 DEF NoRuleLost, NoRuleTooMany
  <2>5. MatchesOf(conf', selected', seen', matches') BY <2>1, <2>2
  <2>6. QED BY <2>3, <2>4, <2>5 DEF IInv, RulesAsWritten
<1>11. QED BY <1>1, <1>2, <1>3, <1>4, <1>5, <1>6, <1>7, <1>8, <1>9, <1>10 DEF Next

LEMMA SpecInv == Spec => []IInv
BY InitInv, NextInv, PTL DEF Spec

(***************************************************************************)
(* Theorems.                                                               *)
(***************************************************************************)
(* The variables have their types, a cached token sequence is that of some *)
(* URI, and the rules in force are of the phases they are kept for.        *)
THEOREM TypeCorrect == Spec => []TypeOK
<1>1. IInv => TypeOK BY DEF IInv, Typed, AtFirst, CachesHold, TypeOK, InForce
<1>2. QED BY <1>1, SpecInv, PTL

(* Config::lookupRules() finds every rule whose conditions hold of the     *)
(* request, and no other with at most one <Path> and <Pattern>.            *)
THEOREM RulesFoundAsWritten == Spec => []RulesAsWritten
<1>1. IInv => RulesAsWritten BY DEF IInv
<1>2. QED BY <1>1, SpecInv, PTL

(* What a path condition captures, as the match of its filter condition.   *)
LEMMA CaptureIsWritten ==
  ASSUME NEW c, NEW p, NEW q, NEW mt, IsPathCond(c), Matched(CaptureOf(c, p), q, mt)
  PROVE  CaptureOf(c, p) \in DOMAIN mt /\ mt[CaptureOf(c, p)].captures = WrittenCaptures(c, q)
<1>1. PICK f : f = CaptureOf(c, p) OBVIOUS
<1>2. /\ Matches(f, q, Decoded(q)) /\ f \in DOMAIN mt
      /\ mt[f] = Match(f, q, Tokens[q.uri], Decoded(q))
  BY <1>1 DEF Matched
<1>3. ASSUME NEW x, f = PathRegExFiltCond(p, x) PROVE mt[f].captures = MatchData(x, q.uri)
  <2>1. f.class = "PathRegEx" /\ f.arg = x BY <1>3, FilterFields DEF PathRegExFiltCond
  <2>2. MatchRegEx(x, q.uri) BY <1>2, <2>1 DEF Matches
  <2>3. mt[f] = PathRegExFiltCondMatch(x, q.uri) BY <1>2, <2>1 DEF Match
  <2>4. PICK d : d = MatchData(x, q.uri) OBVIOUS
  <2>5. mt[f] = [holds |-> MatchRegEx(x, q.uri), captures |-> d]
    BY <2>2, <2>3, <2>4, Zenon DEF PathRegExFiltCondMatch
  <2>6. QED BY <2>4, <2>5
<1>4. CASE c.elem = "RegEx"
  <2>1. f = PathRegExFiltCond(p, c.arg) BY <1>1, <1>4 DEF CaptureOf
  <2>2. WrittenCaptures(c, q) = MatchData(c.arg, q.uri) BY <1>4 DEF WrittenCaptures
  <2>3. QED BY <1>1, <1>2, <1>3, <2>1, <2>2
<1>5. CASE c.elem = "Pattern" /\ RegExOf[c.arg] # NoRegEx
  <2>1. f = PathRegExFiltCond(p, RegExOf[c.arg]) BY <1>1, <1>5 DEF CaptureOf, PatternFilter
  <2>2. WrittenCaptures(c, q) = MatchData(RegExOf[c.arg], q.uri) BY <1>5 DEF WrittenCaptures
  <2>3. QED BY <1>1, <1>2, <1>3, <2>1, <2>2
<1>6. CASE c.elem = "Pattern" /\ RegExOf[c.arg] = NoRegEx
  <2>1. f = PathMatchedFiltCond(p) BY <1>1, <1>6 DEF CaptureOf, PatternFilter
  <2>2. f.class = "PathMatched" BY <2>1, FilterFields DEF PathMatchedFiltCond
  <2>3. mt[f] = PathMatchedFiltCondMatch(Tokens[q.uri]) BY <1>2, <2>2 DEF Match
  <2>4. WrittenCaptures(c, q) = Tokens[q.uri] BY <1>6 DEF WrittenCaptures
  <2>5. QED BY <1>1, <1>2, <2>3, <2>4 DEF PathMatchedFiltCondMatch
<1>7. QED BY <1>4, <1>5, <1>6 DEF IsPathCond

(* rum.path.mcaptures of a rule in force is what its path conditions       *)
(* captured, in the order they are written, of the URI of its lookup,      *)
(* whatever scripts and lookups of other phases did since.                 *)
THEOREM CapturesFoundAsWritten == Spec => []CapturesAsWritten
<1>1. ASSUME IInv PROVE CapturesAsWritten
  <2>0. Typed /\ MatchesOf(conf, selected, seen, matches) BY <1>1 DEF IInv
  <2> SUFFICES ASSUME NEW p \in Phases, NEW r \in selected[p]
               PROVE  /\ MCapturesLen(r) = Len(PathConds(r))
                      /\ \A k \in DOMAIN PathConds(r) : MCaptures(r, k) = WrittenCaptures(PathConds(r)[k], seen[p])
    BY DEF CapturesAsWritten
  <2>1. IsRule(conf[r]) /\ conf[r].phase = p BY <2>0, ConfigFacts DEF Typed
  <2>2. PICK F : F = Capturing(Filters(conf[r])) OBVIOUS
  <2>3. PICK P : P = PathCondsIn(conf[r]) OBVIOUS
  <2>4. CaptureFilters(r) = F /\ PathConds(r) = P
    BY <2>2, <2>3, Zenon DEF CaptureFilters, PathConds, PathCondsIn
  <2>5. /\ Len(F) = Len(P) /\ DOMAIN F = DOMAIN P
        /\ \A k \in DOMAIN P : F[k] = CaptureOf(P[k], p) /\ F[k] \in Range(Filters(conf[r])) /\ IsPathCond(P[k])
    BY <2>1, <2>2, <2>3, CapturesLineUp
  <2>6. ASSUME NEW k \in DOMAIN P PROVE MCaptures(r, k) = WrittenCaptures(P[k], seen[p])
    <3>1. Matched(F[k], seen[p], matches) BY <2>0, <2>5, <2>6 DEF MatchesOf
    <3>2. F[k] \in DOMAIN matches /\ matches[F[k]].captures = WrittenCaptures(P[k], seen[p])
      BY <2>5, <2>6, <3>1, CaptureIsWritten
    <3>3. MCaptures(r, k) = matches[F[k]].captures BY <2>4, <2>5, <2>6, <3>2 DEF MCaptures
    <3>4. QED BY <3>2, <3>3
  <2>7. QED BY <2>4, <2>5, <2>6 DEF MCapturesLen
<1>2. QED BY <1>1, SpecInv, PTL

(* As long as nobody changed the URI or the arguments, the caches that     *)
(* scripts and lookups share hold what the request says, raw and decoded   *)
(* values are of the same names and as many, and no name is without.       *)
THEOREM CachesOfTheRequest == Spec => []CachesAgree
<1>1. ASSUME IInv PROVE TokensAgree
  <2>1. CachesHold BY <1>1 DEF IInv
  <2>2. QED BY <2>1 DEF CachesHold, TokensAgree, PathTokens
<1>2. ASSUME IInv, argsKept
      PROVE  /\ ArgVals = Parse(req, FALSE) /\ RawVals = Parse(req, TRUE)
             /\ \A n \in Keys : /\ MGet(n) # NotCached /\ RawMGet(n) # NotCached
                                /\ Len(MGet(n)) = Len(RawMGet(n))
                                /\ (Get(n) = NoVal <=> RawGet(n) = NoVal)
  <2>1. CachesHold /\ IsRequest(req) /\ NotNull(req) BY <1>2 DEF IInv, Typed
  <2>2. PICK t \in BOOLEAN, u \in BOOLEAN : t = FALSE /\ u = TRUE OBVIOUS
  <2>3. PICK x, y : x = Parse(req, t) /\ y = Parse(req, u) OBVIOUS
  <2>4. x = Parse(req, FALSE) /\ y = Parse(req, TRUE) BY <2>2, <2>3, Zenon
  <2>5. argVals \in {NotCached, x} /\ rawVals \in {NotCached, y} BY <1>2, <2>1, <2>4, Zenon DEF CachesHold
  <2>6. ArgVals = x /\ RawVals = y
    <3>1. ArgVals = IF argVals = NotCached THEN x ELSE argVals BY <2>4, Zenon DEF ArgVals
    <3>2. RawVals = IF rawVals = NotCached THEN y ELSE rawVals BY <2>4, Zenon DEF RawVals
    <3>3. QED BY <2>5, <3>1, <3>2
  <2>7. ASSUME NEW n \in Keys
        PROVE  /\ MGet(n) # NotCached /\ RawMGet(n) # NotCached
               /\ Len(MGet(n)) = Len(RawMGet(n))
               /\ (Get(n) = NoVal <=> RawGet(n) = NoVal)
    <3>1. IsArgs(req.args) BY <2>1 DEF IsRequest
    <3>2. n \in DOMAIN x /\ n \in DOMAIN y
      <4>1. n \in DOMAIN x <=> n \in DOMAIN y BY <2>3, <3>1, ParseDomain
      <4>2. n \in DOMAIN x \/ n \in DOMAIN y BY <2>6 DEF Keys, AnyVals
      <4>3. QED BY <4>1, <4>2
    <3>3. /\ Len(x[n]) = Len(y[n])
          /\ (x[n][1] = NoVal <=> y[n][1] = NoVal)
      BY <2>3, <3>1, <3>2, ParsePaired
    <3>4. x[n] # NotCached /\ y[n] # NotCached
      <4>1. NotCached \notin Range(x) /\ NotCached \notin Range(y) BY <2>1, <2>3 DEF NotNull
      <4>2. x[n] \in Range(x) /\ y[n] \in Range(y) BY <3>2 DEF Range
      <4>3. QED BY <4>1, <4>2
    <3>5. MGet(n) = x[n] /\ RawMGet(n) = y[n] /\ Get(n) = x[n][1] /\ RawGet(n) = y[n][1]
      BY <2>6, <3>2 DEF MGet, RawMGet, Get, RawGet
    <3>6. QED BY <3>3, <3>4, <3>5
  <2>8. QED BY <2>4, <2>6, <2>7
<1>3. ASSUME IInv PROVE ArgsAgree
  BY <1>2, <1>3, Zenon DEF ArgsAgree
<1>4. IInv => CachesAgree BY <1>1, <1>3 DEF CachesAgree
<1>5. QED BY <1>4, SpecInv, PTL

=============================================================================
