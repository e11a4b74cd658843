---------------------------- MODULE TokenMatcher -----------------------------
(***************************************************************************)
(* TokenMatcher.C/H and its TokenRulesMap: how the path condition module   *)
(* narrows the rules of a phase to those whose <Pattern>s may match a path.*)
(*                                                                         *)
(* A pattern is a sequence of token sets: a set of words, * (one token) or *)
(* ** (any number of them).  Loading stores the words in one table, keyed  *)
(* by word and position: the first NumLeft tokens counted from the left,   *)
(* the last NumRight from the right, and "any" for what lies between or is *)
(* cut off from an end by **.  A lookup collects the rules that the tokens *)
(* of a path hit, and keeps those that were hit in all their positions,    *)
(* often enough, by a path with a fitting number of tokens.                *)
(*                                                                         *)
(* The rules kept are then filtered by the regular expressions of their    *)
(* patterns.  A rule that the narrowing loses is never filtered.           *)
(***************************************************************************)
EXTENDS Integers, Sequences, FiniteSets

CONSTANTS
  NumLeft,      \* numLeftMaps_
  NumRight,     \* numRightMaps_
  MaxToks,      \* MaxToks: 9999
  InitAlloc,    \* initAlloc of a SmplVec: 18
  NumRules,     \* bound on the rules of the phase
  MaxPatterns,  \* bound on the <Pattern> elements of one rule
  Words,        \* the tokens of paths
  Patterns,     \* the patterns a rule may have
  Paths         \* the paths to look up

Star       == {"*"}
StarStar   == {"**"}
TokenSets  == {Star, StarStar} \cup ((SUBSET Words) \ {{}})
Rules      == 0 .. NumRules - 1

(* TokenRulesMap's posKeyLeft(), posKeyRight() and posKeyAny(); the bits of *)
(* reqMatchBitSets_ stand for the same positions.                           *)
LeftPos(i)  == i
RightPos(i) == -1 - i
AnyPos      == 9999
Positions   == {LeftPos(i) : i \in 0 .. NumLeft - 1}
                 \cup {RightPos(i) : i \in 0 .. NumRight - 1} \cup {AnyPos}

ASSUME MapsAssumption == NumLeft \in 0 .. AnyPos /\ NumRight \in Nat
ASSUME BoundsAssumption == NumRules \in Nat /\ MaxPatterns \in Nat /\ MaxToks \in Nat
ASSUME InitAllocAssumption == InitAlloc \in Nat \ {0}
ASSUME WordsAssumption == Words \cap (Star \cup StarStar) = {}
ASSUME PatternsAssumption == Patterns \subseteq Seq(TokenSets)

(* A path is its tokens and whether it ends in a slash; "/" has no token.   *)
(* Its slashes are single ones, and its tokens no more than MaxToks.        *)
ASSUME PathsAssumption ==
  \A q \in Paths : /\ q.toks \in Seq(Words)
                   /\ q.trail \in BOOLEAN
                   /\ q.toks = <<>> => q.trail
                   /\ Len(q.toks) <= MaxToks

VARIABLES
  loading,      \* procXMLFiles() has not finished
  rule,         \* the index of the rule being loaded
  patterns,     \* the patterns each rule is filtered by
  npat,         \* the <Pattern> elements of the rule seen so far
  tokenRules,   \* tokenRulesMap_: <<<<position, token>>, rule>>
  reqBits,      \* reqMatchBitSets_, as sets of positions
  reqAnyCt,     \* reqMatchAnyCt_
  minToks,      \* minToks_
  maxToks,      \* maxToks_
  nalloc,       \* the elements allocated for each of these four vectors
  mapPosUsage,  \* mapPosUsage_, as a set of positions
  matchAllRules \* the path module's matchAllRuleIdxsVec_ of the phase

reqVars  == <<reqBits, reqAnyCt, minToks, maxToks, nalloc>>
ruleVars == <<rule, patterns, npat>>
vars == <<loading, ruleVars, tokenRules, reqVars, mapPosUsage, matchAllRules>>

Loaded == 0 .. rule - 1

-----------------------------------------------------------------------------
(* The three loops of procPattern() over the token sets 1 .. Len(p).  The   *)
(* first takes sets from the left, and the second from the right, until the *)
(* maps for that side are used up or a ** has been taken.                   *)
SmallestOf(S) == CHOOSE x \in S : \A y \in S : x <= y
LargestOf(S)  == CHOOSE x \in S : \A y \in S : y <= x

LeftEnd(p) ==
  SmallestOf({k \in 0 .. Len(p) : \/ k = NumLeft
                                  \/ k = Len(p)
                                  \/ k > 0 /\ p[k] = StarStar})
RightEnd(p) ==
  LargestOf({k \in LeftEnd(p) .. Len(p) : \/ k = LeftEnd(p)
                                          \/ k = Len(p) - NumRight
                                          \/ k < Len(p) /\ p[k + 1] = StarStar})

(* The position under which the words of token set i are stored. *)
Position(p, i) ==
  IF i <= LeftEnd(p) THEN LeftPos(i - 1)
  ELSE IF i > RightEnd(p) THEN RightPos(Len(p) - i)
  ELSE AnyPos

WordSets(p)  == {i \in DOMAIN p : p[i] \notin {Star, StarStar}}
AnySets(p)   == {i \in WordSets(p) : Position(p, i) = AnyPos}
StarStars(p) == {i \in DOMAIN p : p[i] = StarStar}
Stored(p)    == UNION {{Position(p, i)} \X p[i] : i \in WordSets(p)}

(* Bug: each word of a set between the ends counts, not each set. *)
ReqAnyPerWord(p) == Cardinality(UNION {{i} \X p[i] : i \in AnySets(p)})

ReqAny(p) == Cardinality(AnySets(p))

(* Bug: a ** still needs a token. *)
MinToksAll(p) == Len(p)

(* Bug: a ** takes away the token set beside it as well. *)
MinToksTwice(p) == Len(p) - 2 * Cardinality(StarStars(p))

MinToks(p) == Len(p) - Cardinality(StarStars(p))
MaxToksOf(p) == IF StarStars(p) # {} THEN MaxToks ELSE Len(p)

-----------------------------------------------------------------------------
Init ==
  /\ loading = TRUE
  /\ rule = 0
  /\ patterns = [r \in Rules |-> {}]
  /\ npat = 0
  /\ tokenRules = {}
  /\ reqBits = [r \in Rules |-> {}]
  /\ reqAnyCt = [r \in Rules |-> 0]
  /\ minToks = [r \in Rules |-> 0]
  /\ maxToks = [r \in Rules |-> 0]
  /\ nalloc = InitAlloc
  /\ mapPosUsage = {}
  /\ matchAllRules = {}

(* SmplVec::grow_to(): the allocation is doubled if it is too small.  The   *)
(* code works out that twice may be too small as well, and then allocates   *)
(* twice anyway.                                                            *)
GrowTo(n) == nalloc' = IF nalloc < n THEN 2 * nalloc ELSE nalloc

(* A <Pattern> of the rule: procPattern(), and what parseXMLCond() does     *)
(* with its results.  A word that the rule has already stored for "any" is  *)
(* not stored again, but its set is counted again; the numbers of tokens    *)
(* are those of the rule's last pattern.                                    *)
ProcPattern(p) ==
  /\ loading
  /\ rule < NumRules
  /\ npat < MaxPatterns
  /\ npat' = npat + 1
  /\ GrowTo(rule + 1)
  /\ patterns' = [patterns EXCEPT ![rule] = @ \cup {p}]
  /\ tokenRules' = tokenRules \cup (Stored(p) \X {rule})
  /\ reqBits' = [reqBits EXCEPT ![rule] = @ \cup {Position(p, i) : i \in WordSets(p)}]
  /\ reqAnyCt' = [reqAnyCt EXCEPT ![rule] = @ + ReqAny(p)]
  /\ minToks' = [minToks EXCEPT ![rule] = MinToks(p)]
  /\ maxToks' = [maxToks EXCEPT ![rule] = MaxToksOf(p)]
  /\ matchAllRules' = IF reqBits'[rule] = {} THEN matchAllRules \cup {rule} ELSE matchAllRules
  /\ UNCHANGED <<loading, rule, mapPosUsage>>

(* The rule is complete; without a <Pattern> it needs no narrowing. *)
EndRule ==
  /\ loading
  /\ rule < NumRules
  /\ rule' = rule + 1
  /\ npat' = 0
  /\ matchAllRules' = IF npat = 0 THEN matchAllRules \cup {rule} ELSE matchAllRules
  /\ UNCHANGED <<loading, patterns, tokenRules, reqVars, mapPosUsage>>

(* postProc(), when all rules are loaded. *)
PostProc ==
  /\ loading
  /\ npat = 0
  /\ loading' = FALSE
  /\ mapPosUsage' = UNION {reqBits[r] : r \in Rules}
  /\ UNCHANGED <<ruleVars, tokenRules, reqVars, matchAllRules>>

Next == (\E p \in Patterns : ProcPattern(p)) \/ EndRule \/ PostProc

Spec == Init /\ [][Next]_vars

-----------------------------------------------------------------------------
(* TokenMatcher::lookup() for a path with tokens toks. *)

(* Which position each token is looked up under. *)
Scanned(toks) ==
  {x \in mapPosUsage \X DOMAIN toks :
     \/ x[1] = LeftPos(x[2] - 1) /\ x[2] <= NumLeft
     \/ x[1] = RightPos(Len(toks) - x[2]) /\ x[2] > Len(toks) - NumRight
     \/ x[1] = AnyPos}

Hits(toks, r) == {x \in Scanned(toks) : <<<<x[1], toks[x[2]]>>, r>> \in tokenRules}

LookupMapUsage(toks, r) == {x[1] : x \in Hits(toks, r)}
LookupAnyCt(toks, r) == Cardinality({x \in Hits(toks, r) : x[1] = AnyPos})

(* Bug: the path may have more tokens than the pattern. *)
FitsMinOnly(toks, r) == minToks[r] <= Len(toks)

Fits(toks, r) == minToks[r] <= Len(toks) /\ Len(toks) <= maxToks[r]

Lookup(toks) ==
  {r \in Loaded : /\ Hits(toks, r) # {}
                  /\ reqBits[r] \subseteq LookupMapUsage(toks, r)
                  /\ reqAnyCt[r] <= LookupAnyCt(toks, r)
                  /\ Fits(toks, r)}

(* CondModule::lookup() *)
Narrowed(q) == IF Loaded \subseteq matchAllRules THEN Loaded
               ELSE Lookup(q.toks) \cup matchAllRules

-----------------------------------------------------------------------------
(* The filter condition made of a pattern: mkRegExStr(), between ^/+ and   *)
(* /*$.  f[i] is the number of tokens matched by the first i token sets.   *)
Matching(p, toks, f) ==
  /\ f[0] = 0
  /\ f[Len(p)] = Len(toks)
  /\ \A i \in DOMAIN p :
       IF p[i] = StarStar
       THEN f[i] >= f[i - 1]
       ELSE f[i] = f[i - 1] + 1 /\ (p[i] = Star \/ toks[f[i]] \in p[i])

(* A last ** starts with a slash.  It finds none when it follows another ** *)
(* or the prefix, which have taken it: then it matches no token.            *)
BareStarStar(p) ==
  p # <<>> /\ p[Len(p)] = StarStar /\ (Len(p) > 1 => p[Len(p) - 1] = StarStar)

RegExMatch(p, q) ==
  \E f \in [0 .. Len(p) -> 0 .. Len(q.toks)] :
    /\ Matching(p, q.toks, f)
    /\ BareStarStar(p) => f[Len(p)] = f[Len(p) - 1] /\ q.trail

-----------------------------------------------------------------------------
TypeOK ==
  /\ loading \in BOOLEAN
  /\ rule \in 0 .. NumRules
  /\ patterns \in [Rules -> SUBSET Patterns]
  /\ npat \in 0 .. MaxPatterns
  /\ tokenRules \subseteq (Positions \X Words) \X Rules
  /\ reqBits \in [Rules -> SUBSET Positions]
  /\ reqAnyCt \in [Rules -> Nat]
  /\ minToks \in [Rules -> Nat]
  /\ maxToks \in [Rules -> Nat]
  /\ nalloc \in Nat
  /\ mapPosUsage \subseteq Positions
  /\ matchAllRules \subseteq Rules

(* No rule is lost: a rule all of whose patterns match the path is among    *)
(* those that are filtered.  (TokenMatcher::procPattern and lookup)         *)
NarrowingSound ==
  ~loading =>
    \A q \in Paths : \A r \in Loaded :
      (\A p \in patterns[r] : RegExMatch(p, q)) => r \in Narrowed(q)

(* The vectors of requirements have an element allocated for every rule     *)
(* that stores one: growing an array reaches the size it was asked for.     *)
(* (SmplVec::grow_to, used by TokenMatcher::procPattern)                    *)
ReqVecsInBounds == \A r \in Rules : patterns[r] # {} => r < nalloc

(* The pattern has its words in places that can be counted from an end. *)
Anchored(p) == AnySets(p) = {} /\ Cardinality(StarStars(p)) <= 1

(* The narrowing alone is exact for such patterns, up to those it does not  *)
(* narrow at all: a rule with one of them is found only by paths that match *)
(* it, so no token is taken for one in another place, and ** stands for no  *)
(* fewer than no tokens.  (TokenMatcher::lookup)                            *)
NarrowingExact ==
  ~loading =>
    \A q \in Paths : \A r \in Lookup(q.toks) : \A p \in patterns[r] :
      patterns[r] = {p} /\ Anchored(p) =>
        \E f \in [0 .. Len(p) -> 0 .. Len(q.toks)] : Matching(p, q.toks, f)

=============================================================================
