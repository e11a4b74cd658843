--------------------------- MODULE MCTokenMatcher ----------------------------
(***************************************************************************)
(* Instances of TokenMatcher: all patterns of up to three token sets, the  *)
(* empty one, and some with a ** on both sides, against all paths of up to *)
(* three tokens.                                                           *)
(***************************************************************************)
EXTENDS TokenMatcher

MCTokenSets == {{"a"}, {"a", "b"}, Star, StarStar}

UpTo(S, n) == UNION {[1 .. k -> S] : k \in 0 .. n}

MCLongPatterns ==
  {<<StarStar, {"a"}, StarStar, {"a", "b"}, StarStar>>,
   <<StarStar, {"a"}, {"b"}, StarStar>>}

MCPatterns == UpTo(MCTokenSets, 3) \cup MCLongPatterns

MCTokens == UpTo(Words, 3)
MCPaths == {q \in [toks : MCTokens, trail : BOOLEAN] : q.toks = <<>> => q.trail}

MCTwoPatterns ==
  {<<StarStar, {"a"}, StarStar>>, <<StarStar, {"a"}, StarStar, {"b"}>>,
   <<StarStar, {"b"}>>, <<{"a"}, StarStar>>, <<{"a"}, Star, {"a", "b"}>>}

=============================================================================
