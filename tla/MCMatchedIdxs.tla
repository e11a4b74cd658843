---------------------------- MODULE MCMatchedIdxs -----------------------------
(***************************************************************************)
(* Instances of MatchedIdxs with three rules: tables without duplicates,   *)
(* and tables in which a rule may come twice.                              *)
(***************************************************************************)
EXTENDS MatchedIdxs

MCAllIdxs == <<0, 2, 3>>

UpTo(n) == UNION {[1 .. k -> Elems(MCAllIdxs)] : k \in 0 .. n}

MCSets  == {v \in UpTo(3) : Strict(v)}
MCTwice == {v \in UpTo(3) : Ascending(v)}

=============================================================================
