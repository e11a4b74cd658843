---------------------------- MODULE MCConfigBuild ----------------------------
(***************************************************************************)
(* An instance of ConfigBuild: one module without tables, as Core and      *)
(* Request, and one with tables, as Path and QueryArg.                     *)
(***************************************************************************)
EXTENDS ConfigBuild, TLC

CONSTANTS core, path, name, regex, pattern, star, slashed

MCChildren ==
  core :> {[kind |-> "filter", cond |-> name, slash |-> NoCond]} @@
  path :> {[kind |-> "filter", cond |-> regex, slash |-> NoCond],
           [kind |-> "table", cond |-> pattern, slash |-> slashed],
           [kind |-> "all", cond |-> star, slash |-> NoCond]}

=============================================================================
