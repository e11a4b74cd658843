------------------------------- MODULE MCHooks --------------------------------
(***************************************************************************)
(* Instances of Hooks.tla: a main and a virtual server.                    *)
(***************************************************************************)
EXTENDS Hooks

mcMaxLookups == {-1}
mcInitStates == {-1}
mcFollowing == [HeaderParser |-> "Fixups", Fixups |-> "InsertFilter"]

=============================================================================
