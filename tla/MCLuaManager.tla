--------------------------- MODULE MCLuaManager ------------------------------
(* An instance of LuaManager for TLC: model values in LuaManager.cfg. *)
EXTENDS LuaManager, TLC

=============================================================================
