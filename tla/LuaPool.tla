------------------------------- MODULE LuaPool -------------------------------
(***************************************************************************)
(* What LuaManager promises to its users: a pool of exclusively owned Lua  *)
(* slots.  A LuaRef owns one slot from its construction to its             *)
(* destruction, no two LuaRefs ever own the same slot, a slot given back   *)
(* can be taken again, and a new slot is made only when every slot made so *)
(* far is owned, so the pool never outgrows the peak number of LuaRefs.    *)
(***************************************************************************)
CONSTANTS
  Refs,     \* the LuaRef objects
  Slots,    \* the LuaSlot objects that can ever be made
  NoSlot    \* a null LuaSlot pointer

VARIABLES
  made,     \* the slots made so far
  owned     \* the slot each LuaRef owns, or NoSlot

poolVars == <<made, owned>>

Unowned == {s \in made : \A r \in Refs : owned[r] # s}

Init ==
  /\ made = {}
  /\ owned = [r \in Refs |-> NoSlot]

Take(r) ==
  /\ owned[r] = NoSlot
  /\ \E s \in Unowned : owned' = [owned EXCEPT ![r] = s]
  /\ UNCHANGED made

Make(r) ==
  /\ owned[r] = NoSlot
  /\ Unowned = {}
  /\ \E s \in Slots \ made :
        /\ made' = made \cup {s}
        /\ owned' = [owned EXCEPT ![r] = s]

Give(r) ==
  /\ owned[r] # NoSlot
  /\ owned' = [owned EXCEPT ![r] = NoSlot]
  /\ UNCHANGED made

Next == \E r \in Refs : Take(r) \/ Make(r) \/ Give(r)

Spec == Init /\ [][Next]_poolVars

=============================================================================
