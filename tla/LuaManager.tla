----------------------------- MODULE LuaManager ------------------------------
(***************************************************************************)
(* LuaManager.C/H: the pool of Lua states shared by every worker thread.   *)
(*                                                                         *)
(* Each request context owns at most one LuaRef.  Its constructor calls    *)
(* LuaManager::acquire(), its destructor LuaManager::release().  A LuaRef  *)
(* is modelled as a process that goes through the statements of these two  *)
(* functions, and Requests(r) lets a later request reuse its name.         *)
(* Statements under a lock are separate steps, so that what the locks      *)
(* protect is checked and not assumed.                                     *)
(*                                                                         *)
(* The free list is the vector luaSlotFreeVec_ (a PtrVec, grown by its     *)
(* grow_to) with its own element count luaSlotNumFree_.  The definitions   *)
(* are abstracted to a number: the n-th call of updateDefinitions()        *)
(* installs definitions n.                                                 *)
(***************************************************************************)
EXTENDS Integers, FiniteSets

CONSTANTS
  Refs,         \* the LuaRef objects, one per request context that needs Lua
  Slots,        \* identities for LuaSlot objects
  NoRef,        \* "no owner" of a mutex
  NoSlot,       \* a null LuaSlot pointer
  InitAlloc,    \* elements luaSlotFreeVec_ is allocated for (18 in the code)
  MaxDefnVer    \* bound on the calls of updateDefinitions()

ASSUME NoRefAssumption == NoRef \notin Refs
ASSUME NoSlotAssumption == NoSlot \notin Slots
ASSUME FiniteAssumption == IsFiniteSet(Refs) /\ IsFiniteSet(Slots)
ASSUME InitAllocAssumption == InitAlloc \in Nat \ {0}
ASSUME MaxDefnVerAssumption == MaxDefnVer \in Nat \ {0}

VARIABLES
  pc,           \* the next statement of each LuaRef
  slot,         \* luaSlot (acquire) and luaSlot_ (LuaRef)
  idx,          \* the local idx of acquire() and release()
  slotMutex,    \* owner of luaSlotFreeVecMutex_
  poolMutex,    \* owner of poolMutex_
  freeVec,      \* the allocated elements of luaSlotFreeVec_
  nalloc,       \* luaSlotFreeVec_.allocSize()
  nelts,        \* luaSlotFreeVec_.size()
  numFree,      \* luaSlotNumFree_
  made,         \* the LuaSlot objects created so far
  lua,          \* L_ and defnVer_ of each slot, and what L_ was loaded with
  readers,      \* LuaRefs that hold defnsLock_ for reading
  upc,          \* the next statement of updateDefinitions()
  defns,        \* the definitions in defnScripts_ and defnScriptFiles_
  defnVer       \* defnVer_

mutexVars == <<slotMutex, poolMutex>>
vecVars   == <<freeVec, nalloc, nelts, numFree>>
slotVars  == <<made, lua>>
defnVars  == <<upc, defns, defnVer>>
vars == <<pc, slot, idx, mutexVars, vecVars, slotVars, readers, defnVars>>

SlotOrNone == Slots \cup {NoSlot}

(* Where a LuaRef can be: outside, in acquire(), in use, in release(). *)
Acquiring == {"acquire", "choose", "take", "new", "made", "chosen", "rdlock",
              "check", "store", "rdunlock"}
Releasing == {"release", "grow", "put", "unlock"}
Labels == {"idle", "held"} \cup Acquiring \cup Releasing

(* The LuaRef holds the free-list mutex at these statements. *)
InFreeList == {"choose", "take", "new", "made", "chosen", "grow", "put", "unlock"}

(* The LuaRef owns its slot at these statements. *)
Owning == {"made", "chosen", "rdlock", "check", "store", "rdunlock", "held",
           "release", "grow", "put"}

Writing == upc # "idle"
FreeIdxs == 0 .. numFree - 1
FreeSlots == {freeVec[i] : i \in FreeIdxs}
OwnedSlots == {slot[r] : r \in {q \in Refs : slot[q] # NoSlot}}

Goto(r, from, to) ==
  /\ pc[r] = from
  /\ pc' = [pc EXCEPT ![r] = to]

(* A Lua state no definitions were loaded into; ver 0 makes a slot invalid. *)
NoState    == [open |-> FALSE, ver |-> 0, defns |-> 0]
Valid(s)   == lua[s].ver # 0
Current(s) == lua[s].open /\ lua[s].ver = defnVer

-----------------------------------------------------------------------------
(* The module is used once Config::procXMLFiles() has installed the first   *)
(* definitions, before any LuaRef exists.                                   *)
Init ==
  /\ pc = [r \in Refs |-> "idle"]
  /\ slot = [r \in Refs |-> NoSlot]
  /\ idx = [r \in Refs |-> 0]
  /\ slotMutex = NoRef
  /\ poolMutex = NoRef
  /\ freeVec = [i \in 0 .. InitAlloc - 1 |-> NoSlot]
  /\ nalloc = InitAlloc
  /\ nelts = 0
  /\ numFree = 0
  /\ made = {}
  /\ lua = [s \in Slots |-> NoState]
  /\ readers = {}
  /\ upc = "idle"
  /\ defns = 1
  /\ defnVer = 1

-----------------------------------------------------------------------------
(* LuaManager::acquire() *)

(* ReqCtx::luaState() constructs the LuaRef of a request. *)
Request(r) ==
  /\ Goto(r, "idle", "acquire")
  /\ UNCHANGED <<slot, idx, mutexVars, vecVars, slotVars, readers, defnVars>>

(* Bug: acquire() without luaSlotFreeVecMutex_. *)
EnterFreeListUnlocked(r) ==
  /\ slotMutex' = r
  /\ Goto(r, "acquire", "choose")
  /\ UNCHANGED <<slot, idx, poolMutex, vecVars, slotVars, readers, defnVars>>

LockFreeList(r) ==
  /\ slotMutex = NoRef
  /\ slotMutex' = r
  /\ Goto(r, "acquire", "choose")
  /\ UNCHANGED <<slot, idx, poolMutex, vecVars, slotVars, readers, defnVars>>

(* Bug: a free slot is taken without asking whether there is one. *)
TakeIdxUnchecked(r) ==
  /\ Goto(r, "choose", "take")
  /\ numFree' = numFree - 1
  /\ idx' = [idx EXCEPT ![r] = numFree - 1]
  /\ UNCHANGED <<slot, mutexVars, freeVec, nalloc, nelts, slotVars, readers, defnVars>>

TakeIdx(r) ==
  /\ numFree # 0
  /\ Goto(r, "choose", "take")
  /\ numFree' = numFree - 1
  /\ idx' = [idx EXCEPT ![r] = numFree - 1]
  /\ UNCHANGED <<slot, mutexVars, freeVec, nalloc, nelts, slotVars, readers, defnVars>>

(* Bug: the bottom of the stack is read, its top is cleared. *)
TakeFirstSlot(r) ==
  /\ Goto(r, "take", "chosen")
  /\ slot' = [slot EXCEPT ![r] = freeVec[0]]
  /\ freeVec' = [freeVec EXCEPT ![idx[r]] = NoSlot]
  /\ UNCHANGED <<idx, mutexVars, nalloc, nelts, numFree, slotVars, readers, defnVars>>

TakeSlot(r) ==
  /\ Goto(r, "take", "chosen")
  /\ slot' = [slot EXCEPT ![r] = freeVec[idx[r]]]
  /\ freeVec' = [freeVec EXCEPT ![idx[r]] = NoSlot]
  /\ UNCHANGED <<idx, mutexVars, nalloc, nelts, numFree, slotVars, readers, defnVars>>

(* Bug: a slot is made whether or not one is free. *)
LockPoolUnchecked(r) ==
  /\ poolMutex = NoRef
  /\ Goto(r, "choose", "new")
  /\ poolMutex' = r
  /\ UNCHANGED <<slot, idx, slotMutex, vecVars, slotVars, readers, defnVars>>

LockPool(r) ==
  /\ numFree = 0
  /\ poolMutex = NoRef
  /\ Goto(r, "choose", "new")
  /\ poolMutex' = r
  /\ UNCHANGED <<slot, idx, slotMutex, vecVars, slotVars, readers, defnVars>>

NewSlot(r) ==
  /\ Goto(r, "new", "made")
  /\ \E s \in Slots \ made :
       /\ made' = made \cup {s}
       /\ slot' = [slot EXCEPT ![r] = s]
       /\ lua' = [lua EXCEPT ![s] = NoState]
  /\ UNCHANGED <<idx, mutexVars, vecVars, readers, defnVars>>

UnlockPool(r) ==
  /\ Goto(r, "made", "chosen")
  /\ poolMutex' = NoRef
  /\ UNCHANGED <<slot, idx, slotMutex, vecVars, slotVars, readers, defnVars>>

UnlockFreeList(r) ==
  /\ \/ Goto(r, "chosen", "rdlock")
     \/ Goto(r, "unlock", "idle")
  /\ slotMutex' = NoRef
  /\ UNCHANGED <<slot, idx, poolMutex, vecVars, slotVars, readers, defnVars>>

(* Bug: the definitions are read without defnsLock_. *)
ReadUnlocked(r) ==
  /\ Goto(r, "rdlock", "check")
  /\ readers' = readers \cup {r}
  /\ UNCHANGED <<slot, idx, mutexVars, vecVars, slotVars, defnVars>>

ReadLock(r) ==
  /\ ~Writing
  /\ Goto(r, "rdlock", "check")
  /\ readers' = readers \cup {r}
  /\ UNCHANGED <<slot, idx, mutexVars, vecVars, slotVars, defnVars>>

(* The slot's state was loaded with the definitions in force: keep it. *)
KeepState(r) ==
  /\ Goto(r, "check", "rdunlock")
  /\ Current(slot[r])
  /\ UNCHANGED <<slot, idx, mutexVars, vecVars, slotVars, readers, defnVars>>

(* Otherwise close it, make a new one and load the definitions into it ... *)
LoadState(r) ==
  /\ Goto(r, "check", "store")
  /\ ~Current(slot[r])
  /\ lua' = [lua EXCEPT ![slot[r]] = [open |-> TRUE, ver |-> lua[slot[r]].ver,
                                      defns |-> defns]]
  /\ UNCHANGED <<slot, idx, mutexVars, vecVars, made, readers, defnVars>>

(* ... and record the version, when they loaded. *)
StoreState(r) ==
  /\ Goto(r, "store", "rdunlock")
  /\ lua' = [lua EXCEPT ![slot[r]].ver = defnVer]
  /\ UNCHANGED <<slot, idx, mutexVars, vecVars, made, readers, defnVars>>

(* Bug: a state whose load failed is loaded again, and again. *)
LoadFailsRetry(r) ==
  /\ Goto(r, "check", "rdlock")
  /\ ~Current(slot[r])
  /\ readers' = readers \ {r}
  /\ lua' = [lua EXCEPT ![slot[r]] = [open |-> TRUE, ver |-> 0, defns |-> 0]]
  /\ UNCHANGED <<slot, idx, mutexVars, vecVars, made, defnVars>>

(* A script that does not compile, fails, or whose file cannot be read     *)
(* leaves a state without its definitions, and version 0 in the slot.      *)
LoadFails(r) ==
  /\ Goto(r, "check", "rdunlock")
  /\ ~Current(slot[r])
  /\ lua' = [lua EXCEPT ![slot[r]] = [open |-> TRUE, ver |-> 0, defns |-> 0]]
  /\ UNCHANGED <<slot, idx, mutexVars, vecVars, made, readers, defnVars>>

ReadUnlock(r) ==
  /\ Goto(r, "rdunlock", "held")
  /\ readers' = readers \ {r}
  /\ UNCHANGED <<slot, idx, mutexVars, vecVars, slotVars, defnVars>>

-----------------------------------------------------------------------------
(* LuaManager::release() *)

(* The request's pool is destroyed, and with it the ReqCtx and its LuaRef. *)
EndRequest(r) ==
  /\ Goto(r, "held", "release")
  /\ UNCHANGED <<slot, idx, mutexVars, vecVars, slotVars, readers, defnVars>>

(* Bug: release() without luaSlotFreeVecMutex_. *)
LockForReleaseUnlocked(r) ==
  /\ slotMutex' = r
  /\ Goto(r, "release", "grow")
  /\ UNCHANGED <<slot, idx, poolMutex, vecVars, slotVars, readers, defnVars>>

LockForRelease(r) ==
  /\ slotMutex = NoRef
  /\ slotMutex' = r
  /\ Goto(r, "release", "grow")
  /\ UNCHANGED <<slot, idx, poolMutex, vecVars, slotVars, readers, defnVars>>

(* PtrVec::grow_to(n): the new array has twice the elements of the old one *)
(* (grow_to computes max(n, 2 * as) and then does not use it), is zeroed,  *)
(* and gets the first size() elements.  The size becomes n in any case.    *)
GrowTo(n) ==
  /\ nelts' = n
  /\ IF nalloc < n
     THEN /\ nalloc' = 2 * nalloc
          /\ freeVec' = [i \in 0 .. 2 * nalloc - 1 |->
                            IF i < nelts THEN freeVec[i] ELSE NoSlot]
     ELSE UNCHANGED <<nalloc, freeVec>>

GrowFreeVec(r) ==
  /\ Goto(r, "grow", "put")
  /\ idx' = [idx EXCEPT ![r] = numFree]
  /\ numFree' = numFree + 1
  /\ GrowTo(numFree + 1)
  /\ UNCHANGED <<slot, mutexVars, slotVars, readers, defnVars>>

(* The LuaRef is gone after this statement: its slot is free. *)
PutSlot(r) ==
  /\ Goto(r, "put", "unlock")
  /\ freeVec' = [freeVec EXCEPT ![idx[r]] = slot[r]]
  /\ slot' = [slot EXCEPT ![r] = NoSlot]
  /\ UNCHANGED <<idx, mutexVars, nalloc, nelts, numFree, slotVars, readers, defnVars>>

-----------------------------------------------------------------------------
(* LuaManager::updateDefinitions(): the write lock, the scripts, then the  *)
(* version.  The server calls it at start-up only; MaxDefnVer > 1 checks   *)
(* the class for the run-time updates its lock and version are made for.   *)
WriteLock ==
  /\ upc = "idle"
  /\ readers = {}
  /\ defnVer < MaxDefnVer
  /\ upc' = "scripts"
  /\ UNCHANGED <<pc, slot, idx, mutexVars, vecVars, slotVars, readers, defns, defnVer>>

InstallScripts ==
  /\ upc = "scripts"
  /\ upc' = "version"
  /\ defns' = defns + 1
  /\ UNCHANGED <<pc, slot, idx, mutexVars, vecVars, slotVars, readers, defnVer>>

BumpVersion ==
  /\ upc = "version"
  /\ upc' = "wrunlock"
  /\ defnVer' = defnVer + 1
  /\ UNCHANGED <<pc, slot, idx, mutexVars, vecVars, slotVars, readers, defns>>

WriteUnlock ==
  /\ upc = "wrunlock"
  /\ upc' = "idle"
  /\ UNCHANGED <<pc, slot, idx, mutexVars, vecVars, slotVars, readers, defns, defnVer>>

Update == WriteLock \/ InstallScripts \/ BumpVersion \/ WriteUnlock

-----------------------------------------------------------------------------
(* What a LuaRef does once it has the locks it needs ... *)
Run(r) ==
  \/ TakeIdx(r) \/ TakeSlot(r) \/ NewSlot(r) \/ UnlockPool(r)
  \/ UnlockFreeList(r)
  \/ KeepState(r) \/ LoadState(r) \/ StoreState(r) \/ LoadFails(r)
  \/ ReadUnlock(r)
  \/ GrowFreeVec(r) \/ PutSlot(r)

(* ... and how it gets them. *)
Lock(r) ==
  LockFreeList(r) \/ LockForRelease(r) \/ LockPool(r) \/ ReadLock(r)

Next ==
  \/ \E r \in Refs : Request(r) \/ EndRequest(r) \/ Lock(r) \/ Run(r)
  \/ Update

Spec == Init /\ [][Next]_vars

(* A thread inside acquire() or release() is scheduled, and whoever waits  *)
(* for a mutex or for the read lock gets it if it is free again and again. *)
(* Nothing is assumed of the requests: a LuaRef may be held forever.       *)
Fairness ==
  /\ \A r \in Refs : WF_vars(Run(r)) /\ SF_vars(Lock(r))
  /\ WF_vars(InstallScripts \/ BumpVersion \/ WriteUnlock)

FairSpec == Spec /\ Fairness

-----------------------------------------------------------------------------
TypeOK ==
  /\ pc \in [Refs -> Labels]
  /\ slot \in [Refs -> SlotOrNone]
  /\ idx \in [Refs -> Nat]
  /\ slotMutex \in Refs \cup {NoRef}
  /\ poolMutex \in Refs \cup {NoRef}
  /\ freeVec \in [0 .. nalloc - 1 -> SlotOrNone]
  /\ nalloc \in Nat \ {0}
  /\ nelts \in Nat
  /\ numFree \in Nat
  /\ made \subseteq Slots
  /\ lua \in [Slots -> [open : BOOLEAN, ver : Nat, defns : Nat]]
  /\ readers \subseteq Refs
  /\ upc \in {"idle", "scripts", "version", "wrunlock"}
  /\ defns \in Nat \ {0}
  /\ defnVer \in Nat \ {0}

-----------------------------------------------------------------------------
(* The properties. *)

(* No Lua state is ever shared: two LuaRefs never own the same slot, and   *)
(* a slot a LuaRef owns is not on the free list.  (acquire and release)    *)
Exclusive ==
  \A r \in Refs : slot[r] # NoSlot =>
    /\ \A q \in Refs \ {r} : slot[q] # slot[r]
    /\ slot[r] \notin FreeSlots

(* acquire() never returns the null pointer that taking a slot leaves      *)
(* behind in the vector.                                                   *)
NeverNull == \A r \in Refs : pc[r] \in Owning => slot[r] \in made

(* Whenever nobody is inside the free list, it and the LuaRefs account for *)
(* every slot ever made, and no slot is on it twice: slots do not leak.    *)
NoSlotLost ==
  slotMutex = NoRef =>
    /\ made = FreeSlots \cup OwnedSlots
    /\ \A i, j \in FreeIdxs : freeVec[i] = freeVec[j] => i = j

(* The destructor of luaSlotFreeVec_ deletes each free slot once and no     *)
(* other: beyond luaSlotNumFree_ the vector, whose own size is often        *)
(* larger, holds null pointers only.                                        *)
DestroyedOnce ==
  slotMutex = NoRef =>
    /\ FreeIdxs \subseteq 0 .. nelts - 1
    /\ \A i \in numFree .. nelts - 1 : freeVec[i] = NoSlot

(* Every element of the vector that acquire() or release() touches was     *)
(* allocated: luaSlotNumFree_ and the vector's own size do not drift apart. *)
VecInBounds ==
  /\ \A r \in Refs : pc[r] \in {"take", "put"} => idx[r] < nelts
  /\ numFree <= nelts
  /\ nelts <= nalloc

(* The pool grows to the peak number of simultaneous LuaRefs, not further: *)
(* a slot is made only when none is free.                                  *)
PoolBounded == Cardinality(made) <= Cardinality(Refs)

(* The allocations of acquire() and release() from the manager's own pool  *)
(* (a slot, a larger vector) never overlap; APR pools are not thread-safe. *)
(* release() does not take poolMutex_: luaSlotFreeVecMutex_ protects both. *)
AllocsExclusive ==
  \A r, q \in Refs : pc[r] \in {"new", "grow"} /\ pc[q] \in {"new", "grow"} => r = q

(* A valid slot's Lua state was loaded with exactly the definitions whose  *)
(* version the slot records, unless its owner is just reloading it.        *)
VersionTruthful ==
  \A s \in made :
    Valid(s) /\ (\A r \in Refs : slot[r] = s => pc[r] # "store")
      => lua[s].open /\ lua[s].defns = lua[s].ver

(* The slot acquire() is about to return is invalid or holds the           *)
(* definitions in force: it is never a state left from an older version.   *)
FreshOnReturn ==
  \A r \in Refs : pc[r] = "rdunlock" => lua[slot[r]].ver \in {0, defnVer}

(* The slots are handed out as a pool should: to one LuaRef each, never    *)
(* null, none lost, none made while another is free.  (acquire, release)   *)
SlotsConserved == Exclusive /\ NeverNull /\ NoSlotLost /\ PoolBounded

(* Behind luaSlotNumFree_, the vector of free slots stays sound: touched   *)
(* inside its allocation, grown by one thread at a time, and ready for its *)
(* destructor.                                                             *)
FreeVecSound == VecInBounds /\ DestroyedOnce /\ AllocsExclusive

(* Lua states record the definitions they hold, and are brought up to date *)
(* before acquire() returns.  (updateDefinitions, acquire)                 *)
DefnsCurrent == VersionTruthful /\ FreshOnReturn

(* Nobody closes, reloads or invalidates the Lua state of a slot while a   *)
(* request is using it.                                                    *)
HeldStateStable ==
  [][\A r \in Refs : pc[r] = "held" /\ pc'[r] = "held"
       => slot'[r] = slot[r] /\ lua'[slot[r]] = lua[slot[r]]]_vars

(* LuaManager implements the abstract pool. *)
Abstract == INSTANCE LuaPool WITH owned <- slot
ImplementsPool == Abstract!Spec

(* acquire() returns even if no other LuaRef is ever released, and         *)
(* release() returns with the slot free again: no call waits for ever.     *)
CallsReturn ==
  \A r \in Refs : /\ pc[r] = "acquire" ~> pc[r] = "held"
                  /\ pc[r] = "release" ~> pc[r] = "idle"

=============================================================================
