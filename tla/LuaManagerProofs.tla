-------------------------- MODULE LuaManagerProofs ---------------------------
(***************************************************************************)
(* Proofs about LuaManager for any number of LuaRefs, slots and updates.   *)
(*                                                                         *)
(* The invariant is proved in three layers, each relative to the one       *)
(* before: who holds which lock (LockInv), where every slot is (ListInv),  *)
(* and what is loaded into it (DefnInv).                                   *)
(***************************************************************************)
EXTENDS LuaManager, FiniteSetTheorems, TLAPS

(* The two mutexes belong to the LuaRef inside the section they protect;   *)
(* readers and the updater exclude each other.                             *)
LockInv ==
  /\ \A r \in Refs : pc[r] \in InFreeList <=> slotMutex = r
  /\ \A r \in Refs : pc[r] \in {"new", "made"} <=> poolMutex = r
  /\ \A r \in Refs : pc[r] \in {"check", "store", "rdunlock"} <=> r \in readers
  /\ Writing => readers = {}

(* How many elements of the vector hold a slot: one more than the counter  *)
(* says while a slot is being taken, one less while one is being put back. *)
Filled ==
  IF \E r \in Refs : pc[r] = "take" THEN numFree + 1
  ELSE IF \E r \in Refs : pc[r] = "put" THEN numFree - 1
  ELSE numFree

IdxInv ==
  /\ numFree <= nelts
  /\ nelts <= nalloc
  /\ \A r \in Refs : pc[r] = "take" => idx[r] = numFree /\ numFree < nelts
  /\ \A r \in Refs : pc[r] = "put" => numFree > 0 /\ idx[r] = numFree - 1
  /\ \A r \in Refs : pc[r] = "new" => numFree = 0
  /\ \A i \in 0 .. nalloc - 1 : freeVec[i] # NoSlot <=> i < Filled

OwnInv ==
  /\ \A r \in Refs : slot[r] # NoSlot <=> pc[r] \in Owning
  /\ \A r \in Refs : slot[r] # NoSlot => slot[r] \in made
  /\ \A r, q \in Refs : slot[r] # NoSlot /\ slot[r] = slot[q] => r = q

(* A slot is in the vector once or owned, never both, and never lost. *)
PlaceInv ==
  /\ \A i \in 0 .. nalloc - 1 : freeVec[i] # NoSlot =>
        /\ freeVec[i] \in made
        /\ \A r \in Refs : slot[r] # freeVec[i]
        /\ \A j \in 0 .. nalloc - 1 : freeVec[i] = freeVec[j] => i = j
  /\ \A s \in made : \/ \E i \in 0 .. nalloc - 1 : freeVec[i] = s
                     \/ \E r \in Refs : slot[r] = s

ListInv == IdxInv /\ OwnInv /\ PlaceInv

(* The version lags the definitions only between the updater's two writes, *)
(* and a state being loaded holds the definitions in force.                *)
DefnInv ==
  /\ defns = IF upc = "version" THEN defnVer + 1 ELSE defnVer
  /\ \A r \in Refs : pc[r] = "store" =>
        lua[slot[r]].open /\ lua[slot[r]].defns = defns
  /\ VersionTruthful
  /\ FreshOnReturn

IInv == TypeOK /\ LockInv /\ ListInv /\ DefnInv

-----------------------------------------------------------------------------
(* Every variable keeps its type. *)
LEMMA InitType == Init => TypeOK
BY NoSlotAssumption, InitAllocAssumption
DEF Init, TypeOK, SlotOrNone, Labels, NoState

LEMMA TypeStep == TypeOK /\ IdxInv /\ [Next]_vars => TypeOK'
<1> SUFFICES ASSUME TypeOK, IdxInv, [Next]_vars PROVE TypeOK'
  OBVIOUS
<1> USE DEF TypeOK, Goto, SlotOrNone
<1>1. ASSUME NEW r \in Refs, Request(r) PROVE TypeOK'
  BY <1>1 DEF Request, mutexVars, vecVars, slotVars, defnVars, Labels, Acquiring
<1>2. ASSUME NEW r \in Refs, EndRequest(r) PROVE TypeOK'
  BY <1>2 DEF EndRequest, mutexVars, vecVars, slotVars, defnVars, Labels, Releasing
<1>3. ASSUME NEW r \in Refs, Lock(r) PROVE TypeOK'
  BY <1>3 DEF Lock, LockFreeList, LockForRelease, LockPool, ReadLock,
     mutexVars, vecVars, slotVars, defnVars, Labels, Releasing, Acquiring
<1>4. ASSUME NEW r \in Refs, Run(r) PROVE TypeOK'
  <2>1. CASE TakeIdx(r)
    BY <2>1 DEF TakeIdx, mutexVars, slotVars, defnVars, Labels, Acquiring
  <2>2. CASE TakeSlot(r)
    <3>1. idx[r] \in 0 .. nalloc - 1
      BY <2>2 DEF TakeSlot, IdxInv
    <3>2. QED
      BY <2>2, <3>1 DEF TakeSlot, mutexVars, slotVars, defnVars, Labels, Acquiring
  <2>3. CASE NewSlot(r)
    BY <2>3 DEF NewSlot, NoState, mutexVars, vecVars, defnVars, Labels, Acquiring
  <2>4. CASE UnlockPool(r)
    BY <2>4 DEF UnlockPool, vecVars, slotVars, defnVars, Labels, Acquiring
  <2>5. CASE UnlockFreeList(r)
    BY <2>5 DEF UnlockFreeList, vecVars, slotVars, defnVars, Labels, Acquiring
  <2>6. CASE KeepState(r)
    BY <2>6 DEF KeepState, mutexVars, vecVars, slotVars, defnVars, Labels, Acquiring
  <2>7. CASE LoadState(r)
    BY <2>7 DEF LoadState, mutexVars, vecVars, defnVars, Labels, Acquiring
  <2>8. CASE StoreState(r)
    BY <2>8 DEF StoreState, mutexVars, vecVars, defnVars, Labels, Acquiring
  <2>9. CASE LoadFails(r)
    BY <2>9 DEF LoadFails, mutexVars, vecVars, defnVars, Labels, Acquiring
  <2>10. CASE ReadUnlock(r)
    BY <2>10 DEF ReadUnlock, mutexVars, vecVars, slotVars, defnVars, Labels
  <2>11. CASE GrowFreeVec(r)
    <3>1. /\ freeVec' \in [0 .. nalloc' - 1 -> SlotOrNone]
          /\ nalloc' \in Nat \ {0}
          /\ nelts' \in Nat
      <4>1. CASE nalloc < numFree + 1
        <5>1. \A i \in 0 .. 2 * nalloc - 1 : i < nelts => freeVec[i] \in SlotOrNone
          BY DEF IdxInv
        <5>2. QED
          BY <2>11, <4>1, <5>1 DEF GrowFreeVec, GrowTo
      <4>2. CASE ~(nalloc < numFree + 1)
        BY <2>11, <4>2 DEF GrowFreeVec, GrowTo
      <4>3. QED
        BY <4>1, <4>2
    <3>2. pc' \in [Refs -> Labels] /\ idx' \in [Refs -> Nat] /\ numFree' \in Nat
      BY <2>11 DEF GrowFreeVec, Labels, Releasing
    <3>3. QED
      BY <2>11, <3>1, <3>2 DEF GrowFreeVec, mutexVars, slotVars, defnVars
  <2>12. CASE PutSlot(r)
    BY <2>12 DEF PutSlot, mutexVars, slotVars, defnVars, Labels, Releasing
  <2>13. QED
    BY <1>4, <2>1, <2>2, <2>3, <2>4, <2>5, <2>6, <2>7, <2>8, <2>9, <2>10,
       <2>11, <2>12 DEF Run
<1>5. CASE Update
  BY <1>5 DEF Update, WriteLock, InstallScripts, BumpVersion, WriteUnlock,
     mutexVars, vecVars, slotVars, defnVars
<1>6. CASE UNCHANGED vars
  BY <1>6 DEF vars, mutexVars, vecVars, slotVars, defnVars
<1>7. QED
  BY <1>1, <1>2, <1>3, <1>4, <1>5, <1>6 DEF Next

-----------------------------------------------------------------------------
(* Locks: each section is entered by taking its lock and left by giving it *)
(* back, in every order the steps of several LuaRefs can take.             *)
(* A step of r between statements that need the same locks keeps them. *)
LEMMA LockFrame ==
  ASSUME LockInv, NEW r \in Refs, NEW to, pc \in [Refs -> Labels],
         pc' = [pc EXCEPT ![r] = to],
         pc[r] \in InFreeList <=> to \in InFreeList,
         pc[r] \in {"new", "made"} <=> to \in {"new", "made"},
         pc[r] \in {"check", "store", "rdunlock"} <=> to \in {"check", "store", "rdunlock"},
         UNCHANGED <<slotMutex, poolMutex, readers, upc>>
  PROVE  LockInv'
<1>1. pc'[r] = to /\ \A q \in Refs : q # r => pc'[q] = pc[q]
  OBVIOUS
<1>2. ASSUME NEW q \in Refs
      PROVE  /\ pc'[q] \in InFreeList <=> pc[q] \in InFreeList
             /\ pc'[q] \in {"new", "made"} <=> pc[q] \in {"new", "made"}
             /\ pc'[q] \in {"check", "store", "rdunlock"}
                  <=> pc[q] \in {"check", "store", "rdunlock"}
  <2>1. CASE q = r
    BY <1>1, <2>1
  <2>2. CASE q # r
    BY <1>1, <2>2
  <2>3. QED
    BY <2>1, <2>2
<1>3. QED
  BY <1>2 DEF LockInv, Writing

LEMMA LockStep == TypeOK /\ LockInv /\ [Next]_vars => LockInv'
<1> SUFFICES ASSUME TypeOK, LockInv, [Next]_vars PROVE LockInv'
  OBVIOUS
<1> USE NoRefAssumption DEF TypeOK, LockInv, Goto, InFreeList, Writing
<1>1. ASSUME NEW r \in Refs, Request(r) \/ EndRequest(r) PROVE LockInv'
  BY <1>1 DEF Request, EndRequest, mutexVars, vecVars, slotVars, defnVars
<1>2. ASSUME NEW r \in Refs, Lock(r) PROVE LockInv'
  <2>1. CASE LockFreeList(r)
    BY <2>1 DEF LockFreeList, vecVars, slotVars, defnVars
  <2>2. CASE LockForRelease(r)
    BY <2>2 DEF LockForRelease, vecVars, slotVars, defnVars
  <2>3. CASE LockPool(r)
    BY <2>3 DEF LockPool, vecVars, slotVars, defnVars
  <2>4. CASE ReadLock(r)
    BY <2>4 DEF ReadLock, mutexVars, vecVars, slotVars, defnVars
  <2>5. QED
    BY <1>2, <2>1, <2>2, <2>3, <2>4 DEF Lock
<1>3. ASSUME NEW r \in Refs, Run(r) PROVE LockInv'
  <2>1. CASE TakeIdx(r) \/ TakeSlot(r) \/ NewSlot(r) \/ GrowFreeVec(r) \/ PutSlot(r)
    <3> USE DEF mutexVars, defnVars
    <3>1. CASE TakeIdx(r)
      BY <3>1, LockFrame DEF TakeIdx
    <3>2. CASE TakeSlot(r)
      BY <3>2, LockFrame DEF TakeSlot
    <3>3. CASE NewSlot(r)
      BY <3>3, LockFrame DEF NewSlot
    <3>4. CASE GrowFreeVec(r)
      BY <3>4, LockFrame DEF GrowFreeVec
    <3>5. CASE PutSlot(r)
      BY <3>5, LockFrame DEF PutSlot
    <3>6. QED
      BY <2>1, <3>1, <3>2, <3>3, <3>4, <3>5
  <2>2. CASE UnlockPool(r)
    BY <2>2 DEF UnlockPool, vecVars, slotVars, defnVars
  <2>3. CASE UnlockFreeList(r)
    <3>1. /\ pc[r] \in InFreeList /\ slotMutex' = NoRef
          /\ UNCHANGED <<poolMutex, readers, upc>>
          /\ \A q \in Refs : q # r => pc'[q] = pc[q]
          /\ pc[r] \notin {"new", "made", "check", "store", "rdunlock"}
          /\ pc'[r] \in {"rdlock", "idle"}
      BY <2>3 DEF UnlockFreeList, defnVars
    <3>2. \A q \in Refs : pc'[q] \notin InFreeList /\ slotMutex' # q
      BY <3>1
    <3>3. \A q \in Refs : pc'[q] \in {"new", "made"} <=> poolMutex' = q
      <4>1. pc'[r] \notin {"new", "made"} /\ poolMutex # r
        BY <3>1
      <4>2. QED
        BY <3>1, <4>1
    <3>4. \A q \in Refs : pc'[q] \in {"check", "store", "rdunlock"} <=> q \in readers'
      <4>1. pc'[r] \notin {"check", "store", "rdunlock"} /\ r \notin readers
        BY <3>1
      <4>2. QED
        BY <3>1, <4>1
    <3>5. Writing' => readers' = {}
      BY <3>1
    <3>6. QED
      BY <3>2, <3>3, <3>4, <3>5
  <2>4. CASE KeepState(r) \/ LoadState(r) \/ StoreState(r) \/ LoadFails(r)
    <3> USE DEF mutexVars, defnVars
    <3>1. CASE KeepState(r)
      BY <3>1, LockFrame DEF KeepState
    <3>2. CASE LoadState(r)
      BY <3>2, LockFrame DEF LoadState
    <3>3. CASE StoreState(r)
      BY <3>3, LockFrame DEF StoreState
    <3>4. CASE LoadFails(r)
      BY <3>4, LockFrame DEF LoadFails
    <3>5. QED
      BY <2>4, <3>1, <3>2, <3>3, <3>4
  <2>5. CASE ReadUnlock(r)
    BY <2>5 DEF ReadUnlock, mutexVars, vecVars, slotVars, defnVars
  <2>6. QED
    BY <1>3, <2>1, <2>2, <2>3, <2>4, <2>5 DEF Run
<1>4. CASE Update
  BY <1>4 DEF Update, WriteLock, InstallScripts, BumpVersion, WriteUnlock,
     mutexVars, vecVars, slotVars, defnVars
<1>5. CASE UNCHANGED vars
  BY <1>5 DEF vars, mutexVars, vecVars, slotVars, defnVars
<1>6. QED
  BY <1>1, <1>2, <1>3, <1>4, <1>5 DEF Next

-----------------------------------------------------------------------------
(* The free list: counter, vector and LuaRefs agree after every statement. *)

(* Only the LuaRef in the free list can be taking or putting a slot.       *)
LEMMA OneInList ==
  ASSUME LockInv, NEW r \in Refs, pc[r] \in InFreeList,
         NEW q \in Refs, pc[q] \in InFreeList
  PROVE  q = r
BY DEF LockInv

(* What the vector holds depends on the counter and on who is inside. *)
LEMMA FilledSame ==
  ASSUME UNCHANGED vecVars,
         \A q \in Refs : pc'[q] \in {"take", "put"} <=> pc[q] \in {"take", "put"},
         \A q \in Refs : pc[q] \in {"take", "put"} => pc'[q] = pc[q]
  PROVE  Filled' = Filled
<1>1. (\E q \in Refs : pc'[q] = "take") <=> (\E q \in Refs : pc[q] = "take")
  OBVIOUS
<1>2. (\E q \in Refs : pc'[q] = "put") <=> (\E q \in Refs : pc[q] = "put")
  OBVIOUS
<1>3. QED
  BY <1>1, <1>2 DEF Filled, vecVars

(* A step of r that leaves the vector and r's index alone, and neither     *)
(* begins nor ends a taking or a putting, keeps the counter right.         *)
LEMMA IdxFrame ==
  ASSUME TypeOK, IdxInv, NEW r \in Refs, NEW to,
         pc[r] \notin {"take", "put"}, to \notin {"take", "put"},
         to = "new" => numFree = 0,
         pc' = [pc EXCEPT ![r] = to], UNCHANGED <<idx, vecVars>>
  PROVE  IdxInv'
<1>1. Filled' = Filled
  BY FilledSame DEF TypeOK
<1>2. QED
  BY <1>1 DEF IdxInv, TypeOK, vecVars

LEMMA IdxStep == TypeOK /\ LockInv /\ IdxInv /\ OwnInv /\ [Next]_vars => IdxInv'
<1> SUFFICES ASSUME TypeOK, LockInv, IdxInv, OwnInv, [Next]_vars PROVE IdxInv'
  OBVIOUS
<1>1. ASSUME NEW r \in Refs, Request(r) PROVE IdxInv'
  BY <1>1, IdxFrame DEF Request, Goto
<1>2. ASSUME NEW r \in Refs, EndRequest(r) PROVE IdxInv'
  BY <1>2, IdxFrame DEF EndRequest, Goto
<1>3. ASSUME NEW r \in Refs, Lock(r) PROVE IdxInv'
  <2>1. CASE LockFreeList(r)
    BY <2>1, IdxFrame DEF LockFreeList, Goto
  <2>2. CASE LockForRelease(r)
    BY <2>2, IdxFrame DEF LockForRelease, Goto
  <2>3. CASE LockPool(r)
    BY <2>3, IdxFrame DEF LockPool, Goto
  <2>4. CASE ReadLock(r)
    BY <2>4, IdxFrame DEF ReadLock, Goto
  <2>5. QED
    BY <1>3, <2>1, <2>2, <2>3, <2>4 DEF Lock
<1>4. ASSUME NEW r \in Refs, Run(r) PROVE IdxInv'
  <2>1. CASE TakeIdx(r)
    <3>1. \A q \in Refs : pc[q] \notin {"take", "put"}
      BY <2>1, OneInList DEF TakeIdx, Goto, InFreeList
    <3>2. \A q \in Refs : pc'[q] \in {"take", "put"} => q = r /\ pc'[q] = "take"
      BY <2>1, <3>1 DEF TakeIdx, Goto, TypeOK
    <3>3. pc'[r] = "take" /\ idx'[r] = numFree'
      BY <2>1 DEF TakeIdx, Goto, TypeOK
    <3>4. Filled = numFree /\ Filled' = numFree' + 1
      BY <3>1, <3>3 DEF Filled
    <3>5. numFree' = numFree - 1 /\ UNCHANGED <<freeVec, nalloc, nelts>>
      BY <2>1 DEF TakeIdx
    <3>6. Filled' = Filled
      BY <3>4, <3>5 DEF TypeOK
    <3>7. \A q \in Refs : pc'[q] # "new"
      BY <2>1, OneInList DEF TakeIdx, Goto, InFreeList, TypeOK
    <3>8. QED
      BY <3>2, <3>3, <3>5, <3>6, <3>7 DEF IdxInv, TypeOK
  <2>2. CASE TakeSlot(r)
    <3>1. \A q \in Refs : pc[q] \in {"take", "put"} => q = r
      BY <2>2, OneInList DEF TakeSlot, Goto, InFreeList
    <3>2. \A q \in Refs : pc'[q] \notin {"take", "put"}
      BY <2>2, <3>1 DEF TakeSlot, Goto, TypeOK
    <3>3. Filled = numFree + 1 /\ Filled' = numFree
      BY <2>2, <3>2 DEF Filled, TakeSlot, Goto
    <3>4. /\ idx[r] = numFree
          /\ freeVec' = [freeVec EXCEPT ![numFree] = NoSlot]
          /\ UNCHANGED <<nalloc, nelts, numFree>>
      BY <2>2 DEF TakeSlot, Goto, IdxInv
    <3>5. \A i \in 0 .. nalloc - 1 : freeVec'[i] # NoSlot <=> i < numFree
      BY <3>3, <3>4 DEF IdxInv, TypeOK
    <3>6. \A q \in Refs : pc'[q] # "new"
      BY <2>2, OneInList DEF TakeSlot, Goto, InFreeList, TypeOK
    <3>7. QED
      BY <3>2, <3>3, <3>4, <3>5, <3>6 DEF IdxInv
  <2>3. CASE NewSlot(r)
    BY <2>3, IdxFrame DEF NewSlot, Goto
  <2>4. CASE UnlockPool(r)
    BY <2>4, IdxFrame DEF UnlockPool, Goto
  <2>5. CASE UnlockFreeList(r)
    BY <2>5, IdxFrame DEF UnlockFreeList, Goto
  <2>6. CASE KeepState(r)
    BY <2>6, IdxFrame DEF KeepState, Goto
  <2>7. CASE LoadState(r)
    BY <2>7, IdxFrame DEF LoadState, Goto
  <2>8. CASE StoreState(r)
    BY <2>8, IdxFrame DEF StoreState, Goto
  <2>9. CASE LoadFails(r)
    BY <2>9, IdxFrame DEF LoadFails, Goto
  <2>10. CASE ReadUnlock(r)
    BY <2>10, IdxFrame DEF ReadUnlock, Goto
  <2>11. CASE GrowFreeVec(r)
    <3>1. \A q \in Refs : pc[q] \notin {"take", "put"}
      BY <2>11, OneInList DEF GrowFreeVec, Goto, InFreeList
    <3>2. \A q \in Refs : pc'[q] \in {"take", "put"} => q = r /\ pc'[q] = "put"
      BY <2>11, <3>1 DEF GrowFreeVec, Goto, TypeOK
    <3>3. pc'[r] = "put" /\ idx'[r] = numFree /\ numFree' = numFree + 1
      BY <2>11 DEF GrowFreeVec, Goto, TypeOK
    <3>4. Filled = numFree /\ Filled' = numFree
      BY <3>1, <3>2, <3>3 DEF Filled, TypeOK
    <3>5. \A i \in 0 .. nalloc - 1 : freeVec[i] # NoSlot <=> i < numFree
      BY <3>4 DEF IdxInv
    <3>6. /\ nelts' = numFree + 1 /\ nelts' <= nalloc'
          /\ \A i \in 0 .. nalloc' - 1 : freeVec'[i] # NoSlot <=> i < numFree
      <4>1. CASE nalloc < numFree + 1
        <5>1. nelts = numFree /\ nalloc = numFree
          BY <4>1 DEF IdxInv, TypeOK
        <5>2. /\ nalloc' = 2 * nalloc /\ nelts' = numFree + 1
              /\ freeVec' = [i \in 0 .. 2 * nalloc - 1 |->
                                IF i < nelts THEN freeVec[i] ELSE NoSlot]
          BY <2>11, <4>1 DEF GrowFreeVec, GrowTo
        <5>3. QED
          BY <5>1, <5>2, <3>5 DEF TypeOK
      <4>2. CASE ~(nalloc < numFree + 1)
        BY <2>11, <4>2, <3>5 DEF GrowFreeVec, GrowTo, TypeOK
      <4>3. QED
        BY <4>1, <4>2
    <3>7. \A q \in Refs : pc'[q] # "new"
      BY <2>11, OneInList DEF GrowFreeVec, Goto, InFreeList, TypeOK
    <3>8. QED
      BY <3>2, <3>3, <3>4, <3>6, <3>7 DEF IdxInv, TypeOK
  <2>12. CASE PutSlot(r)
    <3>1. \A q \in Refs : pc[q] \in {"take", "put"} => q = r
      BY <2>12, OneInList DEF PutSlot, Goto, InFreeList
    <3>2. \A q \in Refs : pc'[q] \notin {"take", "put"}
      BY <2>12, <3>1 DEF PutSlot, Goto, TypeOK
    <3>3. (\A q \in Refs : pc[q] # "take") /\ pc[r] = "put"
      BY <2>12, <3>1 DEF PutSlot, Goto
    <3>4. Filled = numFree - 1 /\ Filled' = numFree'
      BY <3>2, <3>3 DEF Filled
    <3>5. /\ numFree > 0 /\ idx[r] = numFree - 1
          /\ freeVec' = [freeVec EXCEPT ![numFree - 1] = slot[r]]
          /\ UNCHANGED <<nalloc, nelts, numFree>>
      BY <2>12, <3>3 DEF PutSlot, IdxInv
    <3>6. slot[r] # NoSlot
      BY <3>3 DEF OwnInv, Owning
    <3>7. \A i \in 0 .. nalloc - 1 : freeVec'[i] # NoSlot <=> i < numFree
      BY <3>4, <3>5, <3>6 DEF IdxInv, TypeOK
    <3>8. \A q \in Refs : pc'[q] # "new"
      BY <2>12, OneInList DEF PutSlot, Goto, InFreeList, TypeOK
    <3>9. QED
      BY <3>2, <3>4, <3>5, <3>7, <3>8 DEF IdxInv
  <2>13. QED
    BY <1>4, <2>1, <2>2, <2>3, <2>4, <2>5, <2>6, <2>7, <2>8, <2>9, <2>10,
       <2>11, <2>12 DEF Run
<1>5. CASE Update \/ UNCHANGED vars
  <2>1. UNCHANGED <<pc, idx, vecVars>>
    BY <1>5 DEF Update, WriteLock, InstallScripts, BumpVersion, WriteUnlock, vars
  <2>2. QED
    BY <2>1, FilledSame DEF IdxInv, vecVars
<1>6. QED
  BY <1>1, <1>2, <1>3, <1>4, <1>5 DEF Next

(* A step of r that moves it without crossing into or out of Owning, and   *)
(* leaves slots alone, keeps ownership right.                              *)
LEMMA OwnFrame ==
  ASSUME TypeOK, OwnInv, NEW r \in Refs, NEW to,
         to \in Owning <=> pc[r] \in Owning,
         pc' = [pc EXCEPT ![r] = to], UNCHANGED <<slot, made>>
  PROVE  OwnInv'
BY DEF OwnInv, TypeOK

LEMMA OwnStep ==
  TypeOK /\ LockInv /\ IdxInv /\ OwnInv /\ PlaceInv /\ [Next]_vars => OwnInv'
<1> SUFFICES ASSUME TypeOK, LockInv, IdxInv, OwnInv, PlaceInv, [Next]_vars
             PROVE  OwnInv'
  OBVIOUS
<1> USE DEF Goto
<1>1. ASSUME NEW r \in Refs, Request(r) \/ EndRequest(r) PROVE OwnInv'
  BY <1>1, OwnFrame DEF Request, EndRequest, slotVars, Owning
<1>2. ASSUME NEW r \in Refs, Lock(r) PROVE OwnInv'
  BY <1>2, OwnFrame DEF Lock, LockFreeList, LockForRelease, LockPool, ReadLock,
     slotVars, Owning
<1>3. ASSUME NEW r \in Refs, Run(r) PROVE OwnInv'
  <2>1. CASE TakeIdx(r) \/ UnlockPool(r) \/ UnlockFreeList(r)
    BY <2>1, OwnFrame DEF TakeIdx, UnlockPool, UnlockFreeList, slotVars, Owning
  <2>2. CASE KeepState(r) \/ LoadState(r) \/ StoreState(r) \/ LoadFails(r)
    BY <2>2, OwnFrame DEF KeepState, LoadState, StoreState, LoadFails, slotVars, Owning
  <2>3. CASE ReadUnlock(r) \/ GrowFreeVec(r)
    BY <2>3, OwnFrame DEF ReadUnlock, GrowFreeVec, slotVars, Owning
  <2>4. CASE TakeSlot(r)
    <3>1. idx[r] \in 0 .. nalloc - 1 /\ freeVec[idx[r]] # NoSlot
      BY <2>4 DEF TakeSlot, IdxInv, TypeOK, Filled
    <3>2. freeVec[idx[r]] \in made /\ \A q \in Refs : slot[q] # freeVec[idx[r]]
      BY <3>1 DEF PlaceInv
    <3>3. slot' = [slot EXCEPT ![r] = freeVec[idx[r]]] /\ UNCHANGED made
      BY <2>4 DEF TakeSlot, slotVars
    <3>4. pc' = [pc EXCEPT ![r] = "chosen"]
      BY <2>4 DEF TakeSlot
    <3>5. QED
      BY <3>1, <3>2, <3>3, <3>4 DEF OwnInv, TypeOK, Owning
  <2>5. CASE NewSlot(r)
    <3>1. PICK s \in Slots \ made :
            made' = made \cup {s} /\ slot' = [slot EXCEPT ![r] = s]
      BY <2>5 DEF NewSlot
    <3>2. pc' = [pc EXCEPT ![r] = "made"]
      BY <2>5 DEF NewSlot
    <3>3. QED
      BY <3>1, <3>2, NoSlotAssumption DEF OwnInv, TypeOK, Owning
  <2>6. CASE PutSlot(r)
    <3>1. /\ slot' = [slot EXCEPT ![r] = NoSlot] /\ UNCHANGED made
          /\ pc' = [pc EXCEPT ![r] = "unlock"]
      BY <2>6 DEF PutSlot, slotVars
    <3>2. QED
      BY <3>1 DEF OwnInv, TypeOK, Owning
  <2>7. QED
    BY <1>3, <2>1, <2>2, <2>3, <2>4, <2>5, <2>6 DEF Run
<1>4. CASE Update \/ UNCHANGED vars
  BY <1>4 DEF Update, WriteLock, InstallScripts, BumpVersion, WriteUnlock, vars,
     slotVars, OwnInv
<1>5. QED
  BY <1>1, <1>2, <1>3, <1>4 DEF Next

LEMMA PlaceStep ==
  TypeOK /\ LockInv /\ IdxInv /\ OwnInv /\ PlaceInv /\ [Next]_vars => PlaceInv'
<1> SUFFICES ASSUME TypeOK, LockInv, IdxInv, OwnInv, PlaceInv, [Next]_vars
             PROVE  PlaceInv'
  OBVIOUS
<1> USE DEF Goto
<1>1. ASSUME UNCHANGED <<freeVec, nalloc, slot, made>> PROVE PlaceInv'
  BY <1>1 DEF PlaceInv
<1>2. ASSUME NEW r \in Refs, Request(r) \/ EndRequest(r) PROVE PlaceInv'
  BY <1>1, <1>2 DEF Request, EndRequest, slotVars, vecVars
<1>3. ASSUME NEW r \in Refs, Lock(r) PROVE PlaceInv'
  BY <1>1, <1>3 DEF Lock, LockFreeList, LockForRelease, LockPool, ReadLock,
     slotVars, vecVars
<1>4. ASSUME NEW r \in Refs, Run(r) PROVE PlaceInv'
  <2>1. CASE TakeIdx(r) \/ UnlockPool(r) \/ UnlockFreeList(r) \/ ReadUnlock(r)
    BY <1>1, <2>1 DEF TakeIdx, UnlockPool, UnlockFreeList, ReadUnlock, slotVars, vecVars
  <2>2. CASE KeepState(r) \/ LoadState(r) \/ StoreState(r) \/ LoadFails(r)
    BY <1>1, <2>2 DEF KeepState, LoadState, StoreState, LoadFails, slotVars, vecVars
  <2>3. CASE TakeSlot(r)
    <3> DEFINE k == idx[r]
    <3>1. k \in 0 .. nalloc - 1 /\ freeVec[k] # NoSlot
      BY <2>3 DEF TakeSlot, IdxInv, TypeOK, Filled
    <3>2. slot[r] = NoSlot
      BY <2>3 DEF TakeSlot, OwnInv, Owning
    <3>3. /\ slot' = [slot EXCEPT ![r] = freeVec[k]]
          /\ freeVec' = [freeVec EXCEPT ![k] = NoSlot]
          /\ UNCHANGED <<nalloc, made>>
      BY <2>3 DEF TakeSlot, slotVars
    <3> HIDE DEF k
    <3>4. ASSUME NEW i \in 0 .. nalloc - 1, freeVec'[i] # NoSlot
          PROVE  /\ freeVec'[i] \in made
                 /\ \A q \in Refs : slot'[q] # freeVec'[i]
                 /\ \A j \in 0 .. nalloc - 1 : freeVec'[i] = freeVec'[j] => i = j
      BY <3>1, <3>3, <3>4 DEF PlaceInv, TypeOK
    <3>5. ASSUME NEW s \in made
          PROVE  \/ \E i \in 0 .. nalloc - 1 : freeVec'[i] = s
                 \/ \E q \in Refs : slot'[q] = s
      <4>1. CASE s = freeVec[k]
        BY <3>3, <4>1 DEF TypeOK
      <4>2. CASE s # freeVec[k] /\ \E i \in 0 .. nalloc - 1 : freeVec[i] = s
        BY <3>1, <3>3, <4>2 DEF TypeOK
      <4>3. CASE \E q \in Refs : slot[q] = s
        BY <3>2, <3>3, <4>3, NoSlotAssumption DEF TypeOK
      <4>4. QED
        BY <4>1, <4>2, <4>3 DEF PlaceInv
    <3>6. QED
      BY <3>3, <3>4, <3>5 DEF PlaceInv
  <2>4. CASE NewSlot(r)
    <3>1. PICK s \in Slots \ made :
            made' = made \cup {s} /\ slot' = [slot EXCEPT ![r] = s]
      BY <2>4 DEF NewSlot
    <3>2. UNCHANGED <<freeVec, nalloc>> /\ slot[r] = NoSlot
      BY <2>4 DEF NewSlot, vecVars, OwnInv, Owning
    <3>3. \A q \in Refs : slot[q] # NoSlot => slot'[q] = slot[q]
      BY <3>1, <3>2 DEF TypeOK
    <3>4. \A t \in made' : \/ \E i \in 0 .. nalloc - 1 : freeVec[i] = t
                           \/ \E q \in Refs : slot'[q] = t
      <4>1. slot'[r] = s
        BY <3>1 DEF TypeOK
      <4>2. ASSUME NEW t \in made
            PROVE  \/ \E i \in 0 .. nalloc - 1 : freeVec[i] = t
                   \/ \E q \in Refs : slot'[q] = t
        <5>1. t # NoSlot
          BY NoSlotAssumption DEF TypeOK
        <5>2. QED
          BY <3>3, <5>1 DEF PlaceInv
      <4>3. QED
        BY <3>1, <4>1, <4>2
    <3>5. ASSUME NEW i \in 0 .. nalloc - 1, freeVec[i] # NoSlot
          PROVE  /\ freeVec[i] \in made'
                 /\ \A q \in Refs : slot'[q] # freeVec[i]
                 /\ \A j \in 0 .. nalloc - 1 : freeVec[i] = freeVec[j] => i = j
      <4>1. /\ freeVec[i] \in made
            /\ \A q \in Refs : slot[q] # freeVec[i]
            /\ \A j \in 0 .. nalloc - 1 : freeVec[i] = freeVec[j] => i = j
        BY <3>5 DEF PlaceInv
      <4>2. \A q \in Refs : slot'[q] = s \/ slot'[q] = slot[q]
        BY <3>1 DEF TypeOK
      <4>3. QED
        BY <4>1, <4>2, <3>1
    <3>6. QED
      BY <3>2, <3>4, <3>5 DEF PlaceInv
  <2>5. CASE GrowFreeVec(r)
    <3>1. UNCHANGED <<slot, made>>
      BY <2>5 DEF GrowFreeVec, slotVars
    <3>2. CASE nalloc < numFree + 1
      <4>1. nelts = nalloc
        BY <3>2 DEF IdxInv, TypeOK
      <4>2. /\ nalloc' = 2 * nalloc
            /\ freeVec' = [i \in 0 .. 2 * nalloc - 1 |->
                              IF i < nalloc THEN freeVec[i] ELSE NoSlot]
        BY <2>5, <3>2, <4>1 DEF GrowFreeVec, GrowTo
      <4>3. \A i \in 0 .. nalloc - 1 : i \in 0 .. nalloc' - 1 /\ freeVec'[i] = freeVec[i]
        BY <4>2 DEF TypeOK
      <4>4. \A i \in 0 .. nalloc' - 1 : freeVec'[i] # NoSlot =>
               i \in 0 .. nalloc - 1 /\ freeVec'[i] = freeVec[i]
        BY <4>2 DEF TypeOK
      <4>5. ASSUME NEW i \in 0 .. nalloc' - 1, freeVec'[i] # NoSlot
            PROVE  /\ freeVec'[i] \in made
                   /\ \A q \in Refs : slot[q] # freeVec'[i]
                   /\ \A j \in 0 .. nalloc' - 1 : freeVec'[i] = freeVec'[j] => i = j
        BY <4>4, <4>5 DEF PlaceInv
      <4>6. \A s \in made : \/ \E i \in 0 .. nalloc' - 1 : freeVec'[i] = s
                            \/ \E q \in Refs : slot[q] = s
        BY <4>3 DEF PlaceInv
      <4>7. QED
        BY <3>1, <4>5, <4>6 DEF PlaceInv
    <3>3. CASE ~(nalloc < numFree + 1)
      BY <1>1, <2>5, <3>1, <3>3 DEF GrowFreeVec, GrowTo
    <3>4. QED
      BY <3>2, <3>3
  <2>6. CASE PutSlot(r)
    <3> DEFINE k == idx[r]
    <3>1. /\ slot' = [slot EXCEPT ![r] = NoSlot]
          /\ freeVec' = [freeVec EXCEPT ![k] = slot[r]]
          /\ UNCHANGED <<nalloc, made>>
      BY <2>6 DEF PutSlot, slotVars
    <3>2. \A q \in Refs : pc[q] # "take"
      BY <2>6, OneInList DEF PutSlot, InFreeList
    <3>3. k = numFree - 1 /\ k \in 0 .. nalloc - 1 /\ freeVec[k] = NoSlot
      BY <2>6, <3>2 DEF PutSlot, IdxInv, Filled, TypeOK
    <3>4. slot[r] # NoSlot /\ slot[r] \in made
      BY <2>6 DEF PutSlot, OwnInv, Owning
    <3> HIDE DEF k
    <3>5. ASSUME NEW i \in 0 .. nalloc - 1, freeVec'[i] # NoSlot
          PROVE  /\ freeVec'[i] \in made
                 /\ \A q \in Refs : slot'[q] # freeVec'[i]
                 /\ \A j \in 0 .. nalloc - 1 : freeVec'[i] = freeVec'[j] => i = j
      <4>1. CASE i = k
        <5>1. freeVec'[i] = slot[r]
          BY <3>1, <3>3, <4>1 DEF TypeOK
        <5>2. \A q \in Refs : slot'[q] # slot[r]
          BY <3>1, <3>4 DEF OwnInv, TypeOK
        <5>3. \A j \in 0 .. nalloc - 1 : j # k => freeVec'[j] # slot[r]
          BY <3>1, <3>4 DEF PlaceInv, TypeOK
        <5>4. QED
          BY <3>4, <4>1, <5>1, <5>2, <5>3
      <4>2. CASE i # k
        <5>1. freeVec'[i] = freeVec[i] /\ freeVec[i] # NoSlot
          BY <3>1, <3>5, <4>2 DEF TypeOK
        <5>2. freeVec[i] # slot[r]
          BY <5>1 DEF PlaceInv
        <5>3. \A q \in Refs : slot'[q] # freeVec[i]
          BY <3>1, <5>1 DEF PlaceInv, TypeOK
        <5>4. \A j \in 0 .. nalloc - 1 : freeVec'[j] = freeVec[i] => j = i
          BY <3>1, <5>1, <5>2 DEF PlaceInv, TypeOK
        <5>5. QED
          BY <5>1, <5>3, <5>4 DEF PlaceInv
      <4>3. QED
        BY <4>1, <4>2
    <3>6. ASSUME NEW s \in made
          PROVE  \/ \E i \in 0 .. nalloc - 1 : freeVec'[i] = s
                 \/ \E q \in Refs : slot'[q] = s
      <4>1. CASE s = slot[r]
        BY <3>1, <3>3, <4>1 DEF TypeOK
      <4>2. CASE \E i \in 0 .. nalloc - 1 : freeVec[i] = s
        BY <3>1, <3>3, <4>2, NoSlotAssumption DEF TypeOK
      <4>3. CASE s # slot[r] /\ \E q \in Refs : slot[q] = s
        BY <3>1, <4>3 DEF TypeOK
      <4>4. QED
        BY <4>1, <4>2, <4>3 DEF PlaceInv
    <3>7. QED
      BY <3>1, <3>5, <3>6 DEF PlaceInv
  <2>7. QED
    BY <1>4, <2>1, <2>2, <2>3, <2>4, <2>5, <2>6 DEF Run
<1>5. CASE Update \/ UNCHANGED vars
  BY <1>1, <1>5 DEF Update, WriteLock, InstallScripts, BumpVersion, WriteUnlock, vars,
     slotVars, vecVars
<1>6. QED
  BY <1>2, <1>3, <1>4, <1>5 DEF Next

-----------------------------------------------------------------------------
(* Definitions: a state is loaded and its version recorded under one read  *)
(* lock, so the two agree however the updater and other LuaRefs interleave. *)

(* While r reads, the updater is outside its write lock. *)
LEMMA ReaderStable ==
  ASSUME LockInv, DefnInv, NEW r \in Refs, pc[r] \in {"check", "store", "rdunlock"}
  PROVE  upc = "idle" /\ defns = defnVer
BY DEF LockInv, DefnInv, Writing

(* A step that leaves every Lua state and the versions alone, and starts   *)
(* no storing and no returning, keeps what is known of loaded states.      *)
LEMMA DefnFrame ==
  ASSUME TypeOK, OwnInv, DefnInv, NEW r \in Refs, NEW to,
         to \notin {"store", "rdunlock"}, pc[r] # "store",
         pc' = [pc EXCEPT ![r] = to],
         \A q \in Refs : q # r => slot'[q] = slot[q],
         UNCHANGED <<slotVars, defnVars>>
  PROVE  DefnInv'
<1>1. UNCHANGED <<made, lua, upc, defns, defnVer>> /\ pc \in [Refs -> Labels]
  BY DEF slotVars, defnVars, TypeOK
<1>2. pc'[r] = to /\ \A q \in Refs : q # r => pc'[q] = pc[q]
  BY <1>1
<1>3. \A q \in Refs : pc'[q] \in {"store", "rdunlock"} => pc'[q] = pc[q] /\ slot'[q] = slot[q]
  BY <1>2
<1>4. \A q \in Refs : pc[q] = "store" => pc'[q] = "store" /\ slot'[q] = slot[q]
  BY <1>2
<1>5. VersionTruthful'
  BY <1>1, <1>4 DEF DefnInv, VersionTruthful, Valid
<1>6. FreshOnReturn'
  BY <1>1, <1>3 DEF DefnInv, FreshOnReturn
<1>7. \A q \in Refs : pc'[q] = "store" =>
        lua'[slot'[q]].open /\ lua'[slot'[q]].defns = defns'
  BY <1>1, <1>3 DEF DefnInv
<1>8. QED
  BY <1>1, <1>5, <1>6, <1>7 DEF DefnInv

LEMMA DefnStep ==
  TypeOK /\ LockInv /\ OwnInv /\ DefnInv /\ [Next]_vars => DefnInv'
<1> SUFFICES ASSUME TypeOK, LockInv, OwnInv, DefnInv, [Next]_vars
             PROVE  DefnInv'
  OBVIOUS
<1> USE DEF Goto
<1>1. ASSUME NEW r \in Refs, Request(r) \/ EndRequest(r) PROVE DefnInv'
  BY <1>1, DefnFrame DEF Request, EndRequest
<1>2. ASSUME NEW r \in Refs, Lock(r) PROVE DefnInv'
  BY <1>2, DefnFrame DEF Lock, LockFreeList, LockForRelease, LockPool, ReadLock
<1>3. ASSUME NEW r \in Refs, Run(r) PROVE DefnInv'
  <2>1. CASE TakeIdx(r) \/ UnlockPool(r) \/ UnlockFreeList(r) \/ ReadUnlock(r)
    BY <2>1, DefnFrame DEF TakeIdx, UnlockPool, UnlockFreeList, ReadUnlock
  <2>2. CASE TakeSlot(r)
    BY <2>2, DefnFrame DEF TakeSlot, TypeOK
  <2>3. CASE GrowFreeVec(r)
    BY <2>3, DefnFrame DEF GrowFreeVec
  <2>4. CASE PutSlot(r)
    BY <2>4, DefnFrame DEF PutSlot, TypeOK
  <2>5. CASE NewSlot(r)
    <3>1. PICK s \in Slots \ made :
            /\ made' = made \cup {s} /\ slot' = [slot EXCEPT ![r] = s]
            /\ lua' = [lua EXCEPT ![s] = NoState]
      BY <2>5 DEF NewSlot
    <3>2. /\ pc' = [pc EXCEPT ![r] = "made"] /\ pc[r] = "new"
          /\ UNCHANGED <<upc, defns, defnVer>>
      BY <2>5 DEF NewSlot, defnVars
    <3>3. \A q \in Refs : pc'[q] \in {"store", "rdunlock"} =>
            q # r /\ pc'[q] = pc[q] /\ slot'[q] = slot[q] /\ slot[q] \in made
      BY <3>1, <3>2 DEF TypeOK, OwnInv, Owning
    <3>4. lua'[s].ver = 0 /\ \A t \in Slots : t # s => lua'[t] = lua[t]
      BY <3>1 DEF TypeOK, NoState
    <3>5. \A q \in Refs : pc'[q] \in {"store", "rdunlock"} => lua'[slot'[q]] = lua[slot[q]]
      BY <3>1, <3>3, <3>4 DEF TypeOK
    <3>6. VersionTruthful'
      <4>1. ASSUME NEW t \in made, lua'[t].ver # 0,
                   \A q \in Refs : slot'[q] = t => pc'[q] # "store"
            PROVE  lua'[t].open /\ lua'[t].defns = lua'[t].ver
        <5>1. t \in Slots /\ t # s
          BY <3>1 DEF TypeOK
        <5>2. lua'[t] = lua[t]
          BY <3>4, <5>1
        <5>3. \A q \in Refs : slot[q] = t => pc[q] # "store"
          <6>1. \A q \in Refs : q # r => slot'[q] = slot[q] /\ pc'[q] = pc[q]
            BY <3>1, <3>2 DEF TypeOK
          <6>2. QED
            BY <4>1, <6>1, <3>2
        <5>4. QED
          BY <4>1, <5>2, <5>3 DEF DefnInv, VersionTruthful, Valid
      <4>2. QED
        BY <4>1, <3>1, <3>4 DEF VersionTruthful, Valid
    <3>7. QED
      BY <3>2, <3>3, <3>5, <3>6 DEF DefnInv, FreshOnReturn
  <2>6. CASE KeepState(r)
    BY <2>6, ReaderStable DEF KeepState, Current, DefnInv, VersionTruthful,
       FreshOnReturn, Valid, TypeOK, slotVars, defnVars
  <2>7. CASE LoadState(r) \/ StoreState(r) \/ LoadFails(r)
    <3>1. slot[r] \in made /\ \A q \in Refs : slot[q] = slot[r] => q = r
      BY <2>7 DEF LoadState, StoreState, LoadFails, OwnInv, Owning
    <3>2. \A q \in Refs : q # r => pc'[q] = pc[q]
      BY <2>7 DEF LoadState, StoreState, LoadFails, TypeOK
    <3>3. UNCHANGED <<slot, made, upc, defns, defnVer>> /\ defns = defnVer
      BY <2>7, ReaderStable DEF LoadState, StoreState, LoadFails, defnVars
    <3>4. \A s \in Slots : s # slot[r] => lua'[s] = lua[s]
      BY <2>7 DEF LoadState, StoreState, LoadFails, TypeOK
    <3>5. \A q \in Refs : q # r /\ pc[q] \in {"store", "rdunlock"} =>
            slot[q] \in Slots /\ slot[q] # slot[r]
      BY <3>1 DEF OwnInv, Owning, TypeOK
    <3>6. pc'[r] = "store" => lua'[slot[r]].open /\ lua'[slot[r]].defns = defns
      BY <2>7, <3>1 DEF LoadState, StoreState, LoadFails, TypeOK
    <3>7. pc'[r] = "rdunlock" =>
            /\ lua'[slot[r]].ver \in {0, defnVer}
            /\ lua'[slot[r]].ver # 0 => /\ lua'[slot[r]].open
                                        /\ lua'[slot[r]].defns = lua'[slot[r]].ver
      <4>1. CASE LoadState(r)
        BY <4>1 DEF LoadState, TypeOK
      <4>2. CASE LoadFails(r)
        BY <3>1, <4>2 DEF LoadFails, TypeOK
      <4>3. CASE StoreState(r)
        <5>1. /\ lua[slot[r]].open /\ lua[slot[r]].defns = defnVer
              /\ slot[r] \in Slots
          BY <3>1, <3>3, <4>3 DEF StoreState, DefnInv, TypeOK
        <5>2. lua'[slot[r]] = [lua[slot[r]] EXCEPT !.ver = defnVer]
          BY <4>3, <5>1 DEF StoreState, TypeOK
        <5>3. QED
          BY <5>1, <5>2 DEF TypeOK
      <4>4. QED
        BY <2>7, <4>1, <4>2, <4>3
    <3>8. pc'[r] \in {"store", "rdunlock"}
      BY <2>7 DEF LoadState, StoreState, LoadFails, TypeOK
    <3>9. \A q \in Refs : pc'[q] = "store" =>
            lua'[slot'[q]].open /\ lua'[slot'[q]].defns = defns'
      BY <3>2, <3>3, <3>4, <3>5, <3>6 DEF DefnInv
    <3>10. FreshOnReturn'
      BY <3>2, <3>3, <3>4, <3>5, <3>7 DEF DefnInv, FreshOnReturn
    <3>11. ASSUME NEW s \in made,
                  lua'[s].ver # 0,
                  \A q \in Refs : slot[q] = s => pc'[q] # "store"
           PROVE  lua'[s].open /\ lua'[s].defns = lua'[s].ver
      <4>1. CASE s = slot[r]
        BY <3>7, <3>8, <3>11, <4>1
      <4>2. CASE s # slot[r]
        <5>1. \A q \in Refs : slot[q] = s => pc[q] # "store"
          BY <3>2, <3>11, <4>2
        <5>2. lua'[s] = lua[s]
          BY <3>4, <4>2 DEF TypeOK
        <5>3. QED
          BY <3>11, <5>1, <5>2 DEF DefnInv, VersionTruthful, Valid
      <4>3. QED
        BY <4>1, <4>2
    <3>12. VersionTruthful'
      BY <3>3, <3>11 DEF VersionTruthful, Valid
    <3>13. QED
      BY <3>3, <3>9, <3>10, <3>12 DEF DefnInv
  <2>8. QED
    BY <1>3, <2>1, <2>2, <2>3, <2>4, <2>5, <2>6, <2>7 DEF Run
<1>4. CASE Update
  <2>1. UNCHANGED <<pc, slot, made, lua>>
    BY <1>4 DEF Update, WriteLock, InstallScripts, BumpVersion, WriteUnlock, slotVars
  <2>2. CASE WriteLock \/ WriteUnlock
    BY <2>1, <2>2 DEF WriteLock, WriteUnlock, DefnInv, VersionTruthful, FreshOnReturn, Valid
  <2>3. CASE InstallScripts \/ BumpVersion
    <3>1. \A q \in Refs : pc[q] \notin {"store", "rdunlock"}
      BY <2>3, ReaderStable DEF InstallScripts, BumpVersion
    <3>2. QED
      BY <2>1, <2>3, <3>1 DEF InstallScripts, BumpVersion, DefnInv, VersionTruthful,
         FreshOnReturn, Valid, TypeOK
  <2>4. QED
    BY <1>4, <2>2, <2>3 DEF Update
<1>5. CASE UNCHANGED vars
  BY <1>5 DEF vars, slotVars, defnVars, DefnInv, VersionTruthful, FreshOnReturn, Valid
<1>6. QED
  BY <1>1, <1>2, <1>3, <1>4, <1>5 DEF Next

-----------------------------------------------------------------------------
LEMMA InitIInv == Init => IInv
<1> SUFFICES ASSUME Init PROVE IInv
  OBVIOUS
<1>1. TypeOK
  BY InitType
<1>2. LockInv
  BY NoRefAssumption DEF Init, LockInv, InFreeList, Writing
<1>3. IdxInv
  BY InitAllocAssumption DEF Init, IdxInv, Filled
<1>4. OwnInv /\ PlaceInv
  BY DEF Init, OwnInv, PlaceInv, Owning
<1>5. DefnInv
  BY DEF Init, DefnInv, VersionTruthful, FreshOnReturn
<1>6. QED
  BY <1>1, <1>2, <1>3, <1>4, <1>5 DEF IInv, ListInv

LEMMA NextIInv == IInv /\ [Next]_vars => IInv'
BY TypeStep, LockStep, IdxStep, OwnStep, PlaceStep, DefnStep DEF IInv, ListInv

(* The inductive invariant holds in every reachable state. *)
THEOREM Invariance == Spec => []IInv
BY InitIInv, NextIInv, PTL DEF Spec

(* Every variable of the Lua slot pool keeps its type. *)
THEOREM TypeCorrect == Spec => []TypeOK
<1>1. IInv => TypeOK
  BY DEF IInv
<1>2. QED
  BY <1>1, Invariance, PTL

(* No two requests ever share a Lua state, and none uses a free one.       *)
THEOREM ExclusiveOwnership == Spec => []Exclusive
<1>1. IInv => Exclusive
  <2> SUFFICES ASSUME IInv, NEW r \in Refs, slot[r] # NoSlot
               PROVE  /\ \A q \in Refs \ {r} : slot[q] # slot[r]
                      /\ slot[r] \notin FreeSlots
    BY DEF Exclusive
  <2>1. \A q \in Refs \ {r} : slot[q] # slot[r]
    BY DEF IInv, ListInv, OwnInv
  <2>2. \A i \in FreeIdxs : i \in 0 .. nalloc - 1
    BY DEF FreeIdxs, IInv, ListInv, IdxInv, TypeOK
  <2>3. \A i \in FreeIdxs : freeVec[i] # slot[r]
    BY <2>2 DEF IInv, ListInv, PlaceInv
  <2>4. QED
    BY <2>1, <2>3 DEF FreeSlots
<1>2. QED
  BY <1>1, Invariance, PTL

(* acquire() never hands out the null pointer, nor a slot never made.      *)
THEOREM NeverNullSlot == Spec => []NeverNull
<1>1. IInv => NeverNull
  BY DEF IInv, ListInv, OwnInv, NeverNull
<1>2. QED
  BY <1>1, Invariance, PTL

(* No element of the free vector is touched outside its allocation.        *)
THEOREM FreeVecBounds == Spec => []VecInBounds
<1>1. IInv => VecInBounds
  BY DEF IInv, ListInv, IdxInv, VecInBounds, TypeOK
<1>2. QED
  BY <1>1, Invariance, PTL

(* Slots do not leak: outside the free list's lock each slot is free once  *)
(* or owned.                                                               *)
THEOREM NoLeak == Spec => []NoSlotLost
<1>1. IInv => NoSlotLost
  <2> SUFFICES ASSUME IInv, slotMutex = NoRef
               PROVE  /\ made = FreeSlots \cup OwnedSlots
                      /\ \A i, j \in FreeIdxs : freeVec[i] = freeVec[j] => i = j
    BY DEF NoSlotLost
  <2>1. \A r \in Refs : pc[r] \notin {"take", "put"}
    BY NoRefAssumption DEF IInv, LockInv, InFreeList
  <2>2. Filled = numFree
    BY <2>1 DEF Filled
  <2>3. \A i \in 0 .. nalloc - 1 : freeVec[i] # NoSlot <=> i \in FreeIdxs
    BY <2>2 DEF IInv, ListInv, IdxInv, FreeIdxs, TypeOK
  <2>4. \A i \in FreeIdxs : i \in 0 .. nalloc - 1
    BY DEF FreeIdxs, IInv, ListInv, IdxInv, TypeOK
  <2>5. \A s \in made : s \in FreeSlots \/ s \in OwnedSlots
    <3>1. \A s \in made : s # NoSlot
      BY NoSlotAssumption DEF IInv, TypeOK
    <3>2. QED
      BY <2>3, <3>1 DEF IInv, ListInv, PlaceInv, FreeSlots, OwnedSlots
  <2>6. FreeSlots \subseteq made
    BY <2>3, <2>4 DEF IInv, ListInv, PlaceInv, FreeSlots
  <2>7. OwnedSlots \subseteq made
    BY DEF IInv, ListInv, OwnInv, OwnedSlots
  <2>8. \A i, j \in FreeIdxs : freeVec[i] = freeVec[j] => i = j
    BY <2>3, <2>4 DEF IInv, ListInv, PlaceInv
  <2>9. QED
    BY <2>5, <2>6, <2>7, <2>8
<1>2. QED
  BY <1>1, Invariance, PTL

(* The vector's destructor deletes each free slot once, and nothing else:   *)
(* above the count of free slots the vector holds null pointers.           *)
THEOREM DestroyedOnceHolds == Spec => []DestroyedOnce
<1>1. IInv => DestroyedOnce
  <2> SUFFICES ASSUME IInv, slotMutex = NoRef
               PROVE  /\ FreeIdxs \subseteq 0 .. nelts - 1
                      /\ \A i \in numFree .. nelts - 1 : freeVec[i] = NoSlot
    BY DEF DestroyedOnce
  <2>1. \A r \in Refs : pc[r] \notin {"take", "put"}
    BY NoRefAssumption DEF IInv, LockInv, InFreeList
  <2>2. Filled = numFree
    BY <2>1 DEF Filled
  <2>3. FreeIdxs \subseteq 0 .. nelts - 1
    BY DEF FreeIdxs, IInv, ListInv, IdxInv, TypeOK
  <2>4. ASSUME NEW i \in numFree .. nelts - 1 PROVE freeVec[i] = NoSlot
    <3>1. i \in 0 .. nalloc - 1 /\ ~(i < numFree)
      BY DEF IInv, ListInv, IdxInv, TypeOK
    <3>2. QED
      BY <3>1, <2>2 DEF IInv, ListInv, IdxInv
  <2>5. QED
    BY <2>3, <2>4
<1>2. QED
  BY <1>1, Invariance, PTL

(* Allocations from the manager's pool never overlap.                      *)
THEOREM AllocationsExclusive == Spec => []AllocsExclusive
<1>1. IInv => AllocsExclusive
  BY DEF IInv, LockInv, InFreeList, AllocsExclusive
<1>2. QED
  BY <1>1, Invariance, PTL

(* A valid slot holds the definitions whose version it carries, and the    *)
(* one acquire() returns holds the version in force.                       *)
THEOREM LoadedDefinitions == Spec => [](VersionTruthful /\ FreshOnReturn)
<1>1. IInv => VersionTruthful /\ FreshOnReturn
  BY DEF IInv, DefnInv
<1>2. QED
  BY <1>1, Invariance, PTL

-----------------------------------------------------------------------------
(* A slot is made only when every slot made so far is owned. *)
LEMMA NewOnlyWhenAllOwned ==
  ASSUME IInv, NEW r \in Refs, pc[r] = "new"
  PROVE  /\ slot[r] = NoSlot
         /\ \A s \in made : \E q \in Refs : slot[q] = s
<1>1. \A q \in Refs : pc[q] \notin {"take", "put"}
  BY OneInList DEF InFreeList, IInv
<1>2. Filled = 0
  BY <1>1 DEF Filled, IInv, ListInv, IdxInv
<1>3. \A i \in 0 .. nalloc - 1 : freeVec[i] = NoSlot
  BY <1>2 DEF IInv, ListInv, IdxInv
<1>4. \A s \in made : s # NoSlot
  BY NoSlotAssumption DEF IInv, TypeOK
<1>5. slot[r] = NoSlot
  BY DEF IInv, ListInv, OwnInv, Owning
<1>6. QED
  BY <1>3, <1>4, <1>5 DEF IInv, ListInv, PlaceInv

(* So there are fewer slots then than there are LuaRefs. *)
LEMMA RoomForOne ==
  ASSUME IInv, NEW r \in Refs, pc[r] = "new"
  PROVE  /\ IsFiniteSet(made) /\ Cardinality(made) \in Nat /\ Cardinality(Refs) \in Nat
         /\ Cardinality(made) + 1 <= Cardinality(Refs)
<1> DEFINE Others == Refs \ {r}
           Theirs == {slot[q] : q \in Others}
<1>1. made \subseteq Theirs
  <2>1. \A t \in made : t # NoSlot
    BY NoSlotAssumption DEF IInv, TypeOK
  <2>2. QED
    BY <2>1, NewOnlyWhenAllOwned
<1>2. /\ IsFiniteSet(Others)
      /\ Cardinality(Others) = Cardinality(Refs) - 1
      /\ Cardinality(Refs) \in Nat
  BY FiniteAssumption, FS_RemoveElement, FS_CardinalityType
<1>3. IsFiniteSet(Theirs) /\ Cardinality(Theirs) <= Cardinality(Others)
  <2> DEFINE f == [q \in Others |-> slot[q]]
  <2>1. f \in Surjection(Others, Theirs)
    BY DEF Surjection
  <2> HIDE DEF f, Others, Theirs
  <2>2. QED
    BY <1>2, <2>1, FS_Surjection
<1>4. IsFiniteSet(made) /\ Cardinality(made) <= Cardinality(Theirs)
  BY <1>1, <1>3, FS_Subset
<1>5. /\ Cardinality(made) \in Nat /\ Cardinality(Theirs) \in Nat
      /\ Cardinality(Others) \in Nat
  BY <1>2, <1>3, <1>4, FS_CardinalityType
<1> HIDE DEF Others, Theirs
<1>6. QED
  BY <1>2, <1>3, <1>4, <1>5

(* The pool never holds more slots than there are LuaRefs. *)
LEMMA BoundStep == IInv /\ PoolBounded /\ [Next]_vars => PoolBounded'
<1> SUFFICES ASSUME IInv, PoolBounded, [Next]_vars PROVE PoolBounded'
  OBVIOUS
<1>1. CASE made' = made
  BY <1>1 DEF PoolBounded
<1>2. ASSUME NEW r \in Refs, NewSlot(r) PROVE PoolBounded'
  <2>1. PICK s \in Slots \ made : made' = made \cup {s}
    BY <1>2 DEF NewSlot
  <2>2. pc[r] = "new"
    BY <1>2 DEF NewSlot, Goto
  <2>3. /\ IsFiniteSet(made) /\ Cardinality(made) \in Nat /\ Cardinality(Refs) \in Nat
        /\ Cardinality(made) + 1 <= Cardinality(Refs)
    BY <2>2, RoomForOne
  <2>4. Cardinality(made') = Cardinality(made) + 1
    BY <2>1, <2>3, FS_AddElement
  <2>5. QED
    BY <2>3, <2>4 DEF PoolBounded
<1>3. made' = made \/ \E r \in Refs : NewSlot(r)
  BY DEF Next, Lock, Run, Update, Request, EndRequest, LockFreeList,
     LockForRelease, LockPool, ReadLock, TakeIdx, TakeSlot, UnlockPool,
     UnlockFreeList, KeepState, LoadState, StoreState, LoadFails, ReadUnlock,
     GrowFreeVec, PutSlot, WriteLock, InstallScripts, BumpVersion, WriteUnlock,
     vars, slotVars
<1>4. QED
  BY <1>1, <1>2, <1>3

(* The number of Lua states never exceeds the number of requests that can  *)
(* be served at once, however acquire() and release() interleave.          *)
THEOREM PoolSize == Spec => []PoolBounded
<1>1. Init => PoolBounded
  BY FS_EmptySet, FS_CardinalityType, FiniteAssumption DEF Init, PoolBounded
<1>2. QED
  BY <1>1, BoundStep, Invariance, PTL DEF Spec

-----------------------------------------------------------------------------
(* While a request uses its Lua state nobody else touches that state.      *)
THEOREM HeldStable == Spec => HeldStateStable
<1> DEFINE A == \A r \in Refs : pc[r] = "held" /\ pc'[r] = "held"
                  => slot'[r] = slot[r] /\ lua'[slot[r]] = lua[slot[r]]
<1>1. IInv /\ [Next]_vars => [A]_vars
  <2> SUFFICES ASSUME IInv, [Next]_vars, NEW r \in Refs, pc[r] = "held", pc'[r] = "held"
               PROVE  slot'[r] = slot[r] /\ lua'[slot[r]] = lua[slot[r]]
    OBVIOUS
  <2> USE DEF Goto, slotVars
  <2>1. slot[r] \in made /\ slot[r] \in Slots /\ \A q \in Refs : q # r => slot[q] # slot[r]
    BY DEF IInv, ListInv, OwnInv, Owning, TypeOK
  <2>2. ASSUME NEW q \in Refs, Request(q) \/ EndRequest(q) \/ Lock(q)
        PROVE  UNCHANGED <<slot, lua>>
    BY <2>2 DEF Request, EndRequest, Lock, LockFreeList, LockForRelease,
       LockPool, ReadLock
  <2>3. ASSUME NEW q \in Refs, Run(q)
        PROVE  slot'[r] = slot[r] /\ lua'[slot[r]] = lua[slot[r]]
    <3>1. CASE TakeSlot(q) \/ PutSlot(q)
      BY <3>1 DEF TakeSlot, PutSlot, IInv, TypeOK
    <3>2. CASE NewSlot(q)
      BY <2>1, <3>2 DEF NewSlot, IInv, TypeOK
    <3>3. CASE LoadState(q) \/ StoreState(q) \/ LoadFails(q)
      BY <2>1, <3>3 DEF LoadState, StoreState, LoadFails, IInv, TypeOK
    <3>4. CASE TakeIdx(q) \/ UnlockPool(q) \/ UnlockFreeList(q) \/ KeepState(q)
               \/ ReadUnlock(q) \/ GrowFreeVec(q)
      BY <3>4 DEF TakeIdx, UnlockPool, UnlockFreeList, KeepState, ReadUnlock, GrowFreeVec
    <3>5. QED
      BY <2>3, <3>1, <3>2, <3>3, <3>4 DEF Run
  <2>4. CASE Update \/ UNCHANGED vars
    BY <2>4 DEF Update, WriteLock, InstallScripts, BumpVersion, WriteUnlock, vars
  <2>5. QED
    BY <2>2, <2>3, <2>4 DEF Next
<1>2. QED
  BY <1>1, Invariance, PTL DEF Spec, HeldStateStable

(* LuaManager implements the abstract pool of exclusively owned slots: the *)
(* slot is taken where it leaves the vector or is made, and given back     *)
(* where it is written into the vector.                                    *)
THEOREM Refinement == Spec => ImplementsPool
<1>1. Init => Abstract!Init
  BY DEF Init, Abstract!Init
<1>2. IInv /\ [Next]_vars => [Abstract!Next]_<<made, slot>>
  <2> SUFFICES ASSUME IInv, [Next]_vars
               PROVE  Abstract!Next \/ UNCHANGED <<made, slot>>
    OBVIOUS
  <2> USE DEF Goto, slotVars
  <2>1. ASSUME NEW r \in Refs, TakeSlot(r) PROVE Abstract!Take(r)
    <3> DEFINE s == freeVec[idx[r]]
    <3>1. idx[r] \in 0 .. nalloc - 1 /\ s # NoSlot
      BY <2>1 DEF TakeSlot, IInv, ListInv, IdxInv, TypeOK, Filled
    <3>2. s \in made /\ \A q \in Refs : slot[q] # s
      BY <3>1 DEF IInv, ListInv, PlaceInv
    <3>3. slot[r] = NoSlot
      BY <2>1 DEF TakeSlot, IInv, ListInv, OwnInv, Owning
    <3>4. slot' = [slot EXCEPT ![r] = s] /\ UNCHANGED made
      BY <2>1 DEF TakeSlot
    <3> HIDE DEF s
    <3>5. QED
      BY <3>2, <3>3, <3>4 DEF Abstract!Take, Abstract!Unowned
  <2>2. ASSUME NEW r \in Refs, NewSlot(r) PROVE Abstract!Make(r)
    <3>1. slot[r] = NoSlot /\ \A s \in made : \E q \in Refs : slot[q] = s
      BY <2>2, NewOnlyWhenAllOwned DEF NewSlot
    <3>2. QED
      BY <2>2, <3>1 DEF NewSlot, Abstract!Make, Abstract!Unowned
  <2>3. ASSUME NEW r \in Refs, PutSlot(r) PROVE Abstract!Give(r)
    BY <2>3 DEF PutSlot, Abstract!Give, IInv, ListInv, OwnInv, Owning
  <2>4. ASSUME NEW r \in Refs,
               Request(r) \/ EndRequest(r) \/ Lock(r) \/ TakeIdx(r) \/ UnlockPool(r)
        PROVE  UNCHANGED <<made, slot>>
    BY <2>4 DEF Request, EndRequest, Lock, LockFreeList, LockForRelease,
       LockPool, ReadLock, TakeIdx, UnlockPool
  <2>5. ASSUME NEW r \in Refs,
               UnlockFreeList(r) \/ KeepState(r) \/ LoadState(r) \/ StoreState(r)
               \/ LoadFails(r) \/ ReadUnlock(r) \/ GrowFreeVec(r)
        PROVE  UNCHANGED <<made, slot>>
    BY <2>5 DEF UnlockFreeList, KeepState, LoadState, StoreState, LoadFails,
       ReadUnlock, GrowFreeVec
  <2>6. CASE Update \/ UNCHANGED vars
    BY <2>6 DEF Update, WriteLock, InstallScripts, BumpVersion, WriteUnlock, vars
  <2>7. QED
    BY <2>1, <2>2, <2>3, <2>4, <2>5, <2>6 DEF Next, Run, Abstract!Next
<1>3. QED
  BY <1>1, <1>2, Invariance, PTL DEF Spec, ImplementsPool, Abstract!Spec, Abstract!poolVars

-----------------------------------------------------------------------------
(* acquire() and release() hand out the slots as a pool should: one owner   *)
(* each, never null, none lost, and no more of them than LuaRefs.           *)
THEOREM SlotsConservedHolds == Spec => []SlotsConserved
BY ExclusiveOwnership, NeverNullSlot, NoLeak, PoolSize, PTL DEF SlotsConserved

(* The vector of free slots is touched inside its allocation, grown by one  *)
(* thread at a time, and ready for its destructor.                          *)
THEOREM FreeVecSoundHolds == Spec => []FreeVecSound
BY FreeVecBounds, DestroyedOnceHolds, AllocationsExclusive, PTL DEF FreeVecSound

(* A Lua state records the definitions it holds, and those in force were    *)
(* loaded into it before acquire() returns.                                 *)
THEOREM DefnsCurrentHolds == Spec => []DefnsCurrent
BY LoadedDefinitions, PTL DEF DefnsCurrent

-----------------------------------------------------------------------------
(* The locks.  acquire() takes poolMutex_ under luaSlotFreeVecMutex_, and   *)
(* waits for defnsLock_ under neither.                                      *)

(* What the next statement of a LuaRef waits for, if for anything, is there. *)
CanGoOn(r) ==
  /\ pc[r] \in {"acquire", "release"} => slotMutex = NoRef
  /\ pc[r] = "choose" => numFree # 0 \/ poolMutex = NoRef
  /\ pc[r] = "new" => Slots \ made # {}
  /\ pc[r] = "rdlock" => ~Writing

HoldersGoOn == \A r \in Refs : r \in {slotMutex, poolMutex} \cup readers => CanGoOn(r)

(* Nobody waits while others wait for him: whoever has the free list, the   *)
(* manager's pool or the definitions for reading can go on at once, so      *)
(* there is no circle of waiting threads, and poolMutex_, nested as it is,  *)
(* is never contended.  That slots do not run out is the bound on how many  *)
(* the model tells apart; the code allocates them.  (acquire, release)      *)
THEOREM NoCircularWait ==
  ASSUME Cardinality(Refs) <= Cardinality(Slots)
  PROVE  Spec => []HoldersGoOn
<1>1. IInv => HoldersGoOn
  <2> SUFFICES ASSUME IInv, NEW r \in Refs, r \in {slotMutex, poolMutex} \cup readers
               PROVE  CanGoOn(r)
    BY DEF HoldersGoOn
  <2>1. pc[r] \in InFreeList \cup {"check", "store", "rdunlock"}
    BY DEF IInv, LockInv, InFreeList
  <2>2. CASE pc[r] = "choose"
    <3>1. slotMutex = r
      BY <2>2 DEF IInv, LockInv, InFreeList
    <3>2. ASSUME NEW q \in Refs PROVE poolMutex # q
      <4> SUFFICES ASSUME poolMutex = q PROVE FALSE
        OBVIOUS
      <4>1. pc[q] \in {"new", "made"}
        BY DEF IInv, LockInv
      <4>2. slotMutex = q
        BY <4>1 DEF IInv, LockInv, InFreeList
      <4>3. QED
        BY <2>2, <3>1, <4>1, <4>2
    <3>3. poolMutex = NoRef
      BY <3>2 DEF IInv, TypeOK
    <3>4. QED
      BY <2>2, <3>3 DEF CanGoOn
  <2>3. CASE pc[r] = "new"
    <3>1. /\ IsFiniteSet(made) /\ Cardinality(made) \in Nat /\ Cardinality(Refs) \in Nat
          /\ Cardinality(made) + 1 <= Cardinality(Refs)
      BY <2>3, RoomForOne
    <3>2. Cardinality(Slots) \in Nat
      BY FiniteAssumption, FS_CardinalityType
    <3>3. made # Slots
      BY <3>1, <3>2
    <3>4. made \subseteq Slots
      BY DEF IInv, TypeOK
    <3>5. QED
      BY <2>3, <3>3, <3>4 DEF CanGoOn
  <2>4. CASE pc[r] \notin {"choose", "new"}
    BY <2>1, <2>4 DEF CanGoOn, InFreeList
  <2>5. QED
    BY <2>2, <2>3, <2>4
<1>2. QED
  BY <1>1, Invariance, PTL

=============================================================================
