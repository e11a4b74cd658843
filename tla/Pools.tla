-------------------------------- MODULE Pools ---------------------------------
(***************************************************************************)
(* Objects in APR pools: PoolAllocated, the containers that own what they  *)
(* point to, and the order in which a pool's end destroys all of it.       *)
(*                                                                         *)
(* A PoolAllocated object lives in the pool given to new, or in a pool of  *)
(* its own below that one (UseSubPools).  Its destructor runs when it is   *)
(* deleted by hand, when the container that owns it is destroyed, or, if   *)
(* it called destroyWithPool(), when its pool goes.  These three ways      *)
(* meet: a pool's cleanup deletes an object whose destructor unregisters   *)
(* the cleanup, deletes other objects, and destroys other pools.           *)
(*                                                                         *)
(* work is the C++ call stack of such a destruction: what is still to be   *)
(* called, the next call first.  apr_pool_destroy() is APR's: it runs the  *)
(* pre-cleanups, the latest first, then destroys the pools below, the      *)
(* latest first, and then returns the memory.                              *)
(***************************************************************************)
EXTENDS Integers, FiniteSets, SequencesExt

Kinds == {"plain", "PtrVec", "SmplPtrMap", "StrPtrMap", "StrVec", "TmpPool"}
Owners == {"PtrVec", "SmplPtrMap", "StrPtrMap"}

CONSTANTS
  None,      \* no pool, object or record
  NewArgs,   \* kinds and usages of the objects that are only made,
  RegArgs,   \* of those then registered with their pool,
  ElemArgs,  \* and of those put into a container
  MaxObjs,   \* bounds on the objects that are there at a time,
  MaxRecs,   \* on the records of Apache, which may bring pools,
  MaxStrs    \* and on the strings of one vector

ASSUME ArgsAssumption ==
  /\ NewArgs \subseteq Kinds \X BOOLEAN
  /\ RegArgs \subseteq Kinds \X BOOLEAN
  /\ ElemArgs \subseteq Kinds \X BOOLEAN

ASSUME BoundsAssumption == MaxObjs \in Nat /\ MaxRecs \in Nat \ {0} /\ MaxStrs \in Nat

VARIABLES
  pools,  \* the pools
  objs,   \* the PoolAllocated objects that are not deleted
  work    \* the calls of the destruction under way

poolVars == <<pools, objs, work>>

Objs == 1 .. MaxObjs
Recs == 1 .. MaxRecs

(* A pool is named after what it is made for: the configuration, a record, *)
(* an object, or the users of a TmpPool.                                   *)
pconf == <<"conf", 0>>
recordPool(i) == <<"record", i>>
subPool(o) == <<"object", o>>
tmpPool(o) == <<"TmpPool", o>>

Pools == {pconf} \cup ({"record"} \X Recs) \cup ({"object", "TmpPool"} \X Objs)

PoolTypes ==
  [above : SUBSET Pools,    \* the pool and those it is below of
   cleanups : Seq(Objs),    \* pre-cleanups, all PoolAllocatedCleanup
   child : Seq(Pools)]

ObjTypes ==
  [kind : Kinds,
   pool : Pools,                     \* the pool given to operator new
   objPool : Pools,                  \* the pool the object and its data are in
   usage : BOOLEAN,                  \* UseSubPools
   destroyerPool : Pools \cup {None},
   tmp : Pools \cup {None},          \* the pool of a TmpPool
   elems : Seq(Objs),                \* what it owns
   strs : Seq(Pools),                \* its strings, each by the pool it is in
   managed : BOOLEAN,                \* something will delete it
   dtors : 0 .. 2]                   \* how often its destructor began, up to two

(* Nothing that is there is None.                                          *)
ASSUME NoneAssumption == None \notin PoolTypes \cup ObjTypes \cup Pools \cup Objs \cup Recs

Calls == ({"delete", "~PoolAllocated", "clear"} \X Objs) \cup ({"apr_pool_destroy"} \X Pools)

-----------------------------------------------------------------------------
(* APR's pools.                                                            *)

Live(p) == pools[p] # None

Unused(f) == {i \in DOMAIN f : f[i] = None}
Fresh(f) == CHOOSE i \in Unused(f) : \A j \in Unused(f) : i <= j

NewPool(above) == [above |-> above, cleanups |-> <<>>, child |-> <<>>]

apr_pool_create(ps, p, parent) ==
  [ps EXCEPT ![p] = NewPool({p} \cup ps[parent].above),
             ![parent].child = <<p>> \o @]

apr_pool_pre_cleanup_register(ps, p, o) == [ps EXCEPT ![p].cleanups = <<o>> \o @]

(* s without the first x in it, if there is one.                            *)
FirstPlace(s, x) == CHOOSE i \in DOMAIN s : s[i] = x /\ \A j \in 1 .. i - 1 : s[j] # x

Unlink(s, x) == IF Contains(s, x) THEN RemoveAt(s, FirstPlace(s, x)) ELSE s

apr_pool_cleanup_kill(ps, p, o) == [ps EXCEPT ![p].cleanups = Unlink(@, o)]

-----------------------------------------------------------------------------
(* Making objects.                                                         *)

Exists(o) == objs[o] # None

Owned(o) == \E c \in Objs : Exists(c) /\ Contains(objs[c].elems, o)

(* The pool object o gets from operator new, and the pools after it.  A    *)
(* TmpPool makes one more for its users.                                   *)
objPool(o, p, u) == IF u THEN subPool(o) ELSE p

SubPool(o, p, u) == IF u THEN apr_pool_create(pools, subPool(o), p) ELSE pools

PoolsOfNew(o, k, p, u) ==
  IF k = "TmpPool" THEN apr_pool_create(SubPool(o, p, u), tmpPool(o), objPool(o, p, u))
  ELSE SubPool(o, p, u)

operator_new(o, k, p, u) ==
  [kind |-> k,
   pool |-> p,
   objPool |-> objPool(o, p, u),
   usage |-> u,
   destroyerPool |-> None,
   tmp |-> IF k = "TmpPool" THEN tmpPool(o) ELSE None,
   elems |-> <<>>,
   strs |-> <<>>,
   managed |-> FALSE,
   dtors |-> 0]

Idle == work = <<>>

(* new T(0) can be called for a live pool.                                 *)
CanMake(p) == Idle /\ Live(p) /\ Unused(objs) # {}

(* new T(0), for somebody who will delete it or does not care.             *)
New(k, p, u) ==
  /\ CanMake(p)
  /\ LET o == Fresh(objs)
     IN /\ pools' = PoolsOfNew(o, k, p, u)
        /\ objs' = [objs EXCEPT ![o] = operator_new(o, k, p, u)]
  /\ UNCHANGED work

(* new T(0) and then its destroyWithPool(): the code registers an object   *)
(* right after making it, and with its own pool().                         *)
destroyWithPool(obj) == [obj EXCEPT !.destroyerPool = obj.objPool, !.managed = TRUE]

NewRegistered(k, p, u) ==
  /\ CanMake(p)
  /\ LET o == Fresh(objs)
     IN /\ pools' = apr_pool_pre_cleanup_register(PoolsOfNew(o, k, p, u), objPool(o, p, u), o)
        /\ objs' = [objs EXCEPT ![o] = destroyWithPool(operator_new(o, k, p, u))]
  /\ UNCHANGED work

(* Storing a new object in a container, as in                              *)
(* map->insert(name, new (map->pool()) T(0)): it comes from the            *)
(* container's pool, or, without a pool of its own, from the one the       *)
(* container was made in.  The keys that a map copies go with its pool;    *)
(* the code inserts a key once, as the value it had would never be deleted.*)
push_back(c, o) == [objs EXCEPT ![c].elems = Append(@, o)]
insert(c, o) == [objs EXCEPT ![c].elems = <<o>> \o @]

NewElement(c, k, p, u) ==
  /\ CanMake(p)
  /\ Exists(c)
  /\ objs[c].kind \in Owners
  /\ \/ p = objs[c].objPool
     \/ p = objs[c].pool /\ k = "plain" /\ ~u
  /\ LET o == Fresh(objs)
         stored == IF objs[c].kind = "PtrVec" THEN push_back(c, o) ELSE insert(c, o)
     IN /\ pools' = PoolsOfNew(o, k, p, u)
        /\ objs' = [stored EXCEPT
                      ![o] = [operator_new(o, k, p, u) EXCEPT !.managed = objs[c].managed]]
  /\ UNCHANGED work

(* A string is copied into the vector's pool.                              *)
StrVec_push_back(o) ==
  /\ Idle
  /\ Exists(o)
  /\ objs[o].kind = "StrVec"
  /\ Len(objs[o].strs) < MaxStrs
  /\ objs' = [objs EXCEPT ![o].strs = Append(@, objs[o].objPool)]
  /\ UNCHANGED <<pools, work>>

(* new StrVec(0, from): the strings are not copied.  The code copies from  *)
(* a vector in the pool of the new one or in one above.                    *)
StrVec_copy(from, p, u) ==
  /\ CanMake(p)
  /\ Exists(from)
  /\ objs[from].kind = "StrVec"
  /\ objs[from].objPool \in pools[p].above
  /\ LET o == Fresh(objs)
     IN /\ pools' = PoolsOfNew(o, "StrVec", p, u)
        /\ objs' = [objs EXCEPT ![o] =
                      [operator_new(o, "StrVec", p, u) EXCEPT !.strs = objs[from].strs]]
  /\ UNCHANGED work

(* delete of an object that no container owns.                             *)
DeleteByHand(o) ==
  /\ Idle
  /\ Exists(o)
  /\ ~Owned(o)
  /\ work' = <<<<"delete", o>>>>
  /\ UNCHANGED <<pools, objs>>

-----------------------------------------------------------------------------
(* A destruction.                                                          *)

Call(name, x) == <<<<name, x>>>>

DeleteAll(s) == [i \in DOMAIN s |-> <<"delete", s[i]>>]

(* A PtrVec and a SmplPtrMap delete all they point to; a StrPtrMap takes   *)
(* its entries out one by one.                                             *)
PtrVec_dtor(o) == DeleteAll(objs[o].elems)
SmplPtrMap_dtor(o) == DeleteAll(objs[o].elems)
StrPtrMap_dtor(o) == Call("clear", o)
TmpPool_dtor(o) == Call("apr_pool_destroy", objs[o].tmp)

Destructor(o) ==
  CASE objs[o].kind = "PtrVec" -> PtrVec_dtor(o)
    [] objs[o].kind = "SmplPtrMap" -> SmplPtrMap_dtor(o)
    [] objs[o].kind = "StrPtrMap" -> StrPtrMap_dtor(o)
    [] objs[o].kind = "TmpPool" -> TmpPool_dtor(o)
    [] OTHER -> <<>>

(* operator delete destroys the object's own pool.                         *)
operator_delete(o) ==
  IF objs[o].usage THEN Call("apr_pool_destroy", objs[o].objPool) ELSE <<>>

(* Bug: deleting a registered object begins with its pool, whose cleanup   *)
(* deletes it.                                                             *)
DeletePoolFirst(o, rest) ==
  /\ objs' = [objs EXCEPT ![o].dtors = IF @ = 2 THEN 2 ELSE @ + 1]
  /\ work' = (IF objs[o].destroyerPool = None THEN <<>> ELSE operator_delete(o))
               \o Destructor(o) \o Call("~PoolAllocated", o) \o rest
  /\ UNCHANGED pools

(* A delete expression begins with the destructor of the class.            *)
Delete(o, rest) ==
  /\ objs' = [objs EXCEPT ![o].dtors = IF @ = 2 THEN 2 ELSE @ + 1]
  /\ work' = Destructor(o) \o Call("~PoolAllocated", o) \o rest
  /\ UNCHANGED pools

(* Bug: only an object with a pool of its own is unregistered.             *)
UnregisterSubPools(o) ==
  IF objs[o].destroyerPool # subPool(o) THEN pools
  ELSE apr_pool_cleanup_kill(pools, subPool(o), o)

(* ~PoolAllocated(), that is destroyWithPool(0), and then operator delete. *)
Unregister(o) ==
  IF objs[o].destroyerPool = None THEN pools
  ELSE apr_pool_cleanup_kill(pools, objs[o].destroyerPool, o)

PoolAllocatedDtor(o, rest) ==
  /\ pools' = Unregister(o)
  /\ objs' = [objs EXCEPT ![o] = None]
  /\ work' = operator_delete(o) \o rest

(* One turn of the loop of StrPtrMap::clear(), in the hash's order.        *)
clear(o, rest) ==
  /\ IF objs[o].elems = <<>>
     THEN work' = rest /\ UNCHANGED objs
     ELSE \E i \in DOMAIN objs[o].elems :
            /\ objs' = [objs EXCEPT ![o].elems = RemoveAt(@, i)]
            /\ work' = Call("delete", objs[o].elems[i]) \o Call("clear", o) \o rest
  /\ UNCHANGED pools

(* PoolAllocatedCleanup(): the pool goes anyway, so operator delete must   *)
(* not destroy it.                                                         *)
PoolAllocatedCleanup(o) == [objs EXCEPT ![o].usage = FALSE]

(* One turn of apr_pool_destroy(): APR unlinks a cleanup before it calls   *)
(* it.  At the end the memory goes, with the objects in it.                *)
RunCleanup(p, rest) ==
  LET o == Head(pools[p].cleanups)
  IN /\ pools' = [pools EXCEPT ![p].cleanups = Tail(@)]
     /\ objs' = PoolAllocatedCleanup(o)
     /\ work' = Call("delete", o) \o Call("apr_pool_destroy", p) \o rest

DestroyChild(p, rest) ==
  /\ work' = Call("apr_pool_destroy", Head(pools[p].child)) \o Call("apr_pool_destroy", p) \o rest
  /\ UNCHANGED <<pools, objs>>

Free(p, rest) ==
  /\ pools' = [q \in Pools |->
                 IF q = p THEN None
                 ELSE IF ~Live(q) THEN None
                 ELSE [pools[q] EXCEPT !.child = Unlink(@, p)]]
  /\ objs' = [o \in Objs |-> IF Exists(o) /\ objs[o].objPool = p THEN None ELSE objs[o]]
  /\ work' = rest

apr_pool_destroy(p, rest) ==
  IF pools[p].cleanups # <<>> THEN RunCleanup(p, rest)
  ELSE IF pools[p].child # <<>> THEN DestroyChild(p, rest)
  ELSE Free(p, rest)

(* The next call is about to return the memory of its pool.                *)
Frees ==
  /\ ~Idle
  /\ Head(work)[1] = "apr_pool_destroy"
  /\ pools[Head(work)[2]].cleanups = <<>>
  /\ pools[Head(work)[2]].child = <<>>

Step ==
  /\ ~Idle
  /\ LET x == Head(work)[2]
         rest == Tail(work)
     IN \/ Head(work)[1] = "delete" /\ Delete(x, rest)
        \/ Head(work)[1] = "~PoolAllocated" /\ PoolAllocatedDtor(x, rest)
        \/ Head(work)[1] = "clear" /\ clear(x, rest)
        \/ Head(work)[1] = "apr_pool_destroy" /\ apr_pool_destroy(x, rest)

-----------------------------------------------------------------------------
(* The configuration pool is there first.                                  *)
InitPools ==
  /\ pools = [p \in Pools |-> IF p = pconf THEN NewPool({pconf}) ELSE None]
  /\ objs = [o \in Objs |-> None]
  /\ work = <<>>

MakeObject ==
  \/ \E a \in NewArgs, p \in Pools : New(a[1], p, a[2])
  \/ \E a \in RegArgs, p \in Pools : NewRegistered(a[1], p, a[2])
  \/ \E a \in ElemArgs, p \in Pools, c \in Objs : NewElement(c, a[1], p, a[2])
  \/ \E o \in Objs : StrVec_push_back(o)
  \/ \E from \in Objs, p \in Pools : StrVec_copy(from, p, TRUE)

=============================================================================
