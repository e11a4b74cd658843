------------------------------ MODULE Lifetimes -------------------------------
(***************************************************************************)
(* What lives how long: the program's objects (Pools.tla) and the records  *)
(* scripts write to (LuaRecords.tla) share the pools.  A configuration     *)
(* pool holds what a restart replaces; below it a connection's pool, a     *)
(* request's, a subrequest's, and the pools objects make for themselves.   *)
(* One thread at a time uses a pool, so that the steps of a destruction    *)
(* and the turns of a loop are not interleaved with anything.              *)
(*                                                                         *)
(* Numbers of objects and records are used again, so that histories of any *)
(* length are covered; only what is there at a time is bounded.            *)
(***************************************************************************)
EXTENDS LuaRecords

CONSTANTS
  MaxLoad,     \* bound on objects and their strings, records, tables with entries
               \* and fields set to nil, together,
  MaxItems     \* and on the items of one table

ASSUME LoadAssumption == MaxLoad \in Nat /\ MaxItems \in Nat

vars == <<pools, objs, work, recs, walk>>

Init == InitPools /\ InitRecords

(* The bound.                                                              *)
Sum(S, f(_)) == FoldSet(LAMBDA x, n : f(x) + n, 0, S)

LoadOfObj(o) == 1 + Len(objs[o].strs)
NilFields(i) == {f \in Members(recs[i].type) \cap Written : f # "main" /\ recs[i].val[f] = None}
LoadOfRec(i) ==
  (IF recs[i].type = "server_rec" THEN 0 ELSE 1)
    + (IF recs[i].table = <<>> THEN 0 ELSE 1)
    + Cardinality(NilFields(i))

ItemsOf(t) == FoldLeft(LAMBDA n, e : n + Len(e.val), 0, t)

Load ==
  Sum({o \in Objs : Exists(o)}, LoadOfObj) + Sum({i \in Recs : There(i)}, LoadOfRec)

Destroy == Step /\ RecordsGo /\ UNCHANGED walk

Next ==
  \/ Quiet /\ UNCHANGED recVars /\ MakeObject /\ Load' <= MaxLoad
  \/ Quiet /\ UNCHANGED recVars /\ \E o \in Objs : DeleteByHand(o)
  \/ \E p \in {pconf} \cup {recs[i].pool : i \in {j \in Recs : There(j)}} : End(p)
  \/ Destroy
  \/ /\ \/ Accept
        \/ \E c \in LiveOf("conn_rec") : ReadRequest(c)
        \/ \E r \in LiveOf("request_rec") : Subrequest(r) \/ Redirect(r)
        \/ \E b \in {i \in Recs : There(i)} : ChangeField(b) \/ ChangeTable(b)
     /\ Load' <= MaxLoad
     /\ \A i \in Recs : recs'[i] # None => ItemsOf(recs'[i].table) <= MaxItems
  \/ \E b \in {i \in Recs : There(i)} : OutermostRequest(b)
  \/ OutermostStep

(* A call that has begun goes on.                                          *)
Spec == Init /\ [][Next]_vars /\ WF_vars(Destroy) /\ WF_vars(OutermostStep)

-----------------------------------------------------------------------------
RecTypes(i) ==
  /\ recs[i].type \in Types
  /\ recs[i].pool \in Pools
  /\ recs[i].table \in TableTypes
  /\ DOMAIN recs[i].val = Members(recs[i].type)
  /\ \A f \in DOMAIN recs[i].val :
       LET handler == FieldHandlers[recs[i].type][f]
       IN recs[i].val[f] \in {None} \cup IF handler = "CharPtr" THEN Pools
                                        ELSE LiveOf(PtrTypes[handler])

(* Every variable has its type; a pointer field leads to a live record of  *)
(* the member's type.                                                      *)
TypeOK ==
  /\ pools \in [Pools -> PoolTypes \cup {None}]
  /\ objs \in [Objs -> ObjTypes \cup {None}]
  /\ work \in Seq(Calls)
  /\ DOMAIN recs = Recs
  /\ \A i \in Recs : There(i) => RecTypes(i)
  /\ walk \in Recs \cup {None}

(* The next call of a destruction finds its object not yet deleted, and    *)
(* the memory it is in, or the pool it destroys, still there: nothing is   *)
(* deleted twice or used after it was freed, in whatever order pools,      *)
(* cleanups and containers come to delete things.                          *)
NoUseAfterFree ==
  ~Idle =>
    LET x == Head(work)[2]
    IN IF Head(work)[1] = "apr_pool_destroy" THEN Live(x)
       ELSE Exists(x) /\ Live(objs[x].objPool)

(* A destructor does not begin again while it runs: it does not, through   *)
(* the pools and containers it destroys, come back to its own object.      *)
DestructedOnce == \A o \in Objs : Exists(o) => objs[o].dtors <= 1

(* The memory of an object that is registered with its pool, or owned by   *)
(* one that is, goes only after its destructor ran: no Lua state stays     *)
(* open and no LuaSlot acquired.                                           *)
NoDestructorMissed ==
  Frees => ~ \E o \in Objs : Exists(o) /\ objs[o].objPool = Head(work)[2] /\ objs[o].managed

(* Between destructions, the cleanups of a live pool are those of the      *)
(* objects registered with it that exist, each once.                       *)
CleanupsExact ==
  Idle =>
    \A p \in Pools :
      Live(p) =>
        /\ IsInjective(pools[p].cleanups)
        /\ ToSet(pools[p].cleanups) = {o \in Objs : Exists(o) /\ objs[o].destroyerPool = p}

(* Between destructions, every pool but the configuration's and those of   *)
(* records is some object's own, or a TmpPool's: the pools of objects that *)
(* are deleted go with them, and updating the definitions, or reading 200  *)
(* more rules, does not let the parent's memory grow.                      *)
NoPoolLeft ==
  Idle =>
    \A p \in Pools \ {pconf} :
      Live(p) =>
        \/ \E i \in Recs : There(i) /\ recs[i].pool = p
        \/ \E o \in Objs : Exists(o) /\ ((objs[o].usage /\ objs[o].objPool = p) \/ objs[o].tmp = p)

(* Every string of a vector or a record is in live memory: what a script   *)
(* of a request stores in its connection, or a subrequest's in the main    *)
(* request, is there after that request is gone.                           *)
StringsLive ==
  /\ \A o \in Objs : Exists(o) => \A i \in DOMAIN objs[o].strs : Live(objs[o].strs[i])
  /\ \A i \in Recs : There(i) =>
       \A f \in DOMAIN recs[i].val :
         FieldHandlers[recs[i].type][f] = "CharPtr" /\ recs[i].val[f] # None
           => Live(recs[i].val[f])

(* Whatever deletes an object, it is destructed once and in time ...       *)
DeletedOnce == NoUseAfterFree /\ DestructedOnce /\ NoDestructorMissed

(* ... and no cleanup and no pool is left of it.                           *)
NothingLeft == CleanupsExact /\ NoPoolLeft

(* A destruction that has begun ends.                                      *)
DestroyEnds == ~Idle ~> Idle

(* outermost_request() returns or gives up, unless scripts have made two   *)
(* or more requests one another's main request.                            *)
Chain(r) ==
  LET chain[n \in 0 .. MaxRecs] ==
        IF n = 0 THEN {r} ELSE chain[n - 1] \cup ({main(j) : j \in chain[n - 1]} \ {None})
  IN chain[MaxRecs]

InLoop(r) == \A j \in Chain(r) : main(j) \notin {None, j}

OutermostEnds == walk # None ~> (walk = None \/ InLoop(walk))

(* Neither the recursion through pools, cleanups and containers nor the     *)
(* one through main requests goes on for ever.                              *)
CallsEnd == DestroyEnds /\ OutermostEnds

LiveTables == {recs[i].table : i \in {j \in Recs : There(j)}}

(* A script that goes through keys(), which are all different, and the     *)
(* raw_mget() of each sees every entry of the table, and each once if no   *)
(* two keys differ in case only.                                           *)
KeysReachEntries ==
  \A t \in LiveTables :
    LET ks == tableKeys(t)
        found == FlattenSeq([i \in DOMAIN ks |-> tableRawMget(t, ks[i])])
    IN /\ IsInjective(ks)
       /\ \A e \in ToSet(t) : Contains(ks, e.key) /\ Contains(tableRawMget(t, e.key), e.val)
       /\ IsInjective([i \in DOMAIN ks |-> CaseOf[ks[i]]]) => Len(found) = tableLen(t)

(* mget() does not tell how the values of a key are spread over entries:   *)
(* compress(), which joins them with ", ", changes nothing for it, unless  *)
(* a value ends in a comma.                                                *)
MgetIgnoresJoins ==
  \A t \in LiveTables :
    (\A e \in ToSet(t) : Scanned(e.val) = e.val) =>
      \A k \in Keys : tableMget(tableCompress(t), k) = tableMget(t, k)

(* get() is the first item of mget(), but for the blanks before it.        *)
GetIsFirst ==
  \A t \in LiveTables, k \in Keys :
    [i \in DOMAIN tableGet(t, k) |-> Cooked(tableGet(t, k)[i])]
      = SubSeq(tableMget(t, k), 1, IF Has(t, k) THEN 1 ELSE 0)

(* The calls that read an apr_table_t agree with each other: a script may   *)
(* take a value by get(), mget() or raw_mget(), and after compress().       *)
TableReadsAgree == KeysReachEntries /\ MgetIgnoresJoins /\ GetIsFirst

=============================================================================
