------------------------------ MODULE LuaRecords ------------------------------
(***************************************************************************)
(* Apache's records as Lua scripts see them, in the pools of Pools.tla.    *)
(*                                                                         *)
(* A script runs for a request and reads and writes fields of its          *)
(* request_rec, and through pointer fields those of other requests, of the *)
(* connection, of its address and of the server.  These records end at     *)
(* different times, each with its pool, so it matters where a string that  *)
(* a script stores is put.  One field stands for those of its type; the    *)
(* numbers have no part in this and are left out.                          *)
(***************************************************************************)
EXTENDS Pools, LuaTable

CONSTANTS
  Values,      \* what scripts put into tables
  Written      \* the fields they write

ASSUME RecordsAssumption == Values \subseteq Texts

VARIABLES
  recs,   \* the records
  walk    \* where the loop of outermost_request() is, or None

recVars == <<recs, walk>>

TheServer == 1

Types == {"request_rec", "conn_rec", "server_rec", "apr_sockaddr_t"}

(* How Lua gets at a field: a MemberFieldHandler with the type of the      *)
(* member, or a method.  A key with no handler is an error.                *)
RequestFields ==
  [uri |-> "CharPtr", main |-> "RequestRec", connection |-> "ConnRec",
   server |-> "ServerRec", notes |-> "Table", outermost_request |-> "Func"]
ConnFields ==
  [remote_host |-> "CharPtr", client_addr |-> "SockAddr", notes |-> "Table"]
ServerFields == [server_hostname |-> "CharPtr", next |-> "ServerRec"]
SockAddrFields == [hostname |-> "CharPtr", next |-> "SockAddr"]

FieldHandlers ==
  [request_rec |-> RequestFields, conn_rec |-> ConnFields,
   server_rec |-> ServerFields, apr_sockaddr_t |-> SockAddrFields]

(* The type checkPtr() asks for, by the registry name of the metatable.    *)
PtrTypes ==
  [RequestRec |-> "request_rec", ConnRec |-> "conn_rec",
   ServerRec |-> "server_rec", SockAddr |-> "apr_sockaddr_t"]

hasPool(type) == type # "server_rec"

Members(type) ==
  {f \in DOMAIN FieldHandlers[type] : FieldHandlers[type][f] \notin {"Func", "Table"}}

TableTypes == Seq([key : Keys, val : Texts])

RecordTypes ==
  [type : Types,
   pool : Pools,
   table : TableTypes,
   val : UNION {[Members(type) -> Pools \cup Recs \cup {None}] : type \in Types}]

(* A record that is there is not None.                                     *)
ASSUME NoRecordAssumption == None \notin RecordTypes

(* A string field is the pool the string is in, a pointer field a record.  *)
(* The notes of a request and of a connection are in the record.           *)
Record(type, p, vals) ==
  [type |-> type, pool |-> p, table |-> <<>>,
   val |-> [f \in Members(type) |-> IF f \in DOMAIN vals THEN vals[f] ELSE None]]

There(i) == recs[i] # None

main(i) == recs[i].val["main"]

-----------------------------------------------------------------------------
(* Apache's side: connections, requests, subrequests and internal          *)
(* redirects.  A redirect has the pool of the request it comes from.       *)

Quiet == Idle /\ walk = None

LiveOf(type) == {i \in Recs : There(i) /\ recs[i].type = type}

InNewPool(p, parent) ==
  /\ pools' = apr_pool_create(pools, p, parent)
  /\ UNCHANGED <<objs, work, walk>>

AddRecord(rs, rec) == [rs EXCEPT ![Fresh(rs)] = rec]

Accept ==
  /\ Quiet
  /\ Live(pconf)
  /\ LiveOf("conn_rec") = {}
  /\ Cardinality(Unused(recs)) >= 2
  /\ LET a == Fresh(recs)
         p == recordPool(a)
     IN /\ InNewPool(p, pconf)
        /\ recs' = AddRecord(AddRecord(recs, Record("apr_sockaddr_t", p, [hostname |-> p])),
                             Record("conn_rec", p, [remote_host |-> p, client_addr |-> a]))

ConnOf(p) == CHOOSE c \in LiveOf("conn_rec") : recs[c].pool \in pools[p].above

AddRequest(p, c, m) ==
  recs' = AddRecord(recs,
            Record("request_rec", p,
                   [uri |-> p, connection |-> c, server |-> TheServer, main |-> m]))

(* A request in a pool of its own below another.                           *)
InOwnPool(parent, c, m) ==
  /\ Quiet
  /\ Unused(recs) # {}
  /\ LET p == recordPool(Fresh(recs)) IN InNewPool(p, parent) /\ AddRequest(p, c, m)

ReadRequest(c) == LiveOf("request_rec") = {} /\ InOwnPool(recs[c].pool, c, None)

Subrequest(r) == InOwnPool(recs[r].pool, ConnOf(recs[r].pool), r)

Redirect(r) ==
  /\ Quiet
  /\ Unused(recs) # {}
  /\ AddRequest(recs[r].pool, ConnOf(recs[r].pool), main(r))
  /\ UNCHANGED <<pools, objs, work, walk>>

(* The end of a request, of a connection, or of the configuration.         *)
End(p) ==
  /\ Quiet
  /\ Live(p)
  /\ work' = Call("apr_pool_destroy", p)
  /\ UNCHANGED <<pools, objs, recs, walk>>

-----------------------------------------------------------------------------
(* A script.                                                               *)

(* What a script gets from the pointer fields of a record, by the __index  *)
(* of its type, and so the records that a script for a request can reach.  *)
get(i, f) == recs[i].val[f]

PointerFields(i) ==
  {f \in DOMAIN recs[i].val : FieldHandlers[recs[i].type][f] # "CharPtr"}

Index(i, type) ==
  IF recs[i].type # type THEN {}
  ELSE {get(i, f) : f \in PointerFields(i)} \ {None}

requestIndex(i) == Index(i, "request_rec")
connIndex(i) == Index(i, "conn_rec")
serverIndex(i) == Index(i, "server_rec")
sockAddrIndex(i) == Index(i, "apr_sockaddr_t")

Near(i) == requestIndex(i) \cup connIndex(i) \cup serverIndex(i) \cup sockAddrIndex(i)

Reachable(i) ==
  LET reach[n \in 0 .. MaxRecs] ==
        IF n = 0 THEN {i} ELSE reach[n - 1] \cup UNION {Near(j) : j \in reach[n - 1]}
  IN reach[MaxRecs]

ByScript(b) == Quiet /\ \E i \in LiveOf("request_rec") : b \in Reachable(i)

(* Bug: the pool of the latest request.                                    *)
getPoolOfScript(b) ==
  recs[CHOOSE r \in LiveOf("request_rec") : \A q \in LiveOf("request_rec") : q <= r].pool

getPool(b) == recs[b].pool

SetVal(b, f, x) == recs' = [recs EXCEPT ![b].val = [@ EXCEPT ![f] = x]]

setNil(b, f) == SetVal(b, f, None)

(* The string is copied into the pool of the record it is stored in.  The  *)
(* fields of a record that has no pool are read-only.                      *)
setString(b, f) ==
  /\ FieldHandlers[recs[b].type][f] = "CharPtr"
  /\ hasPool(recs[b].type)
  /\ SetVal(b, f, getPool(b))

(* Bug: a pointer of any type.                                             *)
setPtrOfAnyType(b, f, j) ==
  /\ f \in PointerFields(b)
  /\ recs[j].pool \in pools[recs[b].pool].above
  /\ SetVal(b, f, j)

(* A pointer of the member's type.  Nothing checks that the record lives   *)
(* as long as the one it is stored in; the scripts modelled see to that.   *)
setPtr(b, f, j) ==
  /\ f \in PointerFields(b)
  /\ recs[j].type = PtrTypes[FieldHandlers[recs[b].type][f]]
  /\ recs[j].pool \in pools[recs[b].pool].above
  /\ SetVal(b, f, j)

set(b, f) ==
  \/ setNil(b, f)
  \/ setString(b, f)
  \/ \E j \in Recs : There(j) /\ setPtr(b, f, j)

Newindex(b, type) ==
  /\ recs[b].type = type
  /\ \E f \in Members(type) \cap Written : set(b, f)

requestNewindex(b) == Newindex(b, "request_rec")
connNewindex(b) == Newindex(b, "conn_rec")
serverNewindex(b) == Newindex(b, "server_rec")
sockAddrNewindex(b) == Newindex(b, "apr_sockaddr_t")

(* r:set_content_type(), of which content_type is a string of r's.         *)
setContentType(b) == recs[b].type = "request_rec" /\ SetVal(b, "uri", getPool(b))

ChangeField(b) ==
  /\ ByScript(b)
  /\ \/ requestNewindex(b)
     \/ connNewindex(b)
     \/ serverNewindex(b)
     \/ sockAddrNewindex(b)
     \/ setContentType(b)
  /\ UNCHANGED <<pools, objs, work, walk>>

(* r:outermost_request(), a loop.  It gives up at a request that is its    *)
(* own main request.                                                       *)
OutermostRequest(b) ==
  /\ ByScript(b)
  /\ recs[b].type = "request_rec"
  /\ walk' = b
  /\ UNCHANGED <<pools, objs, work, recs>>

(* Bug: nothing stops at a request that is its own main request.           *)
OuterUnchecked(r) == main(r)

Outer(r) ==
  IF main(r) = None THEN None
  ELSE IF main(r) = r THEN None    \* luaL_error()
  ELSE main(r)

OutermostStep ==
  /\ walk # None
  /\ walk' = Outer(walk)
  /\ UNCHANGED <<pools, objs, work, recs>>

ChangeTable(b) ==
  /\ ByScript(b)
  /\ "notes" \in DOMAIN FieldHandlers[recs[b].type]
  /\ \E t \in tableMethods(recs[b].table, Values) : recs' = [recs EXCEPT ![b].table = t]
  /\ UNCHANGED <<pools, objs, work, walk>>

-----------------------------------------------------------------------------
InitRecords ==
  /\ recs = [i \in Recs |->
               IF i = TheServer THEN Record("server_rec", pconf, [server_hostname |-> pconf])
               ELSE None]
  /\ walk = None

(* The records in a pool that is freed go with it.                         *)
RecordsGo ==
  recs' = IF Frees THEN [i \in Recs |-> IF There(i) /\ recs[i].pool = Head(work)[2] THEN None
                                        ELSE recs[i]]
          ELSE recs

=============================================================================
