---------------------------- MODULE ServerConfig -----------------------------
(***************************************************************************)
(* The RUM directives of httpd.conf and rum_post_config(): which server    *)
(* gets which rum::Config.                                                 *)
(*                                                                         *)
(* Apache reads its configuration, which calls the cmd_* functions, and    *)
(* then calls rum_post_config().  On the first start it does both twice,   *)
(* and again at each restart; the pool that the records, the Configs and   *)
(* the LuaManagers live in is cleared before the configuration is read,    *)
(* the process pool is not.                                                *)
(*                                                                         *)
(* A virtual server without RUM directives has no rum_server_config of its *)
(* own: Apache's merge gives it the record of the main server, in which    *)
(* sc->server is the main server.                                          *)
(***************************************************************************)
EXTENDS Integers

CONSTANTS
  Servers,         \* the server_recs
  Main,            \* the main server
  NoServer,        \* a null Config pointer
  MaxLookupValues, \* the numbers given to RumMaxLookups
  InitStateValues, \* the numbers given to RumInitialLuaStatePoolSize
  MaxLines         \* bound on the RUM directives in one reading

ASSUME ServersAssumption == Main \in Servers /\ NoServer \notin Servers
ASSUME ValuesAssumption ==
  /\ MaxLookupValues \subseteq Int
  /\ InitStateValues \subseteq Int
  /\ MaxLines \in Nat

VARIABLES
  server,    \* the process: "reading", "serving" or "failed"
  once,      \* rum_post_config_only_once_key is set on the process pool
  own,       \* the server has a record of its own (sc->server == s)
  sc,        \* that rum_server_config
  conf,      \* its sc->conf: the server whose <RumConfigFile>s were read
  badDefns,  \* servers whose definitions fail when a Lua state runs them
  lines      \* directives read, for the bound

configVars == <<server, once, own, sc, conf, badDefns, lines>>

SrvConf ==
  [files : BOOLEAN,        \* configFiles->size() > 0
   baseDir : BOOLEAN,      \* baseDir is not null
   maxLookups : Int,
   initStates : Int,       \* initLuaStatePoolSize
   fullLuaGC : BOOLEAN,
   useMain : BOOLEAN]

create_rum_server_config ==
  [files |-> FALSE, baseDir |-> FALSE, maxLookups |-> 0, initStates |-> 0,
   fullLuaGC |-> FALSE, useMain |-> FALSE]

(* The record that ap_get_module_config() finds for a server. *)
Rec(s) == IF own[s] THEN sc[s] ELSE sc[Main]

ReadingStarts ==
  /\ server' = "reading"
  /\ own' = [s \in Servers |-> s = Main]
  /\ sc' = [s \in Servers |-> create_rum_server_config]
  /\ conf' = [s \in Servers |-> NoServer]
  /\ badDefns' = {}
  /\ lines' = 0

ConfigInit ==
  /\ server = "reading"
  /\ once = FALSE
  /\ own = [s \in Servers |-> s = Main]
  /\ sc = [s \in Servers |-> create_rum_server_config]
  /\ conf = [s \in Servers |-> NoServer]
  /\ badDefns = {}
  /\ lines = 0

-----------------------------------------------------------------------------
(* Directives *)

Directive(s, record) ==
  /\ server = "reading"
  /\ lines < MaxLines
  /\ own' = [own EXCEPT ![s] = TRUE]
  /\ sc' = [sc EXCEPT ![s] = record]
  /\ lines' = lines + 1
  /\ UNCHANGED <<server, once, conf, badDefns>>

cmd_config_file(s)   == Directive(s, [sc[s] EXCEPT !.files = TRUE])
cmd_base_dir(s)      == Directive(s, [sc[s] EXCEPT !.baseDir = TRUE])
cmd_max_lookups(s)   == \E n \in MaxLookupValues : Directive(s, [sc[s] EXCEPT !.maxLookups = n])
cmd_initial_lua_state_pool_size(s) ==
  \E n \in InitStateValues : Directive(s, [sc[s] EXCEPT !.initStates = n])
cmd_full_lua_gc(s)   == \E on \in BOOLEAN : Directive(s, [sc[s] EXCEPT !.fullLuaGC = on])
cmd_use_main(s)      == \E on \in BOOLEAN : Directive(s, [sc[s] EXCEPT !.useMain = on])

ReadDirective ==
  \E s \in Servers :
    \/ cmd_config_file(s)
    \/ cmd_base_dir(s)
    \/ cmd_max_lookups(s)
    \/ cmd_initial_lua_state_pool_size(s)
    \/ cmd_full_lua_gc(s)
    \/ cmd_use_main(s)

-----------------------------------------------------------------------------
(* rum_post_config() *)

(* Bug: one directive is overlooked. *)
StrayOthers(r) == r.baseDir \/ r.maxLookups # 0 \/ r.fullLuaGC

Stray(r) == r.baseDir \/ r.maxLookups # 0 \/ r.fullLuaGC \/ r.initStates # 0

(* The main server comes first in the list, so its Config is there, if it  *)
(* gets one, when a virtual server asks for it.                            *)
UseMainAllowed(s) == s # Main /\ ~Rec(s).files /\ ~Stray(Rec(s)) /\ sc[Main].files

(* A Config of its own. *)
Configured(s) == ~Rec(s).useMain /\ own[s] /\ Rec(s).files

(* The Lua states made in advance, at least one, show whether the          *)
(* definitions run.                                                        *)
Initialised(s) == Configured(s) /\ Rec(s).initStates >= 0

LuaStatesMade(s) == IF Rec(s).initStates = 0 THEN 1 ELSE Rec(s).initStates

Accepted(s, badFiles, bad) ==
  IF Rec(s).useMain THEN UseMainAllowed(s)
  ELSE IF Configured(s) THEN s \notin badFiles /\ (Initialised(s) => s \notin bad)
  ELSE own[s] => ~Stray(Rec(s))

(* sc->conf after the loop. *)
ConfOf(s) ==
  IF ~own[s] THEN NoServer
  ELSE IF sc[s].useMain THEN Main
  ELSE IF sc[s].files THEN s
  ELSE NoServer

(* The first call after the process started. *)
PostConfigFirst ==
  /\ server = "reading"
  /\ ~once
  /\ once' = TRUE
  /\ ReadingStarts

PostConfig(badFiles, bad) ==
  /\ server = "reading"
  /\ once
  /\ badDefns' = bad
  /\ IF \A s \in Servers : Accepted(s, badFiles, bad)
     THEN /\ server' = "serving"
          /\ conf' = [s \in Servers |-> ConfOf(s)]
     ELSE /\ server' = "failed"
          /\ conf' = conf
  /\ lines' = 0
  /\ UNCHANGED <<once, own, sc>>

-----------------------------------------------------------------------------
(* Properties *)

(* When a server serves, no directive of its own is without effect: with   *)
(* RumUseMain it has nothing else and finds the main server's Config, with *)
(* anything else it has a Config of its own (the checks of                 *)
(* rum_post_config()).                                                     *)
DirectivesUsed ==
  server = "serving" =>
    \A s \in Servers : own[s] =>
      /\ sc[s].useMain => conf[s] = Main /\ conf[Main] = Main
      /\ [sc[s] EXCEPT !.useMain = FALSE] # create_rum_server_config => conf[s] = s

(* Run-time errors in the definitions are caught at startup, unless the    *)
(* initial pool size is negative.                                          *)
DefinitionsCaught ==
  server = "serving" =>
    \A s \in Servers : conf[s] = s /\ s \in badDefns => sc[s].initStates < 0

=============================================================================
