----------------------------- MODULE HooksProofs ------------------------------
(***************************************************************************)
(* Proofs about Hooks, for any servers, directives, threads and bounds.    *)
(***************************************************************************)
EXTENDS Hooks, TLAPS

Last == {"LogTransaction", "done"}
Early == {"TranslateNamePreRewrite", "TranslateName"}

(* Here(t) of a chain *)
HereOf(ch) == IF ch[1].stage \in Last THEN 1 ELSE Len(ch)

(* The configurations of which no action is ever run *)
Never == {s \in Servers : sc[s].maxLookups < 0}
AskedFor == [s \in Servers |-> Asked(s)]

(* All requests but the one Apache is at wait in their handlers, or for    *)
(* the end of their pool.                                                  *)
Shape(ch) ==
  \A k \in DOMAIN ch :
    /\ ch[k].pool \in 1 .. k
    /\ k > 1 => ch[k].stage \notin Last
    /\ k < Len(ch) => ch[k].stage = "Handler" \/ (k = 1 /\ ch[1].stage \in Last)

(* The calls a thread is in are for r, at place h; all but the innermost   *)
(* wait for the output that their actions flushed.                         *)
Nested(r, h, fr) ==
  /\ fr # <<>> => r.stage \notin {"Handler", "done"}
  /\ \A n \in DOMAIN fr :
       /\ fr[n].d = h
       /\ fr[n].at \in {"rules", "lua"} => r.ctx \in Servers
       /\ fr[n].at = "lua" => r.slot # 0 /\ fr[n].runs < MaxRuns
       /\ n < Len(fr) => fr[n].at = "lua" /\ fr[n].wrote

(* The first hook makes the ReqCtx. *)
Fresh(r, fr, asked) ==
  r.stage = "TranslateNamePreRewrite" =>
    IF fr = <<>> THEN r.slot = 0 ELSE r.ctx = asked[r.server]

(* An answer comes from an action. *)
Answered(r, fr, never) ==
  r.stage \in Early =>
    \A n \in DOMAIN fr :
      /\ fr[n].at = "OK" => r.ctx \in Servers /\ (r.answered \/ r.ctx \in never)
      /\ fr[n].delayedOK => r.answered

CallsOK(r, h, fr, asked, never) ==
  Nested(r, h, fr) /\ Fresh(r, fr, asked) /\ Answered(r, fr, never)

(* What CtxAsWritten and ActionsDecide say of one request. *)
RequestOK(r, asked, never) ==
  /\ r.ctx \in {asked[r.server], NoServer}
  /\ r.stage \notin {"TranslateNamePreRewrite"} \cup Last => r.ctx = asked[r.server]
  /\ r.handler = "rum-int-redirect" => r.filename = "redirect:"
  /\ r.handler = "proxy-server" => r.filename = "proxy:"
  /\ r.stage \notin Early \cup Last /\ r.filename = "none" =>
       r.ctx \in Servers /\ (r.answered \/ r.ctx \in never)

ThreadOK(ch, fr, asked, never) ==
  /\ Shape(ch)
  /\ IF ch = <<>> THEN fr = <<>> ELSE CallsOK(ch[HereOf(ch)], HereOf(ch), fr, asked, never)
  /\ \A k \in DOMAIN ch : RequestOK(ch[k], asked, never)

(* The Configs are those of the directives, and requests only come then.   *)
ServerInv ==
  /\ own[Main]
  /\ server # "serving" => chain = [t \in Threads |-> <<>>] /\ frames = [t \in Threads |-> <<>>]
  /\ server = "serving" => conf = AskedFor

(* Whose ActionCtx a Lua state may still know. *)
LuaCall(t, n, c, i) ==
  /\ t \in Threads
  /\ n \in DOMAIN frames[t]
  /\ frames[t][n].at = "lua"
  /\ Cur(t).ctx = c
  /\ Cur(t).slot = i

Known(x, c, i) == x # Dead => LuaCall(x[1], x[2], c, i)

SandboxInv ==
  \A c \in Servers : \A i \in States :
    Known(lua[c][i].sandbox, c, i) /\ Known(lua[c][i].proxy, c, i)

IInv ==
  /\ TypeOK
  /\ ServerInv
  /\ ConfigsAsAsked
  /\ \A t \in Threads : ThreadOK(chain[t], frames[t], AskedFor, Never)
  /\ StatesOwned
  /\ SandboxInv
  /\ StatesReady

ConfigTypes ==
  /\ server \in {"reading", "serving", "failed"}
  /\ once \in BOOLEAN
  /\ own \in [Servers -> BOOLEAN]
  /\ sc \in [Servers -> SrvConf]
  /\ conf \in [Servers -> Servers \cup {NoServer}]
  /\ badDefns \in SUBSET Servers
  /\ lines \in 0 .. MaxLines

ThreadTypes ==
  /\ chain \in [Threads -> Seq(Requests)]
  /\ \A t \in Threads : Len(chain[t]) <= MaxDepth
  /\ frames \in [Threads -> Seq(Frames)]
  /\ \A t \in Threads : Len(frames[t]) <= MaxNest

LuaTypes ==
  /\ made \in [Servers -> 0 .. MaxStates]
  /\ free \in [Servers -> SUBSET States]
  /\ lua \in [Servers -> [States -> LuaStates]]

LEMMA TypeParts == TypeOK <=> ConfigTypes /\ ThreadTypes /\ LuaTypes
BY Zenon DEF TypeOK, ConfigTypes, ThreadTypes, LuaTypes

-----------------------------------------------------------------------------
(* Startup and restart                                                     *)

USE ServersAssumption, ValuesAssumption, BoundsAssumption, FollowingAssumption

LEMMA EmptyThread ==
  ASSUME NEW asked, NEW never
  PROVE  ThreadOK(<<>>, <<>>, asked, never)
BY DEF ThreadOK, Shape

LEMMA DefaultRecord == create_rum_server_config \in SrvConf
BY DEF create_rum_server_config, SrvConf

(* One directive changes one record, and keeps types and the main server.  *)
LEMMA DirectiveTypes ==
  ASSUME ConfigTypes, own[Main], ReadDirective
  PROVE  /\ ConfigTypes'
         /\ own'[Main]
         /\ server = "reading" /\ server' = "reading"
<1>1. PICK s \in Servers, rec \in SrvConf : Directive(s, rec)
  <2>1. PICK s \in Servers :
          \/ cmd_config_file(s) \/ cmd_base_dir(s) \/ cmd_max_lookups(s)
          \/ cmd_initial_lua_state_pool_size(s) \/ cmd_full_lua_gc(s) \/ cmd_use_main(s)
    BY DEF ReadDirective
  <2>2. sc[s] \in SrvConf
    BY DEF ConfigTypes
  <2>3. CASE cmd_config_file(s)
    BY <2>2, <2>3 DEF cmd_config_file, SrvConf
  <2>4. CASE cmd_base_dir(s)
    BY <2>2, <2>4 DEF cmd_base_dir, SrvConf
  <2>5. CASE cmd_max_lookups(s)
    <3>1. PICK n \in MaxLookupValues : Directive(s, [sc[s] EXCEPT !.maxLookups = n])
      BY <2>5 DEF cmd_max_lookups
    <3>2. [sc[s] EXCEPT !.maxLookups = n] \in SrvConf
      BY <2>2 DEF SrvConf
    <3>3. QED
      BY <3>1, <3>2
  <2>6. CASE cmd_initial_lua_state_pool_size(s)
    <3>1. PICK n \in InitStateValues : Directive(s, [sc[s] EXCEPT !.initStates = n])
      BY <2>6 DEF cmd_initial_lua_state_pool_size
    <3>2. [sc[s] EXCEPT !.initStates = n] \in SrvConf
      BY <2>2 DEF SrvConf
    <3>3. QED
      BY <3>1, <3>2
  <2>7. CASE cmd_full_lua_gc(s)
    <3>1. PICK on \in BOOLEAN : Directive(s, [sc[s] EXCEPT !.fullLuaGC = on])
      BY <2>7 DEF cmd_full_lua_gc
    <3>2. [sc[s] EXCEPT !.fullLuaGC = on] \in SrvConf
      BY <2>2 DEF SrvConf
    <3>3. QED
      BY <3>1, <3>2
  <2>8. CASE cmd_use_main(s)
    <3>1. PICK on \in BOOLEAN : Directive(s, [sc[s] EXCEPT !.useMain = on])
      BY <2>8 DEF cmd_use_main
    <3>2. [sc[s] EXCEPT !.useMain = on] \in SrvConf
      BY <2>2 DEF SrvConf
    <3>3. QED
      BY <3>1, <3>2
  <2>9. QED
    BY <2>1, <2>3, <2>4, <2>5, <2>6, <2>7, <2>8
<1>2. QED
  BY <1>1 DEF Directive, ConfigTypes

(* rum_post_config() accepts what ConfigsAsAsked asks for.                 *)
LEMMA PostConfigDone ==
  ASSUME ConfigTypes, own[Main],
         NEW badFiles, NEW bad \in SUBSET {s \in Servers : Configured(s)},
         PostConfig(badFiles, bad)
  PROVE  /\ ConfigTypes'
         /\ own'[Main]
         /\ server' = "serving" => conf' = AskedFor'
         /\ ConfigsAsAsked'
<1>1. /\ server' \in {"serving", "failed"}
      /\ UNCHANGED <<once, own, sc>>
      /\ badDefns' = bad /\ lines' = 0
      /\ conf' \in [Servers -> Servers \cup {NoServer}]
  BY DEF PostConfig, ConfigTypes, ConfOf
<1>2. ConfigTypes'
  BY <1>1 DEF ConfigTypes
<1>3. CASE server' = "failed"
  BY <1>1, <1>2, <1>3 DEF ConfigsAsAsked, DirectivesUsed, DefinitionsCaught
<1>4. CASE server' = "serving"
  <2>1. /\ \A s \in Servers : Accepted(s, badFiles, bad)
        /\ conf' = [s \in Servers |-> ConfOf(s)]
    BY <1>4 DEF PostConfig
  <2>2. AskedFor' = [s \in Servers |-> ConfOf(s)]
    BY <1>1 DEF AskedFor, Asked, ConfOf
  <2>3. /\ ~sc[Main].useMain
        /\ sc[Main].files => ConfOf(Main) = Main
    BY <2>1 DEF Accepted, UseMainAllowed, Rec, ConfOf
  <2>4. ASSUME NEW s \in Servers, own[s], sc[s].useMain
        PROVE  /\ conf'[s] = Main /\ conf'[Main] = Main
               /\ [sc[s] EXCEPT !.useMain = FALSE] = create_rum_server_config
               /\ s # Main
    <3>1. UseMainAllowed(s)
      BY <2>1, <2>4 DEF Accepted, Rec
    <3>2. s # Main /\ ~sc[s].files /\ ~Stray(sc[s]) /\ sc[Main].files
      BY <3>1, <2>4 DEF UseMainAllowed, Rec
    <3>3. sc[s] \in SrvConf
      BY DEF ConfigTypes
    <3>4. [sc[s] EXCEPT !.useMain = FALSE] = create_rum_server_config
      <4> DEFINE rec == [sc[s] EXCEPT !.useMain = FALSE]
      <4>1. rec \in SrvConf
        BY <3>3 DEF SrvConf
      <4>2. /\ rec.files = FALSE /\ rec.baseDir = FALSE /\ rec.maxLookups = 0
            /\ rec.initStates = 0 /\ rec.fullLuaGC = FALSE /\ rec.useMain = FALSE
        BY <3>2, <3>3 DEF Stray, SrvConf
      <4> HIDE DEF rec
      <4>3. rec = create_rum_server_config
        BY <4>1, <4>2 DEF SrvConf, create_rum_server_config
      <4>4. QED
        BY <4>3 DEF rec
    <3>5. conf'[s] = Main /\ conf'[Main] = Main
      BY <2>1, <2>3, <2>4, <3>2 DEF ConfOf
    <3>6. QED
      BY <3>2, <3>4, <3>5
  <2>5. ASSUME NEW s \in Servers, own[s], ~sc[s].useMain,
               [sc[s] EXCEPT !.useMain = FALSE] # create_rum_server_config
        PROVE  conf'[s] = s
    <3>1. sc[s] \in SrvConf
      BY DEF ConfigTypes
    <3>2. CASE sc[s].files
      BY <3>2, <2>1, <2>5 DEF ConfOf
    <3>3. CASE ~sc[s].files
      <4>1. ~Stray(sc[s])
        BY <3>3, <2>1, <2>5 DEF Accepted, Configured, Rec
      <4>2. QED
        BY ZenonT(40), <3>1, <3>3, <4>1, <2>5 DEF Stray, SrvConf, create_rum_server_config
    <3>4. QED
      BY <3>1, <3>2, <3>3 DEF SrvConf
  <2>6. DirectivesUsed'
    BY <1>1, <2>4, <2>5 DEF DirectivesUsed
  <2>7. ASSUME NEW s \in Servers, conf'[s] = s, s \in bad
        PROVE  sc[s].initStates < 0
    <3>1. Configured(s)
      <4>1. bad \subseteq {x \in Servers : Configured(x)}
        OBVIOUS
      <4>2. QED
        BY <2>7, <4>1
    <3>2. ~Initialised(s)
      BY <2>1, <2>7, <3>1 DEF Accepted, Configured
    <3>3. sc[s] \in SrvConf /\ Rec(s) = sc[s]
      BY <3>1 DEF ConfigTypes, Configured, Rec
    <3>4. QED
      BY <3>1, <3>2, <3>3 DEF Initialised, SrvConf
  <2>8. DefinitionsCaught'
    BY <1>1, <2>7 DEF DefinitionsCaught
  <2>9. QED
    BY <1>1, <1>2, <2>1, <2>2, <2>6, <2>8 DEF ConfigsAsAsked
<1>5. QED
  BY <1>1, <1>3, <1>4

LEMMA ReadingConfig ==
  ASSUME ReadingStarts, once' \in BOOLEAN
  PROVE  ConfigTypes' /\ own'[Main] /\ server' = "reading"
<1>1. own' \in [Servers -> BOOLEAN] /\ own'[Main]
  BY DEF ReadingStarts
<1>2. sc' \in [Servers -> SrvConf]
  BY DefaultRecord DEF ReadingStarts
<1>3. conf' \in [Servers -> Servers \cup {NoServer}]
  BY DEF ReadingStarts
<1>4. server' = "reading" /\ badDefns' = {} /\ lines' \in 0 .. MaxLines
  BY DEF ReadingStarts
<1>5. QED
  BY <1>1, <1>2, <1>3, <1>4 DEF ConfigTypes

(* Without a request there is nothing that a configuration could disturb.  *)
LEMMA NoRequests ==
  ASSUME ConfigTypes', own'[Main], LuaTypes',
         chain = [t \in Threads |-> <<>>], frames = [t \in Threads |-> <<>>],
         UNCHANGED <<chain, frames>>,
         server' = "serving" => conf' = AskedFor',
         ConfigsAsAsked',
         \/ UNCHANGED <<made, free, lua>> /\ StatesOwned /\ SandboxInv
         \/ /\ \A c \in Servers : free'[c] = 1 .. made'[c]
            /\ lua' = lua /\ SandboxInv
         \/ NoLua
  PROVE  IInv'
<1>1. ThreadTypes'
  BY DEF ThreadTypes, Requests, Frames
<1>2. TypeOK'
  BY <1>1 DEF TypeOK, ConfigTypes, ThreadTypes, LuaTypes
<1>3. ServerInv'
  BY DEF ServerInv
<1>4. \A t \in Threads : ThreadOK(chain[t], frames[t], AskedFor, Never)'
  <2> TAKE t \in Threads
  <2>1. chain'[t] = <<>> /\ frames'[t] = <<>>
    OBVIOUS
  <2>2. ThreadOK(<<>>, <<>>, AskedFor', Never')
    BY EmptyThread
  <2>3. QED
    BY <2>1, <2>2, Zenon
<1>5. StatesReady'
  BY DEF StatesReady, LuaSeesItsAction, CollectedLast
<1>6. StatesOwned'
  <2>1. StatesApart'
    BY DEF StatesApart
  <2>2. StatesKept'
    <3>1. CASE UNCHANGED <<made, free, lua>> /\ StatesOwned
      BY <3>1 DEF StatesOwned, StatesKept, Holds
    <3>2. CASE \A c \in Servers : free'[c] = 1 .. made'[c]
      BY <3>2 DEF StatesKept
    <3>3. CASE NoLua
      BY <3>3 DEF StatesKept, NoLua
    <3>4. QED
      BY <3>1, <3>2, <3>3
  <2>3. QED
    BY <2>1, <2>2 DEF StatesOwned
<1>7. SandboxInv'
  <2>1. CASE lua' = lua /\ SandboxInv
    <3>1. \A c \in Servers : \A i \in States : lua'[c][i] = lua[c][i]
      BY <2>1
    <3>2. ASSUME NEW x, NEW c, NEW i, Known(x, c, i)
          PROVE  Known(x, c, i)'
      BY <3>2 DEF Known, LuaCall
    <3>3. QED
      BY <2>1, <3>1, <3>2 DEF SandboxInv
  <2>2. CASE NoLua
    BY <2>2 DEF NoLua, SandboxInv, Known, newstate
  <2>3. QED
    BY <2>1, <2>2
<1>8. QED
  BY <1>2, <1>3, <1>4, <1>5, <1>6, <1>7 DEF IInv

LEMMA NoThreads ==
  ASSUME IInv, server # "serving" \/ Idle
  PROVE  chain = [t \in Threads |-> <<>>] /\ frames = [t \in Threads |-> <<>>]
<1>1. CASE server # "serving"
  BY <1>1 DEF IInv, ServerInv
<1>2. CASE Idle
  <2>1. chain \in [Threads -> Seq(Requests)] /\ frames \in [Threads -> Seq(Frames)]
    BY DEF IInv, TypeOK
  <2>2. \A t \in Threads : chain[t] = <<>> /\ frames[t] = <<>>
    BY <1>2 DEF Idle, IInv, ThreadOK
  <2>3. QED
    BY <2>1, <2>2
<1>3. QED
  BY <1>1, <1>2

LEMMA NoLuaTypes ==
  ASSUME NoLua
  PROVE  LuaTypes'
<1>1. newstate \in LuaStates
  BY DEF newstate, LuaStates, ActionCtxs
<1>2. QED
  BY <1>1 DEF NoLua, LuaTypes, States

LEMMA ReadConfigKeeps ==
  ASSUME IInv, ReadConfig
  PROVE  IInv'
<1>1. ConfigTypes /\ LuaTypes /\ own[Main]
  BY TypeParts DEF IInv, ServerInv
<1>2. ReadDirective /\ UNCHANGED <<chain, frames, made, free, lua>>
  BY DEF ReadConfig, luaVars
<1>3. ConfigTypes' /\ own'[Main] /\ server = "reading" /\ server' = "reading"
  BY <1>1, <1>2, DirectiveTypes
<1>4. ConfigsAsAsked'
  BY <1>3 DEF ConfigsAsAsked, DirectivesUsed, DefinitionsCaught
<1>5. LuaTypes'
  BY <1>1, <1>2 DEF LuaTypes
<1>6. chain = [t \in Threads |-> <<>>] /\ frames = [t \in Threads |-> <<>>]
  BY <1>3, NoThreads
<1>7. StatesOwned /\ SandboxInv
  BY DEF IInv
<1>8. QED
  BY <1>2, <1>3, <1>4, <1>5, <1>6, <1>7, NoRequests

LEMMA RestartKeeps ==
  ASSUME IInv, Restart \/ StartAgain
  PROVE  IInv'
<1>1. /\ ReadingStarts /\ NoLua /\ UNCHANGED <<chain, frames>>
      /\ server # "serving" \/ Idle
      /\ once' \in BOOLEAN
  BY DEF Restart, StartAgain, IInv, TypeOK
<1>2. ConfigTypes' /\ own'[Main] /\ server' = "reading"
  BY <1>1, ReadingConfig
<1>3. ConfigsAsAsked'
  BY <1>2 DEF ConfigsAsAsked, DirectivesUsed, DefinitionsCaught
<1>4. LuaTypes'
  BY <1>1, NoLuaTypes
<1>5. chain = [t \in Threads |-> <<>>] /\ frames = [t \in Threads |-> <<>>]
  BY <1>1, NoThreads
<1>6. QED
  BY <1>1, <1>2, <1>3, <1>4, <1>5, NoRequests

LEMMA PostConfigKeeps ==
  ASSUME IInv, rum_post_config
  PROVE  IInv'
<1>1. ConfigTypes /\ LuaTypes /\ own[Main] /\ StatesOwned /\ SandboxInv
  BY TypeParts DEF IInv, ServerInv
<1>2. CASE PostConfigFirst /\ UNCHANGED <<chain, frames, luaVars>>
  <2>1. ReadingStarts /\ once' \in BOOLEAN /\ server # "serving"
    BY <1>2 DEF PostConfigFirst
  <2>2. UNCHANGED <<chain, frames, made, free, lua>>
    BY <1>2 DEF luaVars
  <2>3. ConfigTypes' /\ own'[Main] /\ server' = "reading"
    BY <2>1, ReadingConfig
  <2>4. ConfigsAsAsked'
    BY <2>3 DEF ConfigsAsAsked, DirectivesUsed, DefinitionsCaught
  <2>5. LuaTypes'
    BY <1>1, <2>2 DEF LuaTypes
  <2>6. chain = [t \in Threads |-> <<>>] /\ frames = [t \in Threads |-> <<>>]
    BY <2>1, NoThreads
  <2>7. QED
    BY <1>1, <2>2, <2>3, <2>4, <2>5, <2>6, NoRequests
<1>3. ASSUME NEW badFiles \in SUBSET {s \in Servers : Configured(s)},
             NEW bad \in SUBSET {s \in Servers : Configured(s)},
             PostConfig(badFiles, bad),
             \A s \in Servers : Initialised(s) => LuaStatesMade(s) <= MaxStates,
             made' = [c \in Servers |->
                        IF server' = "serving" /\ Initialised(c) THEN LuaStatesMade(c) ELSE 0],
             free' = [c \in Servers |-> 1 .. made'[c]],
             UNCHANGED <<chain, frames, lua>>
      PROVE  IInv'
  <2>1. /\ ConfigTypes' /\ own'[Main]
        /\ server' = "serving" => conf' = AskedFor'
        /\ ConfigsAsAsked'
    BY <1>1, <1>3, PostConfigDone
  <2>2. server # "serving"
    BY <1>3 DEF PostConfig
  <2>3. chain = [t \in Threads |-> <<>>] /\ frames = [t \in Threads |-> <<>>]
    BY <2>2, NoThreads
  <2>4. ASSUME NEW c \in Servers, Initialised(c)
        PROVE  LuaStatesMade(c) \in 0 .. MaxStates
    <3>1. Rec(c).initStates \in Int /\ Rec(c).initStates >= 0
      BY <1>1, <2>4 DEF Initialised, Rec, ConfigTypes, SrvConf
    <3>2. LuaStatesMade(c) <= MaxStates
      BY <1>3, <2>4
    <3>3. QED
      BY <3>1, <3>2 DEF LuaStatesMade
  <2>5. made' \in [Servers -> 0 .. MaxStates]
    BY <1>3, <2>4
  <2>6. \A c \in Servers : free'[c] = 1 .. made'[c] /\ free'[c] \subseteq States
    BY <1>3, <2>5 DEF States
  <2>7. free' \in [Servers -> SUBSET States]
    BY <1>3, <2>6
  <2>8. LuaTypes'
    BY <1>1, <1>3, <2>5, <2>7 DEF LuaTypes
  <2>9. QED
    BY <1>1, <1>3, <2>1, <2>3, <2>6, <2>8, NoRequests
<1>4. QED
  BY <1>2, <1>3 DEF rum_post_config

-----------------------------------------------------------------------------
(* One thread                                                              *)

(* The request Apache is at can change, if it stays in its pool and is not *)
(* over.                                                                   *)
LEMMA Replaced ==
  ASSUME NEW ch \in Seq(Requests), ch # <<>>, Shape(ch),
         NEW r \in Requests, r.pool = ch[HereOf(ch)].pool,
         r.stage \in Last <=> ch[HereOf(ch)].stage \in Last,
         NEW ch2, ch2 = [ch EXCEPT ![HereOf(ch)] = r]
  PROVE  /\ HereOf(ch) \in DOMAIN ch
         /\ ch2 \in Seq(Requests)
         /\ Len(ch2) = Len(ch)
         /\ DOMAIN ch2 = DOMAIN ch
         /\ ch2 # <<>>
         /\ HereOf(ch2) = HereOf(ch)
         /\ ch2[HereOf(ch)] = r
         /\ \A k \in DOMAIN ch : k # HereOf(ch) => ch2[k] = ch[k]
         /\ Shape(ch2)
<1>1. Len(ch) \in Nat /\ Len(ch) >= 1 /\ DOMAIN ch = 1 .. Len(ch)
  OBVIOUS
<1>2. HereOf(ch) \in DOMAIN ch
  BY <1>1 DEF HereOf
<1>3. ch2 \in Seq(Requests) /\ Len(ch2) = Len(ch) /\ DOMAIN ch2 = DOMAIN ch /\ ch2 # <<>>
  BY <1>1, <1>2
<1>4. /\ ch2[HereOf(ch)] = r
      /\ \A k \in DOMAIN ch : k # HereOf(ch) => ch2[k] = ch[k]
  BY <1>2
<1>5. HereOf(ch2) = HereOf(ch)
  BY <1>1, <1>2, <1>3, <1>4 DEF HereOf
<1>6. Shape(ch2)
  <2>1. ASSUME NEW k \in DOMAIN ch
        PROVE  /\ ch2[k].pool \in 1 .. k
               /\ k > 1 => ch2[k].stage \notin Last
    BY <1>1, <1>2, <1>4, <2>1 DEF Shape
  <2>2. ASSUME NEW k \in DOMAIN ch, k < Len(ch)
        PROVE  ch2[k].stage = "Handler" \/ (k = 1 /\ ch2[1].stage \in Last)
    <3>1. CASE k = HereOf(ch)
      BY <1>1, <1>4, <2>2, <3>1 DEF HereOf
    <3>2. CASE k # HereOf(ch)
      <4>1. ch2[k] = ch[k]
        BY <1>4, <3>2
      <4>2. QED
        BY <1>1, <1>4, <2>2, <3>2, <4>1 DEF Shape, HereOf
    <3>3. QED
      BY <3>1, <3>2
  <2>3. QED
    BY <1>3, <2>1, <2>2 DEF Shape
<1>7. QED
  BY <1>2, <1>3, <1>4, <1>5, <1>6

LEMMA ReplacedOK ==
  ASSUME NEW ch \in Seq(Requests), ch # <<>>,
         NEW fr, NEW fr2, NEW asked, NEW never,
         ThreadOK(ch, fr, asked, never),
         NEW r \in Requests, r.pool = ch[HereOf(ch)].pool,
         r.stage \in Last <=> ch[HereOf(ch)].stage \in Last,
         RequestOK(r, asked, never),
         CallsOK(r, HereOf(ch), fr2, asked, never),
         NEW ch2, ch2 = [ch EXCEPT ![HereOf(ch)] = r]
  PROVE  ThreadOK(ch2, fr2, asked, never)
<1>1. Shape(ch)
  BY DEF ThreadOK
<1>2. /\ DOMAIN ch2 = DOMAIN ch
      /\ ch2 # <<>>
      /\ HereOf(ch2) = HereOf(ch)
      /\ ch2[HereOf(ch)] = r
      /\ \A k \in DOMAIN ch : k # HereOf(ch) => ch2[k] = ch[k]
      /\ Shape(ch2)
  BY <1>1, Replaced
<1>3. \A k \in DOMAIN ch2 : RequestOK(ch2[k], asked, never)
  BY <1>2 DEF ThreadOK
<1>4. QED
  BY <1>2, <1>3 DEF ThreadOK

LEMMA NoCalls ==
  ASSUME NEW r, NEW h, NEW fr, NEW asked, NEW never,
         fr = <<>>,
         r.stage = "TranslateNamePreRewrite" => r.slot = 0
  PROVE  CallsOK(r, h, fr, asked, never)
<1>1. DOMAIN fr = {}
  OBVIOUS
<1>2. QED
  BY <1>1 DEF CallsOK, Nested, Fresh, Answered

(* The request whose URI is redirected, or whose content asks for another, *)
(* waits in its handler.                                                   *)
LEMMA AppendedOK ==
  ASSUME NEW ch \in Seq(Requests), NEW fr, NEW asked, NEW never,
         ThreadOK(ch, fr, asked, never),
         fr = <<>>,
         ch # <<>> => ch[HereOf(ch)].stage = "Handler",
         Len(ch) < MaxDepth,
         NEW k \in {"main", "redirect", "sub"}, NEW s \in Servers, NEW p \in 1 .. Len(ch) + 1,
         NEW r, r = NewRequest(k, s, p),
         NEW ch2, ch2 = Append(ch, r)
  PROVE  /\ ch2 \in Seq(Requests) /\ Len(ch2) = Len(ch) + 1
         /\ ThreadOK(ch2, fr, asked, never)
<1>0. r \in Requests
  BY DEF NewRequest, Requests, Stages, Filenames, Handlers
<1>1. /\ Len(ch) \in Nat /\ DOMAIN ch = 1 .. Len(ch)
      /\ ch2 \in Seq(Requests)
      /\ Len(ch2) = Len(ch) + 1 /\ DOMAIN ch2 = 1 .. Len(ch) + 1 /\ ch2 # <<>>
      /\ ch2[Len(ch) + 1] = r
      /\ \A m \in DOMAIN ch : ch2[m] = ch[m]
  BY <1>0
<1>2. /\ r.stage = "TranslateNamePreRewrite" /\ r.pool = p /\ r.slot = 0 /\ r.ctx = NoServer
      /\ r.handler = "default" /\ r.filename = "none"
  BY DEF NewRequest
<1>3. \A m \in DOMAIN ch : ch[m].stage = "Handler"
  BY <1>1 DEF ThreadOK, Shape, HereOf, Last
<1>4. HereOf(ch2) = Len(ch) + 1
  BY <1>1, <1>2, <1>3 DEF HereOf, Last
<1>5. Shape(ch2)
  <2>1. ASSUME NEW m \in DOMAIN ch2
        PROVE  /\ ch2[m].pool \in 1 .. m
               /\ ch2[m].stage \notin Last
               /\ m < Len(ch2) => ch2[m].stage = "Handler"
    <3>1. CASE m = Len(ch) + 1
      BY <1>1, <1>2, <3>1 DEF Last
    <3>2. CASE m \in DOMAIN ch
      BY <1>1, <1>3, <3>2 DEF ThreadOK, Shape, Last
    <3>3. QED
      BY <1>1, <3>1, <3>2
  <2>2. QED
    BY <2>1 DEF Shape
<1>6. CallsOK(r, HereOf(ch2), fr, asked, never)
  BY <1>2, NoCalls
<1>7. RequestOK(r, asked, never)
  BY <1>2 DEF RequestOK, Early
<1>8. \A m \in DOMAIN ch2 : RequestOK(ch2[m], asked, never)
  BY <1>1, <1>7 DEF ThreadOK
<1>9. QED
  BY <1>1, <1>4, <1>5, <1>6, <1>8 DEF ThreadOK

(* The pool of the innermost request goes, with the requests in it.        *)
LEMMA DestroyedOK ==
  ASSUME NEW ch \in Seq(Requests), ch # <<>>,
         NEW fr, NEW asked, NEW never,
         ThreadOK(ch, fr, asked, never),
         NEW p \in 1 .. Len(ch), p = 1 \/ ch[HereOf(ch)].stage \notin Last,
         NEW ch2, ch2 = SubSeq(ch, 1, p - 1)
  PROVE  ThreadOK(ch2, <<>>, asked, never)
<1>1. Len(ch) \in Nat /\ DOMAIN ch = 1 .. Len(ch)
  OBVIOUS
<1>2. /\ Len(ch2) = p - 1
      /\ DOMAIN ch2 = 1 .. p - 1
      /\ \A m \in 1 .. p - 1 : ch2[m] = ch[m]
  BY <1>1
<1>3. CASE p = 1
  <2>1. ch2 = <<>>
    BY <1>2, <1>3
  <2>2. ThreadOK(<<>>, <<>>, asked, never)
    BY EmptyThread
  <2>3. QED
    BY <2>1, <2>2, Zenon
<1>4. CASE p > 1
  <2>1. ch[HereOf(ch)].stage \notin Last
    BY <1>4
  <2>2. \A m \in 1 .. p - 1 : ch[m].stage = "Handler"
    BY <1>1, <2>1 DEF ThreadOK, Shape, HereOf
  <2>3. ch2 # <<>> /\ HereOf(ch2) = p - 1
    BY <1>2, <1>4, <2>2 DEF HereOf, Last
  <2>4. Shape(ch2)
    BY <1>1, <1>2, <2>2 DEF ThreadOK, Shape, Last
  <2>5. CallsOK(ch2[p - 1], p - 1, <<>>, asked, never)
    <3>1. ch2[p - 1].stage = "Handler"
      BY <1>2, <1>4, <2>2
    <3>2. QED
      BY <3>1, NoCalls
  <2>6. \A m \in DOMAIN ch2 : RequestOK(ch2[m], asked, never)
    BY <1>1, <1>2 DEF ThreadOK
  <2>7. QED
    BY <2>3, <2>4, <2>5, <2>6 DEF ThreadOK
<1>5. QED
  BY <1>1, <1>3, <1>4

(* The client's request is to be logged when the innermost one is over.    *)
LEMMA LoggedOK ==
  ASSUME NEW ch \in Seq(Requests), ch # <<>>,
         NEW fr, NEW asked, NEW never,
         ThreadOK(ch, fr, asked, never),
         ch[HereOf(ch)].stage \notin Last,
         NEW ch2, ch2 = [ch EXCEPT ![1].stage = "LogTransaction"]
  PROVE  /\ ch2 \in Seq(Requests)
         /\ ThreadOK(ch2, <<>>, asked, never)
<1>1. Len(ch) \in Nat /\ DOMAIN ch = 1 .. Len(ch) /\ 1 \in DOMAIN ch
  OBVIOUS
<1> DEFINE r == [ch[1] EXCEPT !.stage = "LogTransaction"]
<1>2. ch[1] \in Requests
  BY <1>1
<1>3. /\ r \in Requests
      /\ r.stage = "LogTransaction" /\ r.pool = ch[1].pool /\ r.ctx = ch[1].ctx
      /\ r.server = ch[1].server /\ r.filename = ch[1].filename /\ r.handler = ch[1].handler
  BY <1>2 DEF Requests, Stages
<1>4. ch2 = [ch EXCEPT ![1] = r]
  OBVIOUS
<1> HIDE DEF r
<1>5. /\ ch2 \in Seq(Requests) /\ Len(ch2) = Len(ch) /\ DOMAIN ch2 = DOMAIN ch /\ ch2 # <<>>
      /\ ch2[1] = r
      /\ \A k \in DOMAIN ch : k # 1 => ch2[k] = ch[k]
  BY <1>1, <1>3, <1>4
<1>6. HereOf(ch2) = 1
  BY <1>3, <1>5 DEF HereOf, Last
<1>7. Shape(ch2)
  <2>1. ASSUME NEW k \in DOMAIN ch, k # 1
        PROVE  /\ ch2[k].pool \in 1 .. k
               /\ ch2[k].stage \notin Last
               /\ k < Len(ch) => ch2[k].stage = "Handler"
    BY <1>1, <1>5, <2>1 DEF ThreadOK, Shape
  <2>2. ch2[1].pool \in 1 .. 1 /\ ch2[1].stage \in Last
    BY <1>1, <1>3, <1>5 DEF ThreadOK, Shape, Last
  <2>3. QED
    BY <1>1, <1>5, <2>1, <2>2 DEF Shape
<1>8. CallsOK(r, 1, <<>>, asked, never)
  BY <1>3, NoCalls
<1>9. RequestOK(r, asked, never)
  BY <1>1, <1>3 DEF ThreadOK, RequestOK, Last
<1>10. \A k \in DOMAIN ch2 : RequestOK(ch2[k], asked, never)
  BY <1>1, <1>5, <1>9 DEF ThreadOK
<1>11. QED
  BY <1>5, <1>6, <1>7, <1>8, <1>10 DEF ThreadOK

-----------------------------------------------------------------------------
(* A step of one thread                                                    *)

(* What a thread in a request can rely on. *)
LEMMA InRequest ==
  ASSUME IInv, NEW t \in Threads, chain[t] # <<>>
  PROVE  /\ server = "serving"
         /\ chain[t] \in Seq(Requests) /\ Len(chain[t]) \in Nat /\ Len(chain[t]) <= MaxDepth
         /\ frames[t] \in Seq(Frames) /\ Len(frames[t]) \in Nat /\ Len(frames[t]) <= MaxNest
         /\ Here(t) = HereOf(chain[t])
         /\ Here(t) \in DOMAIN chain[t] /\ Here(t) \in 1 .. MaxDepth
         /\ Cur(t) = chain[t][Here(t)] /\ Cur(t) \in Requests
         /\ Cur(t).stage \notin Last => Here(t) = Len(chain[t])
         /\ ThreadOK(chain[t], frames[t], AskedFor, Never)
         /\ CallsOK(Cur(t), Here(t), frames[t], AskedFor, Never)
         /\ RequestOK(Cur(t), AskedFor, Never)
<1>1. /\ chain[t] \in Seq(Requests) /\ Len(chain[t]) <= MaxDepth
      /\ frames[t] \in Seq(Frames) /\ Len(frames[t]) <= MaxNest
      /\ chain \in [Threads -> Seq(Requests)]
  BY DEF IInv, TypeOK
<1>2. server = "serving"
  BY <1>1 DEF IInv, ServerInv
<1>3. Here(t) = HereOf(chain[t])
  BY DEF Here, HereOf, Last
<1>4. Len(chain[t]) \in Nat /\ Len(frames[t]) \in Nat /\ DOMAIN chain[t] = 1 .. Len(chain[t])
  BY <1>1
<1>5. /\ Here(t) \in DOMAIN chain[t] /\ Here(t) \in 1 .. MaxDepth
      /\ Cur(t) = chain[t][Here(t)]
      /\ Cur(t).stage \notin Last => Here(t) = Len(chain[t])
  BY <1>1, <1>3, <1>4 DEF HereOf, Cur
<1>6. ThreadOK(chain[t], frames[t], AskedFor, Never)
  BY DEF IInv
<1>7. /\ CallsOK(Cur(t), Here(t), frames[t], AskedFor, Never)
      /\ RequestOK(Cur(t), AskedFor, Never)
  BY <1>3, <1>5, <1>6 DEF ThreadOK
<1>8. QED
  BY <1>1, <1>2, <1>3, <1>4, <1>5, <1>6, <1>7

LEMMA ThreadStep ==
  ASSUME IInv, NEW t \in Threads, UNCHANGED configVars, server = "serving",
         NEW ch \in Seq(Requests), Len(ch) <= MaxDepth,
         NEW fr \in Seq(Frames), Len(fr) <= MaxNest,
         chain' = [chain EXCEPT ![t] = ch],
         frames' = [frames EXCEPT ![t] = fr],
         ThreadOK(ch, fr, AskedFor, Never)
  PROVE  /\ ConfigTypes' /\ ThreadTypes'
         /\ ServerInv'
         /\ ConfigsAsAsked'
         /\ \A u \in Threads : ThreadOK(chain[u], frames[u], AskedFor, Never)'
<1>1. ConfigTypes /\ ThreadTypes
  BY TypeParts DEF IInv
<1>2. UNCHANGED <<server, once, own, sc, conf, badDefns, lines>>
  BY DEF configVars
<1>3. ConfigTypes'
  BY <1>1, <1>2 DEF ConfigTypes
<1>4. ThreadTypes'
  BY <1>1 DEF ThreadTypes
<1>5. AskedFor' = AskedFor /\ Never' = Never
  BY <1>2 DEF AskedFor, Asked, Never
<1>6. ServerInv'
  BY <1>2, <1>5 DEF IInv, ServerInv
<1>7. ConfigsAsAsked'
  BY <1>2 DEF IInv, ConfigsAsAsked, DirectivesUsed, DefinitionsCaught
<1>8. ASSUME NEW u \in Threads
      PROVE  ThreadOK(chain[u], frames[u], AskedFor, Never)'
  <2>1. ThreadOK(chain'[u], frames'[u], AskedFor, Never)
    <3>1. CASE u = t
      BY <1>1, <3>1 DEF ThreadTypes
    <3>2. CASE u # t
      <4>1. chain'[u] = chain[u] /\ frames'[u] = frames[u]
        BY <1>1, <3>2 DEF ThreadTypes
      <4>2. QED
        BY <4>1 DEF IInv
    <3>3. QED
      BY <3>1, <3>2
  <2>2. ThreadOK(chain'[u], frames'[u], AskedFor', Never')
    BY <1>5, <2>1
  <2>3. QED
    BY <2>2
<1>9. QED
  BY <1>3, <1>4, <1>6, <1>7, <1>8

(* What a thread in a call can rely on. *)
LEMMA InCall ==
  ASSUME IInv, NEW t \in Threads, frames[t] # <<>>
  PROVE  /\ chain[t] # <<>>
         /\ Len(frames[t]) \in DOMAIN frames[t] /\ Len(frames[t]) \in 1 .. MaxNest
         /\ Top(t) = frames[t][Len(frames[t])] /\ Top(t) \in Frames
         /\ Top(t).d = Here(t)
         /\ Req(t) = Cur(t)
         /\ Cur(t).stage \notin {"Handler", "done"}
         /\ Top(t).at \in {"rules", "lua"} => Cur(t).ctx \in Servers
         /\ Top(t).at = "lua" => Cur(t).slot \in States /\ Top(t).runs < MaxRuns
<1>1. chain[t] # <<>>
  BY DEF IInv, ThreadOK
<1>2. /\ frames[t] \in Seq(Frames) /\ Len(frames[t]) <= MaxNest
      /\ Cur(t) \in Requests
      /\ CallsOK(Cur(t), Here(t), frames[t], AskedFor, Never)
      /\ Cur(t) = chain[t][Here(t)]
  BY <1>1, InRequest
<1>3. /\ Len(frames[t]) \in DOMAIN frames[t] /\ Len(frames[t]) \in 1 .. MaxNest
      /\ Top(t) = frames[t][Len(frames[t])] /\ Top(t) \in Frames
  BY <1>2 DEF Top
<1>4. /\ Top(t).d = Here(t)
      /\ Cur(t).stage \notin {"Handler", "done"}
      /\ Top(t).at \in {"rules", "lua"} => Cur(t).ctx \in Servers
      /\ Top(t).at = "lua" => Cur(t).slot # 0 /\ Top(t).runs < MaxRuns
  BY <1>2, <1>3 DEF CallsOK, Nested
<1>5. Cur(t).slot \in {0} \cup States
  BY <1>2 DEF Requests
<1>6. Req(t) = Cur(t)
  BY <1>2, <1>4 DEF Req
<1>7. QED
  BY <1>1, <1>3, <1>4, <1>5, <1>6

-----------------------------------------------------------------------------
(* Who has which Lua state                                                 *)

SameStates(ch, ch2) ==
  \A k \in DOMAIN ch \cup DOMAIN ch2 :
    (k \in DOMAIN ch /\ ch[k].slot # 0) \/ (k \in DOMAIN ch2 /\ ch2[k].slot # 0) =>
      /\ k \in DOMAIN ch /\ k \in DOMAIN ch2
      /\ ch2[k].ctx = ch[k].ctx
      /\ ch2[k].slot = ch[k].slot

LEMMA StatesStay ==
  ASSUME IInv, NEW t \in Threads, NEW ch, chain' = [chain EXCEPT ![t] = ch],
         SameStates(chain[t], ch),
         UNCHANGED <<made, free>>
  PROVE  StatesOwned'
<1>1. /\ chain \in [Threads -> Seq(Requests)]
      /\ made \in [Servers -> 0 .. MaxStates]
      /\ free \in [Servers -> SUBSET States]
      /\ StatesKept /\ StatesApart
  BY DEF IInv, TypeOK, StatesOwned
<1>2. \A u \in Threads : SameStates(chain[u], chain'[u])
  <2> TAKE u \in Threads
  <2>1. CASE u = t
    BY <1>1, <2>1
  <2>2. CASE u # t
    BY <1>1, <2>2 DEF SameStates
  <2>3. QED
    BY <2>1, <2>2
<1>3. StatesKept'
  <2>1. ASSUME NEW c \in Servers, NEW i \in (1 .. made[c]) \ free[c]
        PROVE  \E u \in Threads : \E k \in DOMAIN chain'[u] : Holds(u, k, c, i)'
    <3>0. PICK u \in Threads : \E k \in DOMAIN chain[u] : Holds(u, k, c, i)
      BY <1>1 DEF StatesKept
    <3>1. PICK k \in DOMAIN chain[u] : Holds(u, k, c, i)
      BY <3>0
    <3>2. i # 0
      BY <1>1
    <3>3. k \in DOMAIN chain'[u] /\ chain'[u][k].ctx = c /\ chain'[u][k].slot = i
      BY <1>2, <3>1, <3>2 DEF SameStates, Holds
    <3>4. QED
      BY <3>3 DEF Holds
  <2>2. QED
    BY <1>1, <2>1 DEF StatesKept
<1>4. StatesApart'
  <2>1. ASSUME NEW u \in Threads, NEW v \in Threads,
               NEW k \in DOMAIN chain'[u], NEW m \in DOMAIN chain'[v],
               chain'[u][k].slot # 0
        PROVE  /\ chain'[u][k].ctx \in Servers
               /\ chain'[u][k].slot \in (1 .. made[chain'[u][k].ctx]) \ free[chain'[u][k].ctx]
               /\ Holds(v, m, chain[u][k].ctx, chain[u][k].slot)' => u = v /\ k = m
    <3>1. /\ k \in DOMAIN chain[u]
          /\ chain'[u][k].ctx = chain[u][k].ctx
          /\ chain'[u][k].slot = chain[u][k].slot
      BY <1>2, <2>1 DEF SameStates
    <3>2. /\ chain[u][k].ctx \in Servers
          /\ chain[u][k].slot \in (1 .. made[chain[u][k].ctx]) \ free[chain[u][k].ctx]
      BY <1>1, <2>1, <3>1 DEF StatesApart
    <3>3. ASSUME Holds(v, m, chain[u][k].ctx, chain[u][k].slot)'
          PROVE  u = v /\ k = m
      <4>1. chain'[v][m].ctx = chain[u][k].ctx /\ chain'[v][m].slot = chain[u][k].slot
        BY <3>1, <3>3 DEF Holds
      <4>2. m \in DOMAIN chain[v] /\ Holds(v, m, chain[u][k].ctx, chain[u][k].slot)
        BY <1>2, <2>1, <3>1, <4>1 DEF SameStates, Holds
      <4>3. QED
        BY <1>1, <2>1, <3>1, <4>2 DEF StatesApart
    <3>4. QED
      BY <3>1, <3>2, <3>3
  <2>2. QED
    BY <2>1 DEF StatesApart
<1>5. QED
  BY <1>3, <1>4 DEF StatesOwned

(* The request replaced has the same state, or none before and after.      *)
LEMMA SameStatesReplaced ==
  ASSUME NEW ch \in Seq(Requests), NEW h \in DOMAIN ch, NEW r,
         r.slot = ch[h].slot,
         r.ctx = ch[h].ctx \/ r.slot = 0,
         NEW ch2, ch2 = [ch EXCEPT ![h] = r]
  PROVE  SameStates(ch, ch2)
BY DEF SameStates

LEMMA SameStatesAppended ==
  ASSUME NEW ch \in Seq(Requests), NEW r \in Requests, r.slot = 0,
         NEW ch2, ch2 = Append(ch, r)
  PROVE  SameStates(ch, ch2)
BY DEF SameStates

(* A request that is over gives its states back.                           *)
LEMMA StatesReleased ==
  ASSUME IInv, NEW t \in Threads, NEW p \in 1 .. Len(chain[t]), chain[t] # <<>>,
         PoolDestroyed(t, p), made' = made
  PROVE  StatesOwned' /\ free' \in [Servers -> SUBSET States]
<1>1. /\ chain \in [Threads -> Seq(Requests)] /\ chain[t] \in Seq(Requests)
      /\ made \in [Servers -> 0 .. MaxStates]
      /\ free \in [Servers -> SUBSET States]
      /\ StatesKept /\ StatesApart
  BY DEF IInv, TypeOK, StatesOwned
<1>2. /\ chain' = [chain EXCEPT ![t] = SubSeq(chain[t], 1, p - 1)]
      /\ \A c \in Servers : free'[c] = free[c] \cup Released(t, p, c)
      /\ free' = [c \in Servers |-> free[c] \cup Released(t, p, c)]
  BY DEF PoolDestroyed
<1>3. Len(chain[t]) \in Nat /\ DOMAIN chain[t] = 1 .. Len(chain[t])
  BY <1>1
<1>4. /\ DOMAIN chain'[t] = 1 .. p - 1
      /\ \A k \in 1 .. p - 1 : chain'[t][k] = chain[t][k]
      /\ \A u \in Threads : u # t => chain'[u] = chain[u]
  BY <1>1, <1>2, <1>3
<1>5. ASSUME NEW c \in Servers
      PROVE  \A i : i \in Released(t, p, c) <=>
                      i # 0 /\ \E k \in p .. Len(chain[t]) : Holds(t, k, c, i)
  BY <1>3 DEF Released, Holds
<1>6. ASSUME NEW u \in Threads, NEW k \in DOMAIN chain'[u]
      PROVE  /\ k \in DOMAIN chain[u] /\ chain'[u][k] = chain[u][k]
             /\ u = t => k \notin p .. Len(chain[t])
  BY <1>3, <1>4
<1>7. free' \in [Servers -> SUBSET States]
  <2>1. ASSUME NEW c \in Servers, NEW i \in Released(t, p, c)
        PROVE  i \in States
    <3>1. PICK k \in p .. Len(chain[t]) : Holds(t, k, c, i)
      BY <1>5, <2>1
    <3>2. chain[t][k] \in Requests /\ i # 0
      BY <1>1, <1>3, <1>5, <2>1
    <3>3. QED
      BY <3>1, <3>2 DEF Holds, Requests
  <2>2. QED
    BY <1>1, <1>2, <2>1
<1>8. StatesKept'
  <2>1. ASSUME NEW c \in Servers
        PROVE  free'[c] \subseteq 1 .. made[c]
    <3>1. ASSUME NEW i \in Released(t, p, c)
          PROVE  i \in 1 .. made[c]
      <4>1. PICK k \in p .. Len(chain[t]) : Holds(t, k, c, i)
        BY <1>5, <3>1
      <4>2. k \in DOMAIN chain[t] /\ i # 0
        BY <1>3, <1>5, <3>1
      <4>3. QED
        BY <1>1, <4>1, <4>2 DEF StatesApart, Holds
    <3>2. QED
      BY <1>1, <1>2, <3>1 DEF StatesKept
  <2>2. ASSUME NEW c \in Servers, NEW i \in (1 .. made[c]) \ free'[c]
        PROVE  \E u \in Threads : \E k \in DOMAIN chain'[u] : Holds(u, k, c, i)'
    <3>1. i \in (1 .. made[c]) \ free[c] /\ i \notin Released(t, p, c) /\ i # 0
      BY <1>1, <1>2, <2>2
    <3>0. PICK u \in Threads : \E k \in DOMAIN chain[u] : Holds(u, k, c, i)
      BY <1>1, <3>1 DEF StatesKept
    <3>2. PICK k \in DOMAIN chain[u] : Holds(u, k, c, i)
      BY <3>0
    <3>3. k \in DOMAIN chain'[u] /\ chain'[u][k] = chain[u][k]
      <4>1. CASE u # t
        BY <1>4, <3>2, <4>1
      <4>2. CASE u = t
        <5>1. k \notin p .. Len(chain[t])
          BY <1>5, <3>1, <3>2, <4>2
        <5>2. QED
          BY <1>3, <1>4, <3>2, <4>2, <5>1
      <4>3. QED
        BY <4>1, <4>2
    <3>4. QED
      BY <3>2, <3>3 DEF Holds
  <2>3. QED
    BY <2>1, <2>2 DEF StatesKept
<1>9. StatesApart'
  <2>1. ASSUME NEW u \in Threads, NEW v \in Threads,
               NEW k \in DOMAIN chain'[u], NEW m \in DOMAIN chain'[v],
               chain'[u][k].slot # 0
        PROVE  /\ chain'[u][k].ctx \in Servers
               /\ chain'[u][k].slot \in (1 .. made[chain'[u][k].ctx]) \ free'[chain'[u][k].ctx]
               /\ Holds(v, m, chain[u][k].ctx, chain[u][k].slot)' => u = v /\ k = m
    <3>1. /\ k \in DOMAIN chain[u] /\ chain'[u][k] = chain[u][k]
          /\ m \in DOMAIN chain[v] /\ chain'[v][m] = chain[v][m]
          /\ u = t => k \notin p .. Len(chain[t])
      BY <1>6
    <3>2. /\ chain[u][k].ctx \in Servers
          /\ chain[u][k].slot \in (1 .. made[chain[u][k].ctx]) \ free[chain[u][k].ctx]
          /\ \A j \in DOMAIN chain[t] :
               Holds(t, j, chain[u][k].ctx, chain[u][k].slot) => u = t /\ k = j
          /\ Holds(v, m, chain[u][k].ctx, chain[u][k].slot) => u = v /\ k = m
      BY <1>1, <2>1, <3>1 DEF StatesApart
    <3>3. chain[u][k].slot \notin Released(t, p, chain[u][k].ctx)
      BY <1>3, <1>5, <3>1, <3>2
    <3>4. QED
      BY <1>2, <3>1, <3>2, <3>3 DEF Holds
  <2>2. QED
    BY <2>1 DEF StatesApart
<1>10. QED
  BY <1>7, <1>8, <1>9 DEF StatesOwned

(* A request has its state, takes a free one, or gets a new one.           *)
LEMMA StatesAcquired ==
  ASSUME IInv, NEW t \in Threads, frames[t] # <<>>, Cur(t).ctx \in Servers,
         NEW i \in States, luaState(t, i)
  PROVE  /\ chain' = [chain EXCEPT ![t] = [chain[t] EXCEPT ![Here(t)] = [Cur(t) EXCEPT !.slot = i]]]
         /\ Cur(t).slot \in {0, i}
         /\ made' \in [Servers -> 0 .. MaxStates]
         /\ free' \in [Servers -> SUBSET States]
         /\ StatesOwned'
<1> DEFINE c == Cur(t).ctx
           ch == [chain[t] EXCEPT ![Here(t)] = [Cur(t) EXCEPT !.slot = i]]
<1>1. /\ chain \in [Threads -> Seq(Requests)] /\ chain[t] \in Seq(Requests)
      /\ made \in [Servers -> 0 .. MaxStates]
      /\ free \in [Servers -> SUBSET States]
      /\ StatesKept /\ StatesApart
  BY DEF IInv, TypeOK, StatesOwned
<1>2. /\ Req(t) = Cur(t) /\ Top(t).d = Here(t)
      /\ chain[t] # <<>>
      /\ Here(t) \in DOMAIN chain[t]
      /\ Cur(t) = chain[t][Here(t)] /\ Cur(t) \in Requests
  BY InCall, InRequest
<1>3. i # 0 /\ i \in Nat /\ i <= MaxStates
  BY DEF States
<1>4. CASE Cur(t).slot = i /\ UNCHANGED <<chain, made, free>>
  <2>1. [Cur(t) EXCEPT !.slot = i] = Cur(t)
    BY <1>2, <1>4 DEF Requests
  <2>2. ch = chain[t]
    BY <1>1, <1>2, <2>1
  <2>3. chain' = [chain EXCEPT ![t] = ch]
    BY <1>1, <1>4, <2>2
  <2>4. SameStates(chain[t], ch)
    BY <2>2 DEF SameStates
  <2>5. StatesOwned'
    BY <1>4, <2>3, <2>4, StatesStay
  <2>6. QED
    BY <1>1, <1>4, <2>3, <2>5
<1>5. CASE Cur(t).slot = 0 /\ (\/ i \in free[c] /\ free' = [free EXCEPT ![c] = @ \ {i}] /\ made' = made
                              \/ /\ free[c] = {} /\ i = made[c] + 1
                                 /\ made' = [made EXCEPT ![c] = i] /\ free' = free)
           /\ chain' = [chain EXCEPT ![t] = ch]
  <2>1. /\ \A u \in Threads : u # t => chain'[u] = chain[u]
        /\ DOMAIN chain'[t] = DOMAIN chain[t]
        /\ \A k \in DOMAIN chain[t] : k # Here(t) => chain'[t][k] = chain[t][k]
        /\ chain'[t][Here(t)].ctx = c /\ chain'[t][Here(t)].slot = i
    BY <1>1, <1>2, <1>5 DEF Requests
  <2>2. made' \in [Servers -> 0 .. MaxStates] /\ free' \in [Servers -> SUBSET States]
    <3>1. CASE free' = [free EXCEPT ![c] = @ \ {i}] /\ made' = made
      <4>1. free[c] \ {i} \in SUBSET States
        BY <1>1
      <4>2. QED
        BY <1>1, <3>1, <4>1
    <3>2. CASE i = made[c] + 1 /\ made' = [made EXCEPT ![c] = i] /\ free' = free
      <4>1. i \in 0 .. MaxStates
        BY <1>3
      <4>2. QED
        BY <1>1, <3>2, <4>1
    <3>3. QED
      BY <1>5, <3>1, <3>2
  <2>3. /\ i \notin (1 .. made[c]) \ free[c]
        /\ \A d \in Servers : \A j : j \in (1 .. made'[d]) \ free'[d] <=>
             j \in (1 .. made[d]) \ free[d] \/ (d = c /\ j = i)
        /\ \A d \in Servers : free'[d] \subseteq 1 .. made'[d]
    <3>1. free[c] \subseteq 1 .. made[c] /\ made[c] \in Nat
      BY <1>1 DEF StatesKept
    <3>2. CASE i \in free[c] /\ free' = [free EXCEPT ![c] = @ \ {i}] /\ made' = made
      BY <1>1, <3>1, <3>2 DEF StatesKept
    <3>3. CASE /\ free[c] = {} /\ i = made[c] + 1
               /\ made' = [made EXCEPT ![c] = i] /\ free' = free
      <4>1. \A d \in Servers : d # c => made'[d] = made[d]
        BY <1>1, <3>3
      <4>2. made'[c] = made[c] + 1
        BY <1>1, <3>3
      <4>3. QED
        BY <1>1, <3>1, <3>3, <4>1, <4>2 DEF StatesKept
    <3>4. QED
      BY <1>5, <3>2, <3>3
  <2>4. StatesKept'
    <3>1. ASSUME NEW d \in Servers, NEW j \in (1 .. made'[d]) \ free'[d]
          PROVE  \E u \in Threads : \E k \in DOMAIN chain'[u] : Holds(u, k, d, j)'
      <4>1. CASE d = c /\ j = i
        BY <1>2, <2>1, <4>1 DEF Holds
      <4>2. CASE j \in (1 .. made[d]) \ free[d]
        <5>1. PICK u \in Threads : \E k \in DOMAIN chain[u] : Holds(u, k, d, j)
          BY <1>1, <4>2 DEF StatesKept
        <5>2. PICK k \in DOMAIN chain[u] : Holds(u, k, d, j)
          BY <5>1
        <5>3. j # 0
          BY <1>1, <4>2
        <5>4. k \in DOMAIN chain'[u] /\ chain'[u][k] = chain[u][k]
          BY <1>2, <1>5, <2>1, <5>2, <5>3 DEF Holds
        <5>5. QED
          BY <5>2, <5>4 DEF Holds
      <4>3. QED
        BY <2>3, <4>1, <4>2
    <3>2. QED
      BY <2>3, <3>1 DEF StatesKept
  <2>5. StatesApart'
    <3>1. ASSUME NEW u \in Threads, NEW v \in Threads,
                 NEW k \in DOMAIN chain'[u], NEW m \in DOMAIN chain'[v],
                 chain'[u][k].slot # 0
          PROVE  /\ chain'[u][k].ctx \in Servers
                 /\ chain'[u][k].slot \in (1 .. made'[chain'[u][k].ctx]) \ free'[chain'[u][k].ctx]
                 /\ Holds(v, m, chain[u][k].ctx, chain[u][k].slot)' => u = v /\ k = m
      <4>1. k \in DOMAIN chain[u] /\ m \in DOMAIN chain[v]
        BY <2>1
      <4>2. CASE u = t /\ k = Here(t)
        <5>1. chain'[u][k].ctx = c /\ chain'[u][k].slot = i
          BY <2>1, <4>2
        <5>2. i \in (1 .. made'[c]) \ free'[c]
          BY <2>3
        <5>3. ASSUME ~(v = t /\ m = Here(t)), chain'[v][m].ctx = c, chain'[v][m].slot = i
              PROVE  FALSE
          <6>1. chain'[v][m] = chain[v][m]
            BY <2>1, <4>1, <5>3
          <6>2. i \in (1 .. made[c]) \ free[c]
            BY <1>1, <1>3, <4>1, <5>3, <6>1 DEF StatesApart
          <6>3. QED
            BY <2>3, <6>2
        <5>4. QED
          BY <4>2, <5>1, <5>2, <5>3 DEF Holds
      <4>3. CASE ~(u = t /\ k = Here(t))
        <5>1. chain'[u][k] = chain[u][k]
          BY <2>1, <4>1, <4>3
        <5>2. /\ chain[u][k].ctx \in Servers
              /\ chain[u][k].slot \in (1 .. made[chain[u][k].ctx]) \ free[chain[u][k].ctx]
              /\ Holds(v, m, chain[u][k].ctx, chain[u][k].slot) => u = v /\ k = m
          BY <1>1, <3>1, <4>1, <5>1 DEF StatesApart
        <5>3. CASE v = t /\ m = Here(t)
          <6>1. ~(chain[u][k].ctx = c /\ chain[u][k].slot = i)
            BY <2>3, <5>2
          <6>2. ~Holds(v, m, chain[u][k].ctx, chain[u][k].slot)'
            BY <2>1, <5>1, <5>3, <6>1 DEF Holds
          <6>3. QED
            BY <2>3, <5>1, <5>2, <6>2
        <5>4. CASE ~(v = t /\ m = Here(t))
          <6>1. chain'[v][m] = chain[v][m]
            BY <2>1, <4>1, <5>4
          <6>2. QED
            BY <2>3, <5>1, <5>2, <6>1 DEF Holds
        <5>5. QED
          BY <5>3, <5>4
      <4>4. QED
        BY <4>2, <4>3
    <3>2. QED
      BY <3>1 DEF StatesApart
  <2>6. QED
    BY <1>5, <2>2, <2>4, <2>5 DEF StatesOwned
<1>6. QED
  BY <1>2, <1>4, <1>5 DEF luaState, SetReq

-----------------------------------------------------------------------------
(* What the Lua states refer to                                            *)

SameCalls(ch, fr, ch2, fr2) ==
  /\ \A n \in DOMAIN fr : fr[n].at = "lua" =>
       /\ n \in DOMAIN fr2
       /\ fr2[n].at = "lua"
       /\ ch2[HereOf(ch2)].ctx = ch[HereOf(ch)].ctx
       /\ ch2[HereOf(ch2)].slot = ch[HereOf(ch)].slot
  /\ fr2 # <<>> /\ fr2[Len(fr2)].at = "lua" /\ ~fr2[Len(fr2)].wrote =>
       /\ fr # <<>>
       /\ Len(fr) = Len(fr2)
       /\ fr[Len(fr)].at = "lua"
       /\ ~fr[Len(fr)].wrote
  /\ ch2 # <<>> /\ ch2[1].stage = "done" /\ Rec(ch2[1].server).fullLuaGC /\ ch2[1].slot # 0 =>
       /\ ch # <<>>
       /\ ch[1].stage = "done"
       /\ ch2[1].ctx = ch[1].ctx
       /\ ch2[1].slot = ch[1].slot
       /\ ch2[1].server = ch[1].server

(* The innermost call is for the request Apache is at.                     *)
LEMMA LastCall ==
  ASSUME NEW ch \in Seq(Requests), NEW fr \in Seq(Frames), NEW asked, NEW never,
         ThreadOK(ch, fr, asked, never)
  PROVE  /\ ch # <<>> => HereOf(ch) \in DOMAIN ch
         /\ fr # <<>> => ch # <<>> /\ fr[Len(fr)].d = HereOf(ch)
<1>1. ch # <<>> => HereOf(ch) \in DOMAIN ch
  BY DEF HereOf
<1>2. ASSUME fr # <<>>
      PROVE  ch # <<>> /\ fr[Len(fr)].d = HereOf(ch)
  <2>1. ch # <<>> /\ CallsOK(ch[HereOf(ch)], HereOf(ch), fr, asked, never)
    BY <1>2 DEF ThreadOK
  <2>2. Len(fr) \in DOMAIN fr
    BY <1>2
  <2>3. QED
    BY <2>1, <2>2 DEF CallsOK, Nested
<1>3. QED
  BY <1>1, <1>2

LEMMA LuaStays ==
  ASSUME IInv, NEW t \in Threads, UNCHANGED configVars, lua' = lua,
         NEW ch \in Seq(Requests), NEW fr \in Seq(Frames),
         chain' = [chain EXCEPT ![t] = ch],
         frames' = [frames EXCEPT ![t] = fr],
         ThreadOK(ch, fr, AskedFor, Never),
         SameCalls(chain[t], frames[t], ch, fr)
  PROVE  SandboxInv' /\ StatesReady'
<1>0. /\ chain'[t] = ch /\ frames'[t] = fr
      /\ \A u \in Threads : u # t => chain'[u] = chain[u] /\ frames'[u] = frames[u]
      /\ fr # <<>> => fr[Len(fr)].d = HereOf(ch)
  <2>1. chain \in [Threads -> Seq(Requests)] /\ frames \in [Threads -> Seq(Frames)]
    BY DEF IInv, TypeOK
  <2>2. /\ HereOf(ch) \in DOMAIN ch \/ ch = <<>>
        /\ fr # <<>> => fr[Len(fr)].d = HereOf(ch)
    BY LastCall
  <2>3. QED
    BY <2>1, <2>2
<1>1. /\ chain'[t] = ch /\ frames'[t] = fr
      /\ \A u \in Threads : u # t => chain'[u] = chain[u] /\ frames'[u] = frames[u]
      /\ Cur(t)' = ch[HereOf(ch)]
      /\ fr # <<>> => Req(t)' = ch[HereOf(ch)]
  BY <1>0 DEF Cur, Here, HereOf, Last, Req, Top
<1>2. chain[t] # <<>> => Cur(t) = chain[t][HereOf(chain[t])]
  BY InRequest
<1>3. UNCHANGED <<own, sc>>
  BY DEF configVars
<1>4. SandboxInv'
  <2>1. ASSUME NEW x, NEW c, NEW i, Known(x, c, i)
        PROVE  Known(x, c, i)'
    <3>1. CASE x = Dead
      BY <3>1 DEF Known
    <3>2. CASE x # Dead
      <4>1. LuaCall(x[1], x[2], c, i)
        BY <2>1, <3>2 DEF Known
      <4>2. CASE x[1] = t
        <5>1. /\ x[2] \in DOMAIN frames[t] /\ frames[t][x[2]].at = "lua"
              /\ Cur(t).ctx = c /\ Cur(t).slot = i
          BY <4>1, <4>2 DEF LuaCall
        <5>2. frames[t] # <<>>
          BY <5>1
        <5>3. /\ x[2] \in DOMAIN fr /\ fr[x[2]].at = "lua"
              /\ ch[HereOf(ch)].ctx = c /\ ch[HereOf(ch)].slot = i
          BY <1>2, <5>1, <5>2, InCall DEF SameCalls
        <5>4. QED
          BY <1>1, <4>2, <5>3 DEF Known, LuaCall
      <4>3. CASE x[1] # t
        <5>1. x[1] \in Threads /\ chain'[x[1]] = chain[x[1]] /\ frames'[x[1]] = frames[x[1]]
          BY <1>1, <4>1, <4>3 DEF LuaCall
        <5>2. Cur(x[1])' = Cur(x[1])
          BY <5>1 DEF Cur, Here
        <5>3. QED
          BY <4>1, <5>1, <5>2 DEF Known, LuaCall
      <4>4. QED
        BY <4>2, <4>3
    <3>3. QED
      BY <3>1, <3>2
  <2>2. QED
    BY <2>1 DEF IInv, SandboxInv
<1>5. LuaSeesItsAction'
  <2>1. ASSUME NEW u \in Threads, frames'[u] # <<>>,
               Top(u)'.at = "lua", ~Top(u)'.wrote
        PROVE  /\ lua[Req(u)'.ctx][Req(u)'.slot].sandbox = ActionCtx(u)'
               /\ lua[Req(u)'.ctx][Req(u)'.slot].proxy = ActionCtx(u)'
    <3>1. CASE u = t
      <4>1. fr # <<>> /\ fr[Len(fr)].at = "lua" /\ ~fr[Len(fr)].wrote
        BY <1>1, <2>1, <3>1 DEF Top
      <4>2. /\ frames[t] # <<>> /\ Len(frames[t]) = Len(fr)
            /\ Top(t).at = "lua" /\ ~Top(t).wrote
        BY <4>1 DEF SameCalls, Top
      <4>3. Req(t) = Cur(t) /\ chain[t] # <<>> /\ Len(frames[t]) \in DOMAIN frames[t]
        BY <4>2, InCall
      <4>4. Req(t)'.ctx = Req(t).ctx /\ Req(t)'.slot = Req(t).slot
        BY <1>1, <1>2, <4>1, <4>2, <4>3 DEF SameCalls, Top
      <4>5. ActionCtx(t)' = ActionCtx(t)
        BY <1>1, <4>2 DEF ActionCtx
      <4>6. QED
        BY <3>1, <4>2, <4>4, <4>5 DEF IInv, StatesReady, LuaSeesItsAction
    <3>2. CASE u # t
      <4>1. chain'[u] = chain[u] /\ frames'[u] = frames[u]
        BY <1>1, <3>2
      <4>2. Top(u)' = Top(u) /\ Req(u)' = Req(u) /\ ActionCtx(u)' = ActionCtx(u)
        BY <4>1 DEF Top, Req, ActionCtx
      <4>3. QED
        BY <2>1, <4>1, <4>2 DEF IInv, StatesReady, LuaSeesItsAction
    <3>3. QED
      BY <3>1, <3>2
  <2>2. QED
    BY <2>1 DEF LuaSeesItsAction
<1>6. CollectedLast'
  <2>1. ASSUME NEW u \in Threads, chain'[u] # <<>>, chain'[u][1].stage = "done",
               Rec(chain'[u][1].server).fullLuaGC, chain'[u][1].slot # 0
        PROVE  /\ chain[u] # <<>> /\ chain[u][1].stage = "done"
               /\ chain'[u][1].ctx = chain[u][1].ctx
               /\ chain'[u][1].slot = chain[u][1].slot
               /\ chain'[u][1].server = chain[u][1].server
    BY <1>1, <2>1 DEF SameCalls
  <2>2. \A s : Rec(s)' = Rec(s)
    BY <1>3 DEF Rec
  <2>3. QED
    BY SMTT(30), <2>1, <2>2 DEF IInv, StatesReady, CollectedLast
<1>7. QED
  BY <1>4, <1>5, <1>6 DEF StatesReady

(* A thread with chain ch and calls fr has left l in Lua state i of c.      *)
UsesLua(t, ch, fr, c, i, l) ==
  /\ ch[HereOf(ch)].ctx = c
  /\ ch[HereOf(ch)].slot = i
  /\ \A n \in DOMAIN frames[t] : frames[t][n].at = "lua" => Cur(t).ctx = c /\ Cur(t).slot = i
  /\ \A x \in {l.sandbox, l.proxy} :
       x # Dead => x[1] = t /\ x[2] \in DOMAIN fr /\ fr[x[2]].at = "lua"
  /\ fr # <<>> /\ fr[Len(fr)].at = "lua" /\ ~fr[Len(fr)].wrote =>
       l.sandbox = <<t, Len(fr)>> /\ l.proxy = <<t, Len(fr)>>
  /\ ch[1].stage = "done" =>
       HereOf(ch) = 1 /\ (Rec(ch[1].server).fullLuaGC => ~l.garbage)

(* It leaves those of others alone.                                        *)
LEMMA LuaUsed ==
  ASSUME IInv, NEW t \in Threads, UNCHANGED configVars,
         NEW ch \in Seq(Requests), ch # <<>>, NEW fr \in Seq(Frames),
         chain' = [chain EXCEPT ![t] = ch],
         frames' = [frames EXCEPT ![t] = fr],
         ThreadOK(ch, fr, AskedFor, Never),
         StatesOwned',
         NEW c \in Servers, NEW i \in States, NEW l \in LuaStates,
         lua' = [lua EXCEPT ![c][i] = l],
         UsesLua(t, ch, fr, c, i, l)
  PROVE  SandboxInv' /\ StatesReady' /\ lua' \in [Servers -> [States -> LuaStates]]
<1>0. /\ chain'[t] = ch /\ frames'[t] = fr
      /\ \A u \in Threads : u # t => chain'[u] = chain[u] /\ frames'[u] = frames[u]
      /\ HereOf(ch) \in DOMAIN ch
      /\ fr # <<>> => fr[Len(fr)].d = HereOf(ch)
  <2>1. chain \in [Threads -> Seq(Requests)] /\ frames \in [Threads -> Seq(Frames)]
    BY DEF IInv, TypeOK
  <2>2. /\ HereOf(ch) \in DOMAIN ch \/ ch = <<>>
        /\ fr # <<>> => fr[Len(fr)].d = HereOf(ch)
    BY LastCall
  <2>3. QED
    BY <2>1, <2>2
<1>a. /\ ch[HereOf(ch)].ctx = c /\ ch[HereOf(ch)].slot = i
      /\ \A n \in DOMAIN frames[t] : frames[t][n].at = "lua" => Cur(t).ctx = c /\ Cur(t).slot = i
      /\ \A x \in {l.sandbox, l.proxy} :
           x # Dead => x[1] = t /\ x[2] \in DOMAIN fr /\ fr[x[2]].at = "lua"
      /\ fr # <<>> /\ fr[Len(fr)].at = "lua" /\ ~fr[Len(fr)].wrote =>
           l.sandbox = <<t, Len(fr)>> /\ l.proxy = <<t, Len(fr)>>
      /\ ch[1].stage = "done" => HereOf(ch) = 1 /\ (Rec(ch[1].server).fullLuaGC => ~l.garbage)
  BY DEF UsesLua
<1>1. /\ Cur(t)' = ch[HereOf(ch)]
      /\ fr # <<>> => Req(t)' = ch[HereOf(ch)]
  BY <1>0 DEF Cur, Here, HereOf, Last, Req, Top
<1>2. /\ chain \in [Threads -> Seq(Requests)]
      /\ lua \in [Servers -> [States -> LuaStates]]
      /\ UNCHANGED <<own, sc>>
      /\ StatesApart'
  BY DEF IInv, TypeOK, configVars, StatesOwned
<1>3. lua' \in [Servers -> [States -> LuaStates]]
  BY <1>2
<1>4. /\ lua'[c][i] = l
      /\ \A d \in Servers : \A j \in States : ~(d = c /\ j = i) => lua'[d][j] = lua[d][j]
  BY <1>2
<1>5. ASSUME NEW u \in Threads, NEW m \in DOMAIN chain[u], u # t, chain[u][m].slot # 0
      PROVE  /\ chain[u][m].ctx \in Servers /\ chain[u][m].slot \in States
             /\ lua'[chain[u][m].ctx][chain[u][m].slot] = lua[chain[u][m].ctx][chain[u][m].slot]
  <2>1. chain[u][m] \in Requests
    BY <1>2
  <2>2. chain[u][m].ctx \in Servers /\ chain[u][m].slot \in States
    BY <1>5, <2>1 DEF IInv, StatesOwned, StatesApart, Requests
  <2>3. ASSUME chain[u][m].ctx = c, chain[u][m].slot = i
        PROVE  FALSE
    <3>1. m \in DOMAIN chain'[u] /\ chain'[u][m] = chain[u][m] /\ HereOf(ch) \in DOMAIN chain'[t]
      BY <1>0, <1>5
    <3>2. chain'[t][HereOf(ch)].ctx = c /\ chain'[t][HereOf(ch)].slot = i
      BY <1>0, <1>a
    <3>3. Holds(t, HereOf(ch), chain[u][m].ctx, chain[u][m].slot)'
      BY <2>3, <3>1, <3>2 DEF Holds
    <3>4. QED
      BY <1>2, <1>5, <3>1, <3>3 DEF StatesApart
  <2>4. QED
    BY <1>4, <2>2, <2>3
<1>6. SandboxInv'
  <2>1. ASSUME NEW d \in Servers, NEW j \in States, ~(d = c /\ j = i), NEW x, Known(x, d, j)
        PROVE  Known(x, d, j)'
    <3>1. CASE x = Dead
      BY <3>1 DEF Known
    <3>2. CASE x # Dead
      <4>1. LuaCall(x[1], x[2], d, j)
        BY <2>1, <3>2 DEF Known
      <4>2. x[1] # t
        BY <1>a, <2>1, <4>1 DEF LuaCall
      <4>3. x[1] \in Threads /\ chain'[x[1]] = chain[x[1]] /\ frames'[x[1]] = frames[x[1]]
        BY <1>0, <4>1, <4>2 DEF LuaCall
      <4>4. Cur(x[1])' = Cur(x[1])
        BY <4>3 DEF Cur, Here
      <4>5. QED
        BY <4>1, <4>3, <4>4 DEF Known, LuaCall
    <3>3. QED
      BY <3>1, <3>2
  <2>2. ASSUME NEW x \in {l.sandbox, l.proxy}
        PROVE  Known(x, c, i)'
    BY <1>a, <1>0, <1>1, <2>2 DEF Known, LuaCall
  <2>3. ASSUME NEW d \in Servers, NEW j \in States
        PROVE  Known(lua[d][j].sandbox, d, j)' /\ Known(lua[d][j].proxy, d, j)'
    <3>1. CASE d = c /\ j = i
      BY <1>4, <2>2, <3>1 DEF Known, LuaCall
    <3>2. CASE ~(d = c /\ j = i)
      <4>1. lua'[d][j] = lua[d][j]
        BY <1>4, <3>2
      <4>2. Known(lua[d][j].sandbox, d, j) /\ Known(lua[d][j].proxy, d, j)
        BY DEF IInv, SandboxInv
      <4>3. Known(lua[d][j].sandbox, d, j)' /\ Known(lua[d][j].proxy, d, j)'
        <5>1. PICK x : x = lua[d][j].sandbox
          OBVIOUS
        <5>2. PICK y : y = lua[d][j].proxy
          OBVIOUS
        <5>3. Known(x, d, j)' /\ Known(y, d, j)'
          BY <2>1, <3>2, <4>2, <5>1, <5>2
        <5>4. lua'[d][j].sandbox = x /\ lua'[d][j].proxy = y
          BY <4>1, <5>1, <5>2
        <5>5. QED
          BY <5>3, <5>4 DEF Known, LuaCall
      <4>4. QED
        BY <4>3
    <3>3. QED
      BY <3>1, <3>2
  <2>4. QED
    BY <2>3 DEF SandboxInv
<1>7. LuaSeesItsAction'
  <2>1. ASSUME NEW u \in Threads, frames'[u] # <<>>,
               Top(u)'.at = "lua", ~Top(u)'.wrote
        PROVE  /\ lua'[Req(u)'.ctx][Req(u)'.slot].sandbox = ActionCtx(u)'
               /\ lua'[Req(u)'.ctx][Req(u)'.slot].proxy = ActionCtx(u)'
    <3>1. CASE u = t
      <4>1. fr # <<>> /\ fr[Len(fr)].at = "lua" /\ ~fr[Len(fr)].wrote
        BY <1>0, <2>1, <3>1 DEF Top
      <4>2. ActionCtx(t)' = <<t, Len(fr)>>
        BY <1>0 DEF ActionCtx
      <4>3. QED
        BY <1>a, <1>1, <1>4, <3>1, <4>1, <4>2
    <3>2. CASE u # t
      <4>1. chain'[u] = chain[u] /\ frames'[u] = frames[u]
        BY <1>0, <3>2
      <4>2. Top(u)' = Top(u) /\ Req(u)' = Req(u) /\ ActionCtx(u)' = ActionCtx(u)
        BY <4>1 DEF Top, Req, ActionCtx
      <4>3. frames[u] # <<>> /\ Top(u).at = "lua" /\ ~Top(u).wrote
        BY <2>1, <4>1, <4>2
      <4>4. /\ Req(u) = Cur(u) /\ chain[u] # <<>> /\ Cur(u).slot \in States
        BY <4>3, InCall
      <4>5. Cur(u) = chain[u][Here(u)] /\ Here(u) \in DOMAIN chain[u]
        BY <4>4, InRequest
      <4>6. Req(u).slot # 0
        BY <4>4 DEF States
      <4>7. lua'[Req(u).ctx][Req(u).slot] = lua[Req(u).ctx][Req(u).slot]
        BY <1>5, <3>2, <4>4, <4>5, <4>6
      <4>8. QED
        BY <4>2, <4>3, <4>7 DEF IInv, StatesReady, LuaSeesItsAction
    <3>3. QED
      BY <3>1, <3>2
  <2>2. QED
    BY <2>1 DEF LuaSeesItsAction
<1>8. CollectedLast'
  <2>1. \A s : Rec(s)' = Rec(s)
    BY <1>2 DEF Rec
  <2>2. ASSUME NEW u \in Threads, chain'[u] # <<>>, chain'[u][1].stage = "done",
               Rec(chain'[u][1].server).fullLuaGC, chain'[u][1].slot # 0
        PROVE  ~lua'[chain'[u][1].ctx][chain'[u][1].slot].garbage
    <3>1. CASE u = t
      BY <1>a, <1>0, <1>4, <2>2, <3>1
    <3>2. CASE u # t
      <4>1. chain'[u] = chain[u] /\ 1 \in DOMAIN chain[u]
        BY <1>0, <1>2, <2>2, <3>2
      <4>2. ~lua[chain[u][1].ctx][chain[u][1].slot].garbage
        BY <2>2, <4>1 DEF IInv, StatesReady, CollectedLast
      <4>3. lua'[chain[u][1].ctx][chain[u][1].slot] = lua[chain[u][1].ctx][chain[u][1].slot]
        BY <1>5, <2>2, <3>2, <4>1
      <4>4. QED
        BY <4>1, <4>2, <4>3
    <3>3. QED
      BY <3>1, <3>2
  <2>3. QED
    BY <2>1, <2>2 DEF CollectedLast
<1>9. QED
  BY <1>3, <1>6, <1>7, <1>8 DEF StatesReady

-----------------------------------------------------------------------------
(* Steps that leave the Lua states alone                                   *)

LEMMA Step ==
  ASSUME IInv, NEW t \in Threads, UNCHANGED configVars, server = "serving",
         NEW ch \in Seq(Requests), Len(ch) <= MaxDepth,
         NEW fr \in Seq(Frames), Len(fr) <= MaxNest,
         chain' = [chain EXCEPT ![t] = ch],
         frames' = [frames EXCEPT ![t] = fr],
         ThreadOK(ch, fr, AskedFor, Never),
         LuaTypes', StatesOwned', SandboxInv', StatesReady'
  PROVE  IInv'
<1>1. /\ ConfigTypes' /\ ThreadTypes'
      /\ ServerInv'
      /\ ConfigsAsAsked'
      /\ \A u \in Threads : ThreadOK(chain[u], frames[u], AskedFor, Never)'
  BY ThreadStep
<1>2. TypeOK'
  BY <1>1 DEF TypeOK, ConfigTypes, ThreadTypes, LuaTypes
<1>3. QED
  BY <1>1, <1>2 DEF IInv

LEMMA QuietStep ==
  ASSUME IInv, NEW t \in Threads, UNCHANGED <<configVars, luaVars>>, server = "serving",
         NEW ch \in Seq(Requests), Len(ch) <= MaxDepth,
         NEW fr \in Seq(Frames), Len(fr) <= MaxNest,
         chain' = [chain EXCEPT ![t] = ch],
         frames' = [frames EXCEPT ![t] = fr],
         ThreadOK(ch, fr, AskedFor, Never),
         SameStates(chain[t], ch),
         SameCalls(chain[t], frames[t], ch, fr)
  PROVE  IInv'
<1>1. UNCHANGED configVars /\ UNCHANGED <<made, free, lua>>
  BY DEF luaVars
<1>2. StatesOwned'
  BY <1>1, StatesStay
<1>3. SandboxInv' /\ StatesReady'
  BY <1>1, LuaStays
<1>4. LuaTypes'
  BY <1>1, TypeParts DEF IInv, LuaTypes
<1>5. QED
  BY <1>1, <1>2, <1>3, <1>4, Step

(* A change of the request Apache is at. *)
LEMMA CurStep ==
  ASSUME IInv, NEW t \in Threads, chain[t] # <<>>, UNCHANGED <<configVars, luaVars>>,
         NEW r \in Requests, NEW fr \in Seq(Frames), Len(fr) <= MaxNest,
         r.server = Cur(t).server,
         r.pool = Cur(t).pool,
         r.slot = Cur(t).slot,
         r.ctx = Cur(t).ctx \/ r.slot = 0,
         r.stage \in Last <=> Cur(t).stage \in Last,
         r.stage # "done",
         chain' = [chain EXCEPT ![t] = [chain[t] EXCEPT ![Here(t)] = r]],
         frames' = [frames EXCEPT ![t] = fr],
         RequestOK(r, AskedFor, Never),
         CallsOK(r, Here(t), fr, AskedFor, Never),
         \A n \in DOMAIN frames[t] : frames[t][n].at = "lua" => n \in DOMAIN fr /\ fr[n].at = "lua",
         fr # <<>> /\ fr[Len(fr)].at = "lua" /\ ~fr[Len(fr)].wrote =>
           /\ frames[t] # <<>> /\ Len(frames[t]) = Len(fr)
           /\ Top(t).at = "lua" /\ ~Top(t).wrote
  PROVE  IInv'
<1> DEFINE ch == [chain[t] EXCEPT ![Here(t)] = r]
<1>1. /\ server = "serving"
      /\ chain[t] \in Seq(Requests) /\ Len(chain[t]) <= MaxDepth
      /\ Here(t) = HereOf(chain[t]) /\ Here(t) \in DOMAIN chain[t]
      /\ Cur(t) = chain[t][Here(t)]
      /\ ThreadOK(chain[t], frames[t], AskedFor, Never)
      /\ CallsOK(Cur(t), Here(t), frames[t], AskedFor, Never)
  BY InRequest
<1>2. Shape(chain[t])
  BY <1>1 DEF ThreadOK
<1>3. ch = [chain[t] EXCEPT ![HereOf(chain[t])] = r]
  BY <1>1
<1> HIDE DEF ch
<1>4. /\ ch \in Seq(Requests) /\ Len(ch) = Len(chain[t]) /\ ch # <<>> /\ DOMAIN ch = DOMAIN chain[t]
      /\ HereOf(ch) = Here(t)
      /\ ch[Here(t)] = r
      /\ \A k \in DOMAIN chain[t] : k # Here(t) => ch[k] = chain[t][k]
  BY SMTT(30), <1>1, <1>2, <1>3, Replaced
<1>5. ThreadOK(ch, fr, AskedFor, Never)
  BY SMTT(30), <1>1, <1>3, ReplacedOK
<1>6. SameStates(chain[t], ch)
  BY ZenonT(40), <1>1, <1>3, SameStatesReplaced
<1>7. SameCalls(chain[t], frames[t], ch, fr)
  <2>1. ASSUME NEW n \in DOMAIN frames[t], frames[t][n].at = "lua"
        PROVE  r.ctx = Cur(t).ctx /\ r.slot = Cur(t).slot
    BY <1>1, <2>1 DEF CallsOK, Nested
  <2>2. ASSUME ch[1].stage = "done"
        PROVE  ch[1] = chain[t][1]
    BY <1>1, <1>4, <2>2
  <2>3. QED
    BY <1>1, <1>4, <2>1, <2>2 DEF SameCalls, Top
<1>8. chain' = [chain EXCEPT ![t] = ch]
  BY DEF ch
<1>9. Len(ch) <= MaxDepth
  BY <1>1, <1>4
<1>10. QED
  BY <1>1, <1>4, <1>5, <1>6, <1>7, <1>8, <1>9, QuietStep

(* What a Lua action finds in the registry is for its own request. *)
LEMMA ActionCtxFound ==
  ASSUME IInv, NEW t \in Threads, Running(t, "lua")
  PROVE  getActionCtx(t) = <<t, Here(t)>>
<1> DEFINE x == lua[Cur(t).ctx][Cur(t).slot].sandbox
<1>1. /\ frames[t] # <<>> /\ Top(t).at = "lua"
      /\ chain[t] # <<>> /\ Req(t) = Cur(t) /\ Top(t).d = Here(t)
      /\ Cur(t).ctx \in Servers /\ Cur(t).slot \in States /\ Cur(t).slot # 0
  BY InCall DEF Running, States
<1>2. /\ Here(t) \in DOMAIN chain[t] /\ Cur(t) = chain[t][Here(t)]
      /\ CallsOK(Cur(t), Here(t), frames[t], AskedFor, Never)
  BY <1>1, InRequest
<1>3. CASE x = Dead
  BY <1>1, <1>3 DEF getActionCtx
<1>4. CASE x # Dead
  <2>1. LuaCall(x[1], x[2], Cur(t).ctx, Cur(t).slot)
    BY <1>1, <1>4 DEF IInv, SandboxInv, Known
  <2>2. x[1] = t
    <3>1. PICK u \in Threads : u = x[1]
      BY <2>1 DEF LuaCall
    <3>2. frames[u] # <<>> /\ Cur(u).ctx = Cur(t).ctx /\ Cur(u).slot = Cur(t).slot
      <4>1. \E n \in DOMAIN frames[u] : LuaCall(u, n, Cur(t).ctx, Cur(t).slot)
        BY <2>1, <3>1 DEF LuaCall
      <4>2. QED
        BY <4>1 DEF LuaCall
    <3>3. Here(u) \in DOMAIN chain[u] /\ Cur(u) = chain[u][Here(u)]
      BY <3>2, InCall, InRequest
    <3>4. Holds(u, Here(u), Cur(t).ctx, Cur(t).slot)
      BY <3>2, <3>3 DEF Holds
    <3>5. t = u
      BY <1>1, <1>2, <3>3, <3>4 DEF IInv, StatesOwned, StatesApart
    <3>6. QED
      BY <3>1, <3>5
  <2>3. x[2] \in DOMAIN frames[t]
    BY <2>1, <2>2 DEF LuaCall
  <2>4. frames[t][x[2]].d = Here(t)
    BY <1>2, <2>3 DEF CallsOK, Nested
  <2>5. QED
    BY <1>1, <1>4, <2>2, <2>4 DEF getActionCtx
<1>5. QED
  BY <1>3, <1>4

-----------------------------------------------------------------------------
(* Calls and their actions                                                 *)

(* What a call goes on with, after an action for r. *)
TopOK(f, r, h, never) ==
  /\ f \in Frames
  /\ f.d = h
  /\ f.at \in {"rules", "lua"} => r.ctx \in Servers
  /\ f.at = "lua" => r.slot # 0 /\ f.runs < MaxRuns
  /\ r.stage \in Early =>
       /\ f.at = "OK" => r.ctx \in Servers /\ (r.answered \/ r.ctx \in never)
       /\ f.delayedOK => r.answered

(* What an action may do to its request. *)
Later(r, r2) ==
  /\ r2 \in Requests
  /\ r2.server = r.server /\ r2.pool = r.pool /\ r2.stage = r.stage /\ r2.ctx = r.ctx
  /\ r.slot # 0 => r2.slot = r.slot
  /\ r.answered => r2.answered

LEMMA TopReplaced ==
  ASSUME NEW fr \in Seq(Frames), fr # <<>>,
         NEW r, NEW r2, NEW h, NEW asked, NEW never,
         CallsOK(r, h, fr, asked, never),
         Later(r, r2),
         NEW f, TopOK(f, r2, h, never),
         NEW fr2, fr2 = [fr EXCEPT ![Len(fr)] = f]
  PROVE  /\ fr2 \in Seq(Frames) /\ Len(fr2) = Len(fr) /\ fr2 # <<>>
         /\ DOMAIN fr2 = DOMAIN fr
         /\ fr2[Len(fr)] = f
         /\ \A n \in DOMAIN fr : n # Len(fr) => fr2[n] = fr[n]
         /\ CallsOK(r2, h, fr2, asked, never)
<1>1. Len(fr) \in Nat /\ Len(fr) \in DOMAIN fr /\ DOMAIN fr = 1 .. Len(fr) /\ f \in Frames
  BY DEF TopOK
<1>2. /\ fr2 \in Seq(Frames) /\ Len(fr2) = Len(fr) /\ fr2 # <<>>
      /\ DOMAIN fr2 = DOMAIN fr
      /\ fr2[Len(fr)] = f
      /\ \A n \in DOMAIN fr : n # Len(fr) => fr2[n] = fr[n]
  BY <1>1
<1>3. Nested(r2, h, fr2)
  BY <1>1, <1>2 DEF CallsOK, Nested, Later, TopOK
<1>4. Fresh(r2, fr2, asked)
  BY <1>1, <1>2 DEF CallsOK, Fresh, Later
<1>5. Answered(r2, fr2, never)
  BY <1>1, <1>2 DEF CallsOK, Answered, Later, TopOK
<1>6. QED
  BY <1>2, <1>3, <1>4, <1>5 DEF CallsOK

LEMMA CallStep ==
  ASSUME IInv, NEW t \in Threads, frames[t] # <<>>, UNCHANGED <<configVars, luaVars>>,
         NEW r, Later(Cur(t), r), r.slot = Cur(t).slot, RequestOK(r, AskedFor, Never),
         NEW f, TopOK(f, r, Here(t), Never),
         f = Top(t) \/ (f.at # "lua" /\ Top(t).at # "lua"),
         chain' = [chain EXCEPT ![t] = [chain[t] EXCEPT ![Here(t)] = r]],
         frames' = [frames EXCEPT ![t] = [frames[t] EXCEPT ![Len(frames[t])] = f]]
  PROVE  IInv'
<1> DEFINE fr == [frames[t] EXCEPT ![Len(frames[t])] = f]
<1>1. /\ chain[t] # <<>>
      /\ Len(frames[t]) \in DOMAIN frames[t]
      /\ Top(t) = frames[t][Len(frames[t])]
      /\ Cur(t).stage \notin {"Handler", "done"}
  BY InCall
<1>2. /\ frames[t] \in Seq(Frames) /\ Len(frames[t]) <= MaxNest
      /\ CallsOK(Cur(t), Here(t), frames[t], AskedFor, Never)
  BY <1>1, InRequest
<1>3. /\ fr \in Seq(Frames) /\ Len(fr) = Len(frames[t]) /\ fr # <<>>
      /\ DOMAIN fr = DOMAIN frames[t]
      /\ fr[Len(frames[t])] = f
      /\ \A n \in DOMAIN frames[t] : n # Len(frames[t]) => fr[n] = frames[t][n]
      /\ CallsOK(r, Here(t), fr, AskedFor, Never)
  BY <1>2, TopReplaced
<1>4. /\ r \in Requests
      /\ r.server = Cur(t).server /\ r.pool = Cur(t).pool /\ r.ctx = Cur(t).ctx
      /\ r.stage \in Last <=> Cur(t).stage \in Last
      /\ r.stage # "done"
  BY <1>1 DEF Later
<1>5. frames' = [frames EXCEPT ![t] = fr]
  OBVIOUS
<1> HIDE DEF fr
<1>6. \A n \in DOMAIN frames[t] : frames[t][n].at = "lua" => n \in DOMAIN fr /\ fr[n].at = "lua"
  BY <1>1, <1>3
<1>7. fr # <<>> /\ fr[Len(fr)].at = "lua" /\ ~fr[Len(fr)].wrote =>
        /\ frames[t] # <<>> /\ Len(frames[t]) = Len(fr)
        /\ Top(t).at = "lua" /\ ~Top(t).wrote
  BY <1>1, <1>3
<1>8. Len(fr) <= MaxNest
  BY <1>2, <1>3
<1>9. QED
  BY <1>1, <1>3, <1>4, <1>5, <1>6, <1>7, <1>8, CurStep

(* The request and the call as they are. *)
LEMMA AsItIs ==
  ASSUME IInv, NEW t \in Threads, frames[t] # <<>>
  PROVE  /\ Later(Cur(t), Cur(t))
         /\ RequestOK(Cur(t), AskedFor, Never)
         /\ TopOK(Top(t), Cur(t), Here(t), Never)
         /\ chain = [chain EXCEPT ![t] = [chain[t] EXCEPT ![Here(t)] = Cur(t)]]
         /\ frames = [frames EXCEPT ![t] = [frames[t] EXCEPT ![Len(frames[t])] = Top(t)]]
<1>1. /\ chain[t] # <<>>
      /\ Len(frames[t]) \in DOMAIN frames[t]
      /\ Top(t) = frames[t][Len(frames[t])] /\ Top(t) \in Frames
  BY InCall
<1>2. /\ Cur(t) \in Requests /\ Cur(t) = chain[t][Here(t)]
      /\ chain[t] \in Seq(Requests) /\ frames[t] \in Seq(Frames)
      /\ RequestOK(Cur(t), AskedFor, Never)
      /\ CallsOK(Cur(t), Here(t), frames[t], AskedFor, Never)
  BY <1>1, InRequest
<1>3. Later(Cur(t), Cur(t))
  BY <1>2 DEF Later
<1>4. TopOK(Top(t), Cur(t), Here(t), Never)
  BY <1>1, <1>2 DEF TopOK, CallsOK, Nested, Answered
<1>5. chain \in [Threads -> Seq(Requests)] /\ frames \in [Threads -> Seq(Frames)]
  BY DEF IInv, TypeOK
<1>6. chain = [chain EXCEPT ![t] = [chain[t] EXCEPT ![Here(t)] = Cur(t)]]
  <2>1. [chain[t] EXCEPT ![Here(t)] = Cur(t)] = chain[t]
    BY <1>2
  <2>2. QED
    BY <1>5, <2>1
<1>7. frames = [frames EXCEPT ![t] = [frames[t] EXCEPT ![Len(frames[t])] = Top(t)]]
  <2>1. [frames[t] EXCEPT ![Len(frames[t])] = Top(t)] = frames[t]
    BY <1>1, <1>2
  <2>2. QED
    BY <1>5, <2>1
<1>8. QED
  BY <1>2, <1>3, <1>4, <1>6, <1>7

(* What functions of rum.core and native actions do to a request.          *)
LEMMA Redirects ==
  ASSUME NEW r, NEW asked, NEW never, r \in Requests, RequestOK(r, asked, never),
         NEW r2 \in {internal_redirect(r), external_redirect(r), proxy(r)}
  PROVE  Later(r, r2) /\ r2.slot = r.slot /\ RequestOK(r2, asked, never)
<1>1. CASE r2 = internal_redirect(r)
  BY <1>1 DEF internal_redirect, Later, RequestOK, Requests, Filenames, Handlers
<1>2. CASE r2 = proxy(r)
  BY <1>2 DEF proxy, Later, RequestOK, Requests, Filenames, Handlers
<1>3. CASE r2 = external_redirect(r)
  BY ZenonT(40), <1>3 DEF external_redirect, Later, RequestOK, Requests
<1>4. QED
  BY <1>1, <1>2, <1>3

Statuses == {"OK", "DELAYED_OK", "RELOOKUP", "DECLINED", "DEFAULT", "EGENERAL"}

LEMMA AfterOK ==
  ASSUME NEW f, NEW r, NEW r2, NEW h, NEW never, NEW status \in Statuses,
         TopOK(f, r, h, never), f.at \in {"rules", "lua"}, f.runs < MaxRuns,
         Later(r, r2),
         Answers(r, status) => r2.answered
  PROVE  TopOK(After(f, status), r2, h, never) /\ After(f, status).at # "lua"
<1>1. f \in Frames /\ f.d = h /\ r2.ctx = r.ctx /\ r2.ctx \in Servers /\ r2.stage = r.stage
  BY DEF TopOK, Later
<1>2. CASE status \in {"OK", "EGENERAL"}
  <2>1. After(f, status) = Returns(f, status)
    BY <1>2 DEF After
  <2>2. Returns(f, status) \in Frames
    BY <1>1, <1>2 DEF Returns, Frames, Results
  <2>3. /\ Returns(f, status).d = h /\ Returns(f, status).at = status
        /\ Returns(f, status).delayedOK = FALSE
    BY <1>1 DEF Returns
  <2>4. status = "OK" /\ r.stage \in Early => r2.answered
    BY DEF Answers, Early
  <2>5. QED
    BY <1>1, <1>2, <2>1, <2>2, <2>3, <2>4 DEF TopOK
<1>3. CASE status \notin {"OK", "EGENERAL"}
  <2> DEFINE g == After(f, status)
  <2>1. g = [f EXCEPT !.runs = f.runs + 1, !.at = "rules", !.wrote = FALSE,
               !.delayedOK = status = "DELAYED_OK" \/ (f.delayedOK /\ status # "RELOOKUP")]
    BY <1>3 DEF After
  <2>2. (status = "DELAYED_OK" \/ (f.delayedOK /\ status # "RELOOKUP")) \in BOOLEAN
    OBVIOUS
  <2>3. f.runs + 1 \in 0 .. MaxRuns
    BY <1>1 DEF Frames
  <2>4. g \in Frames
    BY <1>1, <2>1, <2>2, <2>3 DEF Frames
  <2>5. /\ g.d = h /\ g.at = "rules"
        /\ g.delayedOK = (status = "DELAYED_OK" \/ (f.delayedOK /\ status # "RELOOKUP"))
    BY <1>1, <2>1 DEF Frames
  <2>6. g.delayedOK /\ r.stage \in Early => r2.answered
    BY <2>5 DEF Answers, Early, TopOK, Later
  <2>7. QED
    BY <1>1, <2>4, <2>5, <2>6 DEF TopOK
<1>4. QED
  BY <1>2, <1>3

LEMMA RulesEndKeeps ==
  ASSUME IInv, NEW t \in Threads, RulesEnd(t)
  PROVE  IInv'
<1> DEFINE status == IF Top(t).delayedOK THEN "OK" ELSE "DECLINED"
           f == Returns(Top(t), status)
<1>1. frames[t] # <<>> /\ Top(t).at = "rules"
  BY DEF RulesEnd, Running
<1>2. /\ chain' = chain /\ UNCHANGED <<configVars, luaVars>>
      /\ frames' = [frames EXCEPT ![t] = [frames[t] EXCEPT ![Len(frames[t])] = f]]
  BY DEF RulesEnd, SetTop
<1>3. /\ Later(Cur(t), Cur(t)) /\ RequestOK(Cur(t), AskedFor, Never)
      /\ TopOK(Top(t), Cur(t), Here(t), Never)
      /\ chain = [chain EXCEPT ![t] = [chain[t] EXCEPT ![Here(t)] = Cur(t)]]
  BY <1>1, AsItIs
<1>4. f \in Frames /\ f.d = Top(t).d /\ f.at = status /\ f.delayedOK = FALSE
  BY <1>3 DEF Returns, Frames, Results, TopOK
<1>5. TopOK(f, Cur(t), Here(t), Never) /\ f.at # "lua"
  BY <1>1, <1>3, <1>4 DEF TopOK
<1> HIDE DEF f
<1>6. QED
  BY <1>1, <1>2, <1>3, <1>5, CallStep

LEMMA NativeActionKeeps ==
  ASSUME IInv, NEW t \in Threads, RedirIntAction(t) \/ RedirExtAction(t)
  PROVE  IInv'
<1>1. PICK r \in {internal_redirect(Req(t)), external_redirect(Req(t)), proxy(Req(t))} :
        NativeAction(t, r)
  BY DEF RedirIntAction, RedirExtAction
<1>2. /\ frames[t] # <<>> /\ Top(t).at = "rules" /\ Top(t).runs < MaxRuns
      /\ UNCHANGED <<configVars, luaVars>>
      /\ chain' = [chain EXCEPT ![t][Top(t).d] = r]
      /\ frames' = [frames EXCEPT ![t] = [frames[t] EXCEPT ![Len(frames[t])] = After(Top(t), "DEFAULT")]]
  BY <1>1 DEF NativeAction, Running, SetReq, SetTop
<1>3. Req(t) = Cur(t) /\ Top(t).d = Here(t) /\ chain[t] # <<>>
  BY <1>2, InCall
<1>4. RequestOK(Cur(t), AskedFor, Never) /\ TopOK(Top(t), Cur(t), Here(t), Never)
  BY <1>2, AsItIs
<1>5. Cur(t) \in Requests
  BY <1>3, InRequest
<1>6. Later(Cur(t), r) /\ r.slot = Cur(t).slot /\ RequestOK(r, AskedFor, Never)
  BY <1>1, <1>3, <1>4, <1>5, Redirects
<1>7. TopOK(After(Top(t), "DEFAULT"), r, Here(t), Never) /\ After(Top(t), "DEFAULT").at # "lua"
  BY <1>2, <1>4, <1>6, AfterOK DEF Statuses, Answers
<1>8. chain' = [chain EXCEPT ![t] = [chain[t] EXCEPT ![Here(t)] = r]]
  BY <1>2, <1>3
<1>9. QED
  BY <1>2, <1>6, <1>7, <1>8, CallStep

LEMMA CoreKeeps ==
  ASSUME IInv, NEW t \in Threads,
         \/ coreInternalRedirect(t) \/ coreExternalRedirect(t)
         \/ coreProxy(t) \/ coreProxyRaw(t)
  PROVE  IInv'
<1>1. PICK r \in {internal_redirect(Called(t)), external_redirect(Called(t)), proxy(Called(t))} :
        Changes(t, r)
  BY DEF coreInternalRedirect, coreExternalRedirect, coreProxy, coreProxyRaw
<1>2. Running(t, "lua")
  BY <1>1 DEF Changes
<1>3. getActionCtx(t) = <<t, Here(t)>>
  BY <1>2, ActionCtxFound
<1>4. /\ frames[t] # <<>>
      /\ UNCHANGED <<configVars, frames, luaVars>>
      /\ chain' = [chain EXCEPT ![t] = [chain[t] EXCEPT ![Here(t)] = r]]
  BY <1>1, <1>2, <1>3 DEF Changes, Running
<1>5. Called(t) = Cur(t)
  BY <1>3 DEF Called, Cur
<1>6. /\ RequestOK(Cur(t), AskedFor, Never) /\ TopOK(Top(t), Cur(t), Here(t), Never)
      /\ frames = [frames EXCEPT ![t] = [frames[t] EXCEPT ![Len(frames[t])] = Top(t)]]
  BY <1>4, AsItIs
<1>7. chain[t] # <<>> /\ Cur(t) \in Requests
  BY <1>4, InCall, InRequest
<1>8. Later(Cur(t), r) /\ r.slot = Cur(t).slot /\ RequestOK(r, AskedFor, Never)
  BY SMTT(30), <1>1, <1>5, <1>6, <1>7, Redirects
<1>9. TopOK(Top(t), r, Here(t), Never)
  BY <1>6, <1>8 DEF TopOK, Later
<1>10. QED
  BY <1>4, <1>6, <1>8, <1>9, CallStep

(* A call that starts. *)
LEMMA EntryOK ==
  ASSUME NEW ctx \in Servers \cup {NoServer}, NEW d \in 1 .. MaxDepth, NEW f \in lookupAndRun(d, ctx)
  PROVE  /\ f \in Frames /\ f.d = d /\ ~f.delayedOK
         /\ f.at \in {"rules", "OK", "DECLINED"}
         /\ f.at = "rules" => ctx \in Servers
         /\ f.at = "OK" => ctx \in Never
<1>1. PICK at \in Entry(ctx) :
        f = [d |-> d, runs |-> 0, delayedOK |-> FALSE, at |-> at, wrote |-> FALSE]
  BY DEF lookupAndRun
<1>2. /\ at \in {"rules", "OK", "DECLINED"}
      /\ at = "rules" => ctx \in Servers
      /\ at = "OK" => ctx \in Never
  BY DEF Entry, Never
<1>3. QED
  BY <1>1, <1>2 DEF Frames, Results

LEMMA FlushKeeps ==
  ASSUME IInv, NEW t \in Threads, coreRflush(t)
  PROVE  IInv'
<1>1. PICK f \in lookupAndRun(Top(t).d, Req(t).ctx) :
        frames' = [frames EXCEPT ![t] =
          Append([frames[t] EXCEPT ![Len(frames[t])].wrote = TRUE], f)]
  BY DEF coreRflush
<1>2. /\ frames[t] # <<>> /\ Top(t).at = "lua" /\ Len(frames[t]) < MaxNest
      /\ UNCHANGED <<configVars, chain, luaVars>>
  BY DEF coreRflush, Running
<1>3. /\ Req(t) = Cur(t) /\ Top(t).d = Here(t) /\ chain[t] # <<>>
      /\ Len(frames[t]) \in DOMAIN frames[t]
      /\ Top(t) = frames[t][Len(frames[t])] /\ Top(t) \in Frames
      /\ Cur(t).ctx \in Servers /\ Cur(t).stage \notin {"Handler", "done"}
  BY <1>2, InCall
<1>4. /\ frames[t] \in Seq(Frames) /\ Cur(t) \in Requests /\ Here(t) \in 1 .. MaxDepth
      /\ CallsOK(Cur(t), Here(t), frames[t], AskedFor, Never)
  BY <1>3, InRequest
<1>5. /\ RequestOK(Cur(t), AskedFor, Never) /\ Later(Cur(t), Cur(t))
      /\ TopOK(Top(t), Cur(t), Here(t), Never)
      /\ chain = [chain EXCEPT ![t] = [chain[t] EXCEPT ![Here(t)] = Cur(t)]]
  BY <1>2, AsItIs
<1>6. /\ f \in Frames /\ f.d = Here(t) /\ ~f.delayedOK
      /\ f.at \in {"rules", "OK", "DECLINED"}
      /\ f.at = "OK" => Cur(t).ctx \in Never
  BY <1>1, <1>3, <1>4, EntryOK
<1> DEFINE g == [Top(t) EXCEPT !.wrote = TRUE]
           fr1 == [frames[t] EXCEPT ![Len(frames[t])] = g]
           fr == Append(fr1, f)
<1>7. /\ g \in Frames /\ g.wrote /\ g.at = "lua"
      /\ g.d = Top(t).d /\ g.runs = Top(t).runs /\ g.delayedOK = Top(t).delayedOK
  BY <1>2, <1>3 DEF Frames
<1>8. TopOK(g, Cur(t), Here(t), Never)
  BY <1>2, <1>5, <1>7 DEF TopOK
<1>9. frames' = [frames EXCEPT ![t] = fr]
  BY <1>1, <1>3
<1> HIDE DEF g
<1>10. /\ fr1 \in Seq(Frames) /\ Len(fr1) = Len(frames[t]) /\ fr1 # <<>>
       /\ DOMAIN fr1 = DOMAIN frames[t]
       /\ fr1[Len(frames[t])] = g
       /\ \A n \in DOMAIN frames[t] : n # Len(frames[t]) => fr1[n] = frames[t][n]
       /\ CallsOK(Cur(t), Here(t), fr1, AskedFor, Never)
  BY <1>2, <1>4, <1>5, <1>8, TopReplaced
<1> HIDE DEF fr1
<1>11. /\ fr \in Seq(Frames) /\ Len(fr) = Len(frames[t]) + 1 /\ fr # <<>>
       /\ DOMAIN fr = 1 .. Len(frames[t]) + 1
       /\ fr[Len(frames[t]) + 1] = f
       /\ \A n \in 1 .. Len(frames[t]) : fr[n] = fr1[n]
  BY <1>4, <1>6, <1>10
<1> HIDE DEF fr
<1>12. CallsOK(Cur(t), Here(t), fr, AskedFor, Never)
  <2>1. Len(frames[t]) \in Nat /\ DOMAIN fr1 = 1 .. Len(frames[t])
    BY <1>4, <1>10
  <2>2. Nested(Cur(t), Here(t), fr)
    <3>1. ASSUME NEW n \in DOMAIN fr
          PROVE  /\ fr[n].d = Here(t)
                 /\ fr[n].at \in {"rules", "lua"} => Cur(t).ctx \in Servers
                 /\ fr[n].at = "lua" => Cur(t).slot # 0 /\ fr[n].runs < MaxRuns
                 /\ n < Len(fr) => fr[n].at = "lua" /\ fr[n].wrote
      <4>1. CASE n = Len(frames[t]) + 1
        BY <1>3, <1>6, <1>11, <4>1
      <4>2. CASE n = Len(frames[t])
        BY <1>7, <1>10, <1>11, <2>1, <4>2 DEF CallsOK, Nested
      <4>3. CASE n \in 1 .. Len(frames[t]) /\ n # Len(frames[t])
        <5>1. n < Len(fr1) /\ n \in DOMAIN fr1
          BY <1>10, <2>1, <4>3
        <5>2. QED
          BY <1>10, <1>11, <4>3, <5>1 DEF CallsOK, Nested
      <4>4. QED
        BY <1>11, <2>1, <4>1, <4>2, <4>3
    <3>2. QED
      BY <1>3, <3>1 DEF Nested
  <2>3. Fresh(Cur(t), fr, AskedFor)
    BY <1>10, <1>11 DEF CallsOK, Fresh
  <2>4. Answered(Cur(t), fr, Never)
    <3>1. ASSUME NEW n \in DOMAIN fr, Cur(t).stage \in Early
          PROVE  /\ fr[n].at = "OK" => Cur(t).ctx \in Servers /\ (Cur(t).answered \/ Cur(t).ctx \in Never)
                 /\ fr[n].delayedOK => Cur(t).answered
      <4>1. CASE n = Len(frames[t]) + 1
        BY <1>3, <1>6, <1>11, <4>1
      <4>2. CASE n \in 1 .. Len(frames[t])
        BY <1>10, <1>11, <2>1, <3>1, <4>2 DEF CallsOK, Answered
      <4>3. QED
        BY <1>11, <2>1, <4>1, <4>2
    <3>2. QED
      BY <3>1 DEF Answered
  <2>5. QED
    BY <2>2, <2>3, <2>4 DEF CallsOK
<1>13. \A n \in DOMAIN frames[t] : frames[t][n].at = "lua" => n \in DOMAIN fr /\ fr[n].at = "lua"
  BY SMTT(30), <1>4, <1>7, <1>10, <1>11
<1>14. fr[Len(fr)].at # "lua" /\ Len(fr) <= MaxNest
  BY <1>2, <1>4, <1>6, <1>11
<1>15. Cur(t).stage # "done"
  BY <1>3
<1>16. chain' = [chain EXCEPT ![t] = [chain[t] EXCEPT ![Here(t)] = Cur(t)]]
  BY <1>2, <1>5
<1>17. QED
  BY <1>2, <1>3, <1>4, <1>5, <1>9, <1>11, <1>12, <1>13, <1>14, <1>15, <1>16, CurStep

LEMMA FlushReturnsKeeps ==
  ASSUME IInv, NEW t \in Threads, coreRflushReturns(t)
  PROVE  IInv'
<1> DEFINE r == [Cur(t) EXCEPT !.filter = FALSE]
           fr == SubSeq(frames[t], 1, Len(frames[t]) - 1)
<1>1. /\ Len(frames[t]) > 1 /\ Top(t).at \in Results
      /\ chain' = [chain EXCEPT ![t][Top(t).d] = [Req(t) EXCEPT !.filter = FALSE]]
      /\ frames' = [frames EXCEPT ![t] = fr]
      /\ UNCHANGED <<configVars, luaVars>>
  BY DEF coreRflushReturns, SetReq
<1>2. frames[t] # <<>>
  BY <1>1
<1>3. /\ Req(t) = Cur(t) /\ Top(t).d = Here(t) /\ chain[t] # <<>>
      /\ Top(t) = frames[t][Len(frames[t])]
      /\ Cur(t).stage \notin {"Handler", "done"}
  BY <1>2, InCall
<1>4. /\ frames[t] \in Seq(Frames) /\ Len(frames[t]) <= MaxNest
      /\ Cur(t) \in Requests
      /\ CallsOK(Cur(t), Here(t), frames[t], AskedFor, Never)
      /\ RequestOK(Cur(t), AskedFor, Never)
  BY <1>3, InRequest
<1>5. /\ r \in Requests
      /\ r.server = Cur(t).server /\ r.pool = Cur(t).pool /\ r.slot = Cur(t).slot
      /\ r.ctx = Cur(t).ctx /\ r.stage = Cur(t).stage
      /\ r.answered = Cur(t).answered /\ r.filename = Cur(t).filename /\ r.handler = Cur(t).handler
  BY <1>4 DEF Requests
<1>6. chain' = [chain EXCEPT ![t] = [chain[t] EXCEPT ![Here(t)] = r]]
  BY <1>1, <1>3
<1> HIDE DEF r
<1>7. RequestOK(r, AskedFor, Never)
  BY <1>4, <1>5 DEF RequestOK
<1>8. /\ fr \in Seq(Frames) /\ Len(fr) = Len(frames[t]) - 1 /\ fr # <<>>
      /\ Len(fr) \in Nat /\ Len(frames[t]) \in Nat
      /\ DOMAIN fr = 1 .. Len(frames[t]) - 1
      /\ \A n \in DOMAIN fr : fr[n] = frames[t][n]
  <2>1. Len(frames[t]) \in Nat /\ Len(frames[t]) - 1 \in 1 .. Len(frames[t])
    BY <1>1, <1>4
  <2>2. fr \in Seq(Frames)
    BY <1>4, <2>1
  <2>3. /\ Len(fr) = Len(frames[t]) - 1
        /\ \A n \in 1 .. Len(frames[t]) - 1 : fr[n] = frames[t][n]
    BY <1>4, <2>1
  <2>4. fr # <<>>
    <3>1. 1 \in 1 .. Len(fr)
      BY <2>1, <2>3
    <3> HIDE DEF fr
    <3>2. QED
      BY <2>2, <3>1
  <2>5. QED
    BY <2>1, <2>2, <2>3, <2>4
<1> HIDE DEF fr
<1>9. \A n \in DOMAIN fr : n \in DOMAIN frames[t] /\ n < Len(frames[t])
  BY <1>4, <1>8
<1>10. CallsOK(r, Here(t), fr, AskedFor, Never)
  <2>1. Nested(r, Here(t), fr)
    BY <1>3, <1>4, <1>5, <1>8, <1>9 DEF CallsOK, Nested
  <2>2. Fresh(r, fr, AskedFor)
    BY <1>2, <1>4, <1>5, <1>8 DEF CallsOK, Fresh
  <2>3. Answered(r, fr, Never)
    BY <1>4, <1>5, <1>8, <1>9 DEF CallsOK, Answered
  <2>4. QED
    BY <2>1, <2>2, <2>3 DEF CallsOK
<1>11. \A n \in DOMAIN frames[t] : frames[t][n].at = "lua" => n \in DOMAIN fr /\ fr[n].at = "lua"
  <2>1. Top(t).at # "lua"
    BY <1>1 DEF Results
  <2>2. QED
    BY <1>3, <1>4, <1>8, <2>1
<1>12. fr[Len(fr)].wrote
  <2>1. Len(fr) \in DOMAIN fr
    BY <1>1, <1>8
  <2>2. QED
    BY <1>4, <1>8, <1>9, <2>1 DEF CallsOK, Nested
<1>13. Len(fr) <= MaxNest
  BY <1>4, <1>8
<1>14. QED
  BY <1>1, <1>3, <1>5, <1>6, <1>7, <1>8, <1>10, <1>11, <1>12, <1>13, CurStep

-----------------------------------------------------------------------------
(* Steps in a Lua state                                                    *)

(* A step of an action leaves request r and its own call at f.              *)
ChainWith(t, r) == [chain[t] EXCEPT ![Here(t)] = r]
CallsWith(t, f) == [frames[t] EXCEPT ![Len(frames[t])] = f]
ActionOK(t, r, f) ==
  /\ Later(Cur(t), r)
  /\ RequestOK(r, AskedFor, Never)
  /\ TopOK(f, r, Here(t), Never)

LEMMA ActionStep ==
  ASSUME IInv, NEW t \in Threads, frames[t] # <<>>,
         NEW r, NEW f, ActionOK(t, r, f)
  PROVE  /\ server = "serving"
         /\ ChainWith(t, r) \in Seq(Requests) /\ Len(ChainWith(t, r)) <= MaxDepth
         /\ ChainWith(t, r) # <<>>
         /\ HereOf(ChainWith(t, r)) = Here(t)
         /\ ChainWith(t, r)[Here(t)] = r
         /\ DOMAIN ChainWith(t, r) = DOMAIN chain[t]
         /\ \A k \in DOMAIN chain[t] : k # Here(t) => ChainWith(t, r)[k] = chain[t][k]
         /\ ChainWith(t, r)[1].stage # "done"
         /\ CallsWith(t, f) \in Seq(Frames) /\ Len(CallsWith(t, f)) <= MaxNest
         /\ CallsWith(t, f) # <<>>
         /\ Len(CallsWith(t, f)) = Len(frames[t])
         /\ CallsWith(t, f)[Len(frames[t])] = f
         /\ DOMAIN CallsWith(t, f) = DOMAIN frames[t]
         /\ \A n \in DOMAIN frames[t] : n # Len(frames[t]) => CallsWith(t, f)[n] = frames[t][n]
         /\ ThreadOK(ChainWith(t, r), CallsWith(t, f), AskedFor, Never)
<1>a. /\ Later(Cur(t), r) /\ RequestOK(r, AskedFor, Never) /\ TopOK(f, r, Here(t), Never)
  BY DEF ActionOK
<1>b. PICK ch, fr : ch = ChainWith(t, r) /\ fr = CallsWith(t, f)
  OBVIOUS
<1>c. /\ ch = [chain[t] EXCEPT ![Here(t)] = r]
      /\ fr = [frames[t] EXCEPT ![Len(frames[t])] = f]
  BY <1>b DEF ChainWith, CallsWith
<1>1. /\ chain[t] # <<>>
      /\ Len(frames[t]) \in DOMAIN frames[t]
      /\ Cur(t).stage \notin {"Handler", "done"}
  BY InCall
<1>2. /\ server = "serving"
      /\ chain[t] \in Seq(Requests) /\ Len(chain[t]) <= MaxDepth
      /\ frames[t] \in Seq(Frames) /\ Len(frames[t]) <= MaxNest
      /\ Here(t) = HereOf(chain[t]) /\ Here(t) \in DOMAIN chain[t]
      /\ Cur(t) = chain[t][Here(t)]
      /\ ThreadOK(chain[t], frames[t], AskedFor, Never)
      /\ CallsOK(Cur(t), Here(t), frames[t], AskedFor, Never)
  BY <1>1, InRequest
<1>3. /\ fr \in Seq(Frames) /\ Len(fr) = Len(frames[t]) /\ fr # <<>>
      /\ DOMAIN fr = DOMAIN frames[t]
      /\ fr[Len(frames[t])] = f
      /\ \A n \in DOMAIN frames[t] : n # Len(frames[t]) => fr[n] = frames[t][n]
      /\ CallsOK(r, Here(t), fr, AskedFor, Never)
  BY <1>a, <1>c, <1>2, TopReplaced
<1>4. r \in Requests /\ r.pool = Cur(t).pool /\ r.stage = Cur(t).stage
  BY <1>a DEF Later
<1>5. Shape(chain[t])
  BY <1>2 DEF ThreadOK
<1>6. /\ ch = [chain[t] EXCEPT ![HereOf(chain[t])] = r]
      /\ r.pool = chain[t][HereOf(chain[t])].pool
      /\ r.stage \in Last <=> chain[t][HereOf(chain[t])].stage \in Last
  BY <1>c, <1>2, <1>4
<1>7. /\ ch \in Seq(Requests) /\ Len(ch) = Len(chain[t]) /\ ch # <<>> /\ DOMAIN ch = DOMAIN chain[t]
      /\ HereOf(ch) = Here(t) /\ ch[Here(t)] = r
      /\ \A k \in DOMAIN chain[t] : k # Here(t) => ch[k] = chain[t][k]
  <2>1. /\ ch \in Seq(Requests) /\ Len(ch) = Len(chain[t]) /\ ch # <<>> /\ DOMAIN ch = DOMAIN chain[t]
        /\ HereOf(ch) = HereOf(chain[t]) /\ ch[HereOf(chain[t])] = r
        /\ \A k \in DOMAIN chain[t] : k # HereOf(chain[t]) => ch[k] = chain[t][k]
    BY <1>1, <1>2, <1>4, <1>5, <1>6, Replaced
  <2>2. QED
    BY <1>2, <2>1
<1>8. ThreadOK(ch, fr, AskedFor, Never)
  <2>1. CallsOK(r, HereOf(chain[t]), fr, AskedFor, Never)
    BY <1>2, <1>3
  <2>2. QED
    BY <1>1, <1>2, <1>4, <1>6, <1>a, <2>1, ReplacedOK
<1>9. ch[1].stage # "done"
  <2>1. ASSUME ch[1].stage = "done"
        PROVE  FALSE
    <3>1. HereOf(ch) = 1
      BY <2>1 DEF HereOf, Last
    <3>2. QED
      BY <1>1, <1>4, <1>7, <2>1, <3>1
  <2>2. QED
    BY <2>1
<1>10. QED
  BY <1>b, <1>2, <1>3, <1>7, <1>8, <1>9

LEMMA RunKeeps ==
  ASSUME IInv, NEW t \in Threads, run(t)
  PROVE  IInv'
<1>1. /\ frames[t] # <<>> /\ Top(t).at = "rules" /\ Top(t).runs < MaxRuns
      /\ UNCHANGED configVars
  BY DEF run, Running
<1>2. /\ Req(t) = Cur(t) /\ Top(t).d = Here(t) /\ Cur(t).ctx \in Servers /\ chain[t] # <<>>
      /\ Len(frames[t]) \in DOMAIN frames[t] /\ Len(frames[t]) \in 1 .. MaxNest
      /\ Top(t) = frames[t][Len(frames[t])] /\ Top(t) \in Frames
      /\ Cur(t).stage \notin {"Handler", "done"}
  BY <1>1, InCall
<1>3. PICK i \in States :
        /\ luaState(t, i)
        /\ \/ /\ SetTop(t, After(Top(t), "EGENERAL"))
              /\ UNCHANGED lua
           \/ /\ lua' = [lua EXCEPT ![Req(t).ctx][i] = [@ EXCEPT !.sandbox = Dead, !.garbage = TRUE]]
              /\ SetTop(t, After(Top(t), "EGENERAL"))
           \/ /\ lua' = [lua EXCEPT ![Req(t).ctx][i] = setRumFields(ActionCtx(t), @)]
              /\ SetTop(t, [Top(t) EXCEPT !.at = "lua"])
  BY DEF run
<1>a. PICK c \in Servers : c = Cur(t).ctx
  BY <1>2
<1> DEFINE r == [Cur(t) EXCEPT !.slot = i]
           ch == ChainWith(t, r)
           f1 == After(Top(t), "EGENERAL")
           f2 == [Top(t) EXCEPT !.at = "lua"]
           frf(f) == CallsWith(t, f)
<1>4. /\ chain' = [chain EXCEPT ![t] = ch]
      /\ Cur(t).slot \in {0, i}
      /\ made' \in [Servers -> 0 .. MaxStates]
      /\ free' \in [Servers -> SUBSET States]
      /\ StatesOwned'
  BY <1>1, <1>2, <1>3, StatesAcquired DEF ChainWith
<1>5. /\ Cur(t) \in Requests /\ Cur(t) = chain[t][Here(t)]
      /\ Here(t) = HereOf(chain[t]) /\ Here(t) \in DOMAIN chain[t]
      /\ CallsOK(Cur(t), Here(t), frames[t], AskedFor, Never)
      /\ RequestOK(Cur(t), AskedFor, Never)
      /\ chain[t] \in Seq(Requests)
      /\ frames[t] \in Seq(Frames)
  BY <1>2, InRequest
<1>6. i # 0 /\ i \in {0} \cup States
  BY DEF States
<1>7. /\ r \in Requests /\ r.slot = i /\ r.ctx = c /\ r.stage = Cur(t).stage
      /\ r.server = Cur(t).server /\ r.pool = Cur(t).pool /\ r.answered = Cur(t).answered
      /\ r.filename = Cur(t).filename /\ r.handler = Cur(t).handler
  BY <1>a, <1>5, <1>6 DEF Requests
<1> HIDE DEF r
<1>8. Later(Cur(t), r) /\ RequestOK(r, AskedFor, Never)
  BY <1>a, <1>4, <1>5, <1>7 DEF Later, RequestOK
<1>9. TopOK(Top(t), Cur(t), Here(t), Never)
  BY <1>1, AsItIs
<1>10. TopOK(f1, r, Here(t), Never) /\ f1.at # "lua"
  BY <1>1, <1>8, <1>9, AfterOK DEF Statuses, Answers
<1>11. TopOK(f2, r, Here(t), Never) /\ f2.at = "lua"
  <2>1. f2 \in Frames /\ f2.at = "lua" /\ f2.d = Top(t).d /\ f2.runs = Top(t).runs
        /\ f2.delayedOK = Top(t).delayedOK
    BY <1>2 DEF Frames
  <2>2. QED
    BY <1>a, <1>1, <1>2, <1>6, <1>7, <1>9, <2>1 DEF TopOK
<1>12. \A n \in DOMAIN frames[t] : frames[t][n].at = "lua" =>
         n # Len(frames[t]) /\ Cur(t).ctx = c /\ Cur(t).slot = i
  BY <1>a, <1>1, <1>2, <1>4, <1>5 DEF CallsOK, Nested
<1>13. /\ lua \in [Servers -> [States -> LuaStates]]
       /\ \A x \in {lua[c][i].sandbox, lua[c][i].proxy} : Known(x, c, i)
       /\ lua[c][i] \in LuaStates
  BY <1>2 DEF IInv, TypeOK, SandboxInv
<1> HIDE DEF f1, f2, ch
<1>14. ASSUME NEW x \in {lua[c][i].sandbox, lua[c][i].proxy}, x # Dead
       PROVE  /\ x[1] = t /\ x[2] \in DOMAIN frames[t]
              /\ x[2] # Len(frames[t]) /\ frames[t][x[2]].at = "lua"
  <2>1. LuaCall(x[1], x[2], c, i)
    BY <1>13, <1>14 DEF Known
  <2>2. x[1] = t
    <3>1. PICK u \in Threads : u = x[1]
      BY <2>1 DEF LuaCall
    <3>2. \E n \in DOMAIN frames[u] : Cur(u).ctx = c /\ Cur(u).slot = i
      BY <2>1, <3>1 DEF LuaCall
    <3>3. frames[u] # <<>> /\ Cur(u).ctx = c /\ Cur(u).slot = i
      BY <3>2
    <3>4. Here(u) \in DOMAIN chain[u] /\ Cur(u) = chain[u][Here(u)]
      BY <3>3, InCall, InRequest
    <3>5. CASE u = t
      BY <3>1, <3>5
    <3>6. CASE u # t
      <4>1. chain \in [Threads -> Seq(Requests)]
        BY DEF IInv, TypeOK
      <4>2. chain'[u] = chain[u] /\ chain'[t] = ch
        BY <1>4, <3>6, <4>1
      <4>3. ch[Here(t)] = r /\ Here(t) \in DOMAIN ch
        BY <1>5 DEF ch, ChainWith
      <4>4. PICK h \in DOMAIN chain'[u] : chain'[u][h].ctx = c /\ chain'[u][h].slot = i
        BY <3>3, <3>4, <4>2
      <4>5. PICK k \in DOMAIN chain'[t] : chain'[t][k].ctx = c /\ chain'[t][k].slot = i
        BY <1>7, <4>2, <4>3
      <4>6. StatesApart'
        BY <1>4 DEF StatesOwned
      <4>7. QED
        BY <1>6, <3>6, <4>4, <4>5, <4>6 DEF StatesApart, Holds
    <3>7. QED
      BY <3>5, <3>6
  <2>3. QED
    BY <1>12, <2>1, <2>2 DEF LuaCall
<1>15. ASSUME NEW f \in {f1, f2}
       PROVE  /\ server = "serving"
              /\ ch \in Seq(Requests) /\ Len(ch) <= MaxDepth /\ ch # <<>>
              /\ HereOf(ch) = Here(t) /\ ch[Here(t)] = r
              /\ ch[1].stage # "done"
              /\ frf(f) \in Seq(Frames) /\ Len(frf(f)) <= MaxNest /\ frf(f) # <<>>
              /\ Len(frf(f)) = Len(frames[t]) /\ frf(f)[Len(frames[t])] = f
              /\ DOMAIN frf(f) = DOMAIN frames[t]
              /\ \A n \in DOMAIN frames[t] : n # Len(frames[t]) => frf(f)[n] = frames[t][n]
              /\ ThreadOK(ch, frf(f), AskedFor, Never)
  <2>1. ActionOK(t, r, f)
    BY <1>8, <1>10, <1>11 DEF ActionOK
  <2>2. ch = ChainWith(t, r)
    BY DEF ch
  <2>3. QED
    BY <1>1, <2>1, <2>2, ActionStep
<1> HIDE DEF frf
<1>16. CASE SetTop(t, f1) /\ lua' = lua
  <2>1. frames' = [frames EXCEPT ![t] = frf(f1)]
    BY <1>16 DEF SetTop, frf, CallsWith
  <2>2. SameCalls(chain[t], frames[t], ch, frf(f1))
    BY <1>a, <1>5, <1>7, <1>10, <1>12, <1>15 DEF SameCalls
  <2>3. SandboxInv' /\ StatesReady'
    BY <1>1, <1>4, <1>15, <1>16, <2>1, <2>2, LuaStays
  <2>4. LuaTypes'
    BY <1>4, <1>13, <1>16 DEF LuaTypes
  <2>5. QED
    BY <1>1, <1>4, <1>15, <2>1, <2>3, <2>4, Step
<1>17. CASE /\ lua' = [lua EXCEPT ![c][i] = [@ EXCEPT !.sandbox = Dead, !.garbage = TRUE]]
            /\ SetTop(t, f1)
  <2> DEFINE l == [lua[c][i] EXCEPT !.sandbox = Dead, !.garbage = TRUE]
  <2>1. frames' = [frames EXCEPT ![t] = frf(f1)]
    BY <1>17 DEF SetTop, frf, CallsWith
  <2>2. l \in LuaStates /\ l.sandbox = Dead /\ l.proxy = lua[c][i].proxy
    BY <1>13 DEF LuaStates, ActionCtxs
  <2>3. lua' = [lua EXCEPT ![c][i] = l]
    BY <1>17
  <2> HIDE DEF l
  <2>4. \A x \in {l.sandbox, l.proxy} :
          x # Dead => x[1] = t /\ x[2] \in DOMAIN frf(f1) /\ frf(f1)[x[2]].at = "lua"
    BY SMTT(30), <1>14, <1>15, <2>2
  <2>5. ch[HereOf(ch)].ctx = c /\ ch[HereOf(ch)].slot = i
    BY <1>7, <1>15
  <2>6. frf(f1)[Len(frf(f1))].at # "lua"
    BY <1>10, <1>15
  <2>a. UsesLua(t, ch, frf(f1), c, i, l)
    BY <1>12, <1>15, <2>4, <2>5, <2>6 DEF UsesLua
  <2>7. SandboxInv' /\ StatesReady' /\ lua' \in [Servers -> [States -> LuaStates]]
    BY <1>1, <1>4, <1>15, <2>a, <2>1, <2>2, <2>3, LuaUsed
  <2>8. LuaTypes'
    BY <1>4, <2>7 DEF LuaTypes
  <2>9. QED
    BY <1>1, <1>4, <1>15, <2>1, <2>7, <2>8, Step
<1>18. CASE /\ lua' = [lua EXCEPT ![c][i] = setRumFields(ActionCtx(t), @)]
            /\ SetTop(t, f2)
  <2> DEFINE l == [lua[c][i] EXCEPT !.sandbox = ActionCtx(t), !.proxy = ActionCtx(t), !.garbage = TRUE]
  <2>1. frames' = [frames EXCEPT ![t] = frf(f2)]
    BY <1>18 DEF SetTop, frf, CallsWith
  <2>2. /\ ActionCtx(t) = <<t, Len(frames[t])>>
        /\ ActionCtx(t) \in ActionCtxs
    BY <1>2 DEF ActionCtx, ActionCtxs
  <2>3. l \in LuaStates /\ l.sandbox = ActionCtx(t) /\ l.proxy = ActionCtx(t)
    BY <1>13, <2>2 DEF LuaStates
  <2>4. lua' = [lua EXCEPT ![c][i] = l]
    BY <1>18 DEF setRumFields
  <2> HIDE DEF l
  <2>5. \A x \in {l.sandbox, l.proxy} :
          x # Dead => x[1] = t /\ x[2] \in DOMAIN frf(f2) /\ frf(f2)[x[2]].at = "lua"
    BY <1>2, <1>11, <1>15, <2>2, <2>3
  <2>6. ch[HereOf(ch)].ctx = c /\ ch[HereOf(ch)].slot = i
    BY <1>7, <1>15
  <2>7. l.sandbox = <<t, Len(frf(f2))>> /\ l.proxy = <<t, Len(frf(f2))>>
    BY <1>15, <2>2, <2>3
  <2>a. UsesLua(t, ch, frf(f2), c, i, l)
    BY <1>12, <1>15, <2>5, <2>6, <2>7 DEF UsesLua
  <2>8. SandboxInv' /\ StatesReady' /\ lua' \in [Servers -> [States -> LuaStates]]
    BY <1>1, <1>4, <1>15, <2>a, <2>1, <2>3, <2>4, LuaUsed
  <2>9. LuaTypes'
    BY <1>4, <2>8 DEF LuaTypes
  <2>10. QED
    BY <1>1, <1>4, <1>15, <2>1, <2>8, <2>9, Step
<1>19. QED
  BY <1>2, <1>3, <1>a, <1>16, <1>17, <1>18 DEF f1, f2

LEMMA ChunkReturnsKeeps ==
  ASSUME IInv, NEW t \in Threads, chunkReturns(t)
  PROVE  IInv'
<1>1. frames[t] # <<>> /\ Top(t).at = "lua" /\ UNCHANGED <<configVars, made, free>>
  BY DEF chunkReturns, Running
<1>2. PICK status \in Statuses :
        /\ SetTop(t, After(Top(t), status))
        /\ chain' = IF Answers(Req(t), status)
                    THEN [chain EXCEPT ![t][Top(t).d] = [@ EXCEPT !.answered = TRUE]]
                    ELSE chain
        /\ lua' = [lua EXCEPT ![Req(t).ctx][Req(t).slot] = Forget(ActionCtx(t), @)]
  BY DEF chunkReturns, Statuses
<1>3. /\ chain[t] # <<>> /\ Req(t) = Cur(t) /\ Top(t).d = Here(t)
      /\ Len(frames[t]) \in DOMAIN frames[t] /\ Len(frames[t]) \in 1 .. MaxNest
      /\ Top(t) = frames[t][Len(frames[t])]
      /\ Cur(t).ctx \in Servers /\ Cur(t).slot \in States /\ Top(t).runs < MaxRuns
  BY <1>1, InCall
<1>4. PICK c \in Servers, i \in States : c = Cur(t).ctx /\ i = Cur(t).slot
  BY <1>3
<1>5. /\ Cur(t) \in Requests /\ Cur(t) = chain[t][Here(t)] /\ Here(t) \in DOMAIN chain[t]
      /\ chain[t] \in Seq(Requests)
      /\ frames[t] \in Seq(Frames)
      /\ CallsOK(Cur(t), Here(t), frames[t], AskedFor, Never)
  BY <1>3, InRequest
<1>6. /\ RequestOK(Cur(t), AskedFor, Never) /\ Later(Cur(t), Cur(t))
      /\ TopOK(Top(t), Cur(t), Here(t), Never)
      /\ chain = [chain EXCEPT ![t] = ChainWith(t, Cur(t))]
  BY <1>1, AsItIs DEF ChainWith
<1> DEFINE r == IF Answers(Cur(t), status) THEN [Cur(t) EXCEPT !.answered = TRUE] ELSE Cur(t)
           f == After(Top(t), status)
           ch == ChainWith(t, r)
           fr == CallsWith(t, f)
<1>7. /\ r \in Requests /\ r.slot = Cur(t).slot /\ r.ctx = Cur(t).ctx /\ r.stage = Cur(t).stage
      /\ r.server = Cur(t).server /\ r.pool = Cur(t).pool
      /\ r.filename = Cur(t).filename /\ r.handler = Cur(t).handler
      /\ Cur(t).answered => r.answered
      /\ Answers(Cur(t), status) => r.answered
  BY <1>5 DEF Requests
<1>8. chain' = [chain EXCEPT ![t] = ch]
  <2>1. CASE Answers(Cur(t), status)
    BY <1>2, <1>3, <1>5, <2>1 DEF ChainWith
  <2>2. CASE ~Answers(Cur(t), status)
    BY <1>2, <1>3, <1>6, <2>2
  <2>3. QED
    BY <2>1, <2>2
<1> HIDE DEF r
<1>9. Later(Cur(t), r) /\ RequestOK(r, AskedFor, Never)
  BY <1>6, <1>7 DEF Later, RequestOK
<1>10. TopOK(f, r, Here(t), Never) /\ f.at # "lua"
  BY <1>1, <1>3, <1>6, <1>7, <1>9, AfterOK
<1>11. frames' = [frames EXCEPT ![t] = fr]
  BY <1>2 DEF SetTop, CallsWith
<1> HIDE DEF f
<1>12. ActionOK(t, r, f)
  BY <1>9, <1>10 DEF ActionOK
<1>13. /\ server = "serving"
       /\ ch \in Seq(Requests) /\ Len(ch) <= MaxDepth /\ ch # <<>>
       /\ HereOf(ch) = Here(t) /\ ch[Here(t)] = r
       /\ ch[1].stage # "done"
       /\ fr \in Seq(Frames) /\ Len(fr) <= MaxNest /\ fr # <<>>
       /\ Len(fr) = Len(frames[t]) /\ fr[Len(frames[t])] = f
       /\ DOMAIN fr = DOMAIN frames[t]
       /\ \A n \in DOMAIN frames[t] : n # Len(frames[t]) => fr[n] = frames[t][n]
       /\ ThreadOK(ch, fr, AskedFor, Never)
  BY <1>1, <1>12, ActionStep
<1>14. SameStates(chain[t], ch)
  BY <1>5, <1>7, SameStatesReplaced DEF ChainWith
<1> HIDE DEF ch, fr
<1>15. StatesOwned'
  BY <1>1, <1>8, <1>14, StatesStay
<1>16. /\ lua \in [Servers -> [States -> LuaStates]] /\ lua[c][i] \in LuaStates
       /\ \A x \in {lua[c][i].sandbox, lua[c][i].proxy} : Known(x, c, i)
       /\ made \in [Servers -> 0 .. MaxStates] /\ free \in [Servers -> SUBSET States]
  BY DEF IInv, TypeOK, SandboxInv
<1> DEFINE l == Forget(ActionCtx(t), lua[c][i])
<1>17. /\ l \in LuaStates
       /\ \A x \in {l.sandbox, l.proxy} :
            x = Dead \/ (x \in {lua[c][i].sandbox, lua[c][i].proxy} /\ x # ActionCtx(t))
  BY <1>16 DEF Forget, LuaStates, ActionCtxs
<1>18. lua' = [lua EXCEPT ![c][i] = l]
  BY <1>2, <1>3, <1>4
<1> HIDE DEF l
<1>19. ASSUME NEW x \in {l.sandbox, l.proxy}, x # Dead
       PROVE  x[1] = t /\ x[2] \in DOMAIN fr /\ fr[x[2]].at = "lua"
  <2>1. /\ x \in {lua[c][i].sandbox, lua[c][i].proxy} /\ x # ActionCtx(t)
        /\ x \in Threads \X (1 .. MaxNest)
    BY <1>16, <1>17, <1>19 DEF LuaStates, ActionCtxs
  <2>2. LuaCall(x[1], x[2], c, i)
    BY <1>16, <1>19, <2>1 DEF Known
  <2>3. x[1] = t
    <3>1. PICK u \in Threads : u = x[1]
      BY <2>2 DEF LuaCall
    <3>2. \E n \in DOMAIN frames[u] : Cur(u).ctx = c /\ Cur(u).slot = i
      BY <2>2, <3>1 DEF LuaCall
    <3>3. frames[u] # <<>> /\ Cur(u).ctx = c /\ Cur(u).slot = i
      BY <3>2
    <3>4. Here(u) \in DOMAIN chain[u] /\ Cur(u) = chain[u][Here(u)]
      BY <3>3, InCall, InRequest
    <3>5. Holds(u, Here(u), Cur(t).ctx, Cur(t).slot)
      BY <1>4, <3>3, <3>4 DEF Holds
    <3>6. Cur(t).slot # 0
      BY <1>3 DEF States
    <3>7. t = u
      BY <1>5, <3>4, <3>5, <3>6 DEF IInv, StatesOwned, StatesApart
    <3>8. QED
      BY <3>1, <3>7
  <2>4. x[2] # Len(frames[t])
    <3>1. x = <<x[1], x[2]>>
      BY <2>1
    <3>2. ActionCtx(t) = <<t, Len(frames[t])>>
      BY DEF ActionCtx
    <3>3. QED
      BY <2>1, <2>3, <3>1, <3>2
  <2>5. x[2] \in DOMAIN frames[t] /\ frames[t][x[2]].at = "lua"
    BY <2>2, <2>3 DEF LuaCall
  <2>6. QED
    BY <1>13, <2>3, <2>4, <2>5
<1>20. UsesLua(t, ch, fr, c, i, l)
  BY <1>4, <1>7, <1>10, <1>13, <1>19 DEF UsesLua
<1>21. SandboxInv' /\ StatesReady' /\ lua' \in [Servers -> [States -> LuaStates]]
  BY <1>1, <1>8, <1>11, <1>13, <1>15, <1>17, <1>18, <1>20, LuaUsed
<1>22. LuaTypes'
  BY <1>1, <1>16, <1>21 DEF LuaTypes
<1>23. QED
  BY <1>1, <1>8, <1>11, <1>13, <1>15, <1>21, <1>22, Step

LEMMA LuaNextKeeps ==
  ASSUME IInv, NEW t \in Threads, LuaNext(t)
  PROVE  IInv'
BY RulesEndKeeps, NativeActionKeeps, RunKeeps, ChunkReturnsKeeps, CoreKeeps, FlushKeeps,
   FlushReturnsKeeps DEF LuaNext

-----------------------------------------------------------------------------
(* Requests begin and end                                                  *)

LEMMA ArrivesKeeps ==
  ASSUME IInv, NEW t \in Threads, frames[t] = <<>>,
         chain[t] # <<>> => Cur(t).stage = "Handler",
         NEW k \in {"main", "redirect", "sub"}, NEW s \in Servers,
         NEW p \in 1 .. Len(chain[t]) + 1,
         Arrives(t, k, s, p)
  PROVE  IInv'
<1> DEFINE r == NewRequest(k, s, p)
           ch == Append(chain[t], r)
<1>1. /\ server = "serving" /\ Len(chain[t]) < MaxDepth
      /\ chain' = [chain EXCEPT ![t] = ch]
      /\ UNCHANGED <<configVars, frames, luaVars>>
  BY DEF Arrives
<1>2. /\ chain[t] \in Seq(Requests) /\ Len(chain[t]) \in Nat
      /\ frames \in [Threads -> Seq(Frames)]
      /\ ThreadOK(chain[t], frames[t], AskedFor, Never)
  BY DEF IInv, TypeOK
<1>3. chain[t] # <<>> => chain[t][HereOf(chain[t])].stage = "Handler"
  BY InRequest
<1>4. frames' = [frames EXCEPT ![t] = <<>>]
  BY <1>1, <1>2
<1>5. /\ ch \in Seq(Requests) /\ Len(ch) = Len(chain[t]) + 1
      /\ ThreadOK(ch, <<>>, AskedFor, Never)
  <2>1. ch \in Seq(Requests) /\ Len(ch) = Len(chain[t]) + 1 /\ ThreadOK(ch, frames[t], AskedFor, Never)
    BY <1>1, <1>2, <1>3, AppendedOK
  <2>2. QED
    BY <2>1, Zenon
<1>6. r \in Requests /\ r.slot = 0 /\ r.stage = "TranslateNamePreRewrite"
  <2>1. p \in 1 .. MaxDepth
    BY <1>1, <1>2
  <2>2. QED
    BY <2>1 DEF NewRequest, Requests, Stages, Filenames, Handlers
<1>7. SameStates(chain[t], ch)
  BY <1>2, <1>6, SameStatesAppended
<1> HIDE DEF r
<1>8. SameCalls(chain[t], frames[t], ch, <<>>)
  <2>1. CASE chain[t] = <<>>
    <3>1. ch[1] = r
      BY <1>2, <1>6, <2>1
    <3>2. QED
      BY <1>6, <3>1 DEF SameCalls
  <2>2. CASE chain[t] # <<>>
    <3>1. ch[1] = chain[t][1]
      BY <1>2, <1>6, <2>2
    <3>2. QED
      BY <2>2, <3>1 DEF SameCalls
  <2>3. QED
    BY <2>1, <2>2
<1>9. <<>> \in Seq(Frames) /\ Len(<<>>) <= MaxNest /\ Len(ch) <= MaxDepth
  BY <1>1, <1>2, <1>5
<1> HIDE DEF ch
<1>10. QED
  BY <1>1, <1>4, <1>5, <1>7, <1>8, <1>9, QuietStep

LEMMA BadRequestKeeps ==
  ASSUME IInv, NEW t \in Threads, BadRequest(t)
  PROVE  IInv'
<1>1. /\ server = "serving" /\ chain[t] = <<>>
      /\ UNCHANGED <<configVars, frames, luaVars>>
  BY DEF BadRequest
<1>2. PICK s \in Servers :
        chain' = [chain EXCEPT ![t] = <<[NewRequest("main", s, 1) EXCEPT !.stage = "LogTransaction"]>>]
  BY DEF BadRequest
<1> DEFINE r == [NewRequest("main", s, 1) EXCEPT !.stage = "LogTransaction"]
           ch == <<r>>
<1>3. frames[t] = <<>> /\ frames \in [Threads -> Seq(Frames)]
  BY <1>1 DEF IInv, TypeOK, ThreadOK
<1>4. /\ r \in Requests /\ r.slot = 0 /\ r.stage = "LogTransaction" /\ r.pool = 1
      /\ r.ctx = NoServer /\ r.handler = "default"
  <2>1. NewRequest("main", s, 1) \in Requests
    BY DEF NewRequest, Requests, Stages, Filenames, Handlers
  <2>2. QED
    BY <2>1 DEF NewRequest, Requests, Stages
<1>5. chain' = [chain EXCEPT ![t] = ch]
  BY <1>2
<1> HIDE DEF r
<1>6. /\ ch \in Seq(Requests) /\ Len(ch) = 1 /\ DOMAIN ch = {1} /\ ch[1] = r /\ ch # <<>>
  BY <1>4
<1> HIDE DEF ch
<1>7. ThreadOK(ch, <<>>, AskedFor, Never)
  <2>1. HereOf(ch) = 1
    BY <1>4, <1>6 DEF HereOf, Last
  <2>2. Shape(ch)
    BY <1>4, <1>6 DEF Shape, Last
  <2>3. CallsOK(r, 1, <<>>, AskedFor, Never)
    BY <1>4, NoCalls
  <2>4. RequestOK(r, AskedFor, Never)
    BY <1>4 DEF RequestOK, Last
  <2>5. QED
    BY <1>6, <2>1, <2>2, <2>3, <2>4 DEF ThreadOK
<1>8. SameStates(chain[t], ch)
  BY <1>1, <1>4, <1>6 DEF SameStates
<1>9. SameCalls(chain[t], frames[t], ch, <<>>)
  BY <1>3, <1>4, <1>6 DEF SameCalls
<1>10. frames' = [frames EXCEPT ![t] = <<>>]
  BY <1>1, <1>3
<1>11. <<>> \in Seq(Frames) /\ Len(<<>>) <= MaxNest /\ Len(ch) <= MaxDepth
  BY <1>6
<1>12. QED
  BY <1>1, <1>5, <1>6, <1>7, <1>8, <1>9, <1>10, <1>11, QuietStep

(* The pool of place p goes, with its requests. *)
LEMMA DestroyedKeeps ==
  ASSUME IInv, NEW t \in Threads, chain[t] # <<>>,
         \A n \in DOMAIN frames[t] : frames[t][n].at # "lua",
         NEW p \in 1 .. Len(chain[t]), p = 1 \/ Cur(t).stage \notin Last,
         PoolDestroyed(t, p),
         frames' = [frames EXCEPT ![t] = <<>>],
         UNCHANGED <<configVars, made, lua>>
  PROVE  IInv'
<1> DEFINE ch == SubSeq(chain[t], 1, p - 1)
<1>1. /\ server = "serving"
      /\ chain[t] \in Seq(Requests) /\ Len(chain[t]) \in Nat /\ Len(chain[t]) <= MaxDepth
      /\ Cur(t) = chain[t][HereOf(chain[t])]
      /\ ThreadOK(chain[t], frames[t], AskedFor, Never)
  BY InRequest
<1>2. chain' = [chain EXCEPT ![t] = ch]
  BY DEF PoolDestroyed
<1>3. ThreadOK(ch, <<>>, AskedFor, Never)
  BY <1>1, DestroyedOK
<1>4. /\ ch \in Seq(Requests) /\ Len(ch) = p - 1 /\ Len(ch) <= MaxDepth
      /\ \A k \in 1 .. p - 1 : ch[k] = chain[t][k]
  BY <1>1
<1>5. StatesOwned' /\ free' \in [Servers -> SUBSET States]
  BY StatesReleased
<1>6. ch # <<>> => ch[1] = chain[t][1]
  BY <1>4
<1> HIDE DEF ch
<1>7. SameCalls(chain[t], frames[t], ch, <<>>)
  BY <1>6 DEF SameCalls
<1>8. <<>> \in Seq(Frames) /\ Len(<<>>) <= MaxNest
  OBVIOUS
<1>9. SandboxInv' /\ StatesReady'
  BY <1>2, <1>3, <1>4, <1>7, <1>8, LuaStays
<1>10. LuaTypes'
  BY <1>5 DEF IInv, TypeOK, LuaTypes
<1>11. QED
  BY <1>1, <1>2, <1>3, <1>4, <1>5, <1>8, <1>9, <1>10, Step

LEMMA RequestOverKeeps ==
  ASSUME IInv, NEW t \in Threads, RequestOver(t)
  PROVE  IInv'
<1>1. /\ chain[t] # <<>> /\ Cur(t).stage = "done"
      /\ PoolDestroyed(t, 1)
      /\ UNCHANGED <<configVars, frames, made, lua>>
  BY DEF RequestOver, At
<1>2. frames[t] = <<>>
  BY <1>1, InCall
<1>3. frames' = [frames EXCEPT ![t] = <<>>]
  BY <1>1, <1>2 DEF IInv, TypeOK
<1>4. 1 \in 1 .. Len(chain[t])
  BY <1>1, InRequest
<1>5. \A n \in DOMAIN frames[t] : frames[t][n].at # "lua"
  BY <1>2
<1>6. QED
  BY <1>1, <1>3, <1>4, <1>5, DestroyedKeeps

(* The innermost request is over, with an error or without.                *)
LEMMA OverKeeps ==
  ASSUME IInv, NEW t \in Threads, chain[t] # <<>>, Cur(t).stage \notin Last,
         \A n \in DOMAIN frames[t] : frames[t][n].at # "lua",
         Over(t),
         frames' = [frames EXCEPT ![t] = <<>>],
         UNCHANGED <<configVars, made, lua>>
  PROVE  IInv'
<1> DEFINE p == chain[t][Len(chain[t])].pool
<1>1. /\ server = "serving"
      /\ chain[t] \in Seq(Requests) /\ Len(chain[t]) \in Nat /\ Len(chain[t]) <= MaxDepth
      /\ Cur(t) = chain[t][HereOf(chain[t])]
      /\ ThreadOK(chain[t], frames[t], AskedFor, Never)
  BY InRequest
<1>2. p \in 1 .. Len(chain[t])
  <2>1. Len(chain[t]) \in DOMAIN chain[t]
    BY <1>1
  <2>2. QED
    BY <1>1, <2>1 DEF ThreadOK, Shape
<1>3. CASE p # 1
  <2>1. PoolDestroyed(t, p)
    BY <1>3 DEF Over
  <2>2. QED
    BY <1>2, <2>1, DestroyedKeeps
<1>4. CASE p = 1
  <2> DEFINE ch == [chain[t] EXCEPT ![1].stage = "LogTransaction"]
  <2>1. chain' = [chain EXCEPT ![t] = ch] /\ free' = free
    BY <1>4 DEF Over
  <2>2. ch \in Seq(Requests) /\ ThreadOK(ch, <<>>, AskedFor, Never)
    BY <1>1, LoggedOK
  <2>3. /\ Len(ch) = Len(chain[t])
        /\ ch[1].stage = "LogTransaction"
        /\ SameStates(chain[t], ch)
    <3>1. 1 \in DOMAIN chain[t] /\ chain[t][1] \in Requests
      BY <1>1
    <3>2. PICK r : r = [chain[t][1] EXCEPT !.stage = "LogTransaction"]
      OBVIOUS
    <3>3. r.stage = "LogTransaction" /\ r.slot = chain[t][1].slot /\ r.ctx = chain[t][1].ctx
      BY <3>1, <3>2 DEF Requests
    <3>4. ch = [chain[t] EXCEPT ![1] = r]
      BY <3>2
    <3>5. SameStates(chain[t], ch)
      BY <1>1, <3>1, <3>3, <3>4, SameStatesReplaced
    <3>6. QED
      BY <1>1, <3>1, <3>3, <3>4, <3>5
  <2> HIDE DEF ch
  <2>4. SameCalls(chain[t], frames[t], ch, <<>>)
    BY <2>3 DEF SameCalls
  <2>5. <<>> \in Seq(Frames) /\ Len(<<>>) <= MaxNest /\ Len(ch) <= MaxDepth
    BY <1>1, <2>3
  <2>6. UNCHANGED <<configVars, luaVars>>
    BY <2>1 DEF luaVars
  <2>7. QED
    BY <1>1, <2>1, <2>2, <2>3, <2>4, <2>5, <2>6, QuietStep
<1>5. QED
  BY <1>3, <1>4

-----------------------------------------------------------------------------
(* The hooks                                                               *)

(* A hook makes a call, the first one with the Config of the server.       *)
LEMMA BeginKeeps ==
  ASSUME IInv, NEW t \in Threads, NEW stage, stage \notin {"Handler", "done"},
         NEW r \in Requests,
         r.server = Cur(t).server, r.pool = Cur(t).pool, r.stage = Cur(t).stage,
         r.slot = Cur(t).slot, r.filename = Cur(t).filename, r.handler = Cur(t).handler,
         r.answered = Cur(t).answered,
         IF stage = "TranslateNamePreRewrite" THEN r.ctx = AskedFor[r.server] ELSE r.ctx = Cur(t).ctx,
         Begin(t, stage, r)
  PROVE  IInv'
<1>1. /\ frames[t] = <<>> /\ chain[t] # <<>> /\ Cur(t).stage = stage
      /\ chain' = [chain EXCEPT ![t] = [chain[t] EXCEPT ![Here(t)] = r]]
      /\ UNCHANGED <<configVars, luaVars>>
  BY DEF Begin, At, SetCur
<1>2. PICK f \in lookupAndRun(Here(t), r.ctx) : frames' = [frames EXCEPT ![t] = <<f>>]
  BY DEF Begin
<1>3. /\ Here(t) \in 1 .. MaxDepth
      /\ CallsOK(Cur(t), Here(t), frames[t], AskedFor, Never)
      /\ RequestOK(Cur(t), AskedFor, Never)
  BY <1>1, InRequest
<1>4. /\ f \in Frames /\ f.d = Here(t) /\ ~f.delayedOK
      /\ f.at \in {"rules", "OK", "DECLINED"}
      /\ f.at = "rules" => r.ctx \in Servers
      /\ f.at = "OK" => r.ctx \in Never
  BY <1>2, <1>3, EntryOK DEF Requests
<1> DEFINE fr == <<f>>
<1>5. fr \in Seq(Frames) /\ Len(fr) = 1 /\ DOMAIN fr = {1} /\ fr[1] = f /\ fr # <<>>
  BY <1>4
<1> HIDE DEF fr
<1>6. CallsOK(r, Here(t), fr, AskedFor, Never)
  <2>1. Nested(r, Here(t), fr)
    BY <1>1, <1>4, <1>5 DEF Nested
  <2>2. Fresh(r, fr, AskedFor)
    BY <1>1, <1>5 DEF Fresh
  <2>3. Answered(r, fr, Never)
    BY <1>4, <1>5 DEF Answered, Never
  <2>4. QED
    BY <2>1, <2>2, <2>3 DEF CallsOK
<1>7. RequestOK(r, AskedFor, Never)
  BY <1>1, <1>3 DEF RequestOK, Early
<1>8. r.ctx = Cur(t).ctx \/ r.slot = 0
  BY <1>1, <1>3 DEF CallsOK, Fresh
<1>9. frames' = [frames EXCEPT ![t] = fr]
  BY <1>2 DEF fr
<1>10. Len(fr) <= MaxNest /\ fr[Len(fr)].at # "lua" /\ r.stage # "done"
  BY <1>1, <1>4, <1>5
<1>11. \A n \in DOMAIN frames[t] : frames[t][n].at = "lua" => n \in DOMAIN fr /\ fr[n].at = "lua"
  BY <1>1
<1>12. QED
  BY <1>1, <1>5, <1>6, <1>7, <1>8, <1>9, <1>10, <1>11, CurStep

(* A hook's call has returned, or there was none.                          *)
LEMMA InEnd ==
  ASSUME IInv, NEW t \in Threads, NEW stage, End(t, stage)
  PROVE  /\ chain[t] # <<>> /\ frames[t] # <<>>
         /\ Cur(t).stage = stage
         /\ Cur(t) \in Requests
         /\ RequestOK(Cur(t), AskedFor, Never)
         /\ \A n \in DOMAIN frames[t] : frames[t][n].at # "lua"
         /\ frames' = [frames EXCEPT ![t] = <<>>]
         /\ UNCHANGED <<configVars, made>>
         /\ stage = "TranslateNamePreRewrite" => Cur(t).ctx = AskedFor[Cur(t).server]
         /\ Top(t).at = "OK" /\ stage \in Early =>
              Cur(t).ctx \in Servers /\ (Cur(t).answered \/ Cur(t).ctx \in Never)
<1>1. /\ Len(frames[t]) = 1 /\ chain[t] # <<>> /\ Cur(t).stage = stage
      /\ Top(t).at \in Results
      /\ frames' = [frames EXCEPT ![t] = <<>>]
      /\ UNCHANGED <<configVars, made>>
  BY DEF End, At
<1>2. frames[t] # <<>>
  BY <1>1
<1>3. /\ frames[t] \in Seq(Frames) /\ Cur(t) \in Requests
      /\ CallsOK(Cur(t), Here(t), frames[t], AskedFor, Never)
      /\ RequestOK(Cur(t), AskedFor, Never)
  BY <1>1, InRequest
<1>4. DOMAIN frames[t] = {1} /\ Top(t) = frames[t][1] /\ Top(t).at # "lua"
  BY <1>1, <1>3 DEF Top, Results
<1>5. stage = "TranslateNamePreRewrite" => Cur(t).ctx = AskedFor[Cur(t).server]
  BY <1>1, <1>2, <1>3 DEF CallsOK, Fresh
<1>6. Top(t).at = "OK" /\ stage \in Early =>
        Cur(t).ctx \in Servers /\ (Cur(t).answered \/ Cur(t).ctx \in Never)
  BY <1>1, <1>3, <1>4 DEF CallsOK, Answered
<1>7. QED
  BY <1>1, <1>2, <1>3, <1>4, <1>5, <1>6

(* The request goes on to another hook.                                    *)
LEMMA GoesOnKeeps ==
  ASSUME IInv, NEW t \in Threads, chain[t] # <<>>, Cur(t).stage \notin Last,
         \A n \in DOMAIN frames[t] : frames[t][n].at # "lua",
         frames' = [frames EXCEPT ![t] = <<>>],
         UNCHANGED <<configVars, made>>,
         NEW r \in Requests,
         r.server = Cur(t).server, r.pool = Cur(t).pool, r.slot = Cur(t).slot, r.ctx = Cur(t).ctx,
         r.stage \notin {"TranslateNamePreRewrite"} \cup Last,
         RequestOK(r, AskedFor, Never),
         GoesOn(t, r)
  PROVE  IInv'
<1>1. /\ chain' = [chain EXCEPT ![t] = [chain[t] EXCEPT ![Here(t)] = r]]
      /\ UNCHANGED <<configVars, luaVars>>
  BY DEF GoesOn, SetCur, luaVars
<1>2. PICK fr \in Seq(Frames) : fr = <<>>
  <2>1. <<>> \in Seq(Frames)
    OBVIOUS
  <2>2. QED
    BY <2>1
<1>3. CallsOK(r, Here(t), fr, AskedFor, Never)
  BY <1>2, NoCalls
<1>4. r.stage # "done" /\ Len(fr) <= MaxNest
  BY <1>2 DEF Last
<1>5. frames' = [frames EXCEPT ![t] = fr]
  BY <1>2
<1>6. QED
  BY ZenonT(40), <1>1, <1>2, <1>3, <1>4, <1>5, CurStep

LEMMA EndsKeeps ==
  ASSUME IInv, NEW t \in Threads, chain[t] # <<>>, Cur(t).stage \notin Last,
         \A n \in DOMAIN frames[t] : frames[t][n].at # "lua",
         frames' = [frames EXCEPT ![t] = <<>>],
         UNCHANGED <<configVars, made>>,
         Ends(t)
  PROVE  IInv'
BY OverKeeps DEF Ends

(* A hook leaves a request at stage next, and may set its filename.        *)
Moved(r, next, name) == [r EXCEPT !.stage = next, !.filename = name]

LEMMA MovedOK ==
  ASSUME NEW r \in Requests, RequestOK(r, AskedFor, Never),
         NEW next \in Stages, next \notin {"TranslateNamePreRewrite"} \cup Last,
         NEW name \in Filenames,
         name = r.filename \/ (r.handler = "default" /\ name = "file"),
         r.stage \in {"TranslateNamePreRewrite"} => r.ctx = AskedFor[r.server],
         r.stage \notin Last,
         name = "none" /\ next \notin Early /\ r.stage \in Early =>
           r.ctx \in Servers /\ (r.answered \/ r.ctx \in Never),
         NEW r2, r2 = Moved(r, next, name)
  PROVE  /\ r2 \in Requests
         /\ r2.server = r.server /\ r2.pool = r.pool /\ r2.slot = r.slot /\ r2.ctx = r.ctx
         /\ r2.stage \notin {"TranslateNamePreRewrite"} \cup Last
         /\ RequestOK(r2, AskedFor, Never)
<1>1. /\ r2 \in Requests
      /\ r2.server = r.server /\ r2.pool = r.pool /\ r2.slot = r.slot /\ r2.ctx = r.ctx
      /\ r2.handler = r.handler /\ r2.answered = r.answered
      /\ r2.stage = next /\ r2.filename = name
  BY DEF Moved, Requests
<1>2. r2.ctx = AskedFor[r2.server]
  BY <1>1 DEF RequestOK
<1>3. /\ r2.handler = "rum-int-redirect" => r2.filename = "redirect:"
      /\ r2.handler = "proxy-server" => r2.filename = "proxy:"
  BY <1>1 DEF RequestOK
<1>4. r2.stage \notin Early \cup Last /\ r2.filename = "none" =>
        r2.ctx \in Servers /\ (r2.answered \/ r2.ctx \in Never)
  BY <1>1 DEF RequestOK
<1>5. QED
  BY <1>1, <1>2, <1>3, <1>4 DEF RequestOK

LEMMA TranslateHookKeeps ==
  ASSUME IInv, NEW t \in Threads, NEW stage \in Translation,
         NEW ok, NEW declined,
         TranslateHook(t, stage, ok, declined),
         NEW next \in {"MapToStorage", "HeaderParser"}, ok = Moved(Cur(t), next, Cur(t).filename),
         stage = "MapToStorage" <=> next = "HeaderParser",
         \/ stage = "TranslateNamePreRewrite" /\ declined = Moved(Cur(t), "TranslateName", Cur(t).filename)
         \/ stage = "TranslateName" /\ declined = Moved(Cur(t), next, "file")
         \/ stage = "MapToStorage" /\ declined = ok
  PROVE  IInv'
<1>1. End(t, stage)
  BY DEF TranslateHook
<1>2. /\ chain[t] # <<>> /\ Cur(t).stage = stage
      /\ Cur(t) \in Requests
      /\ RequestOK(Cur(t), AskedFor, Never)
      /\ \A n \in DOMAIN frames[t] : frames[t][n].at # "lua"
      /\ frames' = [frames EXCEPT ![t] = <<>>]
      /\ UNCHANGED <<configVars, made>>
      /\ stage = "TranslateNamePreRewrite" => Cur(t).ctx = AskedFor[Cur(t).server]
      /\ Top(t).at = "OK" /\ stage \in Early =>
           Cur(t).ctx \in Servers /\ (Cur(t).answered \/ Cur(t).ctx \in Never)
  BY <1>1, InEnd
<1>3. Cur(t).stage \notin Last
  BY <1>2 DEF Translation, Last
<1>4. /\ next \in Stages /\ "TranslateName" \in Stages
      /\ {next, "TranslateName"} \cap ({"TranslateNamePreRewrite"} \cup Last) = {}
      /\ Cur(t).filename \in Filenames /\ "file" \in Filenames /\ next \notin Early
  BY <1>2 DEF Stages, Last, Early, Filenames, Requests
<1> DEFINE verdict == Verdict(Cur(t), Top(t).at)
<1>5. CASE verdict = "OK" /\ GoesOn(t, ok)
  <2>1. Cur(t).filename \in {"redirect:", "proxy:"} \/ Top(t).at = "OK"
    BY <1>5 DEF Verdict
  <2>2. Cur(t).filename = "none" /\ stage \in Early =>
          Cur(t).ctx \in Servers /\ (Cur(t).answered \/ Cur(t).ctx \in Never)
    BY <1>2, <2>1
  <2>3. /\ ok \in Requests
        /\ ok.server = Cur(t).server /\ ok.pool = Cur(t).pool
        /\ ok.slot = Cur(t).slot /\ ok.ctx = Cur(t).ctx
        /\ ok.stage \notin {"TranslateNamePreRewrite"} \cup Last
        /\ RequestOK(ok, AskedFor, Never)
    BY <1>2, <1>3, <1>4, <2>2, MovedOK
  <2>4. QED
    BY <1>2, <1>3, <1>5, <2>3, GoesOnKeeps
<1>6. CASE verdict = "DECLINED" /\ GoesOn(t, declined)
  <2>1. Cur(t).filename \notin {"redirect:", "proxy:"}
    BY <1>6 DEF Verdict
  <2>2. Cur(t).handler = "default"
    BY <1>2, <2>1 DEF RequestOK, Requests, Handlers
  <2>3. PICK to \in {next, "TranslateName"}, name \in {Cur(t).filename, "file"} :
          /\ declined = Moved(Cur(t), to, name)
          /\ name = "none" /\ to \notin Early => stage \notin Early
    <3>1. CASE stage = "TranslateNamePreRewrite"
      BY <3>1 DEF Early
    <3>2. CASE stage = "TranslateName"
      BY <3>2
    <3>3. CASE stage = "MapToStorage"
      BY <3>3 DEF Early
    <3>4. QED
      BY <3>1, <3>2, <3>3 DEF Translation
  <2>4. /\ declined \in Requests
        /\ declined.server = Cur(t).server /\ declined.pool = Cur(t).pool
        /\ declined.slot = Cur(t).slot /\ declined.ctx = Cur(t).ctx
        /\ declined.stage \notin {"TranslateNamePreRewrite"} \cup Last
        /\ RequestOK(declined, AskedFor, Never)
    <3>1. /\ to \in Stages /\ to \notin {"TranslateNamePreRewrite"} \cup Last
          /\ name \in Filenames
          /\ name = Cur(t).filename \/ (Cur(t).handler = "default" /\ name = "file")
          /\ name = "none" /\ to \notin Early /\ Cur(t).stage \in Early =>
               Cur(t).ctx \in Servers /\ (Cur(t).answered \/ Cur(t).ctx \in Never)
          /\ Cur(t).stage \in {"TranslateNamePreRewrite"} => Cur(t).ctx = AskedFor[Cur(t).server]
      BY <1>2, <1>4, <2>2, <2>3
    <3>2. QED
      BY <1>2, <1>3, <2>3, <3>1, MovedOK
  <2>5. QED
    BY <1>2, <1>3, <1>6, <2>4, GoesOnKeeps
<1>7. CASE Ends(t)
  BY <1>2, <1>3, <1>7, EndsKeeps
<1>8. QED
  BY <1>5, <1>6, <1>7 DEF TranslateHook

(* What the three hooks do to a request, in the terms of Moved.            *)
LEMMA MovedIs ==
  ASSUME NEW r \in Requests, NEW next
  PROVE  /\ [r EXCEPT !.stage = next] = Moved(r, next, r.filename)
         /\ [r EXCEPT !.stage = next, !.filename = "file"] = Moved(r, next, "file")
<1>1. [r EXCEPT !.stage = next] = [[r EXCEPT !.stage = next] EXCEPT !.filename = r.filename]
  BY DEF Requests
<1>2. QED
  BY <1>1 DEF Moved

LEMMA AsRequest ==
  ASSUME IInv, NEW t \in Threads, NEW stage, At(t, stage)
  PROVE  chain[t] # <<>> /\ Cur(t) \in Requests /\ Cur(t).stage = stage /\ server = "serving"
BY InRequest DEF At

LEMMA TranslationKeeps ==
  ASSUME IInv, NEW t \in Threads,
         \/ rum_translate_name_pre_rewrite(t)
         \/ rum_translate_name(t)
         \/ rum_map_to_storage(t)
  PROVE  IInv'
<1>1. CASE rum_translate_name_pre_rewrite(t)
  <2>1. CASE Begin(t, "TranslateNamePreRewrite", [Cur(t) EXCEPT !.ctx = mk_ReqCtx(Cur(t))])
    <3>1. At(t, "TranslateNamePreRewrite")
      BY <2>1 DEF Begin
    <3>2. chain[t] # <<>> /\ Cur(t) \in Requests /\ server = "serving"
      BY <3>1, AsRequest
    <3>3. mk_ReqCtx(Cur(t)) = AskedFor[Cur(t).server]
      <4>1. Cur(t).server \in Servers
        BY <3>2 DEF Requests
      <4>2. conf = AskedFor
        BY <3>2 DEF IInv, ServerInv
      <4>3. ~own[Cur(t).server] => AskedFor[Cur(t).server] = NoServer
        BY <4>1 DEF AskedFor, Asked
      <4>4. QED
        BY <4>1, <4>2, <4>3 DEF mk_ReqCtx
    <3>4. mk_ReqCtx(Cur(t)) \in Servers \cup {NoServer}
      BY <3>2, <3>3, ServersAssumption DEF AskedFor, Asked, Requests
    <3>5. PICK r : r = [Cur(t) EXCEPT !.ctx = mk_ReqCtx(Cur(t))]
      OBVIOUS
    <3>6. /\ r \in Requests /\ r.ctx = AskedFor[r.server]
          /\ r.server = Cur(t).server /\ r.pool = Cur(t).pool /\ r.stage = Cur(t).stage
          /\ r.slot = Cur(t).slot /\ r.filename = Cur(t).filename /\ r.handler = Cur(t).handler
          /\ r.answered = Cur(t).answered
      BY <3>2, <3>3, <3>4, <3>5 DEF Requests
    <3>7. QED
      BY ZenonT(40), <2>1, <3>5, <3>6, BeginKeeps
  <2>2. CASE TranslateHook(t, "TranslateNamePreRewrite",
               [Cur(t) EXCEPT !.stage = "MapToStorage"], [Cur(t) EXCEPT !.stage = "TranslateName"])
    <3>1. Cur(t) \in Requests
      BY <2>2, AsRequest DEF TranslateHook, End
    <3>2. TranslateHook(t, "TranslateNamePreRewrite",
            Moved(Cur(t), "MapToStorage", Cur(t).filename), Moved(Cur(t), "TranslateName", Cur(t).filename))
      BY <2>2, <3>1, MovedIs
    <3>3. QED
      BY <3>2, TranslateHookKeeps DEF Translation
  <2>3. QED
    BY <1>1, <2>1, <2>2 DEF rum_translate_name_pre_rewrite
<1>2. CASE rum_translate_name(t)
  <2>1. CASE Begin(t, "TranslateName", Cur(t))
    <3>1. Cur(t) \in Requests
      BY <2>1, AsRequest DEF Begin
    <3>2. QED
      BY <2>1, <3>1, BeginKeeps
  <2>2. CASE TranslateHook(t, "TranslateName", [Cur(t) EXCEPT !.stage = "MapToStorage"],
               [Cur(t) EXCEPT !.stage = "MapToStorage", !.filename = "file"])
    <3>1. Cur(t) \in Requests
      BY <2>2, AsRequest DEF TranslateHook, End
    <3>2. TranslateHook(t, "TranslateName",
            Moved(Cur(t), "MapToStorage", Cur(t).filename), Moved(Cur(t), "MapToStorage", "file"))
      BY <2>2, <3>1, MovedIs
    <3>3. QED
      BY <3>2, TranslateHookKeeps DEF Translation
  <2>3. QED
    BY <1>2, <2>1, <2>2 DEF rum_translate_name
<1>3. CASE rum_map_to_storage(t)
  <2>1. CASE Begin(t, "MapToStorage", Cur(t))
    <3>1. Cur(t) \in Requests
      BY <2>1, AsRequest DEF Begin
    <3>2. QED
      BY <2>1, <3>1, BeginKeeps
  <2>2. CASE TranslateHook(t, "MapToStorage",
               [Cur(t) EXCEPT !.stage = "HeaderParser"], [Cur(t) EXCEPT !.stage = "HeaderParser"])
    <3>1. Cur(t) \in Requests
      BY <2>2, AsRequest DEF TranslateHook, End
    <3>2. TranslateHook(t, "MapToStorage",
            Moved(Cur(t), "HeaderParser", Cur(t).filename), Moved(Cur(t), "HeaderParser", Cur(t).filename))
      BY <2>2, <3>1, MovedIs
    <3>3. QED
      BY <3>2, TranslateHookKeeps DEF Translation
  <2>3. QED
    BY <1>3, <2>1, <2>2 DEF rum_map_to_storage
<1>4. QED
  BY <1>1, <1>2, <1>3

LEMMA PlainHookKeeps ==
  ASSUME IInv, NEW t \in Threads, PlainHook(t)
  PROVE  IInv'
<1>1. PICK stage \in DOMAIN Following :
        \/ Begin(t, stage, Cur(t))
        \/ /\ End(t, stage)
           /\ IF Top(t).at \in {"OK", "DECLINED"}
              THEN GoesOn(t, [Cur(t) EXCEPT !.stage = Following[stage]])
              ELSE Ends(t)
  BY DEF PlainHook
<1>2. /\ stage \in {"HeaderParser", "AccessChecker", "CheckUserId", "AuthChecker", "TypeChecker", "Fixups"}
      /\ Following[stage] \in
           {"HeaderParser", "AccessChecker", "CheckUserId", "AuthChecker", "TypeChecker", "Fixups",
            "InsertFilter"}
      /\ Following[stage] \in Stages
  BY DEF Stages
<1>3. CASE Begin(t, stage, Cur(t))
  <2>1. Cur(t) \in Requests
    BY <1>3, AsRequest DEF Begin
  <2>2. QED
    BY <1>2, <1>3, <2>1, BeginKeeps
<1>4. CASE End(t, stage) /\ (GoesOn(t, [Cur(t) EXCEPT !.stage = Following[stage]]) \/ Ends(t))
  <2>1. /\ chain[t] # <<>> /\ Cur(t).stage = stage
        /\ Cur(t) \in Requests
        /\ RequestOK(Cur(t), AskedFor, Never)
        /\ \A n \in DOMAIN frames[t] : frames[t][n].at # "lua"
        /\ frames' = [frames EXCEPT ![t] = <<>>]
        /\ UNCHANGED <<configVars, made>>
    BY <1>4, InEnd
  <2>2. Cur(t).stage \notin Last /\ Cur(t).stage \notin Early
    BY <1>2, <2>1 DEF Last, Early
  <2>3. CASE GoesOn(t, [Cur(t) EXCEPT !.stage = Following[stage]])
    <3>1. PICK r : r = Moved(Cur(t), Following[stage], Cur(t).filename)
      OBVIOUS
    <3>2. GoesOn(t, r)
      BY <2>1, <2>3, <3>1, MovedIs
    <3>3. Following[stage] \notin {"TranslateNamePreRewrite"} \cup Last
      BY <1>2 DEF Last
    <3>4. Cur(t).filename \in Filenames /\ Cur(t).stage \notin {"TranslateNamePreRewrite"}
      BY <2>1, <2>2 DEF Requests, Early
    <3>5. /\ r \in Requests
          /\ r.server = Cur(t).server /\ r.pool = Cur(t).pool /\ r.slot = Cur(t).slot /\ r.ctx = Cur(t).ctx
          /\ r.stage \notin {"TranslateNamePreRewrite"} \cup Last
          /\ RequestOK(r, AskedFor, Never)
      BY <1>2, <2>1, <2>2, <3>1, <3>3, <3>4, MovedOK
    <3>6. QED
      BY <2>1, <2>2, <3>2, <3>5, GoesOnKeeps
  <2>4. CASE Ends(t)
    BY <2>1, <2>2, <2>4, EndsKeeps
  <2>5. QED
    BY <1>4, <2>3, <2>4
<1>5. QED
  BY <1>1, <1>3, <1>4

(* With or without RUM_OUTPUT the request is the same to the others.       *)
LEMMA FilterOK ==
  ASSUME NEW r \in Requests, RequestOK(r, AskedFor, Never), NEW on \in BOOLEAN,
         NEW r2, r2 = [r EXCEPT !.filter = on]
  PROVE  /\ r2 \in Requests /\ RequestOK(r2, AskedFor, Never)
         /\ r2.server = r.server /\ r2.pool = r.pool /\ r2.stage = r.stage /\ r2.ctx = r.ctx
         /\ r2.slot = r.slot /\ r2.filename = r.filename /\ r2.handler = r.handler
         /\ r2.answered = r.answered
<1>1. /\ r2 \in Requests
      /\ r2.server = r.server /\ r2.pool = r.pool /\ r2.stage = r.stage /\ r2.ctx = r.ctx
      /\ r2.slot = r.slot /\ r2.filename = r.filename /\ r2.handler = r.handler
      /\ r2.answered = r.answered
  BY DEF Requests
<1>2. QED
  BY <1>1 DEF RequestOK

LEMMA FilterKeeps ==
  ASSUME IInv, NEW t \in Threads, rum_insert_filter(t) \/ rum_output_filter(t)
  PROVE  IInv'
<1>1. CASE Begin(t, "InsertFilter", [Cur(t) EXCEPT !.filter = TRUE])
  <2>1. chain[t] # <<>> /\ Cur(t) \in Requests
    BY <1>1, AsRequest DEF Begin
  <2>2. RequestOK(Cur(t), AskedFor, Never)
    BY <2>1, InRequest
  <2>a. PICK on \in BOOLEAN : on = TRUE
    OBVIOUS
  <2>b. PICK r : r = [Cur(t) EXCEPT !.filter = on]
    OBVIOUS
  <2>3. r = [Cur(t) EXCEPT !.filter = TRUE]
    BY <2>a, <2>b
  <2>4. /\ r \in Requests
        /\ r.server = Cur(t).server /\ r.pool = Cur(t).pool /\ r.stage = Cur(t).stage /\ r.ctx = Cur(t).ctx
        /\ r.slot = Cur(t).slot /\ r.filename = Cur(t).filename /\ r.handler = Cur(t).handler
        /\ r.answered = Cur(t).answered
    BY <2>1, <2>2, <2>b, FilterOK
  <2>5. QED
    BY <1>1, <2>3, <2>4, BeginKeeps
<1>2. CASE Begin(t, "OutputFilter", Cur(t))
  <2>1. Cur(t) \in Requests
    BY <1>2, AsRequest DEF Begin
  <2>2. QED
    BY <1>2, <2>1, BeginKeeps
<1>3. CASE End(t, "InsertFilter") /\ GoesOn(t, [Cur(t) EXCEPT !.stage = "Handler"])
  <2>1. /\ chain[t] # <<>> /\ Cur(t).stage = "InsertFilter"
        /\ Cur(t) \in Requests
        /\ RequestOK(Cur(t), AskedFor, Never)
        /\ \A n \in DOMAIN frames[t] : frames[t][n].at # "lua"
        /\ frames' = [frames EXCEPT ![t] = <<>>]
        /\ UNCHANGED <<configVars, made>>
    BY <1>3, InEnd
  <2>2. PICK r : r = Moved(Cur(t), "Handler", Cur(t).filename)
    OBVIOUS
  <2>3. GoesOn(t, r)
    BY <1>3, <2>1, <2>2, MovedIs
  <2>4. /\ Cur(t).stage \notin Last /\ Cur(t).stage \notin Early
        /\ "Handler" \in Stages /\ "Handler" \notin {"TranslateNamePreRewrite"} \cup Last
        /\ Cur(t).filename \in Filenames /\ Cur(t).stage \notin {"TranslateNamePreRewrite"}
    BY <2>1 DEF Last, Early, Stages, Requests
  <2>5. /\ r \in Requests
        /\ r.server = Cur(t).server /\ r.pool = Cur(t).pool /\ r.slot = Cur(t).slot /\ r.ctx = Cur(t).ctx
        /\ r.stage \notin {"TranslateNamePreRewrite"} \cup Last
        /\ RequestOK(r, AskedFor, Never)
    BY <2>1, <2>2, <2>4, MovedOK
  <2>6. QED
    BY <2>1, <2>3, <2>4, <2>5, GoesOnKeeps
<1>4. CASE End(t, "OutputFilter") /\ GoesOn(t, [Cur(t) EXCEPT !.filter = FALSE])
  <2>1. /\ chain[t] # <<>> /\ Cur(t).stage = "OutputFilter"
        /\ Cur(t) \in Requests
        /\ RequestOK(Cur(t), AskedFor, Never)
        /\ \A n \in DOMAIN frames[t] : frames[t][n].at # "lua"
        /\ frames' = [frames EXCEPT ![t] = <<>>]
        /\ UNCHANGED <<configVars, made>>
    BY <1>4, InEnd
  <2>2. PICK r : r = [Cur(t) EXCEPT !.filter = FALSE]
    OBVIOUS
  <2>3. /\ r \in Requests /\ RequestOK(r, AskedFor, Never)
        /\ r.server = Cur(t).server /\ r.pool = Cur(t).pool /\ r.stage = Cur(t).stage /\ r.ctx = Cur(t).ctx
        /\ r.slot = Cur(t).slot
    BY ZenonT(40), <2>1, <2>2, FilterOK
  <2>4. Cur(t).stage \notin {"TranslateNamePreRewrite"} \cup Last
    BY <2>1 DEF Last
  <2>5. QED
    BY <1>4, <2>1, <2>2, <2>3, <2>4, GoesOnKeeps
<1>5. QED
  BY <1>1, <1>2, <1>3, <1>4 DEF rum_insert_filter, rum_output_filter

LEMMA OutputSentKeeps ==
  ASSUME IInv, NEW t \in Threads, OutputSent(t)
  PROVE  IInv'
<1>1. /\ At(t, "OutputFilter") /\ frames[t] = <<>>
      /\ Ends(t) /\ UNCHANGED <<configVars, frames, made>>
  BY DEF OutputSent
<1>2. chain[t] # <<>> /\ Cur(t).stage \notin Last
  BY <1>1, AsRequest DEF Last
<1>3. frames' = [frames EXCEPT ![t] = <<>>]
  BY <1>1 DEF IInv, TypeOK
<1>4. \A n \in DOMAIN frames[t] : frames[t][n].at # "lua"
  BY <1>1
<1>5. QED
  BY <1>1, <1>2, <1>3, <1>4, EndsKeeps

LEMMA HandlerKeeps ==
  ASSUME IInv, NEW t \in Threads, rum_handler(t)
  PROVE  IInv'
<1>1. At(t, "Handler") /\ frames[t] = <<>>
  BY DEF rum_handler
<1>2. /\ chain[t] # <<>> /\ Cur(t).stage = "Handler" /\ Cur(t) \in Requests
      /\ Cur(t).stage \notin Last /\ Cur(t).stage \notin Early
  BY <1>1, AsRequest DEF Last, Early
<1>3. [frames EXCEPT ![t] = <<>>] = frames
  BY <1>1 DEF IInv, TypeOK
<1>4. \A n \in DOMAIN frames[t] : frames[t][n].at # "lua"
  BY <1>1
<1>5. /\ Here(t) = Len(chain[t]) /\ Here(t) \in DOMAIN chain[t] /\ Cur(t) = chain[t][Here(t)]
      /\ ThreadOK(chain[t], frames[t], AskedFor, Never)
      /\ RequestOK(Cur(t), AskedFor, Never) /\ chain[t] \in Seq(Requests)
  BY <1>2, InRequest
<1>6. CASE Arrives(t, "redirect", Cur(t).server, Cur(t).pool)
  <2>1. Cur(t).pool \in 1 .. Len(chain[t]) + 1
    BY <1>5 DEF ThreadOK, Shape
  <2>2. Cur(t).server \in Servers
    BY <1>2 DEF Requests
  <2>3. QED
    BY <1>1, <1>2, <1>6, <2>1, <2>2, ArrivesKeeps
<1>7. CASE Ends(t) /\ UNCHANGED <<configVars, frames, made>>
  BY <1>2, <1>3, <1>4, <1>7, EndsKeeps
<1>8. CASE GoesOn(t, [Cur(t) EXCEPT !.stage = "OutputFilter"]) /\ UNCHANGED <<configVars, frames, made>>
  <2>1. PICK r : r = Moved(Cur(t), "OutputFilter", Cur(t).filename)
    OBVIOUS
  <2>2. GoesOn(t, r)
    BY <1>2, <1>8, <2>1, MovedIs
  <2>3. /\ "OutputFilter" \in Stages /\ "OutputFilter" \notin {"TranslateNamePreRewrite"} \cup Last
        /\ Cur(t).filename \in Filenames /\ Cur(t).stage \notin {"TranslateNamePreRewrite"}
    BY <1>2 DEF Last, Stages, Requests
  <2>4. /\ r \in Requests
        /\ r.server = Cur(t).server /\ r.pool = Cur(t).pool /\ r.slot = Cur(t).slot /\ r.ctx = Cur(t).ctx
        /\ r.stage \notin {"TranslateNamePreRewrite"} \cup Last
        /\ RequestOK(r, AskedFor, Never)
    BY <1>2, <1>5, <2>1, <2>3, MovedOK
  <2>5. QED
    BY <1>2, <1>3, <1>4, <1>8, <2>2, <2>4, GoesOnKeeps
<1>9. QED
  BY <1>6, <1>7, <1>8 DEF rum_handler, rum_int_redirect_handler

LEMMA NewRequestKeeps ==
  ASSUME IInv, NEW t \in Threads, ClientRequest(t) \/ Subrequest(t)
  PROVE  IInv'
<1>1. CASE ClientRequest(t)
  <2>1. PICK s \in Servers : chain[t] = <<>> /\ Arrives(t, "main", s, 1)
    BY <1>1 DEF ClientRequest
  <2>2. frames[t] = <<>>
    BY <2>1 DEF IInv, ThreadOK
  <2>3. 1 \in 1 .. Len(chain[t]) + 1
    BY <2>1
  <2>4. QED
    BY <2>1, <2>2, <2>3, ArrivesKeeps
<1>2. CASE Subrequest(t)
  <2>1. /\ At(t, "Handler") /\ frames[t] = <<>>
        /\ Arrives(t, "sub", Cur(t).server, Len(chain[t]) + 1)
    BY <1>2 DEF Subrequest
  <2>2. chain[t] # <<>> /\ Cur(t).stage = "Handler" /\ Cur(t) \in Requests
    BY <2>1, AsRequest
  <2>3. Len(chain[t]) + 1 \in 1 .. Len(chain[t]) + 1
    BY <2>2, InRequest
  <2>4. Cur(t).server \in Servers
    BY <2>2 DEF Requests
  <2>5. QED
    BY <2>1, <2>2, <2>3, <2>4, ArrivesKeeps
<1>3. QED
  BY <1>1, <1>2

(* The last hook; what is left of the request only waits for its pool.     *)
LEMMA LogKeeps ==
  ASSUME IInv, NEW t \in Threads, rum_log_transaction(t)
  PROVE  IInv'
<1>1. CASE Begin(t, "LogTransaction", Cur(t))
  <2>1. Cur(t) \in Requests
    BY <1>1, AsRequest DEF Begin
  <2>2. QED
    BY <1>1, <2>1, BeginKeeps
<1>2. CASE /\ End(t, "LogTransaction")
           /\ SetCur(t, [Cur(t) EXCEPT !.stage = "done"])
           /\ UNCHANGED free
           /\ lua' = IF Rec(Cur(t).server).fullLuaGC THEN fullLuaGC(Cur(t)) ELSE lua
  <2>1. /\ chain[t] # <<>> /\ Cur(t).stage = "LogTransaction"
        /\ Cur(t) \in Requests
        /\ RequestOK(Cur(t), AskedFor, Never)
        /\ \A n \in DOMAIN frames[t] : frames[t][n].at # "lua"
        /\ frames' = [frames EXCEPT ![t] = <<>>]
        /\ UNCHANGED configVars /\ made' = made /\ free' = free
    BY <1>2, InEnd
  <2>2. /\ server = "serving"
        /\ chain[t] \in Seq(Requests) /\ Len(chain[t]) <= MaxDepth
        /\ Here(t) = HereOf(chain[t]) /\ Here(t) \in DOMAIN chain[t]
        /\ Cur(t) = chain[t][Here(t)]
        /\ ThreadOK(chain[t], frames[t], AskedFor, Never)
    BY <2>1, InRequest
  <2>3. PICK r : r = [Cur(t) EXCEPT !.stage = "done"]
    OBVIOUS
  <2>4. /\ r \in Requests /\ r.stage = "done"
        /\ r.server = Cur(t).server /\ r.pool = Cur(t).pool /\ r.ctx = Cur(t).ctx
        /\ r.slot = Cur(t).slot /\ r.filename = Cur(t).filename /\ r.handler = Cur(t).handler
    BY <2>1, <2>3 DEF Requests, Stages
  <2>5. RequestOK(r, AskedFor, Never)
    BY <2>1, <2>4 DEF RequestOK, Last
  <2>6. PICK fr \in Seq(Frames) : fr = <<>>
    <3>1. <<>> \in Seq(Frames)
      OBVIOUS
    <3>2. QED
      BY <3>1
  <2>7. CallsOK(r, Here(t), fr, AskedFor, Never) /\ Len(fr) <= MaxNest
    BY <2>4, <2>6, NoCalls
  <2>8. PICK ch : ch = [chain[t] EXCEPT ![HereOf(chain[t])] = r]
    OBVIOUS
  <2>9. /\ r.pool = chain[t][HereOf(chain[t])].pool
        /\ r.stage \in Last <=> chain[t][HereOf(chain[t])].stage \in Last
        /\ Shape(chain[t])
        /\ CallsOK(r, HereOf(chain[t]), fr, AskedFor, Never)
    BY <2>1, <2>2, <2>4, <2>7 DEF Last, ThreadOK
  <2>10. /\ ch \in Seq(Requests) /\ Len(ch) = Len(chain[t]) /\ ch # <<>>
         /\ HereOf(ch) = Here(t) /\ ch[Here(t)] = r
    BY SMTT(30), <2>1, <2>2, <2>4, <2>8, <2>9, Replaced
  <2>11. ThreadOK(ch, fr, AskedFor, Never)
    BY <2>1, <2>2, <2>4, <2>5, <2>8, <2>9, ReplacedOK
  <2>12. /\ chain' = [chain EXCEPT ![t] = ch]
         /\ frames' = [frames EXCEPT ![t] = fr]
    BY <1>2, <2>1, <2>2, <2>3, <2>6, <2>8 DEF SetCur
  <2>13. SameStates(chain[t], ch)
    BY ZenonT(40), <2>2, <2>4, <2>8, SameStatesReplaced
  <2>14. StatesOwned'
    BY <2>1, <2>12, <2>13, StatesStay
  <2>15. Here(t) = 1 /\ ch[1] = r
    <3>1. /\ Here(t) \in 1 .. Len(chain[t])
          /\ chain[t][Here(t)].stage \in Last
      BY <2>1, <2>2 DEF Last
    <3>2. \A k \in DOMAIN chain[t] : k > 1 => chain[t][k].stage \notin Last
      BY <2>9 DEF Shape
    <3>3. Here(t) = 1
      BY <2>2, <3>1, <3>2
    <3>4. QED
      BY <2>10, <3>3
  <2>16. /\ lua \in [Servers -> [States -> LuaStates]]
         /\ made \in [Servers -> 0 .. MaxStates] /\ free \in [Servers -> SUBSET States]
    BY DEF IInv, TypeOK
  <2>17. CASE ~(Rec(Cur(t).server).fullLuaGC /\ r.slot # 0)
    <3>1. lua' = lua
      BY <1>2, <2>4, <2>17 DEF fullLuaGC
    <3>2. SameCalls(chain[t], frames[t], ch, fr)
      BY <2>1, <2>4, <2>6, <2>15, <2>17 DEF SameCalls
    <3>3. SandboxInv' /\ StatesReady'
      BY <2>1, <2>10, <2>11, <2>12, <3>1, <3>2, LuaStays
    <3>4. LuaTypes'
      BY <2>1, <2>16, <3>1 DEF LuaTypes
    <3>5. QED
      BY <2>1, <2>2, <2>7, <2>10, <2>11, <2>12, <2>14, <3>3, <3>4, Step
  <2>18. CASE Rec(Cur(t).server).fullLuaGC /\ r.slot # 0
    <3>1. PICK c \in Servers, i \in States : c = r.ctx /\ i = r.slot
      BY <2>2, <2>4, <2>18 DEF IInv, StatesOwned, StatesApart, Requests
    <3>2. PICK l : l = [lua[c][i] EXCEPT !.garbage = FALSE]
      OBVIOUS
    <3>3. /\ l \in LuaStates /\ ~l.garbage
          /\ l.sandbox = lua[c][i].sandbox /\ l.proxy = lua[c][i].proxy
      <4>1. lua[c][i] \in LuaStates
        BY <2>16
      <4>2. QED
        BY <3>2, <4>1 DEF LuaStates
    <3>4. lua' = [lua EXCEPT ![c][i] = l]
      BY <1>2, <2>4, <2>18, <3>1, <3>2 DEF fullLuaGC
    <3>5. ASSUME NEW x \in {l.sandbox, l.proxy}
          PROVE  x = Dead
      <4>1. Known(x, c, i)
        BY <3>3 DEF IInv, SandboxInv
      <4>2. ASSUME LuaCall(x[1], x[2], c, i)
            PROVE  FALSE
        <5>1. PICK u \in Threads : \E n \in DOMAIN frames[u] :
                frames[u][n].at = "lua" /\ Cur(u).ctx = c /\ Cur(u).slot = i
          BY <4>2 DEF LuaCall
        <5>2. frames[u] # <<>> /\ Cur(u).ctx = c /\ Cur(u).slot = i
          BY <5>1
        <5>3. Here(u) \in DOMAIN chain[u] /\ Cur(u) = chain[u][Here(u)]
          BY <5>2, InCall, InRequest
        <5>4. Holds(u, Here(u), Cur(t).ctx, Cur(t).slot)
          BY <2>4, <3>1, <5>2, <5>3 DEF Holds
        <5>5. t = u
          BY <2>2, <2>4, <2>18, <5>3, <5>4 DEF IInv, StatesOwned, StatesApart
        <5>6. QED
          BY <2>1, <5>1, <5>5
      <4>3. QED
        BY <4>1, <4>2 DEF Known
    <3>6. UsesLua(t, ch, fr, c, i, l)
      BY <2>1, <2>6, <2>10, <2>15, <3>1, <3>3, <3>5 DEF UsesLua
    <3>7. SandboxInv' /\ StatesReady' /\ lua' \in [Servers -> [States -> LuaStates]]
      BY <2>1, <2>10, <2>11, <2>12, <2>14, <3>3, <3>4, <3>6, LuaUsed
    <3>8. LuaTypes'
      BY <2>1, <2>16, <3>7 DEF LuaTypes
    <3>9. QED
      BY <2>1, <2>2, <2>7, <2>10, <2>11, <2>12, <2>14, <3>7, <3>8, Step
  <2>19. QED
    BY <2>17, <2>18
<1>3. QED
  BY <1>1, <1>2 DEF rum_log_transaction

LEMMA HookNextKeeps ==
  ASSUME IInv, NEW t \in Threads, HookNext(t)
  PROVE  IInv'
BY NewRequestKeeps, BadRequestKeeps, RequestOverKeeps, TranslationKeeps, PlainHookKeeps,
   FilterKeeps, HandlerKeeps, OutputSentKeeps, LogKeeps DEF HookNext

-----------------------------------------------------------------------------
(* The theorems                                                            *)

LEMMA InitIInv == Init => IInv
<1> SUFFICES ASSUME Init PROVE IInv
  OBVIOUS
<1>1. chain = [t \in Threads |-> <<>>] /\ frames = [t \in Threads |-> <<>>]
  BY DEF Init
<1>2. ConfigTypes /\ own[Main] /\ server = "reading"
  <2>1. own \in [Servers -> BOOLEAN] /\ own[Main]
    BY DEF Init, ConfigInit
  <2>2. sc \in [Servers -> SrvConf]
    BY DefaultRecord DEF Init, ConfigInit
  <2>3. conf \in [Servers -> Servers \cup {NoServer}]
    BY DEF Init, ConfigInit
  <2>4. server = "reading" /\ once = FALSE /\ badDefns = {} /\ lines = 0
    BY DEF Init, ConfigInit
  <2>5. lines \in 0 .. MaxLines
    BY <2>4
  <2>6. QED
    BY <2>1, <2>2, <2>3, <2>4, <2>5 DEF ConfigTypes
<1>3. ThreadTypes
  BY <1>1 DEF ThreadTypes
<1>4. LuaTypes
  <2>1. newstate \in LuaStates
    BY DEF newstate, LuaStates, ActionCtxs
  <2>2. QED
    BY <2>1 DEF Init, LuaTypes, States
<1>5. TypeOK
  BY <1>2, <1>3, <1>4, TypeParts
<1>6. ServerInv /\ ConfigsAsAsked
  BY <1>1, <1>2 DEF ServerInv, ConfigsAsAsked, DirectivesUsed, DefinitionsCaught
<1>7. \A t \in Threads : ThreadOK(chain[t], frames[t], AskedFor, Never)
  <2> TAKE t \in Threads
  <2>1. chain[t] = <<>> /\ frames[t] = <<>>
    BY <1>1
  <2>2. ThreadOK(<<>>, <<>>, AskedFor, Never)
    BY EmptyThread
  <2>3. QED
    BY <2>1, <2>2, Zenon
<1>8. StatesOwned
  <2>1. StatesApart
    BY <1>1 DEF StatesApart
  <2>2. \A c \in Servers : made[c] = 0 /\ free[c] = {}
    BY DEF Init
  <2>3. 1 .. 0 = {}
    OBVIOUS
  <2>4. StatesKept
    BY <2>2, <2>3 DEF StatesKept
  <2>5. QED
    BY <2>1, <2>4 DEF StatesOwned
<1>9. SandboxInv
  BY DEF Init, SandboxInv, Known, newstate
<1>10. StatesReady
  BY <1>1 DEF StatesReady, LuaSeesItsAction, CollectedLast
<1>11. QED
  BY <1>5, <1>6, <1>7, <1>8, <1>9, <1>10 DEF IInv

LEMMA StutterKeeps ==
  ASSUME IInv, UNCHANGED vars
  PROVE  IInv'
<1>1. UNCHANGED <<server, once, own, sc, conf, badDefns, lines>>
  BY DEF vars, configVars
<1>2. UNCHANGED <<chain, frames, made, free, lua>>
  BY DEF vars, luaVars
<1>3. TypeOK'
  BY <1>1, <1>2 DEF IInv, TypeOK
<1>4. AskedFor' = AskedFor /\ Never' = Never
  BY <1>1 DEF AskedFor, Asked, Never
<1>5. ServerInv'
  BY <1>1, <1>2, <1>4 DEF IInv, ServerInv
<1>6. ConfigsAsAsked'
  BY <1>1 DEF IInv, ConfigsAsAsked, DirectivesUsed, DefinitionsCaught
<1>7. \A t \in Threads : ThreadOK(chain[t], frames[t], AskedFor, Never)'
  BY <1>2, <1>4 DEF IInv
<1>8. StatesOwned'
  BY <1>2 DEF IInv, StatesOwned, StatesKept, StatesApart, Holds
<1>9. SandboxInv'
  <2>1. ASSUME NEW x, NEW c, NEW i, Known(x, c, i)
        PROVE  Known(x, c, i)'
    BY <1>2, <2>1 DEF Known, LuaCall, Cur, Here
  <2>2. \A c \in Servers : \A i \in States :
          Known(lua[c][i].sandbox, c, i) /\ Known(lua[c][i].proxy, c, i)
    BY DEF IInv, SandboxInv
  <2>3. \A c \in Servers : \A i \in States : lua'[c][i] = lua[c][i]
    BY <1>2
  <2>4. QED
    BY <2>1, <2>2, <2>3 DEF SandboxInv
<1>10. StatesReady'
  BY <1>1, <1>2 DEF IInv, StatesReady, LuaSeesItsAction, CollectedLast, Top, Req, ActionCtx, Rec
<1>11. QED
  BY <1>3, <1>5, <1>6, <1>7, <1>8, <1>9, <1>10 DEF IInv

LEMMA NextIInv == IInv /\ [Next]_vars => IInv'
<1> SUFFICES ASSUME IInv, [Next]_vars PROVE IInv'
  OBVIOUS
<1>1. CASE Next
  <2>1. CASE ReadConfig \/ rum_post_config \/ Restart \/ StartAgain
    BY <2>1, ReadConfigKeeps, PostConfigKeeps, RestartKeeps
  <2>2. ASSUME NEW t \in Threads, LuaNext(t) \/ HookNext(t)
        PROVE  IInv'
    BY <2>2, LuaNextKeeps, HookNextKeeps
  <2>3. QED
    BY <1>1, <2>1, <2>2 DEF Next
<1>2. CASE UNCHANGED vars
  BY <1>2, StutterKeeps
<1>3. QED
  BY <1>1, <1>2

(* The invariant holds of every state that the server gets to.             *)
THEOREM SpecIInv == Spec => []IInv
BY InitIInv, NextIInv, PTL DEF Spec

LEMMA IInvCtxs == IInv => CtxAsWritten
<1> SUFFICES ASSUME IInv, NEW t \in Threads, NEW k \in DOMAIN chain[t]
             PROVE  LET r == chain[t][k] IN
                    /\ r.ctx \in {Asked(r.server), NoServer}
                    /\ r.stage \notin {"TranslateNamePreRewrite", "LogTransaction", "done"}
                         => r.ctx = Asked(r.server)
  BY DEF CtxAsWritten
<1>1. RequestOK(chain[t][k], AskedFor, Never)
  BY DEF IInv, ThreadOK
<1>2. chain[t][k].server \in Servers
  <2>1. chain[t] \in Seq(Requests)
    BY DEF IInv, TypeOK
  <2>2. chain[t][k] \in Requests
    BY <2>1
  <2>3. QED
    BY <2>2 DEF Requests
<1>3. AskedFor[chain[t][k].server] = Asked(chain[t][k].server)
  BY <1>2 DEF AskedFor
<1>4. QED
  BY <1>1, <1>3 DEF RequestOK, Last

LEMMA IInvDecide == IInv => ActionsDecide
<1> SUFFICES ASSUME IInv PROVE ActionsDecide
  OBVIOUS
<1>1. \A t \in Threads : \A k \in DOMAIN chain[t] : RequestOK(chain[t][k], AskedFor, Never)
  BY DEF IInv, ThreadOK
<1>2. RedirectKept
  BY <1>1 DEF RedirectKept, RequestOK
<1>3. AnswersFromActions
  <2> SUFFICES ASSUME NEW t \in Threads, NEW k \in DOMAIN chain[t],
                      chain[t][k].stage \notin Early \cup Last,
                      chain[t][k].filename = "none"
               PROVE  /\ chain[t][k].ctx # NoServer
                      /\ chain[t][k].answered \/ sc[chain[t][k].ctx].maxLookups < 0
    BY DEF AnswersFromActions, Early, Last
  <2>1. chain[t][k].ctx \in Servers /\ (chain[t][k].answered \/ chain[t][k].ctx \in Never)
    BY <1>1 DEF RequestOK
  <2>2. QED
    BY <2>1 DEF Never
<1>4. QED
  BY <1>2, <1>3 DEF ActionsDecide

(* The calls a thread is in are for requests it is in: the types hold,     *)
(* whatever directives were read and however calls and requests nest       *)
(* (mod_rum.C, LuaAction.C).                                               *)
THEOREM HooksTypes == Spec => []TypeOK
<1>1. IInv => TypeOK
  BY DEF IInv
<1>2. QED
  BY <1>1, SpecIInv, PTL

(* A request has the Config that the directives of its own server ask for  *)
(* (mk_ReqCtx(), rum_post_config()).                                       *)
THEOREM CtxsAsWritten == Spec => []CtxAsWritten
BY IInvCtxs, SpecIInv, PTL

(* No directive is without effect when a server serves, and definitions    *)
(* that fail are caught before (rum_post_config()).                        *)
THEOREM ServersAsAsked == Spec => []ConfigsAsAsked
<1>1. IInv => ConfigsAsAsked
  BY DEF IInv
<1>2. QED
  BY <1>1, SpecIInv, PTL

(* An answer to a phase, a redirect or a proxy is what the actions of the  *)
(* phase made it, unless RumMaxLookups is negative (the hooks and          *)
(* lookupAndRun()).                                                        *)
THEOREM AnswersDecided == Spec => []ActionsDecide
BY IInvDecide, SpecIInv, PTL

(* A Lua state is free or belongs to one request, through any nesting of   *)
(* redirects, subrequests and errors (ReqCtx::luaState(), ~ReqCtx()).      *)
THEOREM LuaStatesOwned == Spec => []StatesOwned
<1>1. IInv => StatesOwned
  BY DEF IInv
<1>2. QED
  BY <1>1, SpecIInv, PTL

(* A Lua action that has flushed nothing finds its own ActionCtx in its    *)
(* state, and RumFullLuaGC collects after the last one (LuaAction::run(),  *)
(* rum_log_transaction()).                                                 *)
THEOREM LuaStatesReady == Spec => []StatesReady
<1>1. IInv => StatesReady
  BY DEF IInv
<1>2. QED
  BY <1>1, SpecIInv, PTL

=============================================================================
