-------------------------------- MODULE Hooks ---------------------------------
(***************************************************************************)
(* The hooks of mod_rum.C and the requests Apache takes through them.      *)
(*                                                                         *)
(* A request has a stage: the hook to be called next.  Its ReqCtx is made  *)
(* by the first one, if its server has RUM directives of its own.  An      *)
(* internal redirect is a new request in the same pool, a subrequest one   *)
(* in a pool of its own; each gets a ReqCtx, with a Lua state, of its own, *)
(* and these live until the pool is destroyed.                             *)
(*                                                                         *)
(* What Apache does between the hooks is modelled from how mod_rum.C uses  *)
(* it: its default translation sets the filename, and a hook that returns  *)
(* neither OK nor DECLINED ends the request (ap_die).                      *)
(***************************************************************************)
EXTENDS LuaAction

CONSTANT
  Following  \* the hook after header_parser and each one up to fixups

ASSUME FollowingAssumption ==
  /\ "HeaderParser" \in DOMAIN Following
  /\ \A h \in DOMAIN Following : Following[h] \in DOMAIN Following \cup {"InsertFilter"}
  /\ DOMAIN Following \subseteq
       {"HeaderParser", "AccessChecker", "CheckUserId", "AuthChecker", "TypeChecker", "Fixups"}

vars == <<configVars, chain, frames, luaVars>>

Stages ==
  {"TranslateNamePreRewrite", "TranslateName", "MapToStorage"} \cup DOMAIN Following
    \cup {"InsertFilter", "Handler", "OutputFilter", "LogTransaction", "done"}

Requests ==
  [kind : {"main", "redirect", "sub"},
   server : Servers,
   pool : 1 .. MaxDepth,        \* place of the request whose pool it lives in
   stage : Stages,
   ctx : Servers \cup {NoServer}, \* the Config of its ReqCtx, if it has one
   slot : {0} \cup States,      \* luaRef_ of its ReqCtx, if any
   filename : Filenames,
   handler : Handlers,
   moved : BOOLEAN,             \* its status is that of an external redirect
   filter : BOOLEAN,            \* RUM_OUTPUT is among its output filters
   answered : BOOLEAN]          \* history: an action translated its URI

NewRequest(k, s, p) ==
  [kind |-> k, server |-> s, pool |-> p, stage |-> "TranslateNamePreRewrite",
   ctx |-> NoServer, slot |-> 0, filename |-> "none", handler |-> "default",
   moved |-> FALSE, filter |-> FALSE, answered |-> FALSE]

(* The request Apache is at: the innermost one, or the client's when it is *)
(* logged and the redirects from it are over.                              *)
Here(t) == IF chain[t][1].stage \in {"LogTransaction", "done"} THEN 1 ELSE Len(chain[t])
Cur(t) == chain[t][Here(t)]
At(t, stage) == chain[t] # <<>> /\ Cur(t).stage = stage
SetCur(t, r) == chain' = [chain EXCEPT ![t][Here(t)] = r]

Init ==
  /\ ConfigInit
  /\ chain = [t \in Threads |-> <<>>]
  /\ frames = [t \in Threads |-> <<>>]
  /\ made = [c \in Servers |-> 0]
  /\ free = [c \in Servers |-> {}]
  /\ lua = [c \in Servers |-> [i \in States |-> newstate]]

-----------------------------------------------------------------------------
(* Startup and restart *)

Idle == \A t \in Threads : chain[t] = <<>>

NoLua ==
  /\ made' = [c \in Servers |-> 0]
  /\ free' = [c \in Servers |-> {}]
  /\ lua' = [c \in Servers |-> [i \in States |-> newstate]]

ReadConfig == ReadDirective /\ UNCHANGED <<chain, frames, luaVars>>

(* With the LuaRefs made in advance and deleted again.  A directive that   *)
(* asks for more than MaxStates is not modelled.                           *)
rum_post_config ==
  \/ PostConfigFirst /\ UNCHANGED <<chain, frames, luaVars>>
  \/ \E badFiles \in SUBSET {s \in Servers : Configured(s)} :
     \E bad \in SUBSET {s \in Servers : Configured(s)} :
       /\ PostConfig(badFiles, bad)
       /\ \A s \in Servers : Initialised(s) => LuaStatesMade(s) <= MaxStates
       /\ made' = [c \in Servers |->
                     IF server' = "serving" /\ Initialised(c) THEN LuaStatesMade(c) ELSE 0]
       /\ free' = [c \in Servers |-> 1 .. made'[c]]
       /\ UNCHANGED <<chain, frames, lua>>

(* The configuration pool is cleared, with the LuaManagers.                *)
Restart ==
  /\ server = "serving"
  /\ Idle
  /\ ReadingStarts
  /\ NoLua
  /\ UNCHANGED <<once, chain, frames>>

(* After a failure Apache exits and is started again.                      *)
StartAgain ==
  /\ server = "failed"
  /\ once' = FALSE
  /\ ReadingStarts
  /\ NoLua
  /\ UNCHANGED <<chain, frames>>

-----------------------------------------------------------------------------
(* Requests and their pools *)

Arrives(t, k, s, p) ==
  /\ server = "serving"
  /\ Len(chain[t]) < MaxDepth
  /\ chain' = [chain EXCEPT ![t] = Append(@, NewRequest(k, s, p))]
  /\ UNCHANGED <<configVars, frames, luaVars>>

ClientRequest(t) == chain[t] = <<>> /\ \E s \in Servers : Arrives(t, "main", s, 1)

(* Apache answers it without any hook but the last. *)
BadRequest(t) ==
  /\ server = "serving"
  /\ chain[t] = <<>>
  /\ \E s \in Servers :
       chain' = [chain EXCEPT ![t] = <<[NewRequest("main", s, 1) EXCEPT !.stage = "LogTransaction"]>>]
  /\ UNCHANGED <<configVars, frames, luaVars>>

(* A content handler asks for a subrequest, and goes on when it is over.   *)
Subrequest(t) ==
  /\ At(t, "Handler")
  /\ frames[t] = <<>>
  /\ Cur(t).handler # "rum-int-redirect"
  /\ Arrives(t, "sub", Cur(t).server, Len(chain[t]) + 1)

(* ~ReqCtx() deletes the LuaRef, which gives the state back. *)
Released(t, from, c) ==
  {chain[t][k].slot : k \in {j \in from .. Len(chain[t]) : chain[t][j].ctx = c}} \ {0}

(* Bug: the LuaRef is not deleted. *)
PoolDestroyedOnly(t, from) ==
  /\ chain' = [chain EXCEPT ![t] = SubSeq(@, 1, from - 1)]
  /\ UNCHANGED free

PoolDestroyed(t, from) ==
  /\ chain' = [chain EXCEPT ![t] = SubSeq(@, 1, from - 1)]
  /\ free' = [c \in Servers |-> free[c] \cup Released(t, from, c)]

(* The innermost request is over: so are those it was redirected from.     *)
Over(t) ==
  LET p == chain[t][Len(chain[t])].pool IN
  IF p = 1
  THEN /\ chain' = [chain EXCEPT ![t][1].stage = "LogTransaction"]
       /\ UNCHANGED free
  ELSE PoolDestroyed(t, p)

RequestOver(t) ==
  /\ At(t, "done")
  /\ PoolDestroyed(t, 1)
  /\ UNCHANGED <<configVars, frames, made, lua>>

-----------------------------------------------------------------------------
(* The hooks *)

Begin(t, stage, r) ==
  /\ frames[t] = <<>>
  /\ At(t, stage)
  /\ SetCur(t, r)
  /\ \E f \in lookupAndRun(Here(t), r.ctx) : frames' = [frames EXCEPT ![t] = <<f>>]
  /\ UNCHANGED <<configVars, luaVars>>

End(t, stage) ==
  /\ Len(frames[t]) = 1
  /\ At(t, stage)
  /\ Top(t).at \in Results
  /\ frames' = [frames EXCEPT ![t] = <<>>]
  /\ UNCHANGED <<configVars, made>>

GoesOn(t, r) == SetCur(t, r) /\ UNCHANGED <<free, lua>>
Ends(t) == Over(t) /\ UNCHANGED lua

(* Bug: whatever record the server has. *)
mk_ReqCtxAny(r) == IF own[r.server] THEN conf[r.server] ELSE conf[Main]

(* A record that sc->server == r->server shows to be the server's own. *)
mk_ReqCtx(r) == IF own[r.server] THEN conf[r.server] ELSE NoServer

(* Bug: what lookupAndRun() says. *)
VerdictOfRules(r, ret) == IF ret = "DECLINED" /\ r.moved THEN "REDIRECT" ELSE ret

(* What the first three hooks return. *)
Verdict(r, ret) ==
  IF r.filename \in {"redirect:", "proxy:"} THEN "OK"
  ELSE IF r.moved THEN "REDIRECT"
  ELSE ret

TranslateHook(t, stage, ok, declined) ==
  /\ End(t, stage)
  /\ LET verdict == Verdict(Cur(t), Top(t).at) IN
     \/ verdict = "OK" /\ GoesOn(t, ok)
     \/ verdict = "DECLINED" /\ GoesOn(t, declined)
     \/ verdict \notin {"OK", "DECLINED"} /\ Ends(t)

rum_translate_name_pre_rewrite(t) ==
  \/ Begin(t, "TranslateNamePreRewrite", [Cur(t) EXCEPT !.ctx = mk_ReqCtx(Cur(t))])
  \/ TranslateHook(t, "TranslateNamePreRewrite",
       [Cur(t) EXCEPT !.stage = "MapToStorage"], [Cur(t) EXCEPT !.stage = "TranslateName"])

(* When both decline, Apache translates the URI. *)
rum_translate_name(t) ==
  \/ Begin(t, "TranslateName", Cur(t))
  \/ TranslateHook(t, "TranslateName",
       [Cur(t) EXCEPT !.stage = "MapToStorage"],
       [Cur(t) EXCEPT !.stage = "MapToStorage", !.filename = "file"])

rum_map_to_storage(t) ==
  \/ Begin(t, "MapToStorage", Cur(t))
  \/ TranslateHook(t, "MapToStorage",
       [Cur(t) EXCEPT !.stage = "HeaderParser"], [Cur(t) EXCEPT !.stage = "HeaderParser"])

(* The six hooks with no test of their own. *)
PlainHook(t) ==
  \E stage \in DOMAIN Following :
    \/ Begin(t, stage, Cur(t))
    \/ /\ End(t, stage)
       /\ IF Top(t).at \in {"OK", "DECLINED"}
          THEN GoesOn(t, [Cur(t) EXCEPT !.stage = Following[stage]])
          ELSE Ends(t)

rum_insert_filter(t) ==
  \/ Begin(t, "InsertFilter", [Cur(t) EXCEPT !.filter = TRUE])
  \/ End(t, "InsertFilter") /\ GoesOn(t, [Cur(t) EXCEPT !.stage = "Handler"])

(* Apache refuses to redirect too often. *)
rum_int_redirect_handler(t) ==
  IF Len(chain[t]) < MaxDepth
  THEN Arrives(t, "redirect", Cur(t).server, Cur(t).pool)
  ELSE Ends(t) /\ UNCHANGED <<configVars, frames, made>>

(* If its actions have not written the response another handler does, or   *)
(* ends it with an error.  (rum-state is such a handler.)                  *)
rum_handler(t) ==
  /\ At(t, "Handler")
  /\ frames[t] = <<>>
  /\ IF Cur(t).handler = "rum-int-redirect"
     THEN rum_int_redirect_handler(t)
     ELSE /\ GoesOn(t, [Cur(t) EXCEPT !.stage = "OutputFilter"]) \/ Ends(t)
          /\ UNCHANGED <<configVars, frames, made>>

rum_output_filter(t) ==
  \/ At(t, "OutputFilter") /\ Cur(t).filter /\ Begin(t, "OutputFilter", Cur(t))
  \/ End(t, "OutputFilter") /\ GoesOn(t, [Cur(t) EXCEPT !.filter = FALSE])

OutputSent(t) ==
  /\ At(t, "OutputFilter")
  /\ frames[t] = <<>>
  /\ ~Cur(t).filter
  /\ Ends(t)
  /\ UNCHANGED <<configVars, frames, made>>

fullLuaGC(r) ==
  IF r.slot = 0 THEN lua ELSE [lua EXCEPT ![r.ctx][r.slot].garbage = FALSE]

rum_log_transaction(t) ==
  \/ Begin(t, "LogTransaction", Cur(t))
  \/ /\ End(t, "LogTransaction")
     /\ SetCur(t, [Cur(t) EXCEPT !.stage = "done"])
     /\ UNCHANGED free
     /\ lua' = IF Rec(Cur(t).server).fullLuaGC THEN fullLuaGC(Cur(t)) ELSE lua

HookNext(t) ==
  \/ ClientRequest(t) \/ BadRequest(t) \/ Subrequest(t) \/ RequestOver(t)
  \/ rum_translate_name_pre_rewrite(t) \/ rum_translate_name(t) \/ rum_map_to_storage(t)
  \/ PlainHook(t) \/ rum_insert_filter(t) \/ rum_handler(t)
  \/ rum_output_filter(t) \/ OutputSent(t) \/ rum_log_transaction(t)

Next ==
  \/ ReadConfig \/ rum_post_config \/ Restart \/ StartAgain
  \/ \E t \in Threads : LuaNext(t) \/ HookNext(t)

Spec == Init /\ [][Next]_vars

-----------------------------------------------------------------------------
(* Properties *)

(* The calls a thread is in are for requests it is in, and the requests    *)
(* for servers that serve.                                                 *)
TypeOK ==
  /\ server \in {"reading", "serving", "failed"}
  /\ once \in BOOLEAN
  /\ own \in [Servers -> BOOLEAN]
  /\ sc \in [Servers -> SrvConf]
  /\ conf \in [Servers -> Servers \cup {NoServer}]
  /\ badDefns \in SUBSET Servers
  /\ lines \in 0 .. MaxLines
  /\ chain \in [Threads -> Seq(Requests)]
  /\ \A t \in Threads : Len(chain[t]) <= MaxDepth
  /\ frames \in [Threads -> Seq(Frames)]
  /\ \A t \in Threads : Len(frames[t]) <= MaxNest
  /\ made \in [Servers -> 0 .. MaxStates]
  /\ free \in [Servers -> SUBSET States]
  /\ lua \in [Servers -> [States -> LuaStates]]

(* A request has the Config that the directives of its own server ask for, *)
(* also when a virtual server has no record, and shares the main server's, *)
(* and after any number of restarts (mk_ReqCtx(), rum_post_config()).      *)
Asked(s) ==
  IF ~own[s] THEN NoServer
  ELSE IF sc[s].useMain THEN Main
  ELSE IF sc[s].files THEN s ELSE NoServer

CtxAsWritten ==
  \A t \in Threads : \A k \in DOMAIN chain[t] :
    LET r == chain[t][k] IN
    /\ r.ctx \in {Asked(r.server), NoServer}
    /\ r.stage \notin {"TranslateNamePreRewrite", "LogTransaction", "done"}
         => r.ctx = Asked(r.server)

(* The handlers of an internal redirect and of a proxy find the filename   *)
(* they take the URI from: "assume filename begins with redirect:" in      *)
(* rum_int_redirect_handler().                                             *)
RedirectKept ==
  \A t \in Threads : \A k \in DOMAIN chain[t] :
    LET r == chain[t][k] IN
    r.stage \notin {"TranslateName", "TranslateNamePreRewrite"} =>
      /\ r.handler = "rum-int-redirect" => r.filename = "redirect:"
      /\ r.handler = "proxy-server" => r.filename = "proxy:"

(* Whatever ran before in the Lua state, a Lua action finds its own        *)
(* ActionCtx, both in its environment and through the global rum table,    *)
(* unless it has flushed output and so run other actions.                  *)
LuaSeesItsAction ==
  \A t \in Threads :
    frames[t] # <<>> /\ Top(t).at = "lua" /\ ~Top(t).wrote =>
      LET l == lua[Req(t).ctx][Req(t).slot] IN
      l.sandbox = ActionCtx(t) /\ l.proxy = ActionCtx(t)

(* A Lua state is free or belongs to one request, also after redirects,    *)
(* subrequests and errors.                                                 *)
Holds(t, k, c, i) == chain[t][k].ctx = c /\ chain[t][k].slot = i

StatesKept ==
  \A c \in Servers :
    /\ free[c] \subseteq 1 .. made[c]
    /\ \A i \in (1 .. made[c]) \ free[c] :
         \E t \in Threads : \E k \in DOMAIN chain[t] : Holds(t, k, c, i)

StatesApart ==
  \A t, u \in Threads : \A k \in DOMAIN chain[t], m \in DOMAIN chain[u] :
    LET r == chain[t][k]  q == chain[u][m] IN
    r.slot # 0 =>
      /\ r.ctx \in Servers
      /\ r.slot \in (1 .. made[r.ctx]) \ free[r.ctx]
      /\ Holds(u, m, r.ctx, r.slot) => t = u /\ k = m

(* A request skips Apache's translation of its URI only because an action  *)
(* answered OK, redirected or proxied it; or because RumMaxLookups is      *)
(* negative and nothing is ever run.                                       *)
AnswersFromActions ==
  \A t \in Threads : \A k \in DOMAIN chain[t] :
    LET r == chain[t][k] IN
    /\ r.stage \notin {"TranslateNamePreRewrite", "TranslateName", "LogTransaction", "done"}
    /\ r.filename = "none"
    => r.ctx # NoServer /\ (r.answered \/ sc[r.ctx].maxLookups < 0)

(* With RumFullLuaGC the state a client's request used is collected after  *)
(* its last action, before it goes back to the others.                     *)
CollectedLast ==
  \A t \in Threads :
    LET r == chain[t][1] IN
    chain[t] # <<>> /\ r.stage = "done" /\ Rec(r.server).fullLuaGC /\ r.slot # 0
      => ~lua[r.ctx][r.slot].garbage

(* A server has what its directives ask for, and does not start with       *)
(* definitions that fail.                                                  *)
ConfigsAsAsked == DirectivesUsed /\ DefinitionsCaught

(* What a phase's actions say is what Apache does: answers, redirects.     *)
ActionsDecide == RedirectKept /\ AnswersFromActions

(* A Lua state belongs to one request or none, and is not lost.            *)
StatesOwned == StatesKept /\ StatesApart

(* An action runs in a state set up for it, which is then collected.       *)
StatesReady == LuaSeesItsAction /\ CollectedLast

=============================================================================
