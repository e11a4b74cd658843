------------------------------ MODULE LuaAction -------------------------------
(***************************************************************************)
(* Config::lookupAndRun() as a hook sees it, LuaAction::run(), and what    *)
(* the functions of rum.core do to the request they are called for.        *)
(*                                                                         *)
(* Which rules match is RuleEngine.tla's matter.  Here a call runs some    *)
(* actions in sequence, native or Lua, each returning a status.  A Lua     *)
(* action needs a Lua state of the Config's LuaManager, which its ReqCtx   *)
(* acquires once and keeps.  The state outlives the request: run() leaves  *)
(* in its registry a sandbox environment, whose rum table has the address  *)
(* of an ActionCtx, and makes the global rum table inherit from that rum   *)
(* table.  The ActionCtx is a local variable of runActions().              *)
(*                                                                         *)
(* Calls nest: an action that flushes its output runs the RUM_OUTPUT       *)
(* filter, which is another lookupAndRun() for the same request and so in  *)
(* the same Lua state.  frames[t] are the calls a thread is in.            *)
(***************************************************************************)
EXTENDS ServerConfig, Sequences, FiniteSets

CONSTANTS
  Threads,     \* Apache's worker threads
  MaxDepth,    \* bound on requests inside one another
  MaxNest,     \* bound on calls inside one another
  MaxRuns,     \* bound on the actions one call runs
  MaxStates    \* bound on the Lua states of one LuaManager

ASSUME BoundsAssumption ==
  /\ MaxDepth \in Nat \ {0}
  /\ MaxNest \in Nat \ {0}
  /\ MaxRuns \in Nat
  /\ MaxStates \in Nat

VARIABLES
  chain,   \* the requests a thread is in, from the client's to the innermost
  frames,  \* the calls of lookupAndRun() it is in
  made,    \* how many Lua states the Config's LuaManager has made
  free,    \* those in luaSlotFreeVec_
  lua      \* what an action left in each

luaVars == <<made, free, lua>>

States == 1 .. MaxStates

(* An ActionCtx is known by the call that has it; Dead is the address of   *)
(* one that is gone.                                                       *)
Dead == <<>>
ActionCtxs == (Threads \X (1 .. MaxNest)) \cup {Dead}
ActionCtx(t) == <<t, Len(frames[t])>>

LuaStates ==
  [sandbox : ActionCtxs,   \* found through sandboxEnvRegKey()
   proxy : ActionCtxs,     \* found through the global rum table
   garbage : BOOLEAN]      \* used since the last full collection

newstate == [sandbox |-> Dead, proxy |-> Dead, garbage |-> FALSE]

Filenames == {"none", "file", "redirect:", "proxy:"}
Handlers == {"default", "rum-int-redirect", "proxy-server"}
Results == {"OK", "DECLINED", "EGENERAL"}

Frames ==
  [d : 1 .. MaxDepth,   \* its request's place in the chain
   runs : 0 .. MaxRuns, \* actions run so far
   delayedOK : BOOLEAN, \* since the last lookup
   at : {"rules", "lua"} \cup Results,
   wrote : BOOLEAN]     \* its action ran the output filter

Top(t) == frames[t][Len(frames[t])]
Running(t, at) == frames[t] # <<>> /\ Top(t).at = at
SetTop(t, f) == frames' = [frames EXCEPT ![t][Len(frames[t])] = f]

(* The request the innermost call is for. *)
Req(t) == chain[t][Top(t).d]
SetReq(t, r) == chain' = [chain EXCEPT ![t][Top(t).d] = r]

-----------------------------------------------------------------------------
(* Config::lookupAndRun() *)

(* A negative RumMaxLookups is taken as it is: the loop does not run, and  *)
(* aStatus, RUM_OK, is returned as OK (unless no rule uses the phase).     *)
Entry(ctx) ==
  IF ctx = NoServer THEN {"DECLINED"}
  ELSE IF sc[ctx].maxLookups < 0 THEN {"OK", "DECLINED"}
  ELSE {"rules"}

lookupAndRun(d, ctx) ==
  {[d |-> d, runs |-> 0, delayedOK |-> FALSE, at |-> at, wrote |-> FALSE] : at \in Entry(ctx)}

(* runActions() and the loop of lookupAndRun(), on an action's status.     *)
Returns(f, status) ==
  [d |-> f.d, runs |-> 0, delayedOK |-> FALSE, at |-> status, wrote |-> FALSE]

After(f, status) ==
  IF status \in {"OK", "EGENERAL"} THEN Returns(f, status)
  ELSE [f EXCEPT !.runs = @ + 1, !.at = "rules", !.wrote = FALSE,
                 !.delayedOK = status = "DELAYED_OK" \/ (@ /\ status # "RELOOKUP")]

Answers(r, status) ==
  r.stage \in {"TranslateNamePreRewrite", "TranslateName"} /\ status \in {"OK", "DELAYED_OK"}

(* The hooks that look at the status an external redirect set. *)
Translation == {"TranslateNamePreRewrite", "TranslateName", "MapToStorage"}

(* Bug: runActions() does not turn RUM_DELAYED_OK into RUM_OK. *)
RulesEndDelayed(t) ==
  /\ Running(t, "rules")
  /\ SetTop(t, Returns(Top(t), IF Top(t).delayedOK THEN "DELAYED_OK" ELSE "DECLINED"))
  /\ UNCHANGED <<configVars, chain, luaVars>>

(* No action is left to run. *)
RulesEnd(t) ==
  /\ Running(t, "rules")
  /\ SetTop(t, Returns(Top(t), IF Top(t).delayedOK THEN "OK" ELSE "DECLINED"))
  /\ UNCHANGED <<configVars, chain, luaVars>>

-----------------------------------------------------------------------------
(* Native actions.  They return APR_SUCCESS, which is not RUM_OK. *)

internal_redirect(r) == [r EXCEPT !.filename = "redirect:", !.handler = "rum-int-redirect"]
external_redirect(r) == IF r.stage \in Translation THEN [r EXCEPT !.moved = TRUE] ELSE r
proxy(r) == [r EXCEPT !.filename = "proxy:", !.handler = "proxy-server"]

NativeAction(t, r) ==
  /\ Running(t, "rules")
  /\ Top(t).runs < MaxRuns
  /\ SetReq(t, r)
  /\ SetTop(t, After(Top(t), "DEFAULT"))
  /\ UNCHANGED <<configVars, luaVars>>

RedirIntAction(t) == NativeAction(t, internal_redirect(Req(t)))
RedirExtAction(t) == NativeAction(t, external_redirect(Req(t)))

-----------------------------------------------------------------------------
(* LuaAction::run() *)

(* ReqCtx::luaState(): the state the ReqCtx has, a free one, or, when      *)
(* there is none, a new one.                                               *)
luaState(t, i) ==
  LET r == Req(t) IN
  \/ /\ r.slot = i
     /\ UNCHANGED <<chain, made, free>>
  \/ /\ r.slot = 0
     /\ i \in free[r.ctx]
     /\ free' = [free EXCEPT ![r.ctx] = @ \ {i}]
     /\ SetReq(t, [r EXCEPT !.slot = i])
     /\ UNCHANGED made
  \/ /\ r.slot = 0
     /\ free[r.ctx] = {}
     /\ i = made[r.ctx] + 1
     /\ made' = [made EXCEPT ![r.ctx] = i]
     /\ SetReq(t, [r EXCEPT !.slot = i])
     /\ UNCHANGED free

(* Bug: the global rum table is set up in a new Lua state only. *)
setRumFieldsOnce(me, l) ==
  [l EXCEPT !.sandbox = me, !.proxy = IF l.garbage THEN @ ELSE me, !.garbage = TRUE]

(* The registry and the rum table, until the chunks are called.            *)
setRumFields(me, l) == [l EXCEPT !.sandbox = me, !.proxy = me, !.garbage = TRUE]

(* The ActionCtx goes with the call. *)
Forget(me, l) ==
  [l EXCEPT !.sandbox = IF @ = me THEN Dead ELSE @, !.proxy = IF @ = me THEN Dead ELSE @]

(* With definitions that fail the state is not valid, and nothing is run.  *)
(* The ErrorHandler or the condition modules' tables may fail, too.        *)
run(t) ==
  /\ Running(t, "rules")
  /\ Top(t).runs < MaxRuns
  /\ \E i \in States :
       /\ luaState(t, i)
       /\ \/ /\ Req(t).ctx \in badDefns
             /\ SetTop(t, After(Top(t), "EGENERAL"))
             /\ UNCHANGED lua
          \/ /\ Req(t).ctx \notin badDefns
             /\ lua' = [lua EXCEPT ![Req(t).ctx][i] = [@ EXCEPT !.sandbox = Dead, !.garbage = TRUE]]
             /\ SetTop(t, After(Top(t), "EGENERAL"))
          \/ /\ Req(t).ctx \notin badDefns
             /\ lua' = [lua EXCEPT ![Req(t).ctx][i] = setRumFields(ActionCtx(t), @)]
             /\ SetTop(t, [Top(t) EXCEPT !.at = "lua"])
  /\ UNCHANGED configVars

(* The CommonPreActions or the chunk end: with an error, with a value that *)
(* is no status, with nothing, or with a status.                           *)
chunkReturns(t) ==
  /\ Running(t, "lua")
  /\ \E status \in {"OK", "DELAYED_OK", "RELOOKUP", "DECLINED", "DEFAULT", "EGENERAL"} :
       /\ SetTop(t, After(Top(t), status))
       /\ chain' = IF Answers(Req(t), status)
                   THEN [chain EXCEPT ![t][Top(t).d] = [@ EXCEPT !.answered = TRUE]]
                   ELSE chain
  /\ lua' = [lua EXCEPT ![Req(t).ctx][Req(t).slot] = Forget(ActionCtx(t), @)]
  /\ UNCHANGED <<configVars, made, free>>

-----------------------------------------------------------------------------
(* rum.core *)

(* The request whose ActionCtx is found in the registry.  What a dead one  *)
(* says is undefined; it is taken to be as it was left, for the request    *)
(* itself.                                                                 *)
getActionCtx(t) ==
  LET ctx == lua[Req(t).ctx][Req(t).slot].sandbox IN
  IF ctx = Dead THEN <<t, Top(t).d>> ELSE <<ctx[1], frames[ctx[1]][ctx[2]].d>>

Called(t) == LET to == getActionCtx(t) IN chain[to[1]][to[2]]

Changes(t, r) ==
  /\ Running(t, "lua")
  /\ LET to == getActionCtx(t) IN chain' = [chain EXCEPT ![to[1]][to[2]] = r]
  /\ UNCHANGED <<configVars, frames, luaVars>>

coreInternalRedirect(t) == Changes(t, internal_redirect(Called(t)))
coreExternalRedirect(t) == Changes(t, external_redirect(Called(t)))
coreProxy(t) == Changes(t, proxy(Called(t)))
coreProxyRaw(t) == Changes(t, proxy(Called(t)))

(* puts, rputs, rwrite and rflush: data that goes through the output       *)
(* filters before the call returns.  RUM_OUTPUT is still among them while  *)
(* it runs.  (The ActionCtx is the call's own, if none was flushed before: *)
(* LuaSeesItsAction in Hooks.tla.  handleReq_, which doHandleReq() sets,   *)
(* only tells rum_handler() that the response is there.)                   *)
coreRflush(t) ==
  /\ Running(t, "lua")
  /\ Req(t).filter
  /\ Len(frames[t]) < MaxNest
  /\ \E f \in lookupAndRun(Top(t).d, Req(t).ctx) :
       frames' = [frames EXCEPT ![t] = Append([frames[t] EXCEPT ![Len(frames[t])].wrote = TRUE], f)]
  /\ UNCHANGED <<configVars, chain, luaVars>>

(* The filter removes itself when its lookupAndRun() has returned, and the *)
(* action that flushed goes on.                                            *)
coreRflushReturns(t) ==
  /\ Len(frames[t]) > 1
  /\ Top(t).at \in Results
  /\ SetReq(t, [Req(t) EXCEPT !.filter = FALSE])
  /\ frames' = [frames EXCEPT ![t] = SubSeq(@, 1, Len(@) - 1)]
  /\ UNCHANGED <<configVars, luaVars>>

LuaNext(t) ==
  \/ RulesEnd(t)
  \/ RedirIntAction(t) \/ RedirExtAction(t)
  \/ run(t) \/ chunkReturns(t)
  \/ coreInternalRedirect(t) \/ coreExternalRedirect(t) \/ coreProxy(t) \/ coreProxyRaw(t)
  \/ coreRflush(t) \/ coreRflushReturns(t)

=============================================================================
