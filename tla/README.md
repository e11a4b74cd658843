# Verification of mod_rum in TLA+

mod_rum is an Apache module that tests and changes requests by rules: an XML
file gives conditions (path, query string, request fields, ...) and, for each
rule, actions in Lua that run in chosen phases of the request.  This directory
holds TLA+ modules translated from its source, configurations that check them
with TLC, and proofs checked with TLAPS.

All paths below are relative to `src/src/` of the repository.

## 1. The system

| Component | State | Operations | What is hard |
|---|---|---|---|
| **LuaManager** (`LuaManager.C/H`, `PtrVec.H`) | free list of Lua slots, mutexes, definitions and their version | `acquire`, `release`, `updateDefinitions` | used by all worker threads; two mutexes and a read-write lock; failure half way; growth of the free list |
| **Rule engine** (`Config.C` 1000-1240, `ReqCtx.C/H`) | per request: rules found so far, current phase, cached matches and data | `lookupAndRun`, `lookupRules`, `runActions`, `resetForLookup`, `addRuleIdx`, `ruleIdxs` | caches that outlive lookups, re-lookups, changed requests, delayed answers, partial failure |
| **Hooks** (`mod_rum.C`) | request and server configuration records | one hook per phase, content handlers, `post_config`, output filter | order of phases, internal redirects, two passes of `post_config`, shared server configurations |
| **Configuration loader** (`Config.C` 60-1000) | rules, filter conditions, phase usage | `procXMLFiles`, `procXML_*` | partial failure; a rule spread over several elements; sharing of filter conditions |
| **Condition modules** (`CondModule.C`, `PathCondModule.C`, `QueryArgCondModule.C`, `CoreCondModule.C`, `RequestCondModule.C`) | lookup tables, filter conditions | `parseXMLCond`, `postProc`, `lookup`, `lookup2` | narrowing must never lose a rule that matches |
| **Token matcher** (`TokenMatcher.C`, `TokenRulesMap.C`) | token tables per position, requirements per rule | `procPattern`, `postProc`, `lookup` | a narrowing by positions, counts and bit sets |
| **Filter conditions** (`*FiltCond.C`, `*FiltMatch.C`) | one pattern each | `match` | captures kept for actions |
| **Request data** (`PathReqData.C`, `QueryArgReqData.C`) | tokens and arguments of the current request | `reset`, getters | computed once and stale afterwards |
| **Lua actions** (`LuaAction.C`, `ActionCtx.H`) | one compiled script per action | `run`, `cleanup` | statuses from Lua, redirects, errors |
| **Lua bindings** (`Lua*Rec.C`, `LuaTable.C`, `*FieldHandler`) | the fields and tables of Apache's records | getters and setters by name, methods of tables | records that end at different times; keys without case; values cut at commas |
| **Vectors and maps** (`SmplVec.H`, `MatchedIdxs.H`, `PtrVec.H`, `*Map.H`) | arrays and hashes in APR pools | `put`, `grow_to`, `intersect_with`, `union_with`, `unique` | in-place merges, growth |
| **Pool allocation** (`PoolAllocated.C/H`) | pools, sub-pools, cleanups | construct, `delete`, `clear` | lifetime of objects against pools |
| **Text, logging, tester** (`StrBuffer.H`, `RegEx.H`, `rumtest.C`, ...) | - | - | - |

How they interact.  Apache calls a hook per phase on a worker thread; the hook
finds the request's `ReqCtx` and the server's `Config` and calls
`Config::lookupAndRun`.  That asks each condition module for the rules that may
match (narrowing), filters the rest with the exact filter conditions, records
the rules in the `ReqCtx`, and runs their actions for the phase.  The first
action of a request that needs Lua makes a `LuaRef`, which takes a Lua state
from the `LuaManager` and gives it back when the request's pool is destroyed.
A request is handled by one thread at a time; the `LuaManager` is the state that
threads share, and the configuration is read-only once it is loaded.

## 2. The modules

| Module | Extends | Models | Checked by | Proved in |
|---|---|---|---|---|
| `LuaPool` | | what a pool of Lua states promises | `lua_pool` | `LuaManagerProofs` |
| `LuaManager` | | `LuaManager.C`, and that it implements `LuaPool` | `lua_pool` | `LuaManagerProofs` |
| `RuleEngine` | | lookups and actions of one request | `engine` | `RuleEngineProofs` |
| `TokenMatcher` | | narrowing by path | `match_*` | `TokenMatcherProofs` |
| `Narrowing` | | what the narrowing of a lookup promises | `narrow_sets` | `MatchedIdxsProofs` |
| `MatchedIdxs` | | combining what modules find, and that it implements `Narrowing` | `narrow_*` | `MatchedIdxsProofs` |
| `ConfigBuild` | | the constructor of `Config` | `config_*` | `ConfigBuildProofs` |
| `ServerConfig` | | directives and `rum_post_config()` | `hooks` | `HooksProofs` |
| `LuaAction` | `ServerConfig` | `LuaAction::run()` and `rum.core` | `hooks` | `HooksProofs` |
| `Hooks` | `LuaAction` | the hooks, requests and their pools | `hooks` | `HooksProofs` |
| `Conditions` | | what conditions mean to each module | `request_data` | `RequestDataProofs` |
| `RequestData` | `Conditions` | lookups, scripts and the caches they share | `request_data` | `RequestDataProofs` |
| `Pools` | | pools, objects in them, containers | `lifetimes` | `LifetimesProofs` |
| `LuaTable` | | the methods of a table | `lifetimes` | `LifetimesProofs` |
| `LuaRecords` | `Pools`, `LuaTable` | what scripts do to Apache's records | `lifetimes` | `LifetimesProofs` |
| `Lifetimes` | `LuaRecords` | all three together | `lifetimes` | `LifetimesProofs` |

The `MC*` modules give the constants of the runs.

### LuaPool and LuaManager

`LuaPool` is the promise: each `LuaRef` owns at most one slot, alone; a slot
that is given back can be taken again; a slot is made only if none is free.

`LuaManager` is the code.  A `LuaRef` is a process that walks through the
statements of `acquire()` and `release()`; `updateDefinitions()` is another.
Lock and unlock are steps, so exclusion is a result and not an assumption.

| Code | Model |
|---|---|
| `luaSlotFreeVecMutex_`, `poolMutex_` | `slotMutex`, `poolMutex`: the owner |
| `defnsLock_` | `readers`, and `Writing` from `upc` |
| `luaSlotFreeVec_` and its `size()`, `allocSize()` | `freeVec`, `nelts`, `nalloc` |
| `luaSlotNumFree_` | `numFree` |
| `LuaSlot::L_`, `defnVer_` | `lua[s].open`, `lua[s].ver`; `lua[s].defns` is what was loaded |
| `PtrVec::grow_to` | `GrowTo`, with its doubling as it is in the code |

Loading definitions is one step that succeeds or fails.  A failed load gives a
slot of version 0, as the code does, that its owner still gives back.

`updateDefinitions()` is called once at start-up by the server; the model lets
it run at any time, as its lock and version number are meant to allow.

### RuleEngine

One request from its first phase to its last.  `EnterPhase(p)` is the hook;
`BeginLookup`, `Narrow`, `FilterRule`, `EndLookup` are `lookupRules()` and the
`CondModule::lookup()` it calls; `StartAction`, `Continue`, `Relookup`, `Finish`,
`EndPass`, `GiveUp` are `runActions()` and the loop of `lookupAndRun()`.  What
the configuration says - rules, phases, modules, filter conditions - are
constants, so the theorems hold of every configuration.  A request is a value
of `Reqs`; `ChangeReq` is an action, or another Apache module, that changes it.
`LogRuleIdxs` is the log statement that merges the rule vectors as a side
effect if the log level asks for it.

Two history variables record what no variable of the code does: `seen`, the
request each phase was looked up with, and `pass`, the actions run since the
last lookup.

### TokenMatcher

The path module's tables of one phase.  `ProcPattern(p)` is one `<Pattern>`
element: `procPattern()` and the growth of its vectors; `EndRule` is the rest of
`PathCondModule::parseXMLCond()`, which makes a rule without patterns match all
requests, and `PostProc` is `postProc()`.  `Lookup(toks)` is `lookup()`, an operator
because it changes no state: what it finds is judged in every state after
loading, for every path of the constants.

| Code | Model |
|---|---|
| `tokenRulesMap_` keyed by position and token | `tokenRules`, a relation |
| `reqMatchBitSets_`, `reqMatchAnyCt_`, `minToks_`, `maxToks_` | `reqBits`, `reqAnyCt`, `minToks`, `maxToks`, one value per rule |
| the arrays below these | `nalloc`, what `SmplVec::grow_to` allocated |
| `mapPosUsage_`, `matchAllRuleIdxsVec_` | `mapPosUsage`, `matchAllRules` |
| the regular expression of `mkRegExStr()` | `RegExMatch`: an assignment of tokens to token sets |

Abstracted: patterns come as parsed (`parsePattern()` is left out), paths have
single slashes and no more than `MaxToks` tokens, `PathSlashFiltCond` (a filter on
the final slash alone) is left out: it only takes rules away.

### MatchedIdxs

How `lookupRules()` combines what the condition modules find.  A behaviour is one
lookup after another; in each, `Lookup(m)` starts a module, `UniteFound(v)` is a
vector that its `lookup2()` finds, `UniteMatchAll` the module's rules that match any
request, `Intersect` the end of the module.  Between them `PushThis`, `PushOther`,
`PushBoth`, `UnionDone` are the rounds of `SmplVec::union_with()`, and `Keep`,
`SkipThis`, `SkipOther`, `IntersectDone` those of `SmplVec::intersect_with()`, which
writes the vector it reads.

| Code | Model |
|---|---|
| `narrMatchedIdxs`, `cmMatchedIdxs` | `narr`, `cm`: the vector and `matchAll_` |
| `tmpVec`, `other`, `tget`, `oget`, `put` | the same names |
| the condition modules' tables | `Vecs`: what a lookup may find |

The vectors are ascending; whether a rule may be in one twice is a property of the
tables (`CondModule.C` and `TokenRulesMap.C` unique theirs, `QueryArgCondModule.C`
does not), so it is a choice of the instance and a hypothesis of the theorems that speak
of exact sets.

`Narrowing` is what `lookupRules()` promises of all this: each module finds a set of rules,
those that match any request among them, and the rules left are those that every module
has found.  `MatchedIdxs` implements it with a mapping that has no history in it: in the
middle of a loop, what a module has found (`foundNow`) and the rules left (`rulesNow`) are
what is behind `put` together with what is still to come in the vectors after `tget` and
`oget`, so each round is a step of `Narrowing` or a stutter.
The history variables `want` and `exact` are the sets the vectors stand for.

### ConfigBuild

The constructor of `Config`: the names of the files, the XML elements of each, and
what remains at the end.  The files are not data: `at` is the element whose
children the parser reads, and any child that may stand there can come next, as
often as it likes, or an error (`Fail`, after which all callers return).  A step is
one element entered or left, so a step is one call of a `procXML_*()` function's
beginning, end or loop body.  The name of a file that does not exist is one file that
cannot be opened.

| Code | Model |
|---|---|
| the function that runs, and its local variables | `at`, `phase`, `cm`, `narrowing`, `slash` |
| `rules_`, with `filtCondIdxs()` and the phases of its actions | `rules` |
| `filtConds_` and `filtCondIdxMap`, keyed by `blobID()` | `filtConds`, `BlobID` |
| `condUsageMap_` | `condUsage`: the modules the current rule used |
| `matchAllRuleIdxsVec_` of each module | `matchAll`, the set of its elements, and `mariSize`, its `size()` |
| token maps, query argument maps | `table`: which rule by which condition |
| `phaseRulesIdxs_`; the three usage vectors | `phaseRules`; `usage` |
| `LuaManager::updateDefinitions()` | `published`: how many definitions it was given |

The text of a condition is a value.  A module's element has children of three kinds:
conditions only filtered by (`<RegEx>`), those that are entered into a table too
(`<Pattern>`, `<Name>`, `<NameVal>`), and patterns that any path matches.  A child that
a module does not know is logged and skipped, so it is no step.  The history variable
`doc` keeps the conditions as they were read, and the phases for which a module was
told of a rule.  Indices start at 1.

### ServerConfig, LuaAction, Hooks

From `httpd.conf` to the hooks.  `ServerConfig` reads directives, one a step, into the
records of a main server and of virtual servers, and `rum_post_config()` checks them
and gives each server the `Config` it has or shares; Apache does both twice when it
starts and again at each restart.  A server without directives of its own shares the
main server's record, which only `sc->server` shows.

`LuaAction` is `lookupAndRun()` as a hook sees it: native and Lua actions, each with a
status.  `run` acquires a Lua state for the `ReqCtx`, or has one already, and leaves the
`ActionCtx` in its registry and its global `rum` table; `chunkReturns` is the end of the
script; `core*` are the calls of `rum.core` that change the request.  `coreRflush` sends
output while the action runs, which runs the `RUM_OUTPUT` filter's actions inside it.

`Hooks` has one action per hook, and what Apache does between them: clients' requests,
internal redirects inside the handler of the request they come from, subrequests with
pools of their own, errors, and the end of a pool, which gives Lua states back.

| Code | Model |
|---|---|
| `rum_server_config`, and whether `sc->server == s` | `sc`, `own` |
| `sc->conf` | `conf`: the server whose files were read |
| the key on the process pool | `once` |
| `request_rec`, its `ReqCtx` and `luaRef_` | an element of `chain[t]`, its `ctx`, `slot` |
| the C stack of a thread's `lookupAndRun()` calls | `frames[t]` |
| `luaSlotFreeVec_` of each `Config` | `free`, of the `made` states |
| sandbox environment, global `rum` table | `lua[c][i].sandbox`, `.proxy`: whose `ActionCtx` |

An `ActionCtx` is a local variable of `runActions()`: once the call ends its address is
`Dead`.  Which rules match is `RuleEngine`'s matter, how states are handed out between
threads `LuaManager`'s.  The filename of a request is told apart by its prefix only.

### Conditions, RequestData

`Conditions` is what the four condition modules make of their XML: the filter
conditions of each child, with their identity; the narrowing tables; the rules a module
lets match all requests; the arguments parsed from a query string; and `match()` of
every class.  What a regular expression or a tokenizer finds is a constant, one text at
a time, and so is what `TokenMatcher` finds of a pattern.

`RequestData` runs a configuration on a request phase by phase.  `LookupRules` is
`Config::lookupRules()` in one step, because no script runs inside; between lookups a
script of a rule in force assigns to the URI or the arguments, asks `rum.queryarg` and
`rum.path`, or empties the caches.

| Code | Model |
|---|---|
| `PathReqData`, `queryArgValVecMap_`, `queryArgRawValVecMap_` | `pathTokens`, `argVals`, `rawVals` or `NotCached` |
| `filtCondMatches_` | `matches`, by filter condition |
| `rum.path.mcaptures`, `rum.queryarg.get()`, ... | `MCaptures`, `Get`, `MGet`, `RawGet`, `RawMGet`, `Keys` |

`Says` in the properties is written from what a condition is for, module by module and
not from the tables and filters, and is compared with what they find.  `RulesAsWritten`
is about rules with at most one `<Path>` and one `<Pattern>` (`OnePattern`): of a second
pattern `match_two` shows that rules are lost, and a second `<Path>` without a
`<Pattern>` makes the rule one that any path matches (`PathCondModule.C:247`), so that
the first one's pattern, which nothing but the narrowing tests, no longer counts.

### Pools, LuaTable, LuaRecords, Lifetimes

`Pools` is `PoolAllocated`: an object lives in the pool it was made from or in one of its
own, is registered with its pool or not, and may own others (`PtrVec`, `SmplPtrMap`,
`StrPtrMap`) or a pool (`TmpPool`).  `work` is the C++ call stack of a destruction, the
next call first, and `Step` makes that call; so what a cleanup deletes, and what its
destructor deletes and destroys in turn, happens in the code's order.

| Code | Model |
|---|---|
| `new T(0)`, `destroyWithPool()`, `insert`, `push_back` | `New`, `NewRegistered`, `NewElement` |
| the destructor of a class, `~PoolAllocated`, `operator delete` | `Delete` with `Destructor`, `PoolAllocatedDtor`, `operator_delete` |
| `PoolAllocatedCleanup` | `RunCleanup` |
| `StrPtrMap::clear()`, one turn of its loop | `clear` |
| the string pointers of a `StrVec` | `strs`: the pool each is in |

`LuaTable` has no state: a table is a sequence of entries with spellings of keys and
values, a value the items between its commas.  `LuaRecords` has connections, requests,
subrequests, redirects, addresses and the server; a script writes what it can reach
from its request, with one field for each type of member.  A string field is the pool
its string was copied to.  In `Lifetimes` all of these share the pools: objects are made
in, and die with, the pools of the same requests that scripts write to.

## 3. The runs

| Run | Module and bounds | What it shows |
|---|---|---|
| `lua_pool` | `MCLuaManager`: 2 LuaRefs, 4 slots, vector of 1 element, 2 versions, fairness | exclusive slots, no leak, vector bounds, versions; the abstract pool is implemented; calls return |
| `engine` | `MCRuleEngine`: 3 phases, 3 rules, 2 modules, 3 requests, 3 lookups, fairness | rules in force, captures, passes, answers; every hook returns |
| `match_one` | `MCTokenMatcher`: 2 rules of one pattern, 1 map on each side; all patterns of up to 3 token sets, all paths of up to 3 tokens | narrowing is sound, exact for anchored patterns, and within its vectors |
| `match_two` | the same with 1 rule of 2 patterns, 3 maps on each side; **violated** | a rule is lost |
| `match_grow` | the same with 3 rules; **violated** | vectors that grow too little |
| `narrow_sets` | `MCMatchedIdxs`: 3 rules, 2 modules, 2 unions each, all sets; fairness | the result is the intersection, each rule once; the abstract narrowing is implemented; lookups end |
| `narrow_once` | the same with 1 union; **violated** | a rule twice in a table is twice in the result |
| `config_build` | `MCConfigBuild`: 2 phases, 2 modules (one without tables, one with), 2 files, 2 rules, 6 elements, 1 script | conditions as written, no rule lost by a module, tables agree with filters, match-all told by size, definitions of all files or of none, phases passed over |
| `config_two_phases` | the same; **violated** | a rule with `<Conditions>` of two phases |
| `hooks` | `MCHooks`: a main and a virtual server, 2 directives, 1 thread, 2 requests and 2 calls inside one another, 1 action each, 2 Lua states | the `Config` of each request, directives with effect, redirects kept, actions find their own `ActionCtx`, states kept apart and given back, collected last |
| `request_data` | `MCRequestData`: 3 phases (one without conditions), 2 lookups in each, configurations with all four modules, shared filters and all kinds of children | rules found are those whose conditions hold; captures, arguments and tokens are of the right request |
| `lifetimes` | `MCLifetimes`: 3 objects, 5 records, 3 items in a table, together no more than 4 things; fairness | nothing deleted twice, used after it was freed, or left; strings outlive their readers; keys reach all values; loops end |

The properties checked are conjunctions of parts that are stated one by one in the
modules, where each has its comment:

| Property | Parts |
|---|---|
| `SlotsConserved` | `Exclusive`, `NeverNull`, `NoSlotLost`, `PoolBounded` |
| `FreeVecSound` | `VecInBounds`, `DestroyedOnce`, `AllocsExclusive` |
| `DefnsCurrent` | `VersionTruthful`, `FreshOnReturn` |
| `RulesCurrent`, `PassOutcome` | `RulesInForce`, `MergedRulesCurrent`; `PassComplete`, `AnswerOfLastPass` |
| `MergesRight` | `NarrowingComplete`, `WalkInOrder`, `NoRuleTwice`, `NarrowedRules` |
| `CondsStored`, `RulesReached` | `CondsAsWritten`, `FilteredInPhase`, `TableEntriesFiltered`; `EveryModuleFinds`, `IdlePhases` |
| `ConfigsAsAsked`, `ActionsDecide` | `DirectivesUsed`, `DefinitionsCaught`; `RedirectKept`, `AnswersFromActions` |
| `StatesReady`, `StatesOwned` | `LuaSeesItsAction`, `CollectedLast`; `StatesKept`, `StatesApart` |
| `RulesAsWritten`, `CachesAgree` | `NoRuleLost`, `NoRuleTooMany`; `ArgsAgree`, `TokensAgree` |
| `DeletedOnce`, `NothingLeft` | `NoUseAfterFree`, `DestructedOnce`, `NoDestructorMissed`; `CleanupsExact`, `NoPoolLeft` |
| `TableReadsAgree`, `CallsEnd` | `KeysReachEntries`, `MgetIgnoresJoins`, `GetIsFirst`; `DestroyEnds`, `OutermostEnds` |

The four violations:

- `narrow_once`: `QueryArgCondModule::storeQueryArgName()` stores a rule's index once
  per `<Name>` or `<NameVal>`; two of them for one argument put the rule twice into a
  vector that is never made unique, and the duplicate survives to `addRuleIdx()`: the
  rule's actions run twice.
- `match_two`: the requirement `reqMatchAnyCt_` is a sum over the patterns of a rule,
  but a lookup counts a token that two patterns share once (`TokenMatcher.C:201`).
  A rule with `**/a/**` and `**/a/**/b` is lost for `/a/b`.
- `match_grow`: `SmplVec::grow_to()` computes the size to allocate and then allocates
  twice the old one (`SmplVec.H:217`), while the number of elements becomes what was
  asked for.  The first `<Pattern>` of a phase in a rule of index 36 or more is stored
  behind the array.
- `config_two_phases`: a rule with two `<Conditions>` of different phases is among the
  match-all rules of the first phase but among the rules of the second only, so in the
  first the two sizes can agree while another rule is missing (`CondModule.C:121`), and
  that rule's path is not looked at.

Why the bounds are enough.  Two LuaRefs give a holder and a contender between any two
of its statements, and make a vector that starts with one element grow; four slots
are more than the pool may ever need, so `PoolBounded` can fail.  Two versions give
one update that overlaps every statement.  Three phases give one that is looked up,
one that adds rules to it, and one without conditions; rules 0 and 2 share a filter condition and all rules have actions in
several phases; three lookups allow a re-lookup of a re-lookup.

A pattern of three token sets has one for each end and one between; with one map on
each side a word is left, right or in the middle, and two long patterns put a shared
token between two `**`.  Paths of up to three tokens are shorter and longer than the
patterns.  Three rules make vectors that are equal, disjoint, nested, interleaved or
all of the phase; a second union meets the result of the first, a second module that
of the first module.  The indices of the rules have a gap, so they are not positions.

Six elements are what two rules need to share a condition in two modules and to
differ in phases: two `<Conditions>`, two modules' elements and a child in each.  One
more file or script than that would only repeat a step.

Two directives are what it takes to give both servers one, or one server two that
exclude each other; with a redirect or subrequest in a request, and an output filter in
an action, every nesting of two occurs, and the second action of a Lua state finds what
the first one left.  `RumMaxLookups` and the pool size are zero or negative, the
values that matter.  One thread is enough where what is shared between threads is
`LuaManager`'s.

The configurations of `request_data` have rules that share filter conditions in one
phase, rules with the same condition in two, several path conditions of which some
match by narrowing alone, unknown children, and an expression that does not compile.
Two lookups in each of three phases make first lookups, re-lookups and reads in a phase
without conditions.

Three objects are a container, an element and a bystander; their kinds are chosen so
that registered and unregistered containers, with and without a pool of their own, get
elements of both sorts.  Five records are a server, a connection with its address and
two requests that are each other's redirect, subrequest or main request.  The bound on
the sum (`MaxLoad`) lets any four things be there together and covers histories of any
length, because numbers of objects and records are used again.

No symmetry is used.  `CHECK_DEADLOCK` is switched off for TokenMatcher and ConfigBuild,
whose behaviours end with loading, for RequestData, which ends with the last phase, and
for Lifetimes, which ends with the configuration's pool.

### Fairness

`LuaManager!FairSpec` gives weak fairness to what a thread does once it has its
locks (the operating system schedules threads), strong fairness to obtaining a
lock (a mutex that is free again and again is got in the end), and none to the
requests: a `LuaRef` may be held forever.  It assumes nothing of the writer but
that it finishes the update it began.  `RuleEngine!FairSpec` is weak fairness
of the request's own thread; it includes that an action, a Lua script, returns.
`MatchedIdxs!FairSpec` is weak fairness of the thread in the lookup.  `Lifetimes!Spec` is
weak fairness of a destruction and of the loop of `outermost_request()` under way: a
call that has begun goes on, because nothing in it waits.

## 4. What is proved

`LuaManagerProofs`.  For any finite sets of LuaRefs and slots, any
initial vector size above zero and any number of updates: `TypeOK`, every safety
property that the runs check, and `Spec => ImplementsPool`.  The inductive
invariant `IInv` adds to the types: who is inside the free list owns its mutex
(`LockInv`); the index a thread took is the place its slot comes from or goes to,
and the vector's three counts are ordered (`IdxInv`); slot pointers are owned,
unless the owner is between two statements (`OwnInv`, `PlaceInv`); each slot's
version is the version of what it holds, unless its owner is loading it
(`DefnInv`).  None of the properties is inductive alone: exclusiveness depends on
the vector, the vector on the mutex, and versions on the read lock.
`NoCircularWait` is the part of the calls' liveness that a proof reaches: whoever holds a
lock waits for nothing (`HoldersGoOn`), though `acquire()` takes `poolMutex_` inside
`luaSlotFreeVecMutex_`.  It assumes at least as many slots as LuaRefs, which is a bound
of the model and not of the code.

`RuleEngineProofs`.  For every configuration and request: `TypeOK`,
`RulesInForce`, `MergedRulesCurrent`, `CapturesOfSelection`, `PassComplete` and
`AnswerOfLastPass`.  `IInv` says, during a lookup, which rules are already
decided and on which request (`RuleSetInv`, `FreshInv`, `DataInv`), that cached
matches are those of the lookup that made them (`MatchInv`), and that the matches
of rules in force are kept (`KeptInv`); `PassInv` and `AnswerInv` relate the
actions run to those still due.  It rests on `OnePhaseAssumption`, that a rule's
filter conditions were made for the rule's phase: `OnePhaseFilters` of `ConfigBuildProofs`
shows it of every rule that has its conditions in one phase, which is what the
documentation describes.

`HooksAdvance` is what the liveness of `engine` rests on, for any rules and any
`RumMaxLookups`: each step of the engine lowers a rank (the lookups left, the place in
`lookupAndRun()`, the modules, rules or actions still to do, and whether one is running),
and neither a running action nor a log statement raises it.  The sets in the rank are
finite because rules, their actions and modules are.  It needs `LookupsAreCounted`: without
it another lookup after the last one would lower nothing.

`TokenMatcherProofs`.  For any patterns, paths, numbers of maps and rules:
`TypeCorrect`, `Exactness` and `Loading`; `Soundness` for rules of at most one
pattern (`MaxPatterns = 1`; `match_two` shows why), and `VectorBounds` for no more
rules than twice the first allocation (`match_grow` shows why).  `LoadInv` says what
loading has put into the table and the requirements; from it, an assignment of
tokens to token sets places every stored word where a lookup looks for it, and
injects the stored words without position into the tokens that hit them, so the
count reaches `reqMatchAnyCt_`.

`MatchedIdxsProofs`.  For any rules, tables and numbers of modules and unions: `TypeOK`
and `MergesRight`; for tables whose vectors have no rule twice, `ImplementsNarrowing`.
`UnionInv` says of a union under way that what was pushed is what was taken from either
vector and lies below what is left; `CommonInv` says of an intersection that the rules are those kept in front, or still
to come in both vectors, and that what is kept does not overtake what is read.
`Before` and `Covers` read as strict order and equality for such tables and as weak
order and inclusion for others, so that one invariant serves both.
`AllBySize` is why counting rules may stand for having them all.

The refinement has one lemma for each kind of step.  It needs `NowInv`, that the
mapping computes the sets which the history variables `want` and `exact` remember, and
`LastInv`: a module's intersection begins only when its match-all rules have been united
with what it found.  `LookupsAdvance` and `RoundsHaveACase` are what the liveness of
`narrow_sets` rests on, for any tables, those with duplicates too: every step of a lookup
lowers a rank (the modules left, the place, the unions left, the elements still to read),
and of two vectors one always has the next element or both have.

`ConfigBuildProofs`.  For any phases, modules, conditions, elements and bounds, and so
for every configuration: `TypeOK` and all safety properties.  `ConditionsAsWritten`
rests on `BlobID` being injective on filter conditions, and so does `OnePhaseFilters`, with
`Stored` (a rule's conditions are for phases that its elements have): an equal
condition of another phase has another `BlobID`; `TablesFiltered` rests on a table
entry and its filter condition being made in one step.  The theorem `NoRuleLost` needs `Told` (a
module was told of a rule only for phases in the history) and `Known` (of every rule it
must know by now, where `narrowing` promises it for the element under way);
`SizeTellsMatchAll` needs `Told` and `Built`: match-all rules are among the phase's, so
equal sizes make equal sets.  Its hypothesis, one phase per rule, is what
`config_two_phases` shows to be needed.

`HooksProofs`.  For any servers, directives, hooks between `header_parser` and `fixups`,
threads, Lua states and depths of requests and calls: `TypeOK` and every property of the
run `hooks`, which has one thread and two of most things.  The assumptions are those the
modules declare: the main server is a server, values are integers, bounds are positive,
the hooks named follow one another.  `IInv` adds to the properties:

- `ServerInv`: when a server serves, `conf` is what the records ask for, and there is no
  request otherwise; so a request's `Config` does not change under it.
- `ThreadOK`, of each thread: all its requests but the one Apache is at wait in their
  handlers or for the end of their pool (`Shape`); all its calls are for the one Apache is
  at, and all but the innermost wait for output they flushed (`Nested`); the first hook
  makes the `ReqCtx` and so the later ones find it (`Fresh`); an answer that a call
  carries, delayed or not, came from an action (`Answered`).  `RequestOK` is what
  `CtxAsWritten` and `ActionsDecide` say of one request.
- `SandboxInv`: the `ActionCtx` that a Lua state knows is one of a call that runs a Lua
  action, of the request that holds the state.

`StatesReady` rests on `StatesOwned`: setting up a state for one action cannot take it
from another, since no other request holds it and this request's other calls have all
flushed output.  It is also why the proof needs `Nested`.  `StatesOwned` is preserved
when a pool goes because the requests in it are the last of the chain.

`RequestDataProofs`.  For any configuration, requests, phases, number of lookups and what
regular expressions and tokenizers may find: `TypeCorrect`, `RulesFoundAsWritten`,
`CapturesFoundAsWritten` and `CachesOfTheRequest`, the four properties of the run.  The
assumptions are those `RequestData` declares: requests, children and configurations have
the shape the loader gives them, the four modules come in some order, the cached value
`NotCached` is no value.  None of the properties is inductive: what a lookup finds depends
on the caches it starts from, and what a script reads on the request at that time.
`IInv` adds that nothing is in force or cached before the first lookup (`AtFirst`), that a
cache that is filled was filled from the request as it is now (`CachesHold`), and that the
matches kept are those that the filter conditions of the rules in force have on the request
of their lookup (`MatchesOf`).  A lookup is one step, so its proof is about operators:
`ChildSays` is that the filter conditions and table entries a child adds, together, match
what the child says; `RuleSays` carries it from the children to the rule, with
`NarrowingKeeps` (the tables lose no rule that matches) and `NarrowingFinds` (what only the
tables test, they test); `LookupFinds` does so for all rules.  The filter conditions of a
rule are the `FlattenSeq` of those of its children; a fold is a recursion, and what the proof
needs to know of it (`FlattenRange`, `FlattenPaired`) is shown by an induction over the set of
lengths for which it holds, `SetInduction`, which needs no operator as parameter.

`LifetimesProofs`.  For any numbers of objects, records, strings and entries, any kinds of
objects and any scripts: `TypesAndPointers`, `DestructedOnceAndInTime`, `NothingIsLeft`,
`StringsAreLive` and `TablesReadAlike`, all state properties of `lifetimes`.  The assumptions are those the
modules declare: bounds are natural numbers and there is a record for the server, `None` is
none of the things it stands for the absence of, and scripts write texts.  None of the
properties is inductive, because a destruction may be anywhere in its call stack when they
are asked; `IInv` says of the stack, the pools and the objects (`Sound`):

- the pools are a tree (`Tree`), an object is in its pool or in its own below that one, and
  its strings in that pool or above (`AllPlaced`), and containers do not own each other in a
  circle (`Acyclic`);
- a cleanup is that of an object that exists, and a registered object has one unless it is
  being deleted (`CleanupsSound`); an object in a container is registered with no pool, is in
  no other container, and is either untouched or already due to be deleted (`OwnersSound`);
- of two calls on the stack, which may wait for which (`MayStand`): the upper one is not for
  a pool that the lower one still needs, nor for an object whose end would take that pool
  with it, and of the calls of one object only the loop of `clear` is above the destructor.
  This is what keeps what a destructor destroys away from what its callers will still touch;
- why a call is there (`CallsSound`): a pool is destroyed for an object that is gone, for a
  `TmpPool` being destructed, for its parent that has run its cleanups, or as one that
  belongs to Apache (`HasReason`).  An object that something is to delete is due, registered
  or in a container; once the cleanups of its pool are over it is a plain one that is due, or
  that a container in a pool below owns (`ManagedSound`); and each pool has an owner or is going (`PoolsOwned`).

`RecordsSound` adds that a record, and what its fields point to, is in a pool that lives at
least as long, with a connection above each request; it is why `getPool()` puts a string
where it stays.  Between destructions `Sound` reduces to `IdleSound`, which is what the steps
that make objects preserve.  The steps of a destruction have one lemma each
(`DeleteStep`, `DtorStep`, `ClearStep`, and those for a pool: `CleanupTurn`, `ChildTurn`, `FreeTurn`).
They work on operators with the old and new values as parameters, so that each part of the
invariant is followed through a step on its own.  Lists lose one element at a time, so APR's
unlinking is `Unlink`, and tables are built by `Those`, from sets of their places: what the
proof needs of either follows from `UnlinkSeq` and the lemmas about `FlattenSeq`.

`TablesReadAlike` compares what the reads of a table compute, folds over tables of any
length.  The folds are recursive functions; what is needed of them (a key that is in the
table is reached, joined values are told apart nowhere) is shown by induction over the
set of lengths for which it holds, `SetInduction` and `BoundInduction`, and is then a fact
about any table, so that only the tables' types are left to the invariant.

Only model-checked: liveness (`CallsReturn`, `CallReturns`, `LookupEnds`, `CallsEnd`),
which TLAPS does not reach.  For `CallReturns` and `LookupEnds` the rank that their
argument needs is proved to fall, and for `CallsReturn` that no holder of a lock waits, as
said above.

## 5. What is not modelled

What Lua scripts compute, what regular expressions and tokenizers find, logging and
text.  `rumtest.C` drives a `Config` from the command line, one request at a time; its
stubs and `util_pcre.C` stand in for Apache.  `StrBuffer` and the loggers format text and
keep nothing that outlives a call.  Of the Lua bindings the numbers, the read-only
calls into Apache, and fields of type table set to another table are left out.
`registerPrepEnvCB()` runs at start-up on one thread before any request.  An object on
the stack has no pool of its own to go wrong with.  `PROJECT.json` lists each component
with its status.

What is left open on purpose: a pointer, table or string that a script keeps beyond the
life of its owner (`c.notes = r.notes`, a userdata in a Lua global) dangles; nothing in
the code prevents it, and `setPtr` stores only records that live long enough.

`tableMgetCB()` is said to "skip leading and trailing whitespace" (`LuaTable.C:439`), but
looks for trailing blanks from the comma on and so skips none; `Cooked` has it as it is.

`rum.core.last_action` and `rum.core.relookup` are no state of a model, because nothing
depends on them: `rum.core` still takes both, and `examples/rumconf.xml` sets them
(lines 597 and 616) to end a pass or to look up again, but `LuaAction::run()` no longer
asks for them (`LuaAction.C:291`) and only the value a script returns counts.

## 6. Plan

1. LuaPool, LuaManager, RuleEngine, TokenMatcher, MatchedIdxs, ConfigBuild, each with
   proofs (done).
2. ServerConfig, LuaAction, Hooks; Conditions, RequestData; Pools, LuaTable,
   LuaRecords, Lifetimes, with proofs (done).
3. Composition: that `MatchedIdxs` implements the narrowing by sets, which
   `RuleEngine` writes as one step for each module and `RequestData` as one operator, and that the rules which `ConfigBuild` builds satisfy
   `OnePhaseAssumption` (done).  Left: one specification in which the tables `ConfigBuild`
   builds are those that `RuleEngine` looks up.  `RequestData` has both at the level of
   what conditions mean, `NoRuleLost` and `NoRuleTooMany`.
