----------------------------- MODULE RequestData ------------------------------
(***************************************************************************)
(* What a request's scripts see of it while the rules change it: the       *)
(* conditions of Conditions.tla looked up phase by phase, the data caches  *)
(* (PathReqData, QueryArgReqData) that lookups and scripts share, and the  *)
(* matches of filter conditions, whose captures scripts read later.        *)
(*                                                                         *)
(* A lookup is Config::lookupRules(), one step: it calls nothing that runs *)
(* a script.  RuleEngine.tla has the order of lookups and actions and the  *)
(* vectors of the rules in force; here selected[p] is what the last lookup *)
(* of phase p found, which RuleEngine's RulesInForce is about.             *)
(***************************************************************************)
EXTENDS Conditions

CONSTANTS
  Configs,      \* the configurations considered
  NumPhases,
  MaxLookups,   \* lookups in a phase
  Requests,     \* what a request can look like when the hooks get it
  URIs, ArgSeqs,  \* what a script assigns to rum.request.uri and .args
  ModuleOrder,  \* the order of condModulesMap_, an apr_hash
  NotCached

ASSUME LookupsAssumption == NumPhases \in Nat \ {0} /\ MaxLookups \in Nat

(* Hooks and scripts leave the request well-formed, and the configuration  *)
(* is one that Config::configure() has read.                               *)
ASSUME RequestsAssumption ==
  /\ \A q \in Requests : IsRequest(q)
  /\ URIs \subseteq DOMAIN Tokens
  /\ \A a \in ArgSeqs : IsArgs(a)
ASSUME ConfigsAssumption == \A c \in Configs : IsConfig(c)
ASSUME ModuleOrderAssumption == IsSequence(ModuleOrder) /\ Range(ModuleOrder) = Modules

(* NULL is not a vector of values. *)
ASSUME NotCachedAssumption ==
  \A q \in Requests : \A a \in ArgSeqs \cup {q.args} : \A raw \in BOOLEAN :
    NotCached \notin Range(Parse([q EXCEPT !.args = a], raw))

Phases == 0 .. NumPhases - 1

VARIABLES
  conf,      \* rules_
  req,       \* the request_rec
  phase,     \* the phase of the last call
  lookups,   \* lookups done in it
  firstLookup,
  matches,   \* filtCondMatches_, by filter condition
  pathTokens,  \* PathReqData: its tokens, or NotCached
  argVals,   \* QueryArgReqData: queryArgValVecMap_, or NotCached
  rawVals,   \* and queryArgRawValVecMap_
  selected,  \* the rules found by the last lookup of each phase
  seen,      \* history: the request of that lookup
  uriKept,   \* history: the URI is the same since the caches were emptied
  argsKept   \* history: and the arguments

cacheVars == <<pathTokens, argVals, rawVals>>
histVars  == <<seen, uriKept, argsKept>>
vars == <<conf, req, phase, lookups, firstLookup, matches, cacheVars, selected, histVars>>

NoMatches == [f \in {} |-> <<>>]

Init ==
  /\ conf \in Configs
  /\ req \in Requests
  /\ phase = 0
  /\ lookups = 0
  /\ firstLookup = TRUE
  /\ matches = NoMatches
  /\ pathTokens = NotCached
  /\ argVals = NotCached
  /\ rawVals = NotCached
  /\ selected = [p \in Phases |-> {}]
  /\ seen = [p \in Phases |-> req]
  /\ uriKept = TRUE
  /\ argsKept = TRUE

-----------------------------------------------------------------------------
(* The data caches: filled when first asked for *)

PathTokens == IF pathTokens = NotCached THEN Tokens[req.uri] ELSE pathTokens
ArgVals    == IF argVals = NotCached THEN Parse(req, FALSE) ELSE argVals
RawVals    == IF rawVals = NotCached THEN Parse(req, TRUE) ELSE rawVals

(* queryArgAnyValVecMap() *)
AnyVals == IF rawVals # NotCached THEN RawVals ELSE ArgVals

-----------------------------------------------------------------------------
(* Config::lookupRules() *)

(* Bug: what a filter condition matched before stays. *)
MatchesLeftAll(p) == matches

(* resetForLookup(): the matches it leaves *)
MatchesLeft(p) ==
  IF firstLookup THEN matches
  ELSE [f \in {g \in DOMAIN matches : g.phase # p} |-> matches[f]]

(* CondModule::lookup() of a module with the caches empty or of this request *)
Lookup2(m, p, toks, vals) ==
  CASE m = "Path"     -> TokenRules(conf, p, toks)
    [] m = "QueryArg" -> UNION {ArgNameRules(conf, p, n) : n \in DOMAIN vals}
    [] OTHER -> {}

AllMatch(m, p) ==
  Cardinality(MatchAllRules(conf, m, p)) >= Cardinality(PhaseRules(conf, p))

Lookup(m, p, toks, vals) ==
  IF AllMatch(m, p) THEN PhaseRules(conf, p)
  ELSE Lookup2(m, p, toks, vals) \cup MatchAllRules(conf, m, p)

(* The rules left when the first n modules have been asked. *)
NarrowedBy(n, p, toks, vals) ==
  {r \in PhaseRules(conf, p) : \A k \in 1 .. n : r \in Lookup(ModuleOrder[k], p, toks, vals)}

(* The modules asked: none after no rule is left. *)
Asked(p, toks, vals) ==
  {ModuleOrder[k] : k \in {j \in DOMAIN ModuleOrder : NarrowedBy(j - 1, p, toks, vals) # {} \/ j = 1}}

(* The filter conditions of a rule that are tried, given those that hold:  *)
(* up to the first that does not.                                          *)
Tried(r, holding) ==
  LET F == Filters(conf[r])
  IN  {F[k] : k \in {j \in DOMAIN F : \A i \in 1 .. j - 1 : F[i] \in holding}}

(* PathReqData::reset(), QueryArgReqData::reset() *)
EmptyTokens == NotCached
EmptyArgs   == NotCached

LookupRules(p) ==
  /\ PhaseRules(conf, p) # {}
  /\ LET toks0 == IF firstLookup THEN pathTokens ELSE EmptyTokens
         vals0 == IF firstLookup THEN argVals ELSE EmptyArgs
         toks  == IF toks0 = NotCached THEN Tokens[req.uri] ELSE toks0
         vals  == IF vals0 = NotCached THEN Parse(req, FALSE) ELSE vals0
         kept  == MatchesLeft(p)
         Holds(f) == IF f \in DOMAIN kept THEN kept[f].holds ELSE Matches(f, req, vals)
         holding == {f \in UNION {Range(Filters(conf[r])) : r \in PhaseRules(conf, p)} : Holds(f)}
         asked == {m \in Asked(p, toks, vals) : ~AllMatch(m, p)}
         narr  == NarrowedBy(Len(ModuleOrder), p, toks, vals)
         fresh == (UNION {Tried(r, holding) : r \in narr}) \ DOMAIN kept
     IN  /\ selected' = [selected EXCEPT ![p] =
                           {r \in narr : Range(Filters(conf[r])) \subseteq holding}]
         /\ matches' = [f \in DOMAIN kept \cup fresh |->
                          IF f \in DOMAIN kept THEN kept[f] ELSE Match(f, req, toks, vals)]
         /\ pathTokens' = IF "Path" \in asked \/ \E f \in fresh : f.class = "PathMatched"
                          THEN toks ELSE toks0
         /\ argVals' = IF \/ "QueryArg" \in asked
                          \/ \E f \in fresh : f.class \in {"QueryArgName", "QueryArgNameVal"}
                       THEN vals ELSE vals0
         /\ rawVals' = IF firstLookup THEN rawVals ELSE EmptyArgs
  /\ firstLookup' = FALSE
  /\ seen' = [seen EXCEPT ![p] = req]
  /\ uriKept' = TRUE
  /\ argsKept' = TRUE

(* A phase without conditions: not even the caches are emptied. *)
LookupNothing(p) ==
  /\ PhaseRules(conf, p) = {}
  /\ UNCHANGED <<firstLookup, matches, cacheVars, selected, histVars>>

(* Bug: a phase past the last. *)
EnterPhasePastLast ==
  /\ lookups > 0
  /\ phase \in Phases
  /\ phase' = phase + 1
  /\ lookups' = 1
  /\ LookupRules(phase + 1) \/ LookupNothing(phase + 1)
  /\ UNCHANGED <<conf, req>>

(* lookupAndRun() of the next phase, or its loop after a relookup *)
EnterPhase ==
  /\ lookups > 0
  /\ phase + 1 \in Phases
  /\ phase' = phase + 1
  /\ lookups' = 1
  /\ LookupRules(phase + 1) \/ LookupNothing(phase + 1)
  /\ UNCHANGED <<conf, req>>

InForce == UNION {selected[p] : p \in Phases}

LookupAgain ==
  /\ lookups < MaxLookups
  /\ lookups = 0 \/ InForce # {}
  /\ lookups' = lookups + 1
  /\ LookupRules(phase) \/ LookupNothing(phase)
  /\ UNCHANGED <<conf, req, phase>>

-----------------------------------------------------------------------------
(* What the script of a rule in force does *)

Running == lookups > 0 /\ InForce # {}

ruleVars == <<conf, phase, lookups, firstLookup, matches, selected, seen>>

(* rum.request.uri = u, rum.request.args = a *)
SetURI(u) ==
  /\ Running
  /\ req' = [req EXCEPT !.uri = u]
  /\ uriKept' = (uriKept /\ u = req.uri)
  /\ UNCHANGED <<ruleVars, cacheVars, argsKept>>

SetArgs(a) ==
  /\ Running
  /\ req' = [req EXCEPT !.args = a]
  /\ argsKept' = (argsKept /\ a = req.args)
  /\ UNCHANGED <<ruleVars, cacheVars, uriKept>>

(* Bug: the raw values stay. *)
QueryArgResetDecoded ==
  /\ Running
  /\ argVals' = NotCached
  /\ argsKept' = TRUE
  /\ UNCHANGED <<ruleVars, req, pathTokens, rawVals, uriKept>>

(* rum.queryarg.reset() *)
QueryArgReset ==
  /\ Running
  /\ argVals' = NotCached
  /\ rawVals' = NotCached
  /\ argsKept' = TRUE
  /\ UNCHANGED <<ruleVars, req, pathTokens, uriKept>>

(* rum.queryarg.get(n) and mget(n): what they return, and what they cache  *)
Get(n)  == IF n \in DOMAIN ArgVals THEN ArgVals[n][1] ELSE NotCached
MGet(n) == IF n \in DOMAIN ArgVals THEN ArgVals[n] ELSE NotCached
ReadArgs ==
  /\ Running
  /\ argVals' = ArgVals
  /\ UNCHANGED <<ruleVars, req, pathTokens, rawVals, uriKept, argsKept>>

(* raw_get(n) and raw_mget(n) *)
RawGet(n)  == IF n \in DOMAIN RawVals THEN RawVals[n][1] ELSE NotCached
RawMGet(n) == IF n \in DOMAIN RawVals THEN RawVals[n] ELSE NotCached
ReadRawArgs ==
  /\ Running
  /\ rawVals' = RawVals
  /\ UNCHANGED <<ruleVars, req, pathTokens, argVals, uriKept, argsKept>>

(* keys() *)
Keys == DOMAIN AnyVals
ReadKeys ==
  /\ Running
  /\ argVals' = IF rawVals # NotCached THEN argVals ELSE ArgVals
  /\ UNCHANGED <<ruleVars, req, pathTokens, rawVals, uriKept, argsKept>>

(* rum.path.tokens[i] and #rum.path.tokens *)
ReadTokens ==
  /\ Running
  /\ pathTokens' = PathTokens
  /\ UNCHANGED <<ruleVars, req, argVals, rawVals, uriKept, argsKept>>

(* Those of a sequence of filter conditions that captures() counts *)
Capturing(F) == FlattenSeq([k \in DOMAIN F |-> IF HasCaptures(F[k]) THEN <<F[k]>> ELSE <<>>])

(* Bug: the filter for the slash counts too. *)
CaptureFiltersAll(r) ==
  LET F == Filters(conf[r])
  IN  FlattenSeq([k \in DOMAIN F |->
        IF HasCaptures(F[k]) \/ F[k].class = "PathSlash" THEN <<F[k]>> ELSE <<>>])

CaptureFilters(r) == Capturing(Filters(conf[r]))

(* #rum.path.mcaptures and rum.path.mcaptures[k] in an action of rule r;   *)
(* rum.path.captures is the first of them.                                 *)
MCapturesLen(r) == Len(CaptureFilters(r))
MCaptures(r, k) ==
  IF k \in DOMAIN CaptureFilters(r) /\ CaptureFilters(r)[k] \in DOMAIN matches
  THEN matches[CaptureFilters(r)[k]].captures
  ELSE NotCached

Next ==
  \/ EnterPhase
  \/ LookupAgain
  \/ \E u \in URIs : SetURI(u)
  \/ \E a \in ArgSeqs : SetArgs(a)
  \/ QueryArgReset
  \/ ReadArgs
  \/ ReadRawArgs
  \/ ReadKeys
  \/ ReadTokens

Spec == Init /\ [][Next]_vars

-----------------------------------------------------------------------------
(* Properties *)

(* Each variable has its type; what is cached belongs to one request. *)
TypeOK ==
  /\ conf \in Configs
  /\ phase \in Phases
  /\ lookups \in 0 .. MaxLookups
  /\ pathTokens \in {NotCached} \cup {Tokens[u] : u \in DOMAIN Tokens}
  /\ \A p \in Phases : selected[p] \subseteq PhaseRules(conf, p)
  /\ \A f \in DOMAIN matches : matches[f].holds \in BOOLEAN
  /\ firstLookup => matches = NoMatches /\ InForce = {}

(* What a child of a module's element says of a request, as a reader of    *)
(* the XML takes it.  What a module does not recognize says nothing.       *)
Says(m, c, q) ==
  LET args  == Range(ArgsOf(q))
      child == <<m, c.elem>>
  IN  CASE child = <<"Core", "ServerName">> -> q.host = c.arg
        [] child = <<"Request", "IsSubrequest">> -> q.isSub
        [] child = <<"Request", "NotSubrequest">> -> ~q.isSub
        [] child = <<"Request", "IsInternalRedirect">> -> q.isRedir
        [] child = <<"Request", "NotInternalRedirect">> -> ~q.isRedir
        [] child = <<"QueryArg", "Name">> -> \E a \in args : DecodeOf[a.name] = c.arg
        [] child = <<"QueryArg", "NameVal">> ->
             c.opt # NoVal =>
               \E a \in args : DecodeOf[a.name] = c.arg /\ a.val # NoVal /\ DecodeOf[a.val] = c.opt
        [] child = <<"Path", "RegEx">> -> MatchRegEx(c.arg, q.uri)
        [] child = <<"Path", "Pattern">> ->
             /\ c.arg \in MatchAll \/ Tokens[q.uri] \in Narrows[c.arg]
             /\ RegExOf[c.arg] # NoRegEx => MatchRegEx(RegExOf[c.arg], q.uri)
             /\ ~c.opt => q.uri \notin EmptyURIs /\ (q.uri \in SlashURIs <=> c.arg \in SlashEnd)
        [] OTHER -> TRUE

AllSay(rule, q) == \A m \in Modules : \A c \in ChildrenOf(rule, m) : Says(m, c, q)

(* A rule of which every condition holds of the request is found: neither  *)
(* the narrowing tables nor the shared, cached matches of another rule     *)
(* lose it (CondModule::lookup() and Config::lookupRules()).               *)
NoRuleLost ==
  \A p \in Phases : lookups > 0 /\ p <= phase =>
    \A r \in PhaseRules(conf, p) : AllSay(conf[r], seen[p]) => r \in selected[p]

OnePattern(rule) ==
  /\ Cardinality({k \in DOMAIN rule.conds : rule.conds[k].module = "Path"}) <= 1
  /\ Cardinality({c \in ChildrenOf(rule, "Path") : c.elem = "Pattern"}) <= 1

(* And each condition of a rule that is found holds of the request it was  *)
(* looked up with, for rules with no more than one <Pattern> and one       *)
(* <Path>.  (Of several plain patterns the narrowing asks for any one, and *)
(* for none if another <Path> of the rule has no pattern.)                 *)
NoRuleTooMany ==
  \A p \in Phases : \A r \in selected[p] :
    OnePattern(conf[r]) => AllSay(conf[r], seen[p])

(* The rules found are those whose conditions hold.                        *)
RulesAsWritten == NoRuleLost /\ NoRuleTooMany

(* The <Pattern>s and <RegEx>s of a rule, in the order they are written. *)
IsPathCond(c) == c.elem \in {"Pattern", "RegEx"}
PathCondsOf(e) ==
  FlattenSeq([j \in DOMAIN e.children |->
    IF e.module = "Path" /\ IsPathCond(e.children[j]) THEN <<e.children[j]>> ELSE <<>>])
PathConds(r) == FlattenSeq([k \in DOMAIN conf[r].conds |-> PathCondsOf(conf[r].conds[k])])

WrittenCaptures(c, q) ==
  CASE c.elem = "RegEx" -> MatchData(c.arg, q.uri)
    [] c.elem = "Pattern" /\ RegExOf[c.arg] # NoRegEx -> MatchData(RegExOf[c.arg], q.uri)
    [] c.elem = "Pattern" /\ RegExOf[c.arg] = NoRegEx -> Tokens[q.uri]

(* rum.path.mcaptures[k] is what the k-th path condition of the rule, as   *)
(* written, captured of the URI the rule was looked up with, in its own    *)
(* phase and in later ones, however often the URI was changed since and    *)
(* whichever other rule shares the filter condition.                       *)
CapturesAsWritten ==
  \A p \in Phases : \A r \in selected[p] :
    /\ MCapturesLen(r) = Len(PathConds(r))
    /\ \A k \in DOMAIN PathConds(r) :
         MCaptures(r, k) = WrittenCaptures(PathConds(r)[k], seen[p])

(* While the arguments are as they were when the caches were last emptied, *)
(* the four calls agree with them and with keys(): examples/rumconf.xml    *)
(* walks keys() and then ipairs(raw_mget(v)), which fails for nil.         *)
ArgsAgree ==
  argsKept =>
    /\ ArgVals = Parse(req, FALSE)
    /\ RawVals = Parse(req, TRUE)
    /\ \A n \in Keys :
         /\ MGet(n) # NotCached /\ RawMGet(n) # NotCached
         /\ Len(MGet(n)) = Len(RawMGet(n))
         /\ (Get(n) = NoVal <=> RawGet(n) = NoVal)

(* Likewise rum.path.tokens are those of the URI, which trailing_slash()   *)
(* looks at itself; a phase without conditions does not change that.       *)
TokensAgree == uriKept => PathTokens = Tokens[req.uri]

(* The caches hold what the request says, as far as they can know.         *)
CachesAgree == ArgsAgree /\ TokensAgree

=============================================================================
