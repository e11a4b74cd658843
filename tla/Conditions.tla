------------------------------ MODULE Conditions ------------------------------
(***************************************************************************)
(* The four condition modules (Core, Path, QueryArg, Request) and their    *)
(* filter conditions: what each makes of the children of its element in    *)
(* <Conditions>, how it narrows the rules of a phase, and what its filter  *)
(* conditions match.                                                       *)
(*                                                                         *)
(* A configuration is a sequence of rules, numbered from 1.  A rule has a  *)
(* phase and the elements of its <Conditions>, an element its module and   *)
(* its children.  A path pattern and a regular expression are what they    *)
(* match: TokenMatcher.tla has procPattern() and lookup() themselves.      *)
(***************************************************************************)
EXTENDS Integers, Sequences, FiniteSets, SequencesExt

CONSTANTS
  DecodeOf,    \* rum_uri_decode(): the text of each spelling
  NoVal,       \* no '=': a NULL value, or an invalid <NameVal>
  NoArgs,      \* r->args is NULL
  Tokens,      \* PathCondModule::tokenize(): the tokens of each URI
  SlashURIs,   \* the URIs that end in '/'
  EmptyURIs,   \* "" alone
  Narrows,     \* the token sequences TokenMatcher::lookup() finds a pattern for
  MatchAll,    \* the patterns for which procPattern() answers *matchAll
  RegExOf,     \* the expression procPattern() gives for a pattern, or NoRegEx
  NoRegEx,
  SlashEnd,    \* the patterns that end in '/'
  Invalid,     \* the expressions ap_regcomp() refuses
  Parens,      \* the '(' in each expression
  Exec,        \* ap_regexec(): the groups an expression finds, by URI it matches
  Unset,       \* a group that took no part
  Empty        \* ""

Modules == {"Core", "Path", "QueryArg", "Request"}

(* One child of a module's element.  opt is trailingSlashOptional of a     *)
(* <Pattern>, the value of a <NameVal>, and nothing of the others.         *)
Child(elem, arg, opt) == [elem |-> elem, arg |-> arg, opt |-> opt]

-----------------------------------------------------------------------------
(* The filter conditions.  Two are the same if their blobID()s are: the    *)
(* phase, the module, and the name of the class with its parameters.       *)

Filter(class, phase, arg, val) == [class |-> class, phase |-> phase, arg |-> arg, val |-> val]

CoreServerNameFiltCond(p, serverName)  == Filter("CoreServerName", p, serverName, NoVal)
RequestSubreqFiltCond(p, isSubreq)     == Filter("RequestSubreq", p, isSubreq, NoVal)
RequestIntRedirFiltCond(p, isIntRedir) == Filter("RequestIntRedir", p, isIntRedir, NoVal)
QueryArgNameFiltCond(p, name)          == Filter("QueryArgName", p, name, NoVal)
QueryArgNameValFiltCond(p, name, val)  == Filter("QueryArgNameVal", p, name, val)
PathSlashFiltCond(p, hasTrailSlash)    == Filter("PathSlash", p, hasTrailSlash, NoVal)
PathMatchedFiltCond(p)                 == Filter("PathMatched", p, NoVal, NoVal)
PathRegExFiltCond(p, regEx)            == Filter("PathRegEx", p, regEx, NoVal)

(* parseXMLCond() of each module: the filter conditions of a child. *)

CoreFilters(c, p) ==
  IF c.elem = "ServerName" THEN <<CoreServerNameFiltCond(p, c.arg)>> ELSE <<>>

RequestFilters(c, p) ==
  CASE c.elem = "IsSubrequest"        -> <<RequestSubreqFiltCond(p, TRUE)>>
    [] c.elem = "NotSubrequest"       -> <<RequestSubreqFiltCond(p, FALSE)>>
    [] c.elem = "IsInternalRedirect"  -> <<RequestIntRedirFiltCond(p, TRUE)>>
    [] c.elem = "NotInternalRedirect" -> <<RequestIntRedirFiltCond(p, FALSE)>>
    [] OTHER -> <<>>

QueryArgFilters(c, p) ==
  CASE c.elem = "Name" -> <<QueryArgNameFiltCond(p, c.arg)>>
    [] c.elem = "NameVal" /\ c.opt # NoVal -> <<QueryArgNameValFiltCond(p, c.arg, c.opt)>>
    [] OTHER -> <<>>

PathFilters(c, p) ==
  CASE c.elem = "RegEx" -> <<PathRegExFiltCond(p, c.arg)>>
    [] c.elem = "Pattern" ->
         <<IF RegExOf[c.arg] # NoRegEx THEN PathRegExFiltCond(p, RegExOf[c.arg])
           ELSE PathMatchedFiltCond(p)>>
         \o (IF c.opt THEN <<>> ELSE <<PathSlashFiltCond(p, c.arg \in SlashEnd)>>)
    [] OTHER -> <<>>

ChildFilters(m, c, p) ==
  CASE m = "Core"     -> CoreFilters(c, p)
    [] m = "Path"     -> PathFilters(c, p)
    [] m = "QueryArg" -> QueryArgFilters(c, p)
    [] m = "Request"  -> RequestFilters(c, p)

ElementFilters(e, p) ==
  FlattenSeq([k \in DOMAIN e.children |-> ChildFilters(e.module, e.children[k], p)])

(* filtCondIdxs of a rule *)
Filters(rule) ==
  FlattenSeq([k \in DOMAIN rule.conds |-> ElementFilters(rule.conds[k], rule.phase)])

-----------------------------------------------------------------------------
(* The narrowing tables of the modules *)

ChildrenOf(rule, m) ==
  UNION {Range(rule.conds[k].children) : k \in {j \in DOMAIN rule.conds : rule.conds[j].module = m}}

(* The children that storeQueryArgName() is called for. *)
NarrowingName(c) == c.elem = "Name" \/ (c.elem = "NameVal" /\ c.opt # NoVal)

PhaseRules(conf, p) == {r \in DOMAIN conf : conf[r].phase = p}

(* queryArgNameRulesMapVec_[p] at a name *)
ArgNameRules(conf, p, n) ==
  {r \in PhaseRules(conf, p) :
    \E c \in ChildrenOf(conf[r], "QueryArg") : NarrowingName(c) /\ c.arg = n}

(* tokenMatcherVec_[p]->lookup() *)
TokenRules(conf, p, toks) ==
  {r \in PhaseRules(conf, p) :
    \E c \in ChildrenOf(conf[r], "Path") : c.elem = "Pattern" /\ toks \in Narrows[c.arg]}

(* An element for which its module calls matchAllReqs(). *)
MatchesAll(e) ==
  CASE e.module = "Path" ->
         LET pats == {k \in DOMAIN e.children : e.children[k].elem = "Pattern"}
         IN  pats = {} \/ \E k \in pats : e.children[k].arg \in MatchAll
    [] e.module = "QueryArg" -> \A k \in DOMAIN e.children : ~NarrowingName(e.children[k])
    [] OTHER -> TRUE

(* matchAllRuleIdxsVec_[p].  Config makes the modules a rule leaves out    *)
(* match all requests.                                                     *)
MatchAllRules(conf, m, p) ==
  {r \in PhaseRules(conf, p) :
    LET es == {k \in DOMAIN conf[r].conds : conf[r].conds[k].module = m}
    IN  es = {} \/ \E k \in es : MatchesAll(conf[r].conds[k])}

-----------------------------------------------------------------------------
(* The data of a request.  args is the sequence of what apr_strtok() finds *)
(* between the '&' before a '#': a name and a value as they are spelled.   *)

ArgsOf(q) == IF q.args = NoArgs THEN <<>> ELSE q.args

ValueOf(v, raw) == IF raw \/ v = NoVal THEN v ELSE DecodeOf[v]

(* What a vector gets of one argument: its value, if the name is n.        *)
PushedFor(n, a, raw) == IF DecodeOf[a.name] = n THEN <<ValueOf(a.val, raw)>> ELSE <<>>

(* QueryArgReqData::parse(): the map it fills.  A name is always decoded.  *)
Parse(q, raw) ==
  LET A == ArgsOf(q)
  IN  [n \in {DecodeOf[A[k].name] : k \in DOMAIN A} |->
        FlattenSeq([k \in DOMAIN A |-> PushedFor(n, A[k], raw)])]

-----------------------------------------------------------------------------
(* FiltCond::match() of each class, with the tokens and the decoded        *)
(* arguments as the request's data caches have them.                       *)

HasCaptures(f) == f.class \in {"PathRegEx", "PathMatched"}

MatchServerName(f, q) == q.host = f.arg  \* no host name is no name
MatchSubreq(f, q)     == q.isSub = f.arg
MatchIntRedir(f, q)   == q.isRedir = f.arg
MatchName(f, vals)    == f.arg \in DOMAIN vals
MatchNameVal(f, vals) == f.arg \in DOMAIN vals /\ f.val \in Range(vals[f.arg])
MatchSlash(f, q)      == q.uri \notin EmptyURIs /\ (q.uri \in SlashURIs) = f.arg

(* RegEx::match(): an expression that did not compile matches nothing. *)
MatchRegEx(x, u) == x \notin Invalid /\ u \in DOMAIN Exec[x]

(* RegEx::MatchData: as many captures as the expression has '(', counted   *)
(* as characters; "" for a group that took no part or is none.             *)
MatchData(x, u) ==
  [k \in 1 .. Parens[x] |->
    IF k \in DOMAIN Exec[x][u] /\ Exec[x][u][k] # Unset THEN Exec[x][u][k] ELSE Empty]

Matches(f, q, vals) ==
  CASE f.class = "CoreServerName"  -> MatchServerName(f, q)
    [] f.class = "RequestSubreq"   -> MatchSubreq(f, q)
    [] f.class = "RequestIntRedir" -> MatchIntRedir(f, q)
    [] f.class = "QueryArgName"    -> MatchName(f, vals)
    [] f.class = "QueryArgNameVal" -> MatchNameVal(f, vals)
    [] f.class = "PathSlash"       -> MatchSlash(f, q)
    [] f.class = "PathMatched"     -> TRUE
    [] f.class = "PathRegEx"       -> MatchRegEx(f.arg, q.uri)

(* The FiltCondMatch of a result: a copy of the captures. *)
PathMatchedFiltCondMatch(toks) == [holds |-> TRUE, captures |-> toks]
PathRegExFiltCondMatch(x, u) ==
  [holds |-> MatchRegEx(x, u), captures |-> IF MatchRegEx(x, u) THEN MatchData(x, u) ELSE <<>>]
FiltCondMatch(holds) == [holds |-> holds, captures |-> <<>>]

Match(f, q, toks, vals) ==
  CASE f.class = "PathMatched" -> PathMatchedFiltCondMatch(toks)
    [] f.class = "PathRegEx"   -> PathRegExFiltCondMatch(f.arg, q.uri)
    [] OTHER                   -> FiltCondMatch(Matches(f, q, vals))

-----------------------------------------------------------------------------
(* What a well-formed request, rule and configuration are.                 *)

IsSequence(s) == s \in Seq(Range(s))

(* The text that stands for no value is not the text of any value. *)
IsArgs(a) ==
  a # NoArgs => IsSequence(a) /\ \A k \in DOMAIN a : a[k].val # NoVal => DecodeOf[a[k].val] # NoVal

IsRequest(q) ==
  /\ q = [uri |-> q.uri, args |-> q.args, host |-> q.host, isSub |-> q.isSub, isRedir |-> q.isRedir]
  /\ q.uri \in DOMAIN Tokens
  /\ IsArgs(q.args)
  /\ q.isSub \in BOOLEAN /\ q.isRedir \in BOOLEAN

IsElement(e) ==
  /\ e.module \in Modules
  /\ IsSequence(e.children)
  /\ \A k \in DOMAIN e.children : e.children[k].elem = "Pattern" => e.children[k].opt \in BOOLEAN

IsConfig(c) ==
  /\ IsSequence(c)
  /\ \A r \in DOMAIN c : IsSequence(c[r].conds) /\ \A k \in DOMAIN c[r].conds : IsElement(c[r].conds[k])

=============================================================================
