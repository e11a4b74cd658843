---------------------------- MODULE MCRequestData -----------------------------
(***************************************************************************)
(* Instances of RequestData.tla.  The URIs are /a, /a/, /a/b and "".       *)
(***************************************************************************)
EXTENDS RequestData, TLC

CONSTANTS ua, uas, uab, ue,     \* URIs
          na, ea, nb,           \* names a, %61 and b
          v1, e1,               \* values 1 and %31
          pa, pas, pab, pstar,  \* the patterns /a, /a/, /a/b and /*
          xa, xstar, xbad,      \* expressions
          ta, tb,               \* tokens
          h1, h2

mcURIs == {ua, uas, uab}
mcTokens == ua :> <<ta>> @@ uas :> <<ta>> @@ uab :> <<ta, tb>> @@ ue :> <<>>
mcDecodeOf == na :> na @@ ea :> na @@ nb :> nb @@ v1 :> v1 @@ e1 :> v1
mcNarrows == pa :> {<<ta>>} @@ pas :> {<<ta>>} @@ pab :> {<<ta, tb>>} @@ pstar :> {<<ta>>}
mcRegExOf == pa :> NoRegEx @@ pas :> NoRegEx @@ pab :> NoRegEx @@ pstar :> xstar
mcExec ==
  xa :> (ua :> <<>> @@ uab :> <<tb>>) @@
  xstar :> (ua :> <<ta>> @@ uas :> <<ta, Unset>>) @@
  xbad :> (ua :> <<>>)
mcParens == xa :> 1 @@ xstar :> 2 @@ xbad :> 0

Arg(n, v) == [name |-> n, val |-> v]
mcArgSeqs == {<<Arg(na, v1), Arg(ea, NoVal)>>, <<Arg(nb, e1), Arg(ea, e1)>>}

Elem(m, cs) == [module |-> m, children |-> cs]
Rule(p, es) == [phase |-> p, conds |-> es]

(* Patterns with captures, sharing expressions; conditions in two phases. *)
PathRules == <<
  Rule(0, <<Elem("Path", <<Child("Pattern", pa, FALSE), Child("RegEx", xa, NoVal)>>),
            Elem("QueryArg", <<Child("NameVal", na, v1)>>)>>),
  Rule(0, <<Elem("Path", <<Child("Pattern", pstar, TRUE), Child("Pattern", pa, TRUE)>>)>>),
  Rule(1, <<Elem("Path", <<Child("RegEx", xstar, NoVal), Child("Pattern", pas, FALSE)>>)>>)>>

(* Arguments by name and by value, and the modules that do not narrow. *)
ArgRules == <<
  Rule(0, <<Elem("QueryArg", <<Child("Name", na, NoVal), Child("Name", nb, NoVal)>>)>>),
  Rule(0, <<Elem("QueryArg", <<Child("NameVal", nb, NoVal)>>),
            Elem("Request", <<Child("NotSubrequest", NoVal, NoVal)>>),
            Elem("Core", <<Child("ServerName", h1, NoVal), Child("Other", NoVal, NoVal)>>)>>),
  Rule(1, <<Elem("Path", <<Child("Pattern", pab, TRUE)>>),
            Elem("QueryArg", <<Child("NameVal", na, v1), Child("Name", na, NoVal)>>)>>)>>

(* One phase without conditions comes between two with. *)
GapRules == <<
  Rule(0, <<Elem("Path", <<Child("Pattern", pa, TRUE)>>),
            Elem("Request", <<Child("NotInternalRedirect", NoVal, NoVal)>>)>>),
  Rule(2, <<Elem("QueryArg", <<Child("Name", nb, NoVal)>>),
            Elem("Path", <<Child("Pattern", pa, FALSE), Child("Pattern", pab, TRUE)>>)>>),
  Rule(2, <<Elem("Path", <<Child("RegEx", xbad, NoVal)>>)>>),
  Rule(2, <<Elem("Request", <<Child("IsSubrequest", NoVal, NoVal),
                              Child("IsInternalRedirect", NoVal, NoVal)>>)>>)>>

mcConfigs == {PathRules, ArgRules, GapRules}

Request(u, a, h, s, d) == [uri |-> u, args |-> a, host |-> h, isSub |-> s, isRedir |-> d]
mcRequests ==
  {Request(ua, <<Arg(na, v1), Arg(ea, NoVal)>>, h1, FALSE, FALSE),
   Request(uas, <<Arg(nb, e1), Arg(ea, e1)>>, h1, TRUE, TRUE),
   Request(ue, NoArgs, h1, FALSE, TRUE),
   Request(ua, NoArgs, h2, TRUE, FALSE)}

mcModuleOrder == <<"Core", "Path", "QueryArg", "Request">>

=============================================================================
