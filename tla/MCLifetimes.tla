----------------------------- MODULE MCLifetimes ------------------------------
(***************************************************************************)
(* An instance of Lifetimes.tla: keys "k" and "K", which are one to APR,  *)
(* and the values " a ", "a,b" and "".                                     *)
(***************************************************************************)
EXTENDS Lifetimes, TLC

CONSTANTS lower, upper, worda, wordb, blank

mcCaseOf == lower :> lower @@ upper :> lower
mcNewArgs == {<<"StrVec", FALSE>>, <<"TmpPool", FALSE>>, <<"SmplPtrMap", TRUE>>}
mcRegArgs == {<<"PtrVec", TRUE>>, <<"StrPtrMap", FALSE>>}
mcElemArgs == {<<"plain", TRUE>>, <<"plain", FALSE>>}
mcValues ==
  {<<[lead |-> TRUE, word |-> worda, trail |-> TRUE]>>, <<Item(worda), Item(wordb)>>, <<Item(blank)>>}

=============================================================================
