------------------------------- MODULE LuaTable -------------------------------
(***************************************************************************)
(* What the methods of an apr_table_t do that LuaTable.C gives to scripts. *)
(*                                                                         *)
(* A table is the sequence of its entries.  A value is a text, of which    *)
(* the methods see the items between its commas and the blanks around      *)
(* them: a sequence of items.  Keys that differ in case only are the same  *)
(* to APR (SameKey) but not to strcmp().                                   *)
(***************************************************************************)
EXTENDS Integers, Sequences, SequencesExt

CONSTANTS
  Keys,          \* spellings of keys
  CaseOf,        \* a spelling in lower case
  Words,         \* what the items may be, without blanks
  NoWord         \* the empty one

ASSUME TableAssumption == CaseOf \in [Keys -> Keys] /\ NoWord \in Words

Items == [lead : BOOLEAN, word : Words, trail : BOOLEAN]
Item(w) == [lead |-> FALSE, word |-> w, trail |-> FALSE]

(* An empty text has one item, an empty one.                               *)
Texts == Seq(Items) \ {<<>>}

SameKey(k, j) == CaseOf[k] = CaseOf[j]

Entry(k, v) == [key |-> k, val |-> v]

(* The entries of t at some of its places, in their order.                 *)
Those(t, places) ==
  FlattenSeq([i \in DOMAIN t |-> IF i \in places THEN <<t[i]>> ELSE <<>>])

PlacesOf(t, k) == {i \in DOMAIN t : SameKey(t[i].key, k)}

EntriesOf(t, k) == Those(t, PlacesOf(t, k))

-----------------------------------------------------------------------------
(* APR's functions.                                                        *)

(* A value appended to another with ", " between them.                     *)
Led(w) == <<[w[1] EXCEPT !.lead = TRUE]>> \o Tail(w)
Joined(v, w) == v \o Led(w)

apr_table_add(t, k, v) == Append(t, Entry(k, v))

apr_table_unset(t, k) == Those(t, DOMAIN t \ PlacesOf(t, k))

FirstAt(t, k) == CHOOSE i \in PlacesOf(t, k) : \A j \in PlacesOf(t, k) : i <= j

Has(t, k) == PlacesOf(t, k) # {}

(* The first entry of the key gets the value, the others go.               *)
apr_table_set(t, k, v) ==
  IF ~Has(t, k) THEN apr_table_add(t, k, v)
  ELSE LET i == FirstAt(t, k)
       IN SubSeq(t, 1, i - 1) \o <<Entry(t[i].key, v)>>
            \o apr_table_unset(SubSeq(t, i + 1, Len(t)), k)

apr_table_merge(t, k, v) ==
  IF Has(t, k) THEN [t EXCEPT ![FirstAt(t, k)].val = Joined(@, v)]
  ELSE apr_table_add(t, k, v)

(* One entry is left for each key, where its first one was, with the value *)
(* of the last one or with all of them joined.                             *)
apr_table_compress(t, merge) ==
  LET last(k) == Last(EntriesOf(t, k)).val
      joined(k) == FlattenSeq([i \in DOMAIN EntriesOf(t, k) |->
                     IF i = 1 THEN EntriesOf(t, k)[i].val ELSE Led(EntriesOf(t, k)[i].val)])
      left(k) == IF merge THEN joined(k) ELSE last(k)
  IN Those([i \in DOMAIN t |-> Entry(t[i].key, left(t[i].key))],
           {i \in DOMAIN t : FirstAt(t, t[i].key) = i})

-----------------------------------------------------------------------------
(* The methods that change a table.                                        *)

tableAdd(t, k, v) == apr_table_add(t, k, v)
tableMerge(t, k, v) == apr_table_merge(t, k, v)
tableSet(t, k, v) == apr_table_set(t, k, v)
tableUnset(t, k) == apr_table_unset(t, k)
tableClear(t) == <<>>
tableDedupeKeys(t) == apr_table_compress(t, FALSE)
tableCompress(t) == apr_table_compress(t, TRUE)

(* The tables that one call, with a value of a set, makes of a table.      *)
tableMethods(t, values) ==
  {tableClear(t), tableDedupeKeys(t), tableCompress(t)}
    \cup {tableUnset(t, k) : k \in Keys}
    \cup UNION {{tableAdd(t, k, v), tableMerge(t, k, v), tableSet(t, k, v)}
                  : k \in Keys, v \in values}

-----------------------------------------------------------------------------
(* The methods that read one.  An array of Lua is a sequence; nil is an    *)
(* empty one, which none of them returns otherwise but keys().             *)

(* What lies before the first comma of the first value, blanks included.   *)
tableGet(t, k) == IF Has(t, k) THEN <<t[FirstAt(t, k)].val[1]>> ELSE <<>>

tableRawGet(t, k) == IF Has(t, k) THEN <<t[FirstAt(t, k)].val>> ELSE <<>>

(* tableMgetCB() skips the blanks before an item, and no blanks after it:  *)
(* it looks for them from the comma on.  A blank item has only the former. *)
Cooked(x) ==
  IF x.word = NoWord THEN Item(NoWord) ELSE [x EXCEPT !.lead = FALSE]

(* Its loop stops at the end of the text, before an empty last item.       *)
Scanned(v) ==
  IF Len(v) > 1 /\ Last(v) = Item(NoWord) THEN Front(v) ELSE v

tableMgetCB(v) == [i \in DOMAIN Scanned(v) |-> Cooked(Scanned(v)[i])]

tableMget(t, k) ==
  FlattenSeq([i \in DOMAIN EntriesOf(t, k) |-> tableMgetCB(EntriesOf(t, k)[i].val)])

tableRawMget(t, k) == [i \in 1 .. Len(EntriesOf(t, k)) |-> EntriesOf(t, k)[i].val]

(* Bug: only the key added last is compared.                               *)
tableKeysCBLast(keys, k) == IF keys # <<>> /\ Last(keys) = k THEN keys ELSE Append(keys, k)

(* tableKeysCB() leaves out a key that is in the array, by strcmp().       *)
tableKeysCB(keys, k) == IF Contains(keys, k) THEN keys ELSE Append(keys, k)

(* The keys in the array after each entry.                                 *)
tableKeys(t) ==
  LET keys[n \in 0 .. Len(t)] == IF n = 0 THEN <<>> ELSE tableKeysCB(keys[n - 1], t[n].key)
  IN keys[Len(t)]

tableLen(t) == Len(t)

=============================================================================
