------------------------------ MODULE KeyTree ------------------------------
(***************************************************************************)
(* What both stores are kept in: a tree of named values, below             *)
(* HKEY_CURRENT_USER on Windows, a dictionary of dictionaries on the Mac.  *)
(*                                                                         *)
(* A tree is a function from the paths of its keys (or dictionaries) to    *)
(* the values of each key, which are a function from names.                *)
(***************************************************************************)
EXTENDS Naturals, SequencesExt

NoValues == <<>>

\* The key itself and those above it.
Above(path) == {SubSeq(path, 1, n) : n \in 1..Len(path)}

\* A key is there together with all the keys above it.
Created(t, path) ==
  [key \in DOMAIN t \cup Above(path) |-> IF key \in DOMAIN t THEN t[key] ELSE NoValues]

WithValue(t, path, name, value) ==
  [Created(t, path) EXCEPT ![path] =
     [n \in DOMAIN @ \cup {name} |-> IF n = name THEN value ELSE @[n]]]

\* A key that is not there has no values.
WithoutValues(t, path, names) ==
  IF path \in DOMAIN t THEN [t EXCEPT ![path] = Restrict(@, DOMAIN @ \ names)]
  ELSE t
WithoutValue(t, path, name) == WithoutValues(t, path, {name})

Subkeys(t, path) == {k \in DOMAIN t : IsStrictPrefix(path, k)}

\* A key is deleted with all that is below it.
WithoutKey(t, path) == Restrict(t, DOMAIN t \ ({path} \cup Subkeys(t, path)))

Names(t, path) == IF path \in DOMAIN t THEN DOMAIN t[path] ELSE {}

ValueOr(t, path, name, default) ==
  IF name \in Names(t, path) THEN t[path][name] ELSE default
=============================================================================
