--------------------------- MODULE KeyTreeProofs ---------------------------
(***************************************************************************)
(* What the operations on a tree of keys do to its keys and to the names   *)
(* and values of each key.                                                 *)
(***************************************************************************)
EXTENDS KeyTree, TLAPS

\* A function of functions: what a tree is, whatever its keys are.
IsTree(t) ==
  /\ t = [key \in DOMAIN t |-> t[key]]
  /\ \A key \in DOMAIN t : t[key] = [n \in DOMAIN t[key] |-> t[key][n]]

LEMMA SameTree ==
  ASSUME NEW t, NEW u, IsTree(t), IsTree(u), DOMAIN t = DOMAIN u,
         \A key \in DOMAIN t : /\ DOMAIN t[key] = DOMAIN u[key]
                               /\ \A n \in DOMAIN t[key] : t[key][n] = u[key][n]
  PROVE  t = u
<1>1. \A key \in DOMAIN t : t[key] = u[key]
  <2> SUFFICES ASSUME NEW key \in DOMAIN t PROVE t[key] = u[key]
    OBVIOUS
  <2>1. t[key] = [n \in DOMAIN t[key] |-> t[key][n]] /\ u[key] = [n \in DOMAIN u[key] |-> u[key][n]]
    BY DEF IsTree
  <2> QED
    BY <2>1
<1> QED
  BY <1>1 DEF IsTree

LEMMA NoValuesHasNone == DOMAIN NoValues = {} /\ NoValues = [n \in {} |-> NoValues[n]]
BY DEF NoValues

LEMMA CreatedTree ==
  ASSUME NEW t, NEW path
  PROVE  LET u == Created(t, path)
         IN  /\ DOMAIN u = DOMAIN t \cup Above(path)
             /\ \A key : Names(u, key) = Names(t, key)
             /\ \A key \in DOMAIN t : u[key] = t[key]
             /\ \A key, n, d : ValueOr(u, key, n, d) = ValueOr(t, key, n, d)
             /\ IsTree(t) => IsTree(u)
<1> DEFINE u == Created(t, path)
<1>1. DOMAIN u = DOMAIN t \cup Above(path)
  BY DEF Created
<1>2. \A key \in DOMAIN u : u[key] = IF key \in DOMAIN t THEN t[key] ELSE NoValues
  BY DEF Created
<1>3. \A key : Names(u, key) = Names(t, key)
  BY <1>1, <1>2, NoValuesHasNone DEF Names
<1>4. \A key, n, d : ValueOr(u, key, n, d) = ValueOr(t, key, n, d)
  BY <1>1, <1>2, <1>3 DEF ValueOr, Names
<1>5. ASSUME IsTree(t) PROVE IsTree(u)
  <2>1. u = [key \in DOMAIN u |-> u[key]]
    BY DEF Created
  <2>2. \A key \in DOMAIN u : u[key] = [n \in DOMAIN u[key] |-> u[key][n]]
    BY <1>2, <1>5, NoValuesHasNone DEF IsTree
  <2> QED
    BY <2>1, <2>2 DEF IsTree
<1> QED
  BY <1>1, <1>2, <1>3, <1>4, <1>5

\* Not the root of the tree.
Proper(path) == path \in Above(path)

LEMMA SelfAbove ==
  ASSUME NEW S, NEW path \in Seq(S), path # <<>>
  PROVE  Proper(path)
BY DEF Above, Proper

\* A value is written, in a key that is created for it.
IsFcn(f) == f = [x \in DOMAIN f |-> f[x]]

LEMMA Put ==
  ASSUME NEW t, NEW path, NEW name, NEW value, Proper(path),
         NEW c, c = Created(t, path), NEW u, u = WithValue(t, path, name, value)
  PROVE  /\ path \in DOMAIN c /\ DOMAIN u = DOMAIN c /\ IsFcn(u) /\ IsFcn(u[path])
         /\ \A key \in DOMAIN u : key # path => u[key] = c[key]
         /\ DOMAIN u[path] = DOMAIN c[path] \cup {name}
         /\ \A n \in DOMAIN u[path] : u[path][n] = IF n = name THEN value ELSE c[path][n]
<1> DEFINE entry == [n \in DOMAIN c[path] \cup {name} |-> IF n = name THEN value ELSE c[path][n]]
<1>1. path \in DOMAIN c
  BY CreatedTree DEF Proper
<1>2. u = [c EXCEPT ![path] = entry] /\ c = [key \in DOMAIN c |-> c[key]]
  BY DEF WithValue, Created
<1>3. DOMAIN u = DOMAIN c /\ \A key \in DOMAIN u : u[key] = IF key = path THEN entry ELSE c[key]
  BY <1>2
<1>4. u[path] = entry
  BY <1>1, <1>3
<1>5. DOMAIN u[path] = DOMAIN c[path] \cup {name}
      /\ \A n \in DOMAIN u[path] : u[path][n] = IF n = name THEN value ELSE c[path][n]
  BY <1>4
<1>6. IsFcn(u)
  BY <1>2 DEF IsFcn
<1>7. IsFcn(u[path])
  BY <1>4 DEF IsFcn
<1> QED
  BY <1>1, <1>3, <1>5, <1>6, <1>7

LEMMA WithValueKeys ==
  ASSUME NEW t, NEW path, NEW name, NEW value, Proper(path)
  PROVE  DOMAIN WithValue(t, path, name, value) = DOMAIN t \cup Above(path)
<1>1. DOMAIN WithValue(t, path, name, value) = DOMAIN Created(t, path)
  BY Put
<1> QED
  BY <1>1, CreatedTree

LEMMA WithValueNames ==
  ASSUME NEW t, NEW path, NEW name, NEW value, Proper(path)
  PROVE  \A key : Names(WithValue(t, path, name, value), key) =
                    Names(t, key) \cup (IF key = path THEN {name} ELSE {})
<1>1. \A key : Names(WithValue(t, path, name, value), key) =
                 Names(Created(t, path), key) \cup (IF key = path THEN {name} ELSE {})
  BY Put DEF Names
<1>2. \A key : Names(Created(t, path), key) = Names(t, key)
  BY CreatedTree
<1> QED
  BY <1>1, <1>2

LEMMA WithValueOr ==
  ASSUME NEW t, NEW path, NEW name, NEW value, Proper(path)
  PROVE  \A key, n, d : ValueOr(WithValue(t, path, name, value), key, n, d) =
                          IF key = path /\ n = name THEN value ELSE ValueOr(t, key, n, d)
<1>1. PICK u : u = WithValue(t, path, name, value)
  OBVIOUS
<1>2. PICK c : c = Created(t, path)
  OBVIOUS
<1>3. /\ path \in DOMAIN c /\ DOMAIN u = DOMAIN c
      /\ \A key \in DOMAIN u : key # path => u[key] = c[key]
      /\ DOMAIN u[path] = DOMAIN c[path] \cup {name}
      /\ \A n \in DOMAIN u[path] : u[path][n] = IF n = name THEN value ELSE c[path][n]
  BY <1>1, <1>2, Put
<1>4. ASSUME NEW key, NEW n, NEW d
      PROVE  ValueOr(u, key, n, d) = IF key = path /\ n = name THEN value ELSE ValueOr(c, key, n, d)
  <2>1. CASE key = path
    BY <1>3, <2>1 DEF ValueOr, Names
  <2>2. CASE key # path
    BY <1>3, <2>2 DEF ValueOr, Names
  <2> QED
    BY <2>1, <2>2
<1>5. \A key, n, d : ValueOr(Created(t, path), key, n, d) = ValueOr(t, key, n, d)
  BY CreatedTree
<1> QED
  BY <1>1, <1>2, <1>4, <1>5

LEMMA WithValueTree ==
  ASSUME NEW t, NEW path, NEW name, NEW value, Proper(path), IsTree(t)
  PROVE  IsTree(WithValue(t, path, name, value))
<1>1. PICK u : u = WithValue(t, path, name, value)
  OBVIOUS
<1>2. PICK c : c = Created(t, path)
  OBVIOUS
<1>3. /\ DOMAIN u = DOMAIN c /\ IsFcn(u) /\ IsFcn(u[path])
      /\ \A key \in DOMAIN u : key # path => u[key] = c[key]
  BY <1>1, <1>2, Put
<1>4. IsTree(Created(t, path))
  BY CreatedTree
<1>5. \A key \in DOMAIN u : IsFcn(u[key])
  BY <1>2, <1>3, <1>4 DEF IsTree, IsFcn
<1> QED
  BY <1>1, <1>3, <1>5 DEF IsTree, IsFcn

\* Values are deleted; the key stays.
LEMMA WithoutValuesTree ==
  ASSUME NEW t, NEW path, NEW names
  PROVE  LET u == WithoutValues(t, path, names)
         IN  /\ DOMAIN u = DOMAIN t
             /\ \A key : Names(u, key) = Names(t, key) \ (IF key = path THEN names ELSE {})
             /\ \A key, n, d : ValueOr(u, key, n, d) =
                  IF key = path /\ n \in names THEN d ELSE ValueOr(t, key, n, d)
             /\ IsTree(t) => IsTree(u)
<1> DEFINE u == WithoutValues(t, path, names)
<1>1. CASE path \notin DOMAIN t
  <2>1. u = t
    BY <1>1 DEF WithoutValues
  <2>2. Names(t, path) = {}
    BY <1>1 DEF Names
  <2>3. \A n, d : ValueOr(t, path, n, d) = d
    BY <2>2 DEF ValueOr
  <2> QED
    BY <2>1, <2>2, <2>3
<1>2. CASE path \in DOMAIN t
  <2> DEFINE entry == [n \in DOMAIN t[path] \ names |-> t[path][n]]
  <2>1. u = [t EXCEPT ![path] = entry]
    BY <1>2 DEF WithoutValues, Restrict
  <2>2. DOMAIN u = DOMAIN t /\ \A key \in DOMAIN u : u[key] = IF key = path THEN entry ELSE t[key]
    BY <2>1
  <2>3. \A key : Names(u, key) = Names(t, key) \ (IF key = path THEN names ELSE {})
    BY <1>2, <2>2 DEF Names
  <2>4. ASSUME NEW key, NEW n, NEW d
        PROVE  ValueOr(u, key, n, d) =
                 IF key = path /\ n \in names THEN d ELSE ValueOr(t, key, n, d)
    <3>1. CASE key = path
      BY <1>2, <2>2, <3>1 DEF ValueOr, Names
    <3>2. CASE key # path
      BY <2>2, <3>2 DEF ValueOr, Names
    <3> QED
      BY <3>1, <3>2
  <2>5. ASSUME IsTree(t) PROVE IsTree(u)
    <3>1. u = [key \in DOMAIN u |-> u[key]]
      BY <2>1, <2>5 DEF IsTree
    <3>2. \A key \in DOMAIN u : u[key] = [n \in DOMAIN u[key] |-> u[key][n]]
      BY <2>2, <2>5 DEF IsTree
    <3> QED
      BY <3>1, <3>2 DEF IsTree
  <2> QED
    BY <2>2, <2>3, <2>4, <2>5
<1> QED
  BY <1>1, <1>2

\* A key is deleted with all that is below it.
LEMMA WithoutKeyTree ==
  ASSUME NEW t, NEW path
  PROVE  LET u == WithoutKey(t, path)
             Gone(key) == key = path \/ IsStrictPrefix(path, key)
         IN  /\ DOMAIN u = {key \in DOMAIN t : ~Gone(key)}
             /\ \A key : Names(u, key) = IF Gone(key) THEN {} ELSE Names(t, key)
             /\ \A key, n, d : ValueOr(u, key, n, d) =
                                 IF Gone(key) THEN d ELSE ValueOr(t, key, n, d)
             /\ IsTree(t) => IsTree(u)
<1> DEFINE u == WithoutKey(t, path)
           Gone(key) == key = path \/ IsStrictPrefix(path, key)
<1>1. u = [key \in {k \in DOMAIN t : ~Gone(k)} |-> t[key]]
  <2>1. DOMAIN t \ ({path} \cup Subkeys(t, path)) = {k \in DOMAIN t : ~Gone(k)}
    BY DEF Subkeys
  <2> QED
    BY <2>1 DEF WithoutKey, Restrict
<1> HIDE DEF Gone
<1>2. DOMAIN u = {k \in DOMAIN t : ~Gone(k)} /\ \A key \in DOMAIN u : u[key] = t[key]
  BY <1>1
<1>3. \A key : Names(u, key) = IF Gone(key) THEN {} ELSE Names(t, key)
  BY <1>2 DEF Names
<1>4. \A key, n, d : ValueOr(u, key, n, d) = IF Gone(key) THEN d ELSE ValueOr(t, key, n, d)
  BY <1>2 DEF ValueOr, Names
<1>5. ASSUME IsTree(t) PROVE IsTree(u)
  <2>1. u = [key \in DOMAIN u |-> u[key]]
    BY <1>1
  <2>2. \A key \in DOMAIN u : u[key] = [n \in DOMAIN u[key] |-> u[key][n]]
    BY <1>2, <1>5 DEF IsTree
  <2> QED
    BY <2>1, <2>2 DEF IsTree
<1> QED
  BY <1>2, <1>3, <1>4, <1>5 DEF Gone

----------------------------------------------------------------------------
(* Keys and their parents *)

\* Every key is a sequence of names, and there with the keys above it.
Closed(t, S) ==
  /\ DOMAIN t \subseteq Seq(S) \ {<<>>}
  /\ \A key \in DOMAIN t : Len(key) > 1 => SubSeq(key, 1, Len(key) - 1) \in DOMAIN t

LEMMA CreatedClosed ==
  ASSUME NEW S, NEW t, Closed(t, S), NEW path \in Seq(S)
  PROVE  Closed(Created(t, path), S)
<1>1. DOMAIN Created(t, path) = DOMAIN t \cup Above(path)
  BY CreatedTree
<1>2. ASSUME NEW key \in Above(path)
      PROVE  /\ key \in Seq(S) \ {<<>>}
             /\ Len(key) > 1 => SubSeq(key, 1, Len(key) - 1) \in Above(path)
  <2>1. PICK n \in 1..Len(path) : key = SubSeq(path, 1, n)
    BY DEF Above
  <2>2. key \in Seq(S) /\ Len(key) = n
    BY <2>1
  <2>3. n > 1 => SubSeq(key, 1, n - 1) = SubSeq(path, 1, n - 1)
    BY <2>1
  <2>4. n > 1 => n - 1 \in 1..Len(path)
    OBVIOUS
  <2>5. key # <<>>
    BY <2>2
  <2> QED
    BY <2>2, <2>3, <2>4, <2>5 DEF Above
<1> QED
  BY <1>1, <1>2 DEF Closed

LEMMA WithoutKeyClosed ==
  ASSUME NEW S, NEW t, Closed(t, S), NEW path \in Seq(S) \ {<<>>}
  PROVE  Closed(WithoutKey(t, path), S)
<1> DEFINE Gone(key) == key = path \/ IsStrictPrefix(path, key)
<1>1. DOMAIN WithoutKey(t, path) = {key \in DOMAIN t : ~Gone(key)}
  BY WithoutKeyTree
<1>2. ASSUME NEW key \in DOMAIN t, Len(key) > 1, Gone(SubSeq(key, 1, Len(key) - 1))
      PROVE  Gone(key)
  <2> DEFINE up == SubSeq(key, 1, Len(key) - 1)
  <2>1. key \in Seq(S) /\ up \in Seq(S) /\ Len(up) = Len(key) - 1
        /\ \A i \in 1..Len(up) : up[i] = key[i]
    BY <1>2 DEF Closed
  <2>2. Len(path) <= Len(up) /\ \A i \in 1..Len(path) : path[i] = up[i]
    BY <1>2, <2>1 DEF IsStrictPrefix, IsPrefix
  <2>3. Len(path) < Len(key) /\ \A i \in 1..Len(path) : path[i] = key[i]
    BY <2>1, <2>2
  <2>4. SubSeq(path, 1, Len(path)) = SubSeq(key, 1, Len(path))
    BY <2>1, <2>3
  <2> QED
    BY <2>1, <2>3, <2>4 DEF IsStrictPrefix, IsPrefix
<1> QED
  BY <1>1, <1>2 DEF Closed

\* A prefix, element by element.
LEMMA PrefixElements ==
  ASSUME NEW S, NEW s \in Seq(S), NEW u \in Seq(S)
  PROVE  IsPrefix(s, u) <=> Len(s) <= Len(u) /\ \A i \in 1..Len(s) : s[i] = u[i]
<1>1. ASSUME IsPrefix(s, u) PROVE Len(s) <= Len(u) /\ \A i \in 1..Len(s) : s[i] = u[i]
  <2>1. Len(s) <= Len(u) /\ SubSeq(s, 1, Len(s)) = SubSeq(u, 1, Len(s))
    BY <1>1 DEF IsPrefix
  <2>2. \A i \in 1..Len(s) : s[i] = SubSeq(s, 1, Len(s))[i] /\ u[i] = SubSeq(u, 1, Len(s))[i]
    BY <2>1
  <2> QED
    BY <2>1, <2>2
<1>2. ASSUME Len(s) <= Len(u), \A i \in 1..Len(s) : s[i] = u[i] PROVE IsPrefix(s, u)
  <2>1. SubSeq(s, 1, Len(s)) = SubSeq(u, 1, Len(s))
    BY <1>2
  <2> QED
    BY <1>2, <2>1 DEF IsPrefix
<1> QED
  BY <1>1, <1>2

LEMMA StrictPrefixElements ==
  ASSUME NEW S, NEW s \in Seq(S), NEW u \in Seq(S)
  PROVE  IsStrictPrefix(s, u) <=> Len(s) < Len(u) /\ \A i \in 1..Len(s) : s[i] = u[i]
<1>1. ASSUME IsPrefix(s, u), Len(s) = Len(u) PROVE s = u
  BY <1>1, PrefixElements
<1>2. Len(s) < Len(u) => s # u
  OBVIOUS
<1> QED
  BY <1>1, <1>2, PrefixElements DEF IsStrictPrefix

\* What Append does to the elements.
LEMMA Appended ==
  ASSUME NEW S, NEW s \in Seq(S), NEW e \in S
  PROVE  LET a == Append(s, e)
         IN  /\ a \in Seq(S) /\ Len(a) = Len(s) + 1 /\ a[Len(s) + 1] = e
             /\ \A i \in 1..Len(s) : a[i] = s[i]
OBVIOUS
=============================================================================
