----------------------------- MODULE MCLibrary -----------------------------
(* The store, the id and the key of the machine share no state: a behaviour  *)
(* is one of any of them.                                                    *)
EXTENDS Library, MachineId, MachineKey

VARIABLE part

\* "Common" stays for its value, "Google" for its subkey.
SomeForeign == {<<"Google", "Common">>}

\* Empty, with a bad character, and too long.
SomeRawRlz == {<<>>, <<"&">>, <<"a", "a">>}

SomeDigest == ("s1" :> <<255, 48>>) @@ ("s2" :> <<10, 48>>) @@ ("s3" :> <<0, 7>>)

\* Either half of "s1" may be missing.
SomeFound == ("s1" :> {"s1", "s2", "s3", ""}) @@ ("s2" :> {"s2", ""}) @@ ("s3" :> {"s3", ""})

SomeVolumeId == {0, 1, -1, -2147483647, 65536, 11534592}

SomeGeneric == [GENERIC_READ |-> {"read"}, GENERIC_ALL |-> {"read", "write"}]

SomeDacl ==
  LET masks == {{"read"}, {"GENERIC_READ", "write"}, {"GENERIC_ALL"}}
  IN  SeqOf({ace \in Ace : ace.mask \in masks}, 2)

StoreIdle == build = "win" /\ brand = NoBrand /\ others = {} /\ tree = <<>> /\ call = <<>>
IdIdle == system = "win" /\ sid = "s1" /\ volume_id = 0 /\ calculated_id = NoId
KeyIdle == dacl = <<>> /\ created = FALSE

MCInit == \/ part = "store" /\ Init /\ IdIdle /\ KeyIdle
          \/ part = "id" /\ StoreIdle /\ InitId /\ KeyIdle
          \/ part = "key" /\ StoreIdle /\ IdIdle /\ InitKey

MCNext == \/ part = "store" /\ Next /\ UNCHANGED <<part, idVars, keyVars>>
          \/ part = "id" /\ NextId /\ UNCHANGED <<part, vars, keyVars>>
          \/ part = "key" /\ NextKey /\ UNCHANGED <<part, vars, idVars>>

\* What the last call was makes no difference to what can be done next.
MCView == <<part, build, brand, others, tree, idVars, keyVars>>

MCSpec == MCInit /\ [][MCNext]_<<part, vars, idVars, keyVars>>
=============================================================================
