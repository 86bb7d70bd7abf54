----------------------------- MODULE MachineKey -----------------------------
(***************************************************************************)
(* CreateMachineState: the access control list of the machine's key, which *)
(* holds the deal code, before and after it is opened for all users.       *)
(*                                                                         *)
(* A list is a sequence of entries (ACEs) that allow or deny a set of      *)
(* rights; a generic right stands for several.                             *)
(***************************************************************************)
EXTENDS Naturals, FiniteSets, SequencesExt

CONSTANTS Users, Everyone, \* the SIDs that all users have
          Right,           \* KEY_ALL_ACCESS
          Generic,         \* from generic rights to the rights they stand for
          OldDacl,         \* lists that the key may have
          MaxAces          \* bound on their length

Ace == [sid : {Users, Everyone}, allows : BOOLEAN, inherit_only : BOOLEAN,
        mask : SUBSET (Right \cup DOMAIN Generic)]

ASSUME MachineKeyAssumption ==
  /\ DOMAIN Generic \cap Right = {}
  /\ \A g \in DOMAIN Generic : Generic[g] \subseteq Right
  /\ OldDacl \subseteq Seq(Ace)

VARIABLES dacl,   \* of the key
          created \* CreateMachineState has set it, or found nothing to do

keyVars == <<dacl, created>>

InitKey == dacl \in OldDacl /\ created = FALSE

MapGenericMask(mask) ==
  (mask \cap Right) \cup UNION {Generic[g] : g \in mask \cap DOMAIN Generic}

Applies(ace, sid) == ace.sid = sid /\ ~ace.inherit_only

\* Bug: some of the rights are enough.
HasSomeAccess(sid, access_mask, acl) ==
  \E i \in DOMAIN acl :
    /\ Applies(acl[i], sid) /\ acl[i].allows
    /\ MapGenericMask(acl[i].mask) \cap MapGenericMask(access_mask) # {}

\* The first entry that allows all that is asked for, or denies some of it,
\* decides.
HasAccess(sid, access_mask, acl) ==
  LET asked == MapGenericMask(access_mask)
      Decides(ace) ==
        /\ Applies(ace, sid)
        /\ IF ace.allows THEN asked \subseteq MapGenericMask(ace.mask)
           ELSE asked \cap MapGenericMask(ace.mask) # {}
  IN  \E i \in DOMAIN acl : /\ Decides(acl[i]) /\ acl[i].allows
                            /\ \A j \in 1..(i - 1) : ~Decides(acl[j])

AllToEveryone ==
  [sid |-> Everyone, allows |-> TRUE, inherit_only |-> FALSE,
   mask |-> Right \cup DOMAIN Generic]

\* The list without the entries of Everyone (one list, in a set).
Merged(acl) ==
  LET kept == {i \in DOMAIN acl : acl[i].sid # Everyone}
      InOrder == {f \in [1..Cardinality(kept) -> kept] :
                    \A i, j \in DOMAIN f : i < j => f[i] < f[j]}
  IN  {[i \in DOMAIN f |-> acl[f[i]]] : f \in InOrder}

\* The lists that SetEntriesInAcl may make: the new entry lies where Windows
\* puts it, and may replace others of its SID.
SetEntriesInAcl(acl) ==
  UNION {{InsertAt(rest, i, AllToEveryone) : i \in 1..(Len(rest) + 1)} :
           rest \in {acl} \cup Merged(acl)}

\* Bounds of the model: MaxAces entries in a list.
CreateMachineState ==
  /\ created' = TRUE
  /\ IF HasAccess(Users, Right, dacl) THEN UNCHANGED dacl
     ELSE dacl' \in {acl \in SetEntriesInAcl(dacl) : Len(acl) <= MaxAces}

\* One of the calls up to RegSetKeySecurity fails.
CreateMachineStateFails == UNCHANGED keyVars

NextKey == CreateMachineState \/ CreateMachineStateFails

KeySpec == InitKey /\ [][NextKey]_keyVars

----------------------------------------------------------------------------
(* Properties *)

\* What Windows grants to a token with these SIDs: for each right the first
\* entry that names it decides.
Granted(sids, acl) ==
  {r \in Right :
     \E i \in DOMAIN acl :
       LET Decides(ace) == /\ \E sid \in sids : Applies(ace, sid)
                           /\ r \in MapGenericMask(ace.mask)
       IN  Decides(acl[i]) /\ acl[i].allows /\ \A j \in 1..(i - 1) : ~Decides(acl[j])}

\* The scan of the entries finds no access that Windows would not grant.
HasAccessSound ==
  \A sid \in {Users, Everyone}, mask \in SUBSET Right :
    mask # {} /\ HasAccess(sid, mask, dacl) => mask \subseteq Granted({sid}, dacl)

\* "Makes the OEM Deal Confirmation code writable by all users on the machine"
\* (rlz_lib.h:260): when CreateMachineState has set the list, or has left it as
\* it was, a user has all rights to the key, unless an entry denies some.
MachineKeyOpen ==
  created /\ (\A i \in DOMAIN dacl : ~dacl[i].inherit_only => dacl[i].allows)
    => Granted({Users, Everyone}, dacl) = Right
=============================================================================
