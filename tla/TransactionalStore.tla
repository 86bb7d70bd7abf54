------------------------- MODULE TransactionalStore -------------------------
(***************************************************************************)
(* What a ScopedRlzValueStoreLock promises its callers: the RLZ data is    *)
(* used by one process at a time, and what one outermost scope does to it  *)
(* reaches the disk as a whole or not at all.  How the lock is taken, how  *)
(* scopes nest and which thread of the process works are not visible here. *)
(***************************************************************************)
CONSTANTS Process,    \* the processes that use the library
          NoProcess,  \* nobody has the store open
          Dict,       \* the contents the property list can have
          EmptyDict,  \* the property list of a fresh installation
          NoDict,     \* there is no working copy
          MayLose     \* a working copy can be lost (crash or failed write)

VARIABLES value,    \* what is on disk
          owner,    \* the process with the store open
          working   \* its working copy

vars == <<value, owner, working>>

Init == /\ value = EmptyDict
        /\ owner = NoProcess
        /\ working = NoDict

Begin(p) == /\ owner = NoProcess
            /\ owner' = p
            /\ working' = value
            /\ UNCHANGED value

Update(p) == /\ owner = p
             /\ working' \in Dict
             /\ UNCHANGED <<value, owner>>

End(p) == /\ owner = p
          /\ owner' = NoProcess
          /\ working' = NoDict

Commit(p) == End(p) /\ value' = working

Lose(p) == MayLose /\ End(p) /\ UNCHANGED value

Next == \E p \in Process : Begin(p) \/ Update(p) \/ Commit(p) \/ Lose(p)

Spec == Init /\ [][Next]_vars
=============================================================================
