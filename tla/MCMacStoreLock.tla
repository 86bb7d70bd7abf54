--------------------------- MODULE MCMacStoreLock ---------------------------
(* Two processes, one of them with two threads, and property lists of two   *)
(* contents: the least with competition for both kinds of lock.             *)
EXTENDS MacStoreLock, TLC

CONSTANTS p1, p2, t1, t2, t3, d0, d1

MCProcessOf == [t \in Thread |-> IF t = t3 THEN p2 ELSE p1]

=============================================================================
