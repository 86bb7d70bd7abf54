--------------------------- MODULE MCWinStoreLock ---------------------------
(* Two threads of one process, which share its brand, and one of another.    *)
EXTENDS WinStoreLock

CONSTANTS p1, p2, t1, t2, t3

MCProcessOf == [t \in Thread |-> IF t = t3 THEN p2 ELSE p1]
=============================================================================
