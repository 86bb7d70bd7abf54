-------------------------- MODULE MCFinancialPing --------------------------
(* Two events, so that an answer can clear one and leave the other, and     *)
(* intervals of one and two: the least that tells a day from a week.        *)
EXTENDS FinancialPing, TLC

CONSTANTS c1, c2, e1, e2

PingSymmetry == Permutations({c1, c2})
=============================================================================
