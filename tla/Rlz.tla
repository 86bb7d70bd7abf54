-------------------------------- MODULE Rlz --------------------------------
(***************************************************************************)
(* RLZs and how they are normalised.  An RLZ is a sequence of characters   *)
(* that is kept for an access point.                                       *)
(***************************************************************************)
EXTENDS Integers, Sequences

CONSTANTS AccessPoint,         \* access points that have a name
          Char, GoodChar, Dot, \* characters of an RLZ, see IsGoodRlzChar
          MaxRlzLength         \* kMaxRlzLength

ASSUME RlzAssumption ==
  /\ GoodChar \subseteq Char /\ Dot \in GoodChar
  /\ MaxRlzLength \in Nat

StoredRlz == UNION {[1..n -> GoodChar] : n \in 0..MaxRlzLength}

Lesser(m, n) == IF m < n THEN m ELSE n

\* Bug: no character is replaced.
TruncateRlz(raw) == SubSeq(raw, 1, Lesser(Len(raw), MaxRlzLength))

NormalizeRlz(raw) ==
  [i \in 1..Lesser(Len(raw), MaxRlzLength) |->
     IF raw[i] \in GoodChar THEN raw[i] ELSE Dot]
=============================================================================
