--------------------------- MODULE MachineProofs ---------------------------
(***************************************************************************)
(* What is proved of the data of the machine: the access control list of   *)
(* its key, and its id.                                                    *)
(***************************************************************************)
EXTENDS MachineKey, MachineId, FiniteSetTheorems, SequenceTheorems,
        WellFoundedInduction, TLAPS

\* A non-empty set of numbers, of entries of a list, has a least one.
LEMMA FirstOf ==
  ASSUME NEW S \in SUBSET Nat, S # {} PROVE \E i \in S : \A j \in S : ~(j < i)
<1>1. PICK i \in S : \A j \in S : <<j, i>> \notin OpToRel(<, Nat)
  BY NatLessThanWellFounded, WFMin
<1> QED
  BY <1>1 DEF OpToRel

----------------------------------------------------------------------------
(* The key: the scan of an access control list and the list that            *)
(* CreateMachineState leaves, whatever the lists have and however long they *)
(* are.                                                                     *)

\* A mask without generic rights stands for itself.
LEMMA PlainMask ==
  ASSUME NEW mask \in SUBSET Right PROVE MapGenericMask(mask) = mask
BY MachineKeyAssumption DEF MapGenericMask

\* If HasAccess finds that a SID has a set of rights, Windows grants each of
\* them: no entry before the one that allows them all denies any (HasAccess in
\* rlz_lib_win.cc).  For every list of entries.
THEOREM HasAccessIsSound == dacl \in Seq(Ace) => HasAccessSound
<1> SUFFICES ASSUME dacl \in Seq(Ace), NEW who \in {Users, Everyone},
                    NEW mask \in SUBSET Right, HasAccess(who, mask, dacl), NEW r \in mask
             PROVE  r \in Granted({who}, dacl)
  BY DEF HasAccessSound
<1> DEFINE Has(j) == Applies(dacl[j], who)
           Rights(j) == MapGenericMask(dacl[j].mask)
<1>1. PICK i \in DOMAIN dacl :
        /\ Has(i) /\ dacl[i].allows /\ mask \subseteq Rights(i)
        /\ \A j \in 1..(i - 1) : Has(j) /\ mask \cap Rights(j) # {} => dacl[j].allows
  BY PlainMask DEF HasAccess
<1>2. DOMAIN dacl \subseteq Nat /\ \A j \in DOMAIN dacl : j >= 1
  OBVIOUS
<1> DEFINE naming == {j \in DOMAIN dacl : Has(j) /\ r \in Rights(j)}
<1>3. i \in naming
  BY <1>1
<1>4. PICK k \in naming : \A j \in naming : ~(j < k)
  BY <1>2, <1>3, FirstOf
<1>5. dacl[k].allows
  <2>1. CASE k = i
    BY <1>1, <2>1
  <2>2. CASE k # i
    <3>1. k \in 1..(i - 1)
      BY <1>2, <1>3, <1>4, <2>2
    <3> QED
      BY <1>1, <1>4, <3>1
  <2> QED
    BY <2>1, <2>2
<1>6. \A j \in 1..(k - 1) : ~(Has(j) /\ r \in Rights(j))
  <2> SUFFICES ASSUME NEW j \in 1..(k - 1), Has(j), r \in Rights(j) PROVE FALSE
    OBVIOUS
  <2>1. j \in DOMAIN dacl /\ j < k
    BY <1>2
  <2> QED
    BY <1>4, <2>1
<1> QED
  BY <1>4, <1>5, <1>6 DEF Granted

\* The entries of a list in another order, or some of them, are a list, and the
\* new entry is in the list that SetEntriesInAcl makes.
LEMMA NewList ==
  ASSUME NEW acl \in Seq(Ace), NEW new \in SetEntriesInAcl(acl)
  PROVE  new \in Seq(Ace) /\ \E i \in DOMAIN new : new[i] = AllToEveryone
<1>1. AllToEveryone \in Ace
  BY DEF AllToEveryone, Ace
<1>2. PICK rest \in {acl} \cup Merged(acl) :
        \E i \in 1..(Len(rest) + 1) : new = InsertAt(rest, i, AllToEveryone)
  BY DEF SetEntriesInAcl
<1>3. PICK i \in 1..(Len(rest) + 1) : new = InsertAt(rest, i, AllToEveryone)
  BY <1>2
<1>4. rest \in Seq(Ace)
  <2>1. CASE rest \in Merged(acl)
    <3> DEFINE kept == {j \in DOMAIN acl : acl[j].sid # Everyone}
    <3>1. kept \subseteq 1..Len(acl) /\ Len(acl) \in Int
      OBVIOUS
    <3>2. Cardinality(kept) \in Nat
      <4>1. IsFiniteSet(1..Len(acl))
        BY <3>1, FS_Interval
      <4> QED
        BY <3>1, <4>1, FS_Subset, FS_CardinalityType
    <3>3. PICK f \in [1..Cardinality(kept) -> kept] : rest = [j \in DOMAIN f |-> acl[f[j]]]
      BY <2>1 DEF Merged
    <3>4. rest \in [1..Cardinality(kept) -> Ace]
      BY <3>1, <3>3
    <3> QED
      BY <3>2, <3>4, SeqDef
  <2> QED
    BY <1>2, <2>1
<1> DEFINE before == SubSeq(rest, 1, i - 1)
           after == SubSeq(rest, i, Len(rest))
<1>5. before \in Seq(Ace) /\ Len(before) = i - 1 /\ after \in Seq(Ace)
  BY <1>3, <1>4
<1>6. new = before \o <<AllToEveryone>> \o after
  BY <1>3 DEF InsertAt
<1> DEFINE upto == before \o <<AllToEveryone>>
<1>7. upto \in Seq(Ace) /\ Len(upto) = i /\ upto[i] = AllToEveryone
  BY <1>3, <1>1, <1>4, <1>5
<1>8. new \in Seq(Ace) /\ Len(new) >= i /\ new[i] = AllToEveryone
  <2>1. new = upto \o after
    BY <1>6
  <2> HIDE DEF upto, after
  <2> QED
    BY <1>3, <1>5, <1>7, <2>1, ConcatProperties
<1> QED
  BY <1>3, <1>8

\* The list has an entry that gives all rights to all users when
\* CreateMachineState is done.
KInv ==
  /\ dacl \in Seq(Ace)
  /\ created => \/ HasAccess(Users, Right, dacl)
                \/ \E i \in DOMAIN dacl : dacl[i] = AllToEveryone

\* KInv holds of the first list and after each call (CreateMachineState of
\* machine_deal_win.cc).
THEOREM KeyInvariant == KeySpec => []KInv
<1>1. InitKey => KInv
  BY MachineKeyAssumption DEF InitKey, KInv
<1>2. KInv /\ [NextKey]_keyVars => KInv'
  <2> SUFFICES ASSUME KInv, [NextKey]_keyVars PROVE KInv'
    OBVIOUS
  <2>1. CASE CreateMachineState
    <3>1. CASE HasAccess(Users, Right, dacl)
      BY <2>1, <3>1 DEF CreateMachineState, KInv
    <3>2. CASE ~HasAccess(Users, Right, dacl)
      <4>1. dacl' \in SetEntriesInAcl(dacl)
        BY <2>1, <3>2 DEF CreateMachineState
      <4>2. dacl' \in Seq(Ace) /\ \E i \in DOMAIN dacl' : dacl'[i] = AllToEveryone
        BY <4>1, NewList DEF KInv
      <4> QED
        BY <4>2 DEF KInv
    <3> QED
      BY <3>1, <3>2
  <2>2. CASE UNCHANGED keyVars
    BY <2>2 DEF keyVars, KInv, HasAccess
  <2> QED
    BY <2>1, <2>2 DEF NextKey, CreateMachineStateFails
<1> QED
  BY <1>1, <1>2, PTL DEF KeySpec

\* What HasAccess finds is granted, in every list the key can have.
THEOREM KeyHasAccessSound == KeySpec => []HasAccessSound
<1>1. KInv => HasAccessSound
  BY HasAccessIsSound DEF KInv
<1> QED
  BY <1>1, KeyInvariant, PTL

\* The key is open to all users (rlz_lib.h:260) when CreateMachineState is done,
\* unless an entry denies: a list with an entry that allows all names every
\* right, and the first entry to name it allows it, too.
THEOREM KeyIsOpen == KeySpec => []MachineKeyOpen
<1>1. KInv => MachineKeyOpen
  <2> SUFFICES ASSUME KInv, created, NEW r \in Right,
                      \A i \in DOMAIN dacl : ~dacl[i].inherit_only => dacl[i].allows
               PROVE  r \in Granted({Users, Everyone}, dacl)
    BY DEF MachineKeyOpen, Granted
  <2> DEFINE Has(j) == \E who \in {Users, Everyone} : Applies(dacl[j], who)
             Rights(j) == MapGenericMask(dacl[j].mask)
             naming == {j \in DOMAIN dacl : Has(j) /\ r \in Rights(j)}
  <2>1. DOMAIN dacl \subseteq Nat /\ \A j \in DOMAIN dacl : j >= 1
    BY DEF KInv
  <2>2. naming # {}
    <3>1. CASE HasAccess(Users, Right, dacl)
      <4>1. MapGenericMask(Right) = Right
        BY PlainMask
      <4> QED
        BY <3>1, <4>1 DEF HasAccess
    <3>2. CASE \E i \in DOMAIN dacl : dacl[i] = AllToEveryone
      <4>1. PICK i \in DOMAIN dacl : dacl[i] = AllToEveryone
        BY <3>2
      <4>2. Applies(dacl[i], Everyone) /\ dacl[i].mask = Right \cup DOMAIN Generic
        BY <4>1 DEF AllToEveryone, Applies
      <4> QED
        BY <4>2 DEF MapGenericMask
    <3> QED
      BY <3>1, <3>2 DEF KInv
  <2>3. PICK k \in naming : \A j \in naming : ~(j < k)
    BY <2>1, <2>2, FirstOf
  <2>4. dacl[k].allows
    BY <2>3 DEF Applies
  <2>5. \A j \in 1..(k - 1) : ~(Has(j) /\ r \in Rights(j))
    <3> SUFFICES ASSUME NEW j \in 1..(k - 1), Has(j), r \in Rights(j) PROVE FALSE
      OBVIOUS
    <3>1. j \in DOMAIN dacl /\ j < k
      BY <2>1 DEF KInv
    <3> QED
      BY <2>3, <3>1
  <2> QED
    BY <2>3, <2>4, <2>5 DEF Granted
<1> QED
  BY <1>1, KeyInvariant, PTL

----------------------------------------------------------------------------
(* The checksum: the table is that of the polynomial, the bits of an entry  *)
(* being sums of bits of its index, so that a damaged text has the checksum *)
(* of the text and that of the damage added.                                *)

\* Induction, with a set in place of a predicate.
LEMMA Induction ==
  ASSUME NEW S, 0 \in S, \A k \in Nat : k \in S => k + 1 \in S
  PROVE  Nat \subseteq S
<1> SUFFICES ASSUME Nat \ S # {} PROVE FALSE
  OBVIOUS
<1>1. PICK i \in Nat \ S : \A j \in Nat \ S : ~(j < i)
  BY FirstOf
<1>2. i - 1 \in Nat /\ i - 1 \in S
  BY <1>1
<1> QED
  BY <1>2

\* A bit of a number, by its weight.
BitOf(a, w) == (a \div w) % 2
Weights == {1, 2, 4, 8, 16, 32, 64, 128}
Sum2(x, y) == IF x = y THEN 0 ELSE 1
Sum3(x, y, z) == Sum2(Sum2(x, y), z)

LEMMA BitsOfByte ==
  ASSUME NEW a \in Byte
  PROVE  /\ \A w \in Weights : BitOf(a, w) \in {0, 1}
         /\ a = BitOf(a, 1) + 2 * BitOf(a, 2) + 4 * BitOf(a, 4) + 8 * BitOf(a, 8)
               + 16 * BitOf(a, 16) + 32 * BitOf(a, 32) + 64 * BitOf(a, 64) + 128 * BitOf(a, 128)
<1>1. a \in Nat /\ a < 256
  BY DEF Byte
<1>2. /\ a = 2 * (a \div 2) + BitOf(a, 1)
      /\ a \div 2 = 2 * (a \div 4) + BitOf(a, 2)
      /\ a \div 4 = 2 * (a \div 8) + BitOf(a, 4)
      /\ a \div 8 = 2 * (a \div 16) + BitOf(a, 8)
      /\ a \div 16 = 2 * (a \div 32) + BitOf(a, 16)
      /\ a \div 32 = 2 * (a \div 64) + BitOf(a, 32)
      /\ a \div 64 = 2 * (a \div 128) + BitOf(a, 64)
      /\ a \div 128 = BitOf(a, 128)
  BY <1>1, SMT DEF BitOf
<1>3. \A w \in Weights : BitOf(a, w) \in {0, 1}
  BY <1>1, SMT DEF BitOf, Weights
<1>4. /\ a \div 2 \in Int /\ a \div 4 \in Int /\ a \div 8 \in Int /\ a \div 16 \in Int
      /\ a \div 32 \in Int /\ a \div 64 \in Int /\ a \div 128 \in Int
  BY <1>1, SMT
<1> QED
  <2>1. /\ BitOf(a, 1) \in {0, 1} /\ BitOf(a, 2) \in {0, 1} /\ BitOf(a, 4) \in {0, 1}
        /\ BitOf(a, 8) \in {0, 1} /\ BitOf(a, 16) \in {0, 1} /\ BitOf(a, 32) \in {0, 1}
        /\ BitOf(a, 64) \in {0, 1} /\ BitOf(a, 128) \in {0, 1}
    BY <1>3 DEF Weights
  <2>2. \A w \in {1, 2, 4, 8, 16, 32, 64, 128} : BitOf(a, w) \in Int
    BY <1>3 DEF Weights
  <2>3. a \div 32 = BitOf(a, 32) + 2 * BitOf(a, 64) + 4 * BitOf(a, 128)
    BY <1>2, <2>2
  <2>4. a \div 8 = BitOf(a, 8) + 2 * BitOf(a, 16) + 4 * (a \div 32)
    BY <1>2, <1>4, <2>2
  <2>5. a \div 2 = BitOf(a, 2) + 2 * BitOf(a, 4) + 4 * (a \div 8)
    BY <1>2, <1>4, <2>2
  <2>6. \A x0, x1, x2, x3, x4, x5, x6, x7, y1, y3, y5, n \in Int :
          n = 2 * y1 + x0 /\ y1 = x1 + 2 * x2 + 4 * y3 /\ y3 = x3 + 2 * x4 + 4 * y5
            /\ y5 = x5 + 2 * x6 + 4 * x7
          => n = x0 + 2 * x1 + 4 * x2 + 8 * x3 + 16 * x4 + 32 * x5 + 64 * x6 + 128 * x7
    BY SMT
  <2> QED
    BY <1>1, <1>2, <1>3, <1>4, <2>2, <2>3, <2>4, <2>5, <2>6

LEMMA SameBits ==
  ASSUME NEW a \in Byte, NEW b \in Byte, \A w \in Weights : BitOf(a, w) = BitOf(b, w)
  PROVE  a = b
BY BitsOfByte, SMT DEF Weights

LEMMA ByteOfBits ==
  ASSUME NEW x0 \in {0, 1}, NEW x1 \in {0, 1}, NEW x2 \in {0, 1}, NEW x3 \in {0, 1},
         NEW x4 \in {0, 1}, NEW x5 \in {0, 1}, NEW x6 \in {0, 1}, NEW x7 \in {0, 1},
         NEW a, a = x0 + 2 * x1 + 4 * x2 + 8 * x3 + 16 * x4 + 32 * x5 + 64 * x6 + 128 * x7
  PROVE  /\ a \in Byte
         /\ BitOf(a, 1) = x0 /\ BitOf(a, 2) = x1 /\ BitOf(a, 4) = x2 /\ BitOf(a, 8) = x3
         /\ BitOf(a, 16) = x4 /\ BitOf(a, 32) = x5 /\ BitOf(a, 64) = x6 /\ BitOf(a, 128) = x7
BY SMT DEF BitOf, Byte

LEMMA XorBits ==
  ASSUME NEW a \in Byte, NEW b \in Byte
  PROVE  /\ Xor(a, b) \in Byte
         /\ \A w \in Weights : BitOf(Xor(a, b), w) = Sum2(BitOf(a, w), BitOf(b, w))
<1> DEFINE s(w) == Sum2(BitOf(a, w), BitOf(b, w))
<1>1. \A w : s(w) \in {0, 1}
  BY DEF Sum2
<1>2. (a \div 256) % 2 = 0 /\ (b \div 256) % 2 = 0
  BY SMT DEF Byte
<1>3. Xor(a, b) = s(1) + 2 * s(2) + 4 * s(4) + 8 * s(8) + 16 * s(16) + 32 * s(32) + 64 * s(64)
                  + 128 * s(128)
  BY <1>2, SMT DEF Xor, Sum2, BitOf
<1> HIDE DEF s
<1>4. /\ Xor(a, b) \in Byte
      /\ BitOf(Xor(a, b), 1) = s(1) /\ BitOf(Xor(a, b), 2) = s(2) /\ BitOf(Xor(a, b), 4) = s(4)
      /\ BitOf(Xor(a, b), 8) = s(8) /\ BitOf(Xor(a, b), 16) = s(16) /\ BitOf(Xor(a, b), 32) = s(32)
      /\ BitOf(Xor(a, b), 64) = s(64) /\ BitOf(Xor(a, b), 128) = s(128)
  BY <1>1, <1>3, ByteOfBits
<1> QED
  BY <1>4 DEF s, Weights

\* Xor is that of a vector space.
LEMMA XorLaws ==
  ASSUME NEW a \in Byte, NEW b \in Byte, NEW c \in Byte
  PROVE  /\ Xor(a, b) = Xor(b, a)
         /\ Xor(Xor(a, b), c) = Xor(a, Xor(b, c))
         /\ Xor(a, 0) = a /\ Xor(a, a) = 0
<1>1. \A x, y \in Byte, w \in Weights : BitOf(x, w) \in {0, 1}
  BY BitsOfByte
<1>2. 0 \in Byte /\ \A w \in Weights : BitOf(0, w) = 0
  BY SMT DEF Byte, Weights, BitOf
<1>3. Xor(a, b) = Xor(b, a)
  <2>1. \A w \in Weights : BitOf(Xor(a, b), w) = BitOf(Xor(b, a), w)
    BY XorBits DEF Sum2
  <2> QED
    BY <2>1, XorBits, SameBits
<1>4. Xor(Xor(a, b), c) = Xor(a, Xor(b, c))
  <2>1. Xor(a, b) \in Byte /\ Xor(b, c) \in Byte
    BY XorBits
  <2>2. \A w \in Weights : BitOf(Xor(Xor(a, b), c), w) = BitOf(Xor(a, Xor(b, c)), w)
    BY <1>1, <2>1, XorBits DEF Sum2
  <2> QED
    BY <2>1, <2>2, XorBits, SameBits
<1>5. Xor(a, 0) = a
  <2>1. \A w \in Weights : BitOf(Xor(a, 0), w) = BitOf(a, w)
    BY <1>1, <1>2, XorBits DEF Sum2
  <2> QED
    BY <1>2, <2>1, XorBits, SameBits
<1>6. Xor(a, a) = 0
  <2>1. \A w \in Weights : BitOf(Xor(a, a), w) = BitOf(0, w)
    BY <1>2, XorBits DEF Sum2
  <2> QED
    BY <1>2, <2>1, XorBits, SameBits
<1> QED
  BY <1>3, <1>4, <1>5, <1>6

\* The bits of an entry of the table are sums of bits of its index.
Entry(x) == kCrcTable[x + 1]
Linear(x) ==
  LET b(w) == BitOf(x, w)
  IN  Sum3(b(1), b(64), b(128)) + 2 * Sum3(b(1), b(2), b(64))
      + 4 * Sum2(Sum3(b(1), b(2), b(4)), b(64)) + 8 * Sum2(Sum3(b(2), b(4), b(8)), b(128))
      + 16 * Sum3(b(4), b(8), b(16)) + 32 * Sum3(b(8), b(16), b(32))
      + 64 * Sum3(b(16), b(32), b(64)) + 128 * Sum3(b(32), b(64), b(128))
IsLinear(x) == Entry(x) = Linear(x)

LEMMA TableRows == \A x \in Byte : IsLinear(x)
<1>1. \A x \in 0..15 : IsLinear(x)
  <2>1. /\ IsLinear(0) /\ IsLinear(1) /\ IsLinear(2) /\ IsLinear(3)
        /\ IsLinear(4) /\ IsLinear(5) /\ IsLinear(6) /\ IsLinear(7)
        /\ IsLinear(8) /\ IsLinear(9) /\ IsLinear(10) /\ IsLinear(11)
        /\ IsLinear(12) /\ IsLinear(13) /\ IsLinear(14) /\ IsLinear(15)
    BY SMT DEF IsLinear, Entry, Linear, Sum2, Sum3, BitOf, kCrcTable
  <2> QED
    BY <2>1, SMT
<1>2. \A x \in 16..31 : IsLinear(x)
  <2>1. /\ IsLinear(16) /\ IsLinear(17) /\ IsLinear(18) /\ IsLinear(19)
        /\ IsLinear(20) /\ IsLinear(21) /\ IsLinear(22) /\ IsLinear(23)
        /\ IsLinear(24) /\ IsLinear(25) /\ IsLinear(26) /\ IsLinear(27)
        /\ IsLinear(28) /\ IsLinear(29) /\ IsLinear(30) /\ IsLinear(31)
    BY SMT DEF IsLinear, Entry, Linear, Sum2, Sum3, BitOf, kCrcTable
  <2> QED
    BY <2>1, SMT
<1>3. \A x \in 32..47 : IsLinear(x)
  <2>1. /\ IsLinear(32) /\ IsLinear(33) /\ IsLinear(34) /\ IsLinear(35)
        /\ IsLinear(36) /\ IsLinear(37) /\ IsLinear(38) /\ IsLinear(39)
        /\ IsLinear(40) /\ IsLinear(41) /\ IsLinear(42) /\ IsLinear(43)
        /\ IsLinear(44) /\ IsLinear(45) /\ IsLinear(46) /\ IsLinear(47)
    BY SMT DEF IsLinear, Entry, Linear, Sum2, Sum3, BitOf, kCrcTable
  <2> QED
    BY <2>1, SMT
<1>4. \A x \in 48..63 : IsLinear(x)
  <2>1. /\ IsLinear(48) /\ IsLinear(49) /\ IsLinear(50) /\ IsLinear(51)
        /\ IsLinear(52) /\ IsLinear(53) /\ IsLinear(54) /\ IsLinear(55)
        /\ IsLinear(56) /\ IsLinear(57) /\ IsLinear(58) /\ IsLinear(59)
        /\ IsLinear(60) /\ IsLinear(61) /\ IsLinear(62) /\ IsLinear(63)
    BY SMT DEF IsLinear, Entry, Linear, Sum2, Sum3, BitOf, kCrcTable
  <2> QED
    BY <2>1, SMT
<1>5. \A x \in 64..79 : IsLinear(x)
  <2>1. /\ IsLinear(64) /\ IsLinear(65) /\ IsLinear(66) /\ IsLinear(67)
        /\ IsLinear(68) /\ IsLinear(69) /\ IsLinear(70) /\ IsLinear(71)
        /\ IsLinear(72) /\ IsLinear(73) /\ IsLinear(74) /\ IsLinear(75)
        /\ IsLinear(76) /\ IsLinear(77) /\ IsLinear(78) /\ IsLinear(79)
    BY SMT DEF IsLinear, Entry, Linear, Sum2, Sum3, BitOf, kCrcTable
  <2> QED
    BY <2>1, SMT
<1>6. \A x \in 80..95 : IsLinear(x)
  <2>1. /\ IsLinear(80) /\ IsLinear(81) /\ IsLinear(82) /\ IsLinear(83)
        /\ IsLinear(84) /\ IsLinear(85) /\ IsLinear(86) /\ IsLinear(87)
        /\ IsLinear(88) /\ IsLinear(89) /\ IsLinear(90) /\ IsLinear(91)
        /\ IsLinear(92) /\ IsLinear(93) /\ IsLinear(94) /\ IsLinear(95)
    BY SMT DEF IsLinear, Entry, Linear, Sum2, Sum3, BitOf, kCrcTable
  <2> QED
    BY <2>1, SMT
<1>7. \A x \in 96..111 : IsLinear(x)
  <2>1. /\ IsLinear(96) /\ IsLinear(97) /\ IsLinear(98) /\ IsLinear(99)
        /\ IsLinear(100) /\ IsLinear(101) /\ IsLinear(102) /\ IsLinear(103)
        /\ IsLinear(104) /\ IsLinear(105) /\ IsLinear(106) /\ IsLinear(107)
        /\ IsLinear(108) /\ IsLinear(109) /\ IsLinear(110) /\ IsLinear(111)
    BY SMT DEF IsLinear, Entry, Linear, Sum2, Sum3, BitOf, kCrcTable
  <2> QED
    BY <2>1, SMT
<1>8. \A x \in 112..127 : IsLinear(x)
  <2>1. /\ IsLinear(112) /\ IsLinear(113) /\ IsLinear(114) /\ IsLinear(115)
        /\ IsLinear(116) /\ IsLinear(117) /\ IsLinear(118) /\ IsLinear(119)
        /\ IsLinear(120) /\ IsLinear(121) /\ IsLinear(122) /\ IsLinear(123)
        /\ IsLinear(124) /\ IsLinear(125) /\ IsLinear(126) /\ IsLinear(127)
    BY SMT DEF IsLinear, Entry, Linear, Sum2, Sum3, BitOf, kCrcTable
  <2> QED
    BY <2>1, SMT
<1>9. \A x \in 128..143 : IsLinear(x)
  <2>1. /\ IsLinear(128) /\ IsLinear(129) /\ IsLinear(130) /\ IsLinear(131)
        /\ IsLinear(132) /\ IsLinear(133) /\ IsLinear(134) /\ IsLinear(135)
        /\ IsLinear(136) /\ IsLinear(137) /\ IsLinear(138) /\ IsLinear(139)
        /\ IsLinear(140) /\ IsLinear(141) /\ IsLinear(142) /\ IsLinear(143)
    BY SMT DEF IsLinear, Entry, Linear, Sum2, Sum3, BitOf, kCrcTable
  <2> QED
    BY <2>1, SMT
<1>10. \A x \in 144..159 : IsLinear(x)
  <2>1. /\ IsLinear(144) /\ IsLinear(145) /\ IsLinear(146) /\ IsLinear(147)
        /\ IsLinear(148) /\ IsLinear(149) /\ IsLinear(150) /\ IsLinear(151)
        /\ IsLinear(152) /\ IsLinear(153) /\ IsLinear(154) /\ IsLinear(155)
        /\ IsLinear(156) /\ IsLinear(157) /\ IsLinear(158) /\ IsLinear(159)
    BY SMT DEF IsLinear, Entry, Linear, Sum2, Sum3, BitOf, kCrcTable
  <2> QED
    BY <2>1, SMT
<1>11. \A x \in 160..175 : IsLinear(x)
  <2>1. /\ IsLinear(160) /\ IsLinear(161) /\ IsLinear(162) /\ IsLinear(163)
        /\ IsLinear(164) /\ IsLinear(165) /\ IsLinear(166) /\ IsLinear(167)
        /\ IsLinear(168) /\ IsLinear(169) /\ IsLinear(170) /\ IsLinear(171)
        /\ IsLinear(172) /\ IsLinear(173) /\ IsLinear(174) /\ IsLinear(175)
    BY SMT DEF IsLinear, Entry, Linear, Sum2, Sum3, BitOf, kCrcTable
  <2> QED
    BY <2>1, SMT
<1>12. \A x \in 176..191 : IsLinear(x)
  <2>1. /\ IsLinear(176) /\ IsLinear(177) /\ IsLinear(178) /\ IsLinear(179)
        /\ IsLinear(180) /\ IsLinear(181) /\ IsLinear(182) /\ IsLinear(183)
        /\ IsLinear(184) /\ IsLinear(185) /\ IsLinear(186) /\ IsLinear(187)
        /\ IsLinear(188) /\ IsLinear(189) /\ IsLinear(190) /\ IsLinear(191)
    BY SMT DEF IsLinear, Entry, Linear, Sum2, Sum3, BitOf, kCrcTable
  <2> QED
    BY <2>1, SMT
<1>13. \A x \in 192..207 : IsLinear(x)
  <2>1. /\ IsLinear(192) /\ IsLinear(193) /\ IsLinear(194) /\ IsLinear(195)
        /\ IsLinear(196) /\ IsLinear(197) /\ IsLinear(198) /\ IsLinear(199)
        /\ IsLinear(200) /\ IsLinear(201) /\ IsLinear(202) /\ IsLinear(203)
        /\ IsLinear(204) /\ IsLinear(205) /\ IsLinear(206) /\ IsLinear(207)
    BY SMT DEF IsLinear, Entry, Linear, Sum2, Sum3, BitOf, kCrcTable
  <2> QED
    BY <2>1, SMT
<1>14. \A x \in 208..223 : IsLinear(x)
  <2>1. /\ IsLinear(208) /\ IsLinear(209) /\ IsLinear(210) /\ IsLinear(211)
        /\ IsLinear(212) /\ IsLinear(213) /\ IsLinear(214) /\ IsLinear(215)
        /\ IsLinear(216) /\ IsLinear(217) /\ IsLinear(218) /\ IsLinear(219)
        /\ IsLinear(220) /\ IsLinear(221) /\ IsLinear(222) /\ IsLinear(223)
    BY SMT DEF IsLinear, Entry, Linear, Sum2, Sum3, BitOf, kCrcTable
  <2> QED
    BY <2>1, SMT
<1>15. \A x \in 224..239 : IsLinear(x)
  <2>1. /\ IsLinear(224) /\ IsLinear(225) /\ IsLinear(226) /\ IsLinear(227)
        /\ IsLinear(228) /\ IsLinear(229) /\ IsLinear(230) /\ IsLinear(231)
        /\ IsLinear(232) /\ IsLinear(233) /\ IsLinear(234) /\ IsLinear(235)
        /\ IsLinear(236) /\ IsLinear(237) /\ IsLinear(238) /\ IsLinear(239)
    BY SMT DEF IsLinear, Entry, Linear, Sum2, Sum3, BitOf, kCrcTable
  <2> QED
    BY <2>1, SMT
<1>16. \A x \in 240..255 : IsLinear(x)
  <2>1. /\ IsLinear(240) /\ IsLinear(241) /\ IsLinear(242) /\ IsLinear(243)
        /\ IsLinear(244) /\ IsLinear(245) /\ IsLinear(246) /\ IsLinear(247)
        /\ IsLinear(248) /\ IsLinear(249) /\ IsLinear(250) /\ IsLinear(251)
        /\ IsLinear(252) /\ IsLinear(253) /\ IsLinear(254) /\ IsLinear(255)
    BY SMT DEF IsLinear, Entry, Linear, Sum2, Sum3, BitOf, kCrcTable
  <2> QED
    BY <2>1, SMT
<1> QED
  BY <1>1, <1>2, <1>3, <1>4, <1>5, <1>6, <1>7, <1>8, <1>9, <1>10, <1>11, <1>12, <1>13, <1>14, <1>15, <1>16, SMT DEF Byte

LEMMA EntryBits ==
  ASSUME NEW x \in Byte
  PROVE  /\ Entry(x) \in Byte
         /\ BitOf(Entry(x), 1) = Sum3(BitOf(x, 1), BitOf(x, 64), BitOf(x, 128))
         /\ BitOf(Entry(x), 2) = Sum3(BitOf(x, 1), BitOf(x, 2), BitOf(x, 64))
         /\ BitOf(Entry(x), 4) = Sum2(Sum3(BitOf(x, 1), BitOf(x, 2), BitOf(x, 4)), BitOf(x, 64))
         /\ BitOf(Entry(x), 8) = Sum2(Sum3(BitOf(x, 2), BitOf(x, 4), BitOf(x, 8)), BitOf(x, 128))
         /\ BitOf(Entry(x), 16) = Sum3(BitOf(x, 4), BitOf(x, 8), BitOf(x, 16))
         /\ BitOf(Entry(x), 32) = Sum3(BitOf(x, 8), BitOf(x, 16), BitOf(x, 32))
         /\ BitOf(Entry(x), 64) = Sum3(BitOf(x, 16), BitOf(x, 32), BitOf(x, 64))
         /\ BitOf(Entry(x), 128) = Sum3(BitOf(x, 32), BitOf(x, 64), BitOf(x, 128))
<1>1. \A y, z : Sum2(y, z) \in {0, 1}
  BY DEF Sum2
<1>2. \A y, z, v : Sum3(y, z, v) \in {0, 1}
  BY DEF Sum2, Sum3
<1>3. Entry(x) = Linear(x)
  BY TableRows DEF IsLinear
<1> QED
  BY ONLY <1>1, <1>2, <1>3, ByteOfBits DEF Linear

LEMMA SumsOfSums ==
  ASSUME NEW x \in {0, 1}, NEW y \in {0, 1}, NEW z \in {0, 1}, NEW v \in {0, 1},
         NEW a \in {0, 1}, NEW b \in {0, 1}, NEW c \in {0, 1}, NEW d \in {0, 1}
  PROVE  /\ Sum3(Sum2(x, a), Sum2(y, b), Sum2(z, c)) = Sum2(Sum3(x, y, z), Sum3(a, b, c))
         /\ Sum2(Sum3(Sum2(x, a), Sum2(y, b), Sum2(z, c)), Sum2(v, d))
              = Sum2(Sum2(Sum3(x, y, z), v), Sum2(Sum3(a, b, c), d))
BY SMT DEF Sum2, Sum3

LEMMA EntryLinear ==
  ASSUME NEW x \in Byte, NEW y \in Byte
  PROVE  Entry(Xor(x, y)) = Xor(Entry(x), Entry(y))
<1>1. /\ Xor(x, y) \in Byte /\ Entry(x) \in Byte /\ Entry(y) \in Byte
      /\ Entry(Xor(x, y)) \in Byte /\ Xor(Entry(x), Entry(y)) \in Byte
  BY XorBits, EntryBits
<1>2. \A w \in Weights : BitOf(x, w) \in {0, 1} /\ BitOf(y, w) \in {0, 1}
  BY BitsOfByte
<1>3. \A w \in Weights :
        /\ BitOf(Xor(x, y), w) = Sum2(BitOf(x, w), BitOf(y, w))
        /\ BitOf(Xor(Entry(x), Entry(y)), w) = Sum2(BitOf(Entry(x), w), BitOf(Entry(y), w))
  BY <1>1, XorBits
<1>4. ASSUME NEW u \in Weights, NEW v \in Weights, NEW w \in Weights, NEW t \in Weights
      PROVE  LET X(i) == BitOf(x, i)  Y(i) == BitOf(y, i)  Z(i) == BitOf(Xor(x, y), i)
             IN  /\ Sum3(Z(u), Z(v), Z(w)) = Sum2(Sum3(X(u), X(v), X(w)), Sum3(Y(u), Y(v), Y(w)))
                 /\ Sum2(Sum3(Z(u), Z(v), Z(w)), Z(t))
                     = Sum2(Sum2(Sum3(X(u), X(v), X(w)), X(t)), Sum2(Sum3(Y(u), Y(v), Y(w)), Y(t)))
  BY <1>2, <1>3, SumsOfSums
<1>5. \A w \in Weights : BitOf(Entry(Xor(x, y)), w) = BitOf(Xor(Entry(x), Entry(y)), w)
  <2>1. 1 \in Weights /\ 2 \in Weights /\ 4 \in Weights /\ 8 \in Weights /\ 16 \in Weights
        /\ 32 \in Weights /\ 64 \in Weights /\ 128 \in Weights
    BY DEF Weights
  <2>2. BitOf(Entry(Xor(x, y)), 1) = Sum2(BitOf(Entry(x), 1), BitOf(Entry(y), 1))
    BY <1>1, <1>4, <2>1, EntryBits
  <2>3. BitOf(Entry(Xor(x, y)), 2) = Sum2(BitOf(Entry(x), 2), BitOf(Entry(y), 2))
    BY <1>1, <1>4, <2>1, EntryBits
  <2>4. BitOf(Entry(Xor(x, y)), 4) = Sum2(BitOf(Entry(x), 4), BitOf(Entry(y), 4))
    BY <1>1, <1>4, <2>1, EntryBits
  <2>5. BitOf(Entry(Xor(x, y)), 8) = Sum2(BitOf(Entry(x), 8), BitOf(Entry(y), 8))
    BY <1>1, <1>4, <2>1, EntryBits
  <2>6. BitOf(Entry(Xor(x, y)), 16) = Sum2(BitOf(Entry(x), 16), BitOf(Entry(y), 16))
    BY <1>1, <1>4, <2>1, EntryBits
  <2>7. BitOf(Entry(Xor(x, y)), 32) = Sum2(BitOf(Entry(x), 32), BitOf(Entry(y), 32))
    BY <1>1, <1>4, <2>1, EntryBits
  <2>8. BitOf(Entry(Xor(x, y)), 64) = Sum2(BitOf(Entry(x), 64), BitOf(Entry(y), 64))
    BY <1>1, <1>4, <2>1, EntryBits
  <2>9. BitOf(Entry(Xor(x, y)), 128) = Sum2(BitOf(Entry(x), 128), BitOf(Entry(y), 128))
    BY <1>1, <1>4, <2>1, EntryBits
  <2> QED
    BY <1>3, <2>2, <2>3, <2>4, <2>5, <2>6, <2>7, <2>8, <2>9 DEF Weights
<1> QED
  BY <1>1, <1>5, SameBits

LEMMA EntryOfZero == Entry(0) = 0 /\ \A x \in Byte : Entry(x) = 0 => x = 0
<1>1. 0 \in Byte /\ \A w \in Weights : BitOf(0, w) = 0
  BY SMT DEF Byte, Weights, BitOf
<1>2. Entry(0) = 0
  BY SMT DEF Entry, kCrcTable
<1>3. ASSUME NEW x \in Byte, Entry(x) = 0 PROVE x = 0
  <2>1. \A w \in Weights : BitOf(x, w) \in {0, 1}
    BY BitsOfByte
  <2>2. \A w \in Weights : BitOf(Entry(x), w) = 0
    BY <1>1, <1>3
  <2>3. \A w \in Weights : BitOf(x, w) = 0
    BY <2>1, <2>2, EntryBits, SMT DEF Weights, Sum2, Sum3
  <2> QED
    BY <1>1, <2>3, SameBits
<1> QED
  BY <1>2, <1>3

\* What is defined by recursion on the numbers up to n is defined.
Recursive(f, n, S, first, step) ==
  f \in [0..n -> S] /\ f[0] = first /\ \A i \in 1..n : f[i] = step[<<i, f[i - 1]>>]

LEMMA Recursion ==
  ASSUME NEW n \in Nat, NEW S, NEW first \in S, NEW step \in [(1..n) \X S -> S]
  PROVE  \E f : Recursive(f, n, S, first, step)
<1> DEFINE Upto(m) == \E f \in [0..m -> S] : f[0] = first /\ \A i \in 1..m : f[i] = step[<<i, f[i - 1]>>]
           done == {m \in Nat : m <= n => Upto(m)}
<1>1. 0 \in done
  <2>1. PICK f : f = [i \in 0..0 |-> first]
    OBVIOUS
  <2>2. f \in [0..0 -> S] /\ f[0] = first /\ \A i \in 1..0 : f[i] = step[<<i, f[i - 1]>>]
    BY <2>1
  <2>3. Upto(0)
    BY <2>2
  <2> QED
    BY <2>3
<1>2. ASSUME NEW m \in Nat, m \in done PROVE m + 1 \in done
  <2> SUFFICES ASSUME m + 1 <= n PROVE Upto(m + 1)
    OBVIOUS
  <2>1. PICK f \in [0..m -> S] : f[0] = first /\ \A i \in 1..m : f[i] = step[<<i, f[i - 1]>>]
    BY <1>2
  <2>2. PICK next \in S : next = step[<<m + 1, f[m]>>]
    OBVIOUS
  <2>3. PICK g : g = [i \in 0..(m + 1) |-> IF i = m + 1 THEN next ELSE f[i]]
    OBVIOUS
  <2>4. /\ g \in [0..(m + 1) -> S] /\ g[m + 1] = next
        /\ \A i \in 0..m : g[i] = f[i]
    BY <2>3
  <2>5. \A i \in 1..m : i - 1 \in 0..m /\ i \in 0..m
    OBVIOUS
  <2>6. \A i \in 1..(m + 1) : g[i] = step[<<i, g[i - 1]>>]
    <3> SUFFICES ASSUME NEW i \in 1..(m + 1) PROVE g[i] = step[<<i, g[i - 1]>>]
      OBVIOUS
    <3>1. CASE i = m + 1
      <4>1. (m + 1) - 1 = m /\ m \in 0..m
        OBVIOUS
      <4>2. g[(m + 1) - 1] = f[m]
        BY <2>4, <4>1
      <4> QED
        BY <2>2, <2>4, <3>1, <4>2
    <3>2. CASE i # m + 1
      <4>1. i \in 1..m
        BY <3>2
      <4> QED
        BY <2>1, <2>4, <2>5, <4>1
    <3> QED
      BY <3>1, <3>2
  <2>7. g[0] = first
    BY <2>1, <2>4
  <2> QED
    BY <2>4, <2>6, <2>7
<1>3. Nat \subseteq done
  <2> HIDE DEF done
  <2> QED
    BY <1>1, <1>2, Induction
<1> QED
  BY <1>3 DEF Recursive

\* The checksums so far that Generate computes, without the last addition.
Remainders(data) ==
  CHOOSE f : f = [i \in 0..Len(data) |->
                    IF i = 0 THEN 0 ELSE kCrcTable[Xor(data[i], f[i - 1]) + 1]]

LEMMA GenerateIs ==
  ASSUME NEW data \in Seq(Byte)
  PROVE  /\ Generate(data) = Xor(Remainders(data)[Len(data)], 85)
         /\ Remainders(data) \in [0..Len(data) -> Byte] /\ Remainders(data)[0] = 0
         /\ \A i \in 1..Len(data) :
              Remainders(data)[i] = Entry(Xor(data[i], Remainders(data)[i - 1]))
<1>1. Generate(data) = Xor(Remainders(data)[Len(data)], 85)
  BY DEF Generate, Remainders
<1>2. PICK n \in Nat : n = Len(data) /\ data \in [1..n -> Byte]
  OBVIOUS
<1>3. PICK step : step = [pair \in (1..n) \X Byte |-> Entry(Xor(data[pair[1]], pair[2]))]
  OBVIOUS
<1>4. \A i \in 1..n, c \in Byte : Entry(Xor(data[i], c)) \in Byte
  BY <1>2, XorBits, EntryBits
<1>5. /\ step \in [(1..n) \X Byte -> Byte]
      /\ \A i \in 1..n, c \in Byte : step[<<i, c>>] = Entry(Xor(data[i], c))
  BY <1>3, <1>4
<1>6. 0 \in Byte
  BY DEF Byte
<1>7. PICK f \in [0..n -> Byte] : f[0] = 0 /\ \A i \in 1..n : f[i] = step[<<i, f[i - 1]>>]
  <2>1. \E f : Recursive(f, n, Byte, 0, step)
    BY <1>5, <1>6, Recursion
  <2> QED
    BY <2>1 DEF Recursive
<1>8. \A i \in 1..n : f[i] = Entry(Xor(data[i], f[i - 1]))
  <2>1. \A i \in 1..n : i - 1 \in 0..n /\ f[i - 1] \in Byte
    OBVIOUS
  <2> QED
    BY <1>5, <1>7, <2>1
<1>9. \E g : g = [i \in 0..n |-> IF i = 0 THEN 0 ELSE Entry(Xor(data[i], g[i - 1]))]
  <2>1. f = [i \in 0..n |-> IF i = 0 THEN 0 ELSE Entry(Xor(data[i], f[i - 1]))]
    BY <1>7, <1>8
  <2> QED
    BY <2>1
<1>10. PICK g : /\ g = Remainders(data)
                /\ g = [i \in 0..n |-> IF i = 0 THEN 0 ELSE Entry(Xor(data[i], g[i - 1]))]
  BY <1>2, <1>9 DEF Remainders, Entry
<1>11. /\ DOMAIN g = 0..n /\ g[0] = 0
       /\ \A i \in 1..n : g[i] = Entry(Xor(data[i], g[i - 1]))
  BY <1>10
<1>12. \A i \in 0..n : g[i] \in Byte
  <2> DEFINE done == {i \in Nat : i <= n => g[i] \in Byte}
  <2>1. 0 \in done
    BY <1>6, <1>11
  <2>2. ASSUME NEW k \in Nat, k \in done PROVE k + 1 \in done
    <3> SUFFICES ASSUME k + 1 <= n PROVE g[k + 1] \in Byte
      OBVIOUS
    <3>1. k + 1 \in 1..n /\ (k + 1) - 1 = k /\ g[k] \in Byte
      BY <2>2
    <3> QED
      BY <1>4, <1>11, <3>1
  <2> HIDE DEF done
  <2>3. Nat \subseteq done
    BY <2>1, <2>2, Induction
  <2> QED
    BY <2>3 DEF done
<1>13. g \in [0..n -> Byte]
  <2>1. g = [i \in 0..n |-> g[i]]
    BY <1>10
  <2> QED
    BY <1>12, <2>1
<1> QED
  BY <1>1, <1>2, <1>10, <1>11, <1>13

LEMMA XorCancels ==
  ASSUME NEW a \in Byte, NEW b \in Byte
  PROVE  Xor(a, Xor(a, b)) = b /\ (Xor(a, b) = 0 <=> a = b)
<1>1. Xor(a, b) \in Byte
  BY XorBits
<1> 0 \in Byte
  BY DEF Byte
<1>2. Xor(a, Xor(a, b)) = Xor(Xor(a, a), b) /\ Xor(a, a) = 0
  BY XorLaws
<1>3. Xor(0, b) = b /\ Xor(a, 0) = a
  BY <1>1, XorLaws
<1> QED
  BY <1>2, <1>3

\* If the lower bits of an entry are zero that its index may have, it is that of
\* zero.
LEMMA LowBits ==
  ASSUME NEW hi \in Byte, NEW lo \in Byte, Entry(hi) = lo,
         \/ (hi < 2 /\ lo % 2 = 0) \/ (hi < 4 /\ lo % 4 = 0) \/ (hi < 8 /\ lo % 8 = 0)
         \/ (hi < 16 /\ lo % 16 = 0) \/ (hi < 32 /\ lo % 32 = 0) \/ (hi < 64 /\ lo % 64 = 0)
         \/ (hi < 128 /\ lo % 128 = 0)
  PROVE  hi = 0
<1> DEFINE h(w) == BitOf(hi, w)
           l(w) == BitOf(lo, w)
<1>1. hi \in 0..255 /\ lo \in 0..255
  BY DEF Byte
<1>2. \A w \in Weights : h(w) \in {0, 1}
  BY BitsOfByte
<1>3. /\ h(1) \in {0, 1} /\ h(2) \in {0, 1} /\ h(4) \in {0, 1} /\ h(8) \in {0, 1}
      /\ h(16) \in {0, 1} /\ h(32) \in {0, 1} /\ h(64) \in {0, 1} /\ h(128) \in {0, 1}
  BY <1>2 DEF Weights
<1>4. /\ l(1) = Sum3(h(1), h(64), h(128)) /\ l(2) = Sum3(h(1), h(2), h(64))
      /\ l(4) = Sum2(Sum3(h(1), h(2), h(4)), h(64))
      /\ l(8) = Sum2(Sum3(h(2), h(4), h(8)), h(128))
      /\ l(16) = Sum3(h(4), h(8), h(16)) /\ l(32) = Sum3(h(8), h(16), h(32))
      /\ l(64) = Sum3(h(16), h(32), h(64))
  BY EntryBits
<1>5. h(1) = 0 /\ h(2) = 0 /\ h(4) = 0 /\ h(8) = 0 /\ h(16) = 0 /\ h(32) = 0 /\ h(64) = 0
      /\ h(128) = 0
  <2>1. CASE hi < 2 /\ lo % 2 = 0
    <3>1. /\ h(2) = 0 /\ h(4) = 0 /\ h(8) = 0 /\ h(16) = 0 /\ h(32) = 0 /\ h(64) = 0 /\ h(128) = 0
          /\ l(1) = 0
      BY <1>1, <2>1, SMT DEF BitOf
    <3> HIDE DEF h, l
    <3> QED
      BY <1>3, <1>4, <3>1 DEF Sum2, Sum3
  <2>2. CASE hi < 4 /\ lo % 4 = 0
    <3>1. /\ h(4) = 0 /\ h(8) = 0 /\ h(16) = 0 /\ h(32) = 0 /\ h(64) = 0 /\ h(128) = 0
          /\ l(1) = 0 /\ l(2) = 0
      BY <1>1, <2>2, SMT DEF BitOf
    <3> HIDE DEF h, l
    <3> QED
      BY <1>3, <1>4, <3>1 DEF Sum2, Sum3
  <2>3. CASE hi < 8 /\ lo % 8 = 0
    <3>1. /\ h(8) = 0 /\ h(16) = 0 /\ h(32) = 0 /\ h(64) = 0 /\ h(128) = 0
          /\ l(1) = 0 /\ l(2) = 0 /\ l(4) = 0
      BY <1>1, <2>3, SMT DEF BitOf
    <3> HIDE DEF h, l
    <3> QED
      BY <1>3, <1>4, <3>1 DEF Sum2, Sum3
  <2>4. CASE hi < 16 /\ lo % 16 = 0
    <3>1. /\ h(16) = 0 /\ h(32) = 0 /\ h(64) = 0 /\ h(128) = 0
          /\ l(1) = 0 /\ l(2) = 0 /\ l(4) = 0 /\ l(8) = 0
      BY <1>1, <2>4, SMT DEF BitOf
    <3> HIDE DEF h, l
    <3> QED
      BY <1>3, <1>4, <3>1 DEF Sum2, Sum3
  <2>5. CASE hi < 32 /\ lo % 32 = 0
    <3>1. /\ h(32) = 0 /\ h(64) = 0 /\ h(128) = 0
          /\ l(1) = 0 /\ l(2) = 0 /\ l(4) = 0 /\ l(8) = 0 /\ l(16) = 0
      BY <1>1, <2>5, SMT DEF BitOf
    <3> HIDE DEF h, l
    <3> QED
      BY <1>3, <1>4, <3>1 DEF Sum2, Sum3
  <2>6. CASE hi < 64 /\ lo % 64 = 0
    <3>1. /\ h(64) = 0 /\ h(128) = 0
          /\ l(1) = 0 /\ l(2) = 0 /\ l(4) = 0 /\ l(8) = 0 /\ l(16) = 0 /\ l(32) = 0
      BY <1>1, <2>6, SMT DEF BitOf
    <3> HIDE DEF h, l
    <3> QED
      BY <1>3, <1>4, <3>1 DEF Sum2, Sum3
  <2>7. CASE hi < 128 /\ lo % 128 = 0
    <3>1. /\ h(128) = 0
          /\ l(1) = 0 /\ l(2) = 0 /\ l(4) = 0 /\ l(8) = 0 /\ l(16) = 0 /\ l(32) = 0 /\ l(64) = 0
      BY <1>1, <2>7, SMT DEF BitOf
    <3> HIDE DEF h, l
    <3> QED
      BY <1>3, <1>4, <3>1 DEF Sum2, Sum3
  <2> QED
    BY <2>1, <2>2, <2>3, <2>4, <2>5, <2>6, <2>7
<1>6. hi = h(1) + 2 * h(2) + 4 * h(4) + 8 * h(8) + 16 * h(16) + 32 * h(32) + 64 * h(64) + 128 * h(128)
  BY BitsOfByte
<1> HIDE DEF h
<1> QED
  BY <1>5, <1>6

\* A burst of up to eight bits in two bytes is not a byte and its entry.
LEMMA BurstNotEntry ==
  ASSUME NEW burst \in 1..255, NEW k \in 0..7
  PROVE  LET hi == (burst * 2^k) \div 256  lo == (burst * 2^k) % 256
         IN  hi \in Byte /\ lo \in Byte /\ Entry(hi) # lo
<1>1. 2^0 = 1 /\ 2^1 = 2 /\ 2^2 = 4 /\ 2^3 = 8 /\ 2^4 = 16 /\ 2^5 = 32 /\ 2^6 = 64 /\ 2^7 = 128
  BY SMT
<1>2. PICK power : power = 2^k
  OBVIOUS
<1>3. power \in Weights
  <2>1. CASE k = 0
    BY <1>1, <1>2, <2>1 DEF Weights
  <2>2. CASE k = 1
    BY <1>1, <1>2, <2>2 DEF Weights
  <2>3. CASE k = 2
    BY <1>1, <1>2, <2>3 DEF Weights
  <2>4. CASE k = 3
    BY <1>1, <1>2, <2>4 DEF Weights
  <2>5. CASE k = 4
    BY <1>1, <1>2, <2>5 DEF Weights
  <2>6. CASE k = 5
    BY <1>1, <1>2, <2>6 DEF Weights
  <2>7. CASE k = 6
    BY <1>1, <1>2, <2>7 DEF Weights
  <2>8. CASE k = 7
    BY <1>1, <1>2, <2>8 DEF Weights
  <2> QED
    BY <2>1, <2>2, <2>3, <2>4, <2>5, <2>6, <2>7, <2>8
<1>4. PICK p : p = burst * power
  OBVIOUS
<1>5. p \in Nat /\ p > 0 /\ p < 32768
  BY <1>3, <1>4 DEF Weights
<1>6. PICK hi \in Int : hi = p \div 256
  BY <1>5
<1>7. PICK lo \in Int : lo = p % 256
  BY <1>5
<1>8. hi \in 0..127 /\ lo \in 0..255 /\ p = 256 * hi + lo
  BY <1>5, <1>6, <1>7
<1>9. \/ hi = 0
      \/ (hi < 2 /\ lo % 2 = 0) \/ (hi < 4 /\ lo % 4 = 0) \/ (hi < 8 /\ lo % 8 = 0)
      \/ (hi < 16 /\ lo % 16 = 0) \/ (hi < 32 /\ lo % 32 = 0) \/ (hi < 64 /\ lo % 64 = 0)
      \/ (hi < 128 /\ lo % 128 = 0)
  <2>1. CASE power = 1
    BY <1>4, <1>8, <2>1, SMT
  <2>2. CASE power = 2
    <3>1. hi < 2 /\ lo = 2 * (burst - 128 * hi)
      BY <1>4, <1>8, <2>2
    <3>2. PICK q \in Int : q = burst - 128 * hi
      BY <1>8
    <3>3. \A i \in Int : (2 * i) % 2 = 0
      BY SMT
    <3>4. lo % 2 = 0
      BY <3>1, <3>2, <3>3
    <3> QED
      BY <3>1, <3>4
  <2>3. CASE power = 4
    <3>1. hi < 4 /\ lo = 4 * (burst - 64 * hi)
      BY <1>4, <1>8, <2>3
    <3>2. PICK q \in Int : q = burst - 64 * hi
      BY <1>8
    <3>3. \A i \in Int : (4 * i) % 4 = 0
      BY SMT
    <3>4. lo % 4 = 0
      BY <3>1, <3>2, <3>3
    <3> QED
      BY <3>1, <3>4
  <2>4. CASE power = 8
    <3>1. hi < 8 /\ lo = 8 * (burst - 32 * hi)
      BY <1>4, <1>8, <2>4
    <3>2. PICK q \in Int : q = burst - 32 * hi
      BY <1>8
    <3>3. \A i \in Int : (8 * i) % 8 = 0
      BY SMT
    <3>4. lo % 8 = 0
      BY <3>1, <3>2, <3>3
    <3> QED
      BY <3>1, <3>4
  <2>5. CASE power = 16
    <3>1. hi < 16 /\ lo = 16 * (burst - 16 * hi)
      BY <1>4, <1>8, <2>5
    <3>2. PICK q \in Int : q = burst - 16 * hi
      BY <1>8
    <3>3. \A i \in Int : (16 * i) % 16 = 0
      BY SMT
    <3>4. lo % 16 = 0
      BY <3>1, <3>2, <3>3
    <3> QED
      BY <3>1, <3>4
  <2>6. CASE power = 32
    <3>1. hi < 32 /\ lo = 32 * (burst - 8 * hi)
      BY <1>4, <1>8, <2>6
    <3>2. PICK q \in Int : q = burst - 8 * hi
      BY <1>8
    <3>3. \A i \in Int : (32 * i) % 32 = 0
      BY SMT
    <3>4. lo % 32 = 0
      BY <3>1, <3>2, <3>3
    <3> QED
      BY <3>1, <3>4
  <2>7. CASE power = 64
    <3>1. hi < 64 /\ lo = 64 * (burst - 4 * hi)
      BY <1>4, <1>8, <2>7
    <3>2. PICK q \in Int : q = burst - 4 * hi
      BY <1>8
    <3>3. \A i \in Int : (64 * i) % 64 = 0
      BY SMT
    <3>4. lo % 64 = 0
      BY <3>1, <3>2, <3>3
    <3> QED
      BY <3>1, <3>4
  <2>8. CASE power = 128
    <3>1. hi < 128 /\ lo = 128 * (burst - 2 * hi)
      BY <1>4, <1>8, <2>8
    <3>2. PICK q \in Int : q = burst - 2 * hi
      BY <1>8
    <3>3. \A i \in Int : (128 * i) % 128 = 0
      BY SMT
    <3>4. lo % 128 = 0
      BY <3>1, <3>2, <3>3
    <3> QED
      BY <3>1, <3>4
  <2> QED
    BY <1>3, <2>1, <2>2, <2>3, <2>4, <2>5, <2>6, <2>7, <2>8 DEF Weights
<1>10. hi \in Byte /\ lo \in Byte
  BY <1>8 DEF Byte
<1>11. ASSUME Entry(hi) = lo PROVE FALSE
  <2>1. hi = 0
    BY <1>9, <1>10, <1>11, LowBits
  <2>2. lo = 0
    BY <1>11, <2>1, EntryOfZero
  <2> QED
    BY <1>5, <1>8, <2>1, <2>2
<1> QED
  BY <1>2, <1>4, <1>6, <1>7, <1>10, <1>11

LEMMA XorSwap ==
  ASSUME NEW a \in Byte, NEW b \in Byte, NEW c \in Byte, NEW d \in Byte
  PROVE  Xor(Xor(a, b), Xor(c, d)) = Xor(Xor(a, c), Xor(b, d))
<1>1. /\ Xor(a, b) \in Byte /\ Xor(c, d) \in Byte /\ Xor(b, d) \in Byte /\ Xor(b, c) \in Byte
      /\ Xor(a, c) \in Byte
  BY XorBits
<1>2. Xor(Xor(a, b), Xor(c, d)) = Xor(Xor(Xor(a, b), c), d)
  BY <1>1, XorLaws
<1>3. Xor(Xor(a, b), c) = Xor(Xor(a, c), b)
  BY <1>1, XorLaws
<1>4. Xor(Xor(Xor(a, c), b), d) = Xor(Xor(a, c), Xor(b, d))
  BY <1>1, XorLaws
<1> QED
  BY <1>2, <1>3, <1>4

\* The damage to a text goes through the table as the text does: the checksum
\* of a damaged text is right only if the damage itself leaves no remainder.
Undetected(n, damage, left) ==
  /\ left \in [1..n -> Byte] /\ left[1] = damage[1] /\ left[n] = 0
  /\ \A i \in 1..(n - 1) : left[i + 1] = Xor(Entry(left[i]), damage[i + 1])

LEMMA DamageAdds ==
  ASSUME NEW n \in Nat \ {0}, NEW bytes \in [1..n -> Byte], NEW bad \in [1..n -> Byte],
         Verify(SubSeq(bytes, 1, n - 1), bytes[n]), Verify(SubSeq(bad, 1, n - 1), bad[n]),
         NEW damage, damage = [i \in 1..n |-> Xor(bytes[i], bad[i])]
  PROVE  \E left : Undetected(n, damage, left)
<1>1. \A s \in [1..n -> Byte] :
        /\ SubSeq(s, 1, n - 1) \in Seq(Byte) /\ Len(SubSeq(s, 1, n - 1)) = n - 1
        /\ \A i \in 1..(n - 1) : SubSeq(s, 1, n - 1)[i] = s[i]
  <2> TAKE s \in [1..n -> Byte]
  <2>1. \A i \in 1..(n - 1) : s[i] \in Byte
    OBVIOUS
  <2>2. n - 1 \in Int /\ 1 \in Int /\ \A i \in Int : 1 + i - 1 = i
    OBVIOUS
  <2>3. /\ SubSeq(s, 1, n - 1) \in Seq(Byte)
        /\ Len(SubSeq(s, 1, n - 1)) = IF 1 <= n - 1 THEN (n - 1) - 1 + 1 ELSE 0
        /\ \A i \in 1..((n - 1) - 1 + 1) : SubSeq(s, 1, n - 1)[i] = s[1 + i - 1]
    BY <2>1, <2>2, SubSeqProperties
  <2> QED
    BY <2>3
<1>2. PICK r : r = Remainders(SubSeq(bytes, 1, n - 1))
  OBVIOUS
<1>3. PICK q : q = Remainders(SubSeq(bad, 1, n - 1))
  OBVIOUS
<1>4. /\ r \in [0..(n - 1) -> Byte] /\ r[0] = 0 /\ bytes[n] = Xor(r[n - 1], 85)
      /\ \A i \in 1..(n - 1) : r[i] = Entry(Xor(bytes[i], r[i - 1]))
  BY <1>1, <1>2, GenerateIs DEF Verify
<1>5. /\ q \in [0..(n - 1) -> Byte] /\ q[0] = 0 /\ bad[n] = Xor(q[n - 1], 85)
      /\ \A i \in 1..(n - 1) : q[i] = Entry(Xor(bad[i], q[i - 1]))
  BY <1>1, <1>3, GenerateIs DEF Verify
<1>6. PICK left : left = [i \in 1..n |-> Xor(Xor(r[i - 1], q[i - 1]), damage[i])]
  OBVIOUS
<1>7. \A i \in 1..n : /\ i - 1 \in 0..(n - 1) /\ bytes[i] \in Byte /\ bad[i] \in Byte
                      /\ damage[i] = Xor(bytes[i], bad[i]) /\ damage[i] \in Byte
  BY XorBits
<1>8. \A i \in 0..(n - 1) : r[i] \in Byte /\ q[i] \in Byte /\ Xor(r[i], q[i]) \in Byte
  BY <1>4, <1>5, XorBits
<1>9. left \in [1..n -> Byte]
  BY <1>6, <1>7, <1>8, XorBits
<1>10. 0 \in Byte /\ 85 \in Byte /\ 1 \in 1..n /\ n \in 1..n
  BY DEF Byte
<1>11. left[1] = damage[1]
  <2>1. Xor(0, 0) = 0 /\ Xor(0, damage[1]) = damage[1]
    BY <1>7, <1>10, XorLaws
  <2> QED
    BY <1>4, <1>5, <1>6, <1>10, <2>1
<1>12. left[n] = 0
  <2>1. damage[n] = Xor(Xor(r[n - 1], 85), Xor(q[n - 1], 85))
    BY <1>4, <1>5, <1>7, <1>10
  <2>2. r[n - 1] \in Byte /\ q[n - 1] \in Byte /\ Xor(r[n - 1], q[n - 1]) \in Byte
    BY <1>8
  <2>3. damage[n] = Xor(Xor(r[n - 1], q[n - 1]), Xor(85, 85))
    BY <1>10, <2>1, <2>2, XorSwap
  <2>4. damage[n] = Xor(r[n - 1], q[n - 1])
    BY <1>10, <2>2, <2>3, XorLaws
  <2>5. left[n] = Xor(Xor(r[n - 1], q[n - 1]), damage[n])
    BY <1>6, <1>10
  <2> QED
    BY <2>2, <2>4, <2>5, XorLaws
<1>13. ASSUME NEW i \in 1..(n - 1) PROVE left[i + 1] = Xor(Entry(left[i]), damage[i + 1])
  <2>1. i \in 1..n /\ i + 1 \in 1..n /\ i - 1 \in 0..(n - 1) /\ (i + 1) - 1 = i /\ i \in 0..(n - 1)
    OBVIOUS
  <2>2. /\ bytes[i] \in Byte /\ bad[i] \in Byte /\ r[i - 1] \in Byte /\ q[i - 1] \in Byte
        /\ Xor(r[i - 1], q[i - 1]) \in Byte /\ damage[i] \in Byte
    BY <1>7, <1>8, <2>1
  <2>3. left[i] = Xor(Xor(r[i - 1], q[i - 1]), Xor(bytes[i], bad[i]))
    BY <1>6, <1>7, <2>1
  <2>4. left[i] = Xor(Xor(bytes[i], r[i - 1]), Xor(bad[i], q[i - 1]))
    <3>1. left[i] = Xor(Xor(bytes[i], bad[i]), Xor(r[i - 1], q[i - 1]))
      BY <1>7, <2>1, <2>2, <2>3, XorLaws
    <3>2. \A a, b, c, d \in Byte : Xor(Xor(a, b), Xor(c, d)) = Xor(Xor(a, c), Xor(b, d))
      BY XorSwap
    <3> QED
      BY ONLY <2>2, <3>1, <3>2
  <2>5. Entry(left[i]) = Xor(r[i], q[i])
    <3>1. Xor(bytes[i], r[i - 1]) \in Byte /\ Xor(bad[i], q[i - 1]) \in Byte
      BY <2>2, XorBits
    <3>2. Entry(left[i]) = Xor(Entry(Xor(bytes[i], r[i - 1])), Entry(Xor(bad[i], q[i - 1])))
      BY <2>4, <3>1, EntryLinear
    <3>3. r[i] = Entry(Xor(bytes[i], r[i - 1])) /\ q[i] = Entry(Xor(bad[i], q[i - 1]))
      BY <1>4, <1>5
    <3> QED
      BY <3>2, <3>3
  <2>6. left[i + 1] = Xor(Xor(r[i], q[i]), damage[i + 1])
    BY <1>6, <2>1
  <2> QED
    BY <2>5, <2>6
<1> QED
  BY <1>9, <1>11, <1>12, <1>13 DEF Undetected

\* Damage to two bytes, next to each other, is not all gone afterwards unless the
\* second byte undoes what the first one left.
LEMMA DamageRemains ==
  ASSUME NEW n \in Nat \ {0}, NEW damage \in [1..n -> Byte], NEW left,
         Undetected(n, damage, left), NEW m \in 1..n,
         \A i \in 1..n : i # m /\ i # m - 1 => damage[i] = 0
  PROVE  damage[m] = IF m = 1 THEN 0 ELSE Entry(damage[m - 1])
<1>1. /\ left \in [1..n -> Byte] /\ left[1] = damage[1] /\ left[n] = 0
      /\ \A i \in 1..(n - 1) : left[i + 1] = Xor(Entry(left[i]), damage[i + 1])
  BY DEF Undetected
<1>2. 0 \in Byte /\ Entry(0) = 0 /\ Xor(0, 0) = 0
  <2>1. 0 \in Byte
    BY DEF Byte
  <2> QED
    BY <2>1, EntryOfZero, XorLaws
<1>3. \A i \in 1..(m - 2) : left[i] = 0
  <2> DEFINE done == {i \in Nat : i >= 1 /\ i <= m - 2 => left[i] = 0}
  <2>1. 0 \in done
    OBVIOUS
  <2>2. ASSUME NEW k \in Nat, k \in done PROVE k + 1 \in done
    <3> SUFFICES ASSUME k + 1 <= m - 2 PROVE left[k + 1] = 0
      OBVIOUS
    <3>1. damage[k + 1] = 0
      OBVIOUS
    <3>2. CASE k = 0
      BY <1>1, <3>1, <3>2
    <3>3. CASE k # 0
      <4>1. left[k] = 0 /\ k \in 1..(n - 1)
        BY <2>2, <3>3
      <4> QED
        BY <1>1, <1>2, <3>1, <4>1
    <3> QED
      BY <3>2, <3>3
  <2> HIDE DEF done
  <2>3. Nat \subseteq done
    BY <2>1, <2>2, Induction
  <2> QED
    BY <2>3 DEF done
<1>4. m # 1 => left[m - 1] = damage[m - 1]
  <2> SUFFICES ASSUME m # 1 PROVE left[m - 1] = damage[m - 1]
    OBVIOUS
  <2>1. CASE m = 2
    BY <1>1, <2>1
  <2>2. CASE m # 2
    <3>1. m - 2 \in 1..(n - 1) /\ m - 2 \in 1..(m - 2) /\ (m - 2) + 1 = m - 1 /\ m - 1 \in 1..n
      BY <2>2
    <3>2. left[m - 1] = Xor(0, damage[m - 1])
      BY <1>1, <1>2, <1>3, <3>1
    <3>3. damage[m - 1] \in Byte
      BY <3>1
    <3> QED
      BY <1>2, <3>2, <3>3, XorLaws
  <2> QED
    BY <2>1, <2>2
<1>5. left[m] = 0
  <2> SUFFICES ASSUME left[m] # 0 PROVE FALSE
    OBVIOUS
  <2> DEFINE done == {i \in Nat : m + i <= n => left[m + i] # 0}
  <2>1. 0 \in done
    OBVIOUS
  <2>2. ASSUME NEW k \in Nat, k \in done PROVE k + 1 \in done
    <3> SUFFICES ASSUME m + (k + 1) <= n PROVE left[m + (k + 1)] # 0
      OBVIOUS
    <3>1. PICK i \in 1..(n - 1) : i = m + k
      OBVIOUS
    <3>2. i + 1 = m + (k + 1) /\ i + 1 \in 1..n /\ left[i] # 0 /\ left[i] \in Byte
      BY <1>1, <2>2, <3>1
    <3>3. damage[i + 1] = 0
      BY <3>1, <3>2
    <3>4. Entry(left[i]) # 0 /\ Entry(left[i]) \in Byte
      BY <3>2, EntryOfZero, EntryBits
    <3>5. left[i + 1] = Entry(left[i])
      BY <1>1, <1>2, <3>3, <3>4, XorLaws
    <3> QED
      BY <3>2, <3>4, <3>5
  <2> HIDE DEF done
  <2>3. Nat \subseteq done
    BY <2>1, <2>2, Induction
  <2>4. n - m \in Nat /\ m + (n - m) = n
    OBVIOUS
  <2>5. left[n] # 0
    BY <2>3, <2>4 DEF done
  <2> QED
    BY <1>1, <2>5
<1>6. CASE m = 1
  BY <1>1, <1>5, <1>6
<1>7. CASE m # 1
  <2>1. m - 1 \in 1..(n - 1) /\ (m - 1) + 1 = m /\ m - 1 \in 1..n
    BY <1>7
  <2>2. Xor(Entry(damage[m - 1]), damage[m]) = 0
    BY <1>1, <1>4, <1>5, <1>7, <2>1
  <2>3. damage[m - 1] \in Byte /\ damage[m] \in Byte
    BY <2>1
  <2>4. Entry(damage[m - 1]) \in Byte
    BY <2>3, EntryBits
  <2> QED
    BY <1>7, <2>2, <2>3, <2>4, XorCancels
<1> QED
  BY <1>6, <1>7

\* One step of the division: the next bit is taken in.
Divide(c, bit) == LET r == 2 * c + bit IN IF r >= 256 THEN Xor(r, 263) ELSE r

LEMMA DivideBits ==
  ASSUME NEW c \in Byte, NEW bit \in {0, 1}
  PROVE  /\ Divide(c, bit) \in Byte
         /\ BitOf(Divide(c, bit), 1) = Sum2(bit, BitOf(c, 128))
         /\ BitOf(Divide(c, bit), 2) = Sum2(BitOf(c, 1), BitOf(c, 128))
         /\ BitOf(Divide(c, bit), 4) = Sum2(BitOf(c, 2), BitOf(c, 128))
         /\ BitOf(Divide(c, bit), 8) = BitOf(c, 4) /\ BitOf(Divide(c, bit), 16) = BitOf(c, 8)
         /\ BitOf(Divide(c, bit), 32) = BitOf(c, 16) /\ BitOf(Divide(c, bit), 64) = BitOf(c, 32)
         /\ BitOf(Divide(c, bit), 128) = BitOf(c, 64)
<1>1. c \in 0..255
  BY DEF Byte
<1>2. /\ BitOf(c, 1) \in {0, 1} /\ BitOf(c, 2) \in {0, 1} /\ BitOf(c, 4) \in {0, 1}
      /\ BitOf(c, 8) \in {0, 1} /\ BitOf(c, 16) \in {0, 1} /\ BitOf(c, 32) \in {0, 1}
      /\ BitOf(c, 64) \in {0, 1} /\ BitOf(c, 128) \in {0, 1}
  BY BitsOfByte DEF Weights
<1>3. c = BitOf(c, 1) + 2 * BitOf(c, 2) + 4 * BitOf(c, 4) + 8 * BitOf(c, 8)
          + 16 * BitOf(c, 16) + 32 * BitOf(c, 32) + 64 * BitOf(c, 64) + 128 * BitOf(c, 128)
  BY BitsOfByte
<1>4. ASSUME NEW x0 \in {0, 1}, NEW x1 \in {0, 1}, NEW x2 \in {0, 1}, NEW x3 \in {0, 1},
             NEW x4 \in {0, 1}, NEW x5 \in {0, 1}, NEW x6 \in {0, 1}, NEW x7 \in {0, 1},
             c = x0 + 2 * x1 + 4 * x2 + 8 * x3 + 16 * x4 + 32 * x5 + 64 * x6 + 128 * x7
      PROVE  Divide(c, bit) = Sum2(bit, x7) + 2 * Sum2(x0, x7) + 4 * Sum2(x1, x7) + 8 * x2
                              + 16 * x3 + 32 * x4 + 64 * x5 + 128 * x6
  <2>1. CASE x7 = 0
    <3>1. 2 * c + bit < 256 /\ 2 * c + bit = bit + 2 * x0 + 4 * x1 + 8 * x2
                              + 16 * x3 + 32 * x4 + 64 * x5 + 128 * x6
      BY <1>4, <2>1
    <3>2. Sum2(bit, x7) = bit /\ Sum2(x0, x7) = x0 /\ Sum2(x1, x7) = x1
      BY <2>1 DEF Sum2
    <3>3. Divide(c, bit) = 2 * c + bit
      BY <1>1, <3>1 DEF Divide
    <3> QED
      BY <3>1, <3>2, <3>3
  <2>2. CASE x7 = 1
    <3>1. PICK r \in Nat : r = 2 * c + bit
      BY <1>1
    <3>2. PICK low \in Nat : low = bit + 2 * x0 + 4 * x1 + 8 * x2
                                   + 16 * x3 + 32 * x4 + 64 * x5 + 128 * x6
      OBVIOUS
    <3>3. r = 256 + low /\ low < 256
      BY <1>4, <2>2, <3>1, <3>2
    <3>4. low \in Byte
      BY <3>3 DEF Byte
    <3>5. /\ BitOf(low, 1) = bit /\ BitOf(low, 2) = x0 /\ BitOf(low, 4) = x1 /\ BitOf(low, 8) = x2
          /\ BitOf(low, 16) = x3 /\ BitOf(low, 32) = x4 /\ BitOf(low, 64) = x5
          /\ BitOf(low, 128) = x6
      BY <3>2, ByteOfBits
    <3>6. \A w \in Weights : BitOf(r, w) = BitOf(low, w)
      BY <3>3, SMT DEF Weights, BitOf
    <3>7. (r \div 256) % 2 = 1
      BY <3>3, SMT
    <3>8. /\ (263 \div 1) % 2 = 1 /\ (263 \div 2) % 2 = 1 /\ (263 \div 4) % 2 = 1
          /\ (263 \div 8) % 2 = 0 /\ (263 \div 16) % 2 = 0 /\ (263 \div 32) % 2 = 0
          /\ (263 \div 64) % 2 = 0 /\ (263 \div 128) % 2 = 0 /\ (263 \div 256) % 2 = 1
      BY SMT
    <3>9. /\ (r \div 1) % 2 = bit /\ (r \div 2) % 2 = x0 /\ (r \div 4) % 2 = x1
          /\ (r \div 8) % 2 = x2 /\ (r \div 16) % 2 = x3 /\ (r \div 32) % 2 = x4
          /\ (r \div 64) % 2 = x5 /\ (r \div 128) % 2 = x6
      BY <3>5, <3>6 DEF Weights, BitOf
    <3>10. Xor(r, 263) = Sum2(bit, 1) + 2 * Sum2(x0, 1) + 4 * Sum2(x1, 1) + 8 * x2
                         + 16 * x3 + 32 * x4 + 64 * x5 + 128 * x6
      BY <3>7, <3>8, <3>9 DEF Xor, Sum2
    <3>11. Divide(c, bit) = Xor(r, 263)
      BY <3>1, <3>3 DEF Divide
    <3> QED
      BY <2>2, <3>10, <3>11
  <2> QED
    BY <2>1, <2>2
<1>5. \A x, y : Sum2(x, y) \in {0, 1}
  BY DEF Sum2
<1>6. Divide(c, bit) = Sum2(bit, BitOf(c, 128)) + 2 * Sum2(BitOf(c, 1), BitOf(c, 128))
        + 4 * Sum2(BitOf(c, 2), BitOf(c, 128)) + 8 * BitOf(c, 4) + 16 * BitOf(c, 8)
        + 32 * BitOf(c, 16) + 64 * BitOf(c, 32) + 128 * BitOf(c, 64)
  BY <1>2, <1>3, <1>4
<1> QED
  BY <1>2, <1>5, <1>6, ByteOfBits

\* Eight steps do what an entry of the table does.
LEMMA DivideByte ==
  ASSUME NEW c \in [0..8 -> Byte], NEW d \in Byte,
         c[1] = Divide(c[0], BitOf(d, 128)), c[2] = Divide(c[1], BitOf(d, 64)),
         c[3] = Divide(c[2], BitOf(d, 32)), c[4] = Divide(c[3], BitOf(d, 16)),
         c[5] = Divide(c[4], BitOf(d, 8)), c[6] = Divide(c[5], BitOf(d, 4)),
         c[7] = Divide(c[6], BitOf(d, 2)), c[8] = Divide(c[7], BitOf(d, 1))
  PROVE  c[8] = Xor(Entry(c[0]), d)
<1> DEFINE x(w) == BitOf(c[0], w)
           y(w) == BitOf(d, w)
<1>1. \A i \in 0..8 : c[i] \in Byte
  OBVIOUS
<1>2. \A w \in Weights : x(w) \in {0, 1} /\ y(w) \in {0, 1}
  BY <1>1, BitsOfByte
<1>3. /\ y(1) \in {0, 1} /\ y(2) \in {0, 1} /\ y(4) \in {0, 1} /\ y(8) \in {0, 1}
      /\ y(16) \in {0, 1} /\ y(32) \in {0, 1} /\ y(64) \in {0, 1} /\ y(128) \in {0, 1}
      /\ x(1) \in {0, 1} /\ x(2) \in {0, 1} /\ x(4) \in {0, 1} /\ x(8) \in {0, 1}
      /\ x(16) \in {0, 1} /\ x(32) \in {0, 1} /\ x(64) \in {0, 1} /\ x(128) \in {0, 1}
  BY <1>2 DEF Weights
<1>4. /\ BitOf(c[1], 1) = Sum2(x(128), y(128))
      /\ BitOf(c[1], 2) = Sum2(x(1), x(128))
      /\ BitOf(c[1], 4) = Sum2(x(2), x(128))
      /\ BitOf(c[1], 8) = x(4)
      /\ BitOf(c[1], 16) = x(8)
      /\ BitOf(c[1], 32) = x(16)
      /\ BitOf(c[1], 64) = x(32)
      /\ BitOf(c[1], 128) = x(64)
  <2>1. c[0] \in Byte /\ y(128) \in {0, 1}
    BY <1>1, <1>3
  <2>2. /\ BitOf(c[1], 1) = Sum2(y(128), BitOf(c[0], 128))
        /\ BitOf(c[1], 2) = Sum2(BitOf(c[0], 1), BitOf(c[0], 128))
        /\ BitOf(c[1], 4) = Sum2(BitOf(c[0], 2), BitOf(c[0], 128))
        /\ BitOf(c[1], 8) = BitOf(c[0], 4)
        /\ BitOf(c[1], 16) = BitOf(c[0], 8)
        /\ BitOf(c[1], 32) = BitOf(c[0], 16)
        /\ BitOf(c[1], 64) = BitOf(c[0], 32)
        /\ BitOf(c[1], 128) = BitOf(c[0], 64)
    BY <2>1, DivideBits
  <2> QED
    BY <1>3, <2>2 DEF Sum2
<1>5. /\ BitOf(c[2], 1) = Sum2(x(64), y(64))
      /\ BitOf(c[2], 2) = Sum2(Sum2(x(64), x(128)), y(128))
      /\ BitOf(c[2], 4) = Sum2(Sum2(x(1), x(64)), x(128))
      /\ BitOf(c[2], 8) = Sum2(x(2), x(128))
      /\ BitOf(c[2], 16) = x(4)
      /\ BitOf(c[2], 32) = x(8)
      /\ BitOf(c[2], 64) = x(16)
      /\ BitOf(c[2], 128) = x(32)
  <2>1. c[1] \in Byte /\ y(64) \in {0, 1}
    BY <1>1, <1>3
  <2>2. /\ BitOf(c[2], 1) = Sum2(y(64), BitOf(c[1], 128))
        /\ BitOf(c[2], 2) = Sum2(BitOf(c[1], 1), BitOf(c[1], 128))
        /\ BitOf(c[2], 4) = Sum2(BitOf(c[1], 2), BitOf(c[1], 128))
        /\ BitOf(c[2], 8) = BitOf(c[1], 4)
        /\ BitOf(c[2], 16) = BitOf(c[1], 8)
        /\ BitOf(c[2], 32) = BitOf(c[1], 16)
        /\ BitOf(c[2], 64) = BitOf(c[1], 32)
        /\ BitOf(c[2], 128) = BitOf(c[1], 64)
    BY <2>1, DivideBits
  <2> HIDE DEF x, y
  <2> QED
    BY <1>4, <1>3, <2>2 DEF Sum2
<1>6. /\ BitOf(c[3], 1) = Sum2(x(32), y(32))
      /\ BitOf(c[3], 2) = Sum2(Sum2(x(32), x(64)), y(64))
      /\ BitOf(c[3], 4) = Sum2(Sum2(Sum2(x(32), x(64)), x(128)), y(128))
      /\ BitOf(c[3], 8) = Sum2(Sum2(x(1), x(64)), x(128))
      /\ BitOf(c[3], 16) = Sum2(x(2), x(128))
      /\ BitOf(c[3], 32) = x(4)
      /\ BitOf(c[3], 64) = x(8)
      /\ BitOf(c[3], 128) = x(16)
  <2>1. c[2] \in Byte /\ y(32) \in {0, 1}
    BY <1>1, <1>3
  <2>2. /\ BitOf(c[3], 1) = Sum2(y(32), BitOf(c[2], 128))
        /\ BitOf(c[3], 2) = Sum2(BitOf(c[2], 1), BitOf(c[2], 128))
        /\ BitOf(c[3], 4) = Sum2(BitOf(c[2], 2), BitOf(c[2], 128))
        /\ BitOf(c[3], 8) = BitOf(c[2], 4)
        /\ BitOf(c[3], 16) = BitOf(c[2], 8)
        /\ BitOf(c[3], 32) = BitOf(c[2], 16)
        /\ BitOf(c[3], 64) = BitOf(c[2], 32)
        /\ BitOf(c[3], 128) = BitOf(c[2], 64)
    BY <2>1, DivideBits
  <2> HIDE DEF x, y
  <2> QED
    BY <1>5, <1>3, <2>2 DEF Sum2
<1>7. /\ BitOf(c[4], 1) = Sum2(x(16), y(16))
      /\ BitOf(c[4], 2) = Sum2(Sum2(x(16), x(32)), y(32))
      /\ BitOf(c[4], 4) = Sum2(Sum2(Sum2(x(16), x(32)), x(64)), y(64))
      /\ BitOf(c[4], 8) = Sum2(Sum2(Sum2(x(32), x(64)), x(128)), y(128))
      /\ BitOf(c[4], 16) = Sum2(Sum2(x(1), x(64)), x(128))
      /\ BitOf(c[4], 32) = Sum2(x(2), x(128))
      /\ BitOf(c[4], 64) = x(4)
      /\ BitOf(c[4], 128) = x(8)
  <2>1. c[3] \in Byte /\ y(16) \in {0, 1}
    BY <1>1, <1>3
  <2>2. /\ BitOf(c[4], 1) = Sum2(y(16), BitOf(c[3], 128))
        /\ BitOf(c[4], 2) = Sum2(BitOf(c[3], 1), BitOf(c[3], 128))
        /\ BitOf(c[4], 4) = Sum2(BitOf(c[3], 2), BitOf(c[3], 128))
        /\ BitOf(c[4], 8) = BitOf(c[3], 4)
        /\ BitOf(c[4], 16) = BitOf(c[3], 8)
        /\ BitOf(c[4], 32) = BitOf(c[3], 16)
        /\ BitOf(c[4], 64) = BitOf(c[3], 32)
        /\ BitOf(c[4], 128) = BitOf(c[3], 64)
    BY <2>1, DivideBits
  <2> HIDE DEF x, y
  <2> QED
    BY <1>6, <1>3, <2>2 DEF Sum2
<1>8. /\ BitOf(c[5], 1) = Sum2(x(8), y(8))
      /\ BitOf(c[5], 2) = Sum2(Sum2(x(8), x(16)), y(16))
      /\ BitOf(c[5], 4) = Sum2(Sum2(Sum2(x(8), x(16)), x(32)), y(32))
      /\ BitOf(c[5], 8) = Sum2(Sum2(Sum2(x(16), x(32)), x(64)), y(64))
      /\ BitOf(c[5], 16) = Sum2(Sum2(Sum2(x(32), x(64)), x(128)), y(128))
      /\ BitOf(c[5], 32) = Sum2(Sum2(x(1), x(64)), x(128))
      /\ BitOf(c[5], 64) = Sum2(x(2), x(128))
      /\ BitOf(c[5], 128) = x(4)
  <2>1. c[4] \in Byte /\ y(8) \in {0, 1}
    BY <1>1, <1>3
  <2>2. /\ BitOf(c[5], 1) = Sum2(y(8), BitOf(c[4], 128))
        /\ BitOf(c[5], 2) = Sum2(BitOf(c[4], 1), BitOf(c[4], 128))
        /\ BitOf(c[5], 4) = Sum2(BitOf(c[4], 2), BitOf(c[4], 128))
        /\ BitOf(c[5], 8) = BitOf(c[4], 4)
        /\ BitOf(c[5], 16) = BitOf(c[4], 8)
        /\ BitOf(c[5], 32) = BitOf(c[4], 16)
        /\ BitOf(c[5], 64) = BitOf(c[4], 32)
        /\ BitOf(c[5], 128) = BitOf(c[4], 64)
    BY <2>1, DivideBits
  <2> HIDE DEF x, y
  <2> QED
    BY <1>7, <1>3, <2>2 DEF Sum2
<1>9. /\ BitOf(c[6], 1) = Sum2(x(4), y(4))
      /\ BitOf(c[6], 2) = Sum2(Sum2(x(4), x(8)), y(8))
      /\ BitOf(c[6], 4) = Sum2(Sum2(Sum2(x(4), x(8)), x(16)), y(16))
      /\ BitOf(c[6], 8) = Sum2(Sum2(Sum2(x(8), x(16)), x(32)), y(32))
      /\ BitOf(c[6], 16) = Sum2(Sum2(Sum2(x(16), x(32)), x(64)), y(64))
      /\ BitOf(c[6], 32) = Sum2(Sum2(Sum2(x(32), x(64)), x(128)), y(128))
      /\ BitOf(c[6], 64) = Sum2(Sum2(x(1), x(64)), x(128))
      /\ BitOf(c[6], 128) = Sum2(x(2), x(128))
  <2>1. c[5] \in Byte /\ y(4) \in {0, 1}
    BY <1>1, <1>3
  <2>2. /\ BitOf(c[6], 1) = Sum2(y(4), BitOf(c[5], 128))
        /\ BitOf(c[6], 2) = Sum2(BitOf(c[5], 1), BitOf(c[5], 128))
        /\ BitOf(c[6], 4) = Sum2(BitOf(c[5], 2), BitOf(c[5], 128))
        /\ BitOf(c[6], 8) = BitOf(c[5], 4)
        /\ BitOf(c[6], 16) = BitOf(c[5], 8)
        /\ BitOf(c[6], 32) = BitOf(c[5], 16)
        /\ BitOf(c[6], 64) = BitOf(c[5], 32)
        /\ BitOf(c[6], 128) = BitOf(c[5], 64)
    BY <2>1, DivideBits
  <2> HIDE DEF x, y
  <2> QED
    BY <1>8, <1>3, <2>2 DEF Sum2
<1>10. /\ BitOf(c[7], 1) = Sum2(Sum2(x(2), x(128)), y(2))
      /\ BitOf(c[7], 2) = Sum2(Sum2(Sum2(x(2), x(4)), x(128)), y(4))
      /\ BitOf(c[7], 4) = Sum2(Sum2(Sum2(Sum2(x(2), x(4)), x(8)), x(128)), y(8))
      /\ BitOf(c[7], 8) = Sum2(Sum2(Sum2(x(4), x(8)), x(16)), y(16))
      /\ BitOf(c[7], 16) = Sum2(Sum2(Sum2(x(8), x(16)), x(32)), y(32))
      /\ BitOf(c[7], 32) = Sum2(Sum2(Sum2(x(16), x(32)), x(64)), y(64))
      /\ BitOf(c[7], 64) = Sum2(Sum2(Sum2(x(32), x(64)), x(128)), y(128))
      /\ BitOf(c[7], 128) = Sum2(Sum2(x(1), x(64)), x(128))
  <2>1. c[6] \in Byte /\ y(2) \in {0, 1}
    BY <1>1, <1>3
  <2>2. /\ BitOf(c[7], 1) = Sum2(y(2), BitOf(c[6], 128))
        /\ BitOf(c[7], 2) = Sum2(BitOf(c[6], 1), BitOf(c[6], 128))
        /\ BitOf(c[7], 4) = Sum2(BitOf(c[6], 2), BitOf(c[6], 128))
        /\ BitOf(c[7], 8) = BitOf(c[6], 4)
        /\ BitOf(c[7], 16) = BitOf(c[6], 8)
        /\ BitOf(c[7], 32) = BitOf(c[6], 16)
        /\ BitOf(c[7], 64) = BitOf(c[6], 32)
        /\ BitOf(c[7], 128) = BitOf(c[6], 64)
    BY <2>1, DivideBits
  <2> HIDE DEF x, y
  <2> QED
    BY <1>9, <1>3, <2>2 DEF Sum2
<1>11. /\ BitOf(c[8], 1) = Sum2(Sum2(Sum2(x(1), x(64)), x(128)), y(1))
      /\ BitOf(c[8], 2) = Sum2(Sum2(Sum2(x(1), x(2)), x(64)), y(2))
      /\ BitOf(c[8], 4) = Sum2(Sum2(Sum2(Sum2(x(1), x(2)), x(4)), x(64)), y(4))
      /\ BitOf(c[8], 8) = Sum2(Sum2(Sum2(Sum2(x(2), x(4)), x(8)), x(128)), y(8))
      /\ BitOf(c[8], 16) = Sum2(Sum2(Sum2(x(4), x(8)), x(16)), y(16))
      /\ BitOf(c[8], 32) = Sum2(Sum2(Sum2(x(8), x(16)), x(32)), y(32))
      /\ BitOf(c[8], 64) = Sum2(Sum2(Sum2(x(16), x(32)), x(64)), y(64))
      /\ BitOf(c[8], 128) = Sum2(Sum2(Sum2(x(32), x(64)), x(128)), y(128))
  <2>1. c[7] \in Byte /\ y(1) \in {0, 1}
    BY <1>1, <1>3
  <2>2. /\ BitOf(c[8], 1) = Sum2(y(1), BitOf(c[7], 128))
        /\ BitOf(c[8], 2) = Sum2(BitOf(c[7], 1), BitOf(c[7], 128))
        /\ BitOf(c[8], 4) = Sum2(BitOf(c[7], 2), BitOf(c[7], 128))
        /\ BitOf(c[8], 8) = BitOf(c[7], 4)
        /\ BitOf(c[8], 16) = BitOf(c[7], 8)
        /\ BitOf(c[8], 32) = BitOf(c[7], 16)
        /\ BitOf(c[8], 64) = BitOf(c[7], 32)
        /\ BitOf(c[8], 128) = BitOf(c[7], 64)
    BY <2>1, DivideBits
  <2> HIDE DEF x, y
  <2> QED
    BY <1>10, <1>3, <2>2 DEF Sum2
<1>12. Xor(Entry(c[0]), d) \in Byte /\ c[0] \in Byte /\ Entry(c[0]) \in Byte /\ c[8] \in Byte
  BY <1>1, EntryBits, XorBits
<1>13. \A w \in Weights : BitOf(Xor(Entry(c[0]), d), w) = Sum2(BitOf(Entry(c[0]), w), y(w))
  BY <1>12, XorBits
<1>14. \A w \in Weights : BitOf(c[8], w) = BitOf(Xor(Entry(c[0]), d), w)
  BY <1>2, <1>3, <1>11, <1>12, <1>13, EntryBits DEF Weights, Sum2, Sum3
<1> QED
  BY <1>12, <1>14, SameBits

\* The bits of a text, with a zero byte after it, and the remainders that
\* CrcOf comes to with them.
TextBit(data, n) == IF n > 8 * Len(data) THEN 0
                    ELSE (data[(n + 7) \div 8] \div 2^((8 * Len(data) - n) % 8)) % 2
TextByte(data, j) == IF j < Len(data) THEN data[j + 1] ELSE 0
Divisions(data) ==
  CHOOSE f : f = [n \in 0..(8 * Len(data) + 8) |->
                    IF n = 0 THEN 0 ELSE Divide(f[n - 1], TextBit(data, n))]

LEMMA BitsOfText ==
  ASSUME NEW data \in Seq(Byte), NEW j \in Nat, j <= Len(data)
  PROVE  /\ TextByte(data, j) \in Byte
         /\ TextBit(data, 8 * j + 1) = BitOf(TextByte(data, j), 128)
         /\ TextBit(data, 8 * j + 2) = BitOf(TextByte(data, j), 64)
         /\ TextBit(data, 8 * j + 3) = BitOf(TextByte(data, j), 32)
         /\ TextBit(data, 8 * j + 4) = BitOf(TextByte(data, j), 16)
         /\ TextBit(data, 8 * j + 5) = BitOf(TextByte(data, j), 8)
         /\ TextBit(data, 8 * j + 6) = BitOf(TextByte(data, j), 4)
         /\ TextBit(data, 8 * j + 7) = BitOf(TextByte(data, j), 2)
         /\ TextBit(data, 8 * j + 8) = BitOf(TextByte(data, j), 1)
<1>1. PICK n \in Nat : n = Len(data) /\ data \in [1..n -> Byte] /\ j <= n
  OBVIOUS
<1>2. CASE j = n
  <2>1. 0 \in Byte /\ \A w \in Weights : BitOf(0, w) = 0
    BY SMT DEF Byte, Weights, BitOf
  <2>2. TextByte(data, j) = 0
    BY <1>1, <1>2 DEF TextByte
  <2>3. \A i \in 1..8 : TextBit(data, 8 * j + i) = 0
    BY <1>1, <1>2 DEF TextBit
  <2> QED
    BY <2>1, <2>2, <2>3 DEF Weights
<1>3. CASE j # n
  <2>1. j + 1 \in 1..n /\ TextByte(data, j) = data[j + 1] /\ data[j + 1] \in Byte
    <3>1. j <= n
      BY <1>1
    <3>2. j < n /\ j + 1 \in 1..n
      BY ONLY n \in Nat, j \in Nat, <1>3, <3>1
    <3> QED
      BY <1>1, <3>2 DEF TextByte
  <2>2. PICK m \in Nat : m = n - (j + 1) /\ 8 * n = 8 * j + 8 * m + 8
    <3>1. n - (j + 1) \in Nat /\ 8 * n = 8 * j + 8 * (n - (j + 1)) + 8
      BY ONLY n \in Nat, j \in Nat, <2>1
    <3> QED
      BY ONLY <3>1
  <2>3. 2^0 = 1 /\ 2^1 = 2 /\ 2^2 = 4 /\ 2^3 = 8 /\ 2^4 = 16 /\ 2^5 = 32 /\ 2^6 = 64 /\ 2^7 = 128
    BY SMT
  <2>4. ASSUME NEW i \in 1..8
        PROVE  TextBit(data, 8 * j + i) = (data[j + 1] \div 2^(8 - i)) % 2
    <3>1. ~(8 * j + i > 8 * n)
      BY <1>1, <2>2
    <3>2. ((8 * j + i) + 7) \div 8 = j + 1
      BY <1>1, SMT
    <3>3. (8 * n - (8 * j + i)) % 8 = 8 - i
      <4>1. 8 * n - (8 * j + i) = 8 * m + (8 - i)
        BY <1>1, <2>2
      <4>2. \A k \in 0..7 : (8 * m + k) % 8 = k
        BY SMT
      <4> QED
        BY <4>1, <4>2
    <3> QED
      BY <1>1, <3>1, <3>2, <3>3 DEF TextBit
  <2>5. \A i \in 1..8 : TextBit(data, 8 * j + i) = (TextByte(data, j) \div 2^(8 - i)) % 2
    BY <2>1, <2>4
  <2>6. /\ 8 - 1 = 7 /\ 8 - 2 = 6 /\ 8 - 3 = 5 /\ 8 - 4 = 4 /\ 8 - 5 = 3 /\ 8 - 6 = 2
        /\ 8 - 7 = 1 /\ 8 - 8 = 0
    OBVIOUS
  <2> QED
    BY <2>1, <2>3, <2>5, <2>6 DEF BitOf
<1> QED
  BY <1>2, <1>3

LEMMA TextBits ==
  ASSUME NEW data \in Seq(Byte), NEW n \in Nat \ {0}, n <= 8 * Len(data) + 8
  PROVE  TextBit(data, n) \in {0, 1}
<1>1. PICK j \in Nat : j = (n - 1) \div 8
  OBVIOUS
<1>2. PICK i \in 1..8 : n = 8 * j + i
  <2>1. n = 8 * j + (1 + ((n - 1) % 8)) /\ 1 + ((n - 1) % 8) \in 1..8
    BY <1>1, SMT
  <2> QED
    BY <2>1
<1>3. j <= Len(data)
  BY <1>2
<1>4. \A w \in Weights : BitOf(TextByte(data, j), w) \in {0, 1}
  BY <1>3, BitsOfText, BitsOfByte
<1>5. \E w \in Weights : TextBit(data, 8 * j + i) = BitOf(TextByte(data, j), w)
  <2>1. i = 1 \/ i = 2 \/ i = 3 \/ i = 4 \/ i = 5 \/ i = 6 \/ i = 7 \/ i = 8
    OBVIOUS
  <2>2. /\ TextBit(data, 8 * j + 1) = BitOf(TextByte(data, j), 128)
        /\ TextBit(data, 8 * j + 2) = BitOf(TextByte(data, j), 64)
        /\ TextBit(data, 8 * j + 3) = BitOf(TextByte(data, j), 32)
        /\ TextBit(data, 8 * j + 4) = BitOf(TextByte(data, j), 16)
        /\ TextBit(data, 8 * j + 5) = BitOf(TextByte(data, j), 8)
        /\ TextBit(data, 8 * j + 6) = BitOf(TextByte(data, j), 4)
        /\ TextBit(data, 8 * j + 7) = BitOf(TextByte(data, j), 2)
        /\ TextBit(data, 8 * j + 8) = BitOf(TextByte(data, j), 1)
    BY <1>3, BitsOfText
  <2>3. /\ 1 \in Weights /\ 2 \in Weights /\ 4 \in Weights /\ 8 \in Weights
        /\ 16 \in Weights /\ 32 \in Weights /\ 64 \in Weights /\ 128 \in Weights
    BY DEF Weights
  <2>4. CASE i = 1
    BY ONLY <2>2, <2>3, <2>4, Zenon
  <2>5. CASE i = 2
    BY ONLY <2>2, <2>3, <2>5, Zenon
  <2>6. CASE i = 3
    BY ONLY <2>2, <2>3, <2>6, Zenon
  <2>7. CASE i = 4
    BY ONLY <2>2, <2>3, <2>7, Zenon
  <2>8. CASE i = 5
    BY ONLY <2>2, <2>3, <2>8, Zenon
  <2>9. CASE i = 6
    BY ONLY <2>2, <2>3, <2>9, Zenon
  <2>10. CASE i = 7
    BY ONLY <2>2, <2>3, <2>10, Zenon
  <2>11. CASE i = 8
    BY ONLY <2>2, <2>3, <2>11, Zenon
  <2> QED
    BY ONLY <2>1, <2>4, <2>5, <2>6, <2>7, <2>8, <2>9, <2>10, <2>11
<1> QED
  BY <1>2, <1>4, <1>5

LEMMA CrcOfIs ==
  ASSUME NEW data \in Seq(Byte)
  PROVE  /\ CrcOf(data) = Xor(Divisions(data)[8 * Len(data) + 8], 85)
         /\ Divisions(data) \in [0..(8 * Len(data) + 8) -> Byte] /\ Divisions(data)[0] = 0
         /\ \A n \in 1..(8 * Len(data) + 8) :
              Divisions(data)[n] = Divide(Divisions(data)[n - 1], TextBit(data, n))
<1>1. CrcOf(data) = Xor(Divisions(data)[8 * Len(data) + 8], 85)
  BY DEF CrcOf, Divisions, Divide, TextBit
<1>2. PICK last \in Nat : last = 8 * Len(data) + 8
  OBVIOUS
<1>3. PICK step : step = [pair \in (1..last) \X Byte |-> Divide(pair[2], TextBit(data, pair[1]))]
  OBVIOUS
<1>4. \A n \in 1..last, c \in Byte : Divide(c, TextBit(data, n)) \in Byte
  <2>1. \A n \in 1..last : TextBit(data, n) \in {0, 1}
    BY <1>2, TextBits
  <2>2. \A bit \in {0, 1}, c \in Byte : Divide(c, bit) \in Byte
    BY DivideBits
  <2> QED
    BY <2>1, <2>2
<1>5. /\ step \in [(1..last) \X Byte -> Byte]
      /\ \A n \in 1..last, c \in Byte : step[<<n, c>>] = Divide(c, TextBit(data, n))
  BY <1>3, <1>4
<1>6. 0 \in Byte
  BY DEF Byte
<1>7. PICK f \in [0..last -> Byte] : f[0] = 0 /\ \A n \in 1..last : f[n] = step[<<n, f[n - 1]>>]
  <2>1. \E f : Recursive(f, last, Byte, 0, step)
    BY <1>5, <1>6, Recursion
  <2> QED
    BY <2>1 DEF Recursive
<1>8. \A n \in 1..last : f[n] = Divide(f[n - 1], TextBit(data, n))
  <2>1. \A n \in 1..last : n - 1 \in 0..last /\ f[n - 1] \in Byte
    OBVIOUS
  <2> QED
    BY <1>5, <1>7, <2>1
<1>9. \E g : g = [n \in 0..last |-> IF n = 0 THEN 0 ELSE Divide(g[n - 1], TextBit(data, n))]
  <2>1. f = [n \in 0..last |-> IF n = 0 THEN 0 ELSE Divide(f[n - 1], TextBit(data, n))]
    BY <1>7, <1>8
  <2> QED
    BY <2>1
<1>10. PICK g : /\ g = Divisions(data)
                /\ g = [n \in 0..last |-> IF n = 0 THEN 0 ELSE Divide(g[n - 1], TextBit(data, n))]
  BY <1>2, <1>9 DEF Divisions
<1>11. /\ DOMAIN g = 0..last /\ g[0] = 0
       /\ \A n \in 1..last : g[n] = Divide(g[n - 1], TextBit(data, n))
  BY <1>10
<1>12. \A n \in 0..last : g[n] \in Byte
  <2> DEFINE done == {n \in Nat : n <= last => g[n] \in Byte}
  <2>1. 0 \in done
    BY <1>6, <1>11
  <2>2. ASSUME NEW k \in Nat, k \in done PROVE k + 1 \in done
    <3> SUFFICES ASSUME k + 1 <= last PROVE g[k + 1] \in Byte
      OBVIOUS
    <3>1. k + 1 \in 1..last /\ (k + 1) - 1 = k /\ g[k] \in Byte
      BY <2>2
    <3> QED
      BY <1>4, <1>11, <3>1
  <2> HIDE DEF done
  <2>3. Nat \subseteq done
    BY <2>1, <2>2, Induction
  <2> QED
    BY <2>3 DEF done
<1>13. g \in [0..last -> Byte]
  <2>1. g = [n \in 0..last |-> g[n]]
    BY <1>10
  <2> QED
    BY <1>12, <2>1
<1> QED
  BY <1>1, <1>2, <1>10, <1>11, <1>13

\* The table divides byte by byte.
LEMMA GenerateDivides ==
  ASSUME NEW data \in Seq(Byte) PROVE Generate(data) = CrcOf(data)
<1>1. PICK n \in Nat : n = Len(data) /\ data \in [1..n -> Byte]
  OBVIOUS
<1>2. PICK crc : crc = Remainders(data)
  OBVIOUS
<1>3. PICK rest : rest = Divisions(data)
  OBVIOUS
<1>4. /\ Generate(data) = Xor(crc[n], 85) /\ crc \in [0..n -> Byte] /\ crc[0] = 0
      /\ \A j \in 1..n : crc[j] = Entry(Xor(data[j], crc[j - 1]))
  BY <1>1, <1>2, GenerateIs
<1>5. /\ CrcOf(data) = Xor(rest[8 * n + 8], 85) /\ rest \in [0..(8 * n + 8) -> Byte] /\ rest[0] = 0
      /\ \A i \in 1..(8 * n + 8) : rest[i] = Divide(rest[i - 1], TextBit(data, i))
  BY <1>1, <1>3, CrcOfIs
<1>6. ASSUME NEW j \in 0..n PROVE rest[8 * j + 8] = Xor(Entry(rest[8 * j]), TextByte(data, j))
  <2>1. PICK c : c = [i \in 0..8 |-> rest[8 * j + i]]
    OBVIOUS
  <2>2. \A i \in 0..8 : 8 * j + i \in 0..(8 * n + 8)
    OBVIOUS
  <2>3. c \in [0..8 -> Byte] /\ \A i \in 0..8 : c[i] = rest[8 * j + i]
    BY <1>5, <2>1, <2>2
  <2>4. \A i \in 1..8 : c[i] = Divide(c[i - 1], TextBit(data, 8 * j + i))
    <3> SUFFICES ASSUME NEW i \in 1..8 PROVE c[i] = Divide(c[i - 1], TextBit(data, 8 * j + i))
      OBVIOUS
    <3>1. PICK k \in 1..(8 * n + 8) : k = 8 * j + i /\ k - 1 = 8 * j + (i - 1)
      OBVIOUS
    <3>2. i \in 0..8 /\ i - 1 \in 0..8
      OBVIOUS
    <3>3. rest[k] = Divide(rest[k - 1], TextBit(data, k))
      BY <1>5
    <3> QED
      BY <2>3, <3>1, <3>2, <3>3
  <2>5. /\ c[1] = Divide(c[0], TextBit(data, 8 * j + 1)) /\ c[2] = Divide(c[1], TextBit(data, 8 * j + 2))
        /\ c[3] = Divide(c[2], TextBit(data, 8 * j + 3)) /\ c[4] = Divide(c[3], TextBit(data, 8 * j + 4))
        /\ c[5] = Divide(c[4], TextBit(data, 8 * j + 5)) /\ c[6] = Divide(c[5], TextBit(data, 8 * j + 6))
        /\ c[7] = Divide(c[6], TextBit(data, 8 * j + 7)) /\ c[8] = Divide(c[7], TextBit(data, 8 * j + 8))
    <3>1. /\ 1 - 1 = 0 /\ 2 - 1 = 1 /\ 3 - 1 = 2 /\ 4 - 1 = 3 /\ 5 - 1 = 4 /\ 6 - 1 = 5
          /\ 7 - 1 = 6 /\ 8 - 1 = 7
      OBVIOUS
    <3> QED
      BY <2>4, <3>1
  <2>6. PICK d \in Byte : d = TextByte(data, j)
    BY <1>1, BitsOfText
  <2>7. /\ c[1] = Divide(c[0], BitOf(d, 128)) /\ c[2] = Divide(c[1], BitOf(d, 64))
        /\ c[3] = Divide(c[2], BitOf(d, 32)) /\ c[4] = Divide(c[3], BitOf(d, 16))
        /\ c[5] = Divide(c[4], BitOf(d, 8)) /\ c[6] = Divide(c[5], BitOf(d, 4))
        /\ c[7] = Divide(c[6], BitOf(d, 2)) /\ c[8] = Divide(c[7], BitOf(d, 1))
    BY <1>1, <2>5, <2>6, BitsOfText
  <2>8. c[8] = Xor(Entry(c[0]), TextByte(data, j))
    BY <2>3, <2>6, <2>7, DivideByte
  <2> QED
    BY <2>3, <2>8
<1>7. \A j \in 0..n : crc[j] = Entry(rest[8 * j])
  <2> DEFINE done == {j \in Nat : j <= n => crc[j] = Entry(rest[8 * j])}
  <2>1. 0 \in done
    BY <1>4, <1>5, EntryOfZero
  <2>2. ASSUME NEW k \in Nat, k \in done PROVE k + 1 \in done
    <3> SUFFICES ASSUME k + 1 <= n PROVE crc[k + 1] = Entry(rest[8 * (k + 1)])
      OBVIOUS
    <3>1. /\ k + 1 \in 1..n /\ k \in 0..n /\ (k + 1) - 1 = k /\ 8 * (k + 1) = 8 * k + 8
          /\ 8 * k \in 0..(8 * n + 8)
      OBVIOUS
    <3>2. crc[k] = Entry(rest[8 * k]) /\ crc[k] \in Byte
      BY <1>4, <2>2, <3>1
    <3>3. TextByte(data, k) = data[k + 1] /\ data[k + 1] \in Byte
      BY <1>1, <3>1 DEF TextByte
    <3>4. rest[8 * (k + 1)] = Xor(crc[k], data[k + 1])
      BY <1>6, <3>1, <3>2, <3>3
    <3>5. Xor(crc[k], data[k + 1]) = Xor(data[k + 1], crc[k])
      BY <3>2, <3>3, XorLaws
    <3> QED
      BY <1>4, <3>1, <3>4, <3>5
  <2> HIDE DEF done
  <2>3. Nat \subseteq done
    BY <2>1, <2>2, Induction
  <2> QED
    BY <2>3 DEF done
<1>8. rest[8 * n + 8] = crc[n]
  <2>1. TextByte(data, n) = 0 /\ n \in 0..n /\ 0 \in Byte
    BY <1>1 DEF TextByte, Byte
  <2>2. crc[n] = Entry(rest[8 * n]) /\ crc[n] \in Byte
    BY <1>4, <1>7, <2>1
  <2> QED
    BY <1>6, <2>1, <2>2, XorLaws
<1> QED
  BY <1>4, <1>5, <1>8

\* Damage of up to eight bits in a row is found.
LEMMA DamageDetected ==
  ASSUME NEW n \in Nat \ {0}, NEW bytes \in [1..n -> Byte],
         Verify(SubSeq(bytes, 1, n - 1), bytes[n]),
         NEW burst \in 1..255, NEW at \in 0..(8 * n - 1),
         NEW bad, bad = Damaged(bytes, burst, at), bad # bytes
  PROVE  ~Verify(SubSeq(bad, 1, n - 1), bad[n])
<1>1. PICK m \in 1..n : m = (at \div 8) + 1 /\ m - 1 = at \div 8
  BY SMT
<1>2. PICK k \in 0..7 : k = at % 8
  BY SMT
<1>3. PICK hi \in Byte, lo \in Byte :
        hi = (burst * 2^k) \div 256 /\ lo = (burst * 2^k) % 256 /\ Entry(hi) # lo
  <2>1. /\ (burst * 2^k) \div 256 \in Byte /\ (burst * 2^k) % 256 \in Byte
        /\ Entry((burst * 2^k) \div 256) # (burst * 2^k) % 256
    BY BurstNotEntry, Zenon
  <2>. QED
    BY <2>1, Zenon
<1>4. PICK damage :
        damage = [i \in 1..n |-> CASE i = m -> lo [] i = m - 1 -> hi [] OTHER -> 0]
  OBVIOUS
<1>5. \A i \in 1..n : /\ i = m => damage[i] = lo
                      /\ i = m - 1 => damage[i] = hi
                      /\ i # m /\ i # m - 1 => damage[i] = 0
  BY <1>4
<1>6. damage \in [1..n -> Byte]
  <2>1. 0 \in Byte
    BY DEF Byte
  <2>2. \A i \in 1..n : damage[i] \in Byte
    BY <1>5, <2>1
  <2>3. damage = [i \in 1..n |-> damage[i]]
    BY <1>4
  <2> QED
    BY <2>2, <2>3
<1>7. bad = [i \in 1..n |-> Xor(bytes[i], damage[i])]
  <2>1. bad = [i \in 1..n |-> Xor(bytes[i], CASE i = m -> lo [] i = m - 1 -> hi [] OTHER -> 0)]
    BY <1>1, <1>2, <1>3 DEF Damaged
  <2> QED
    BY <1>4, <2>1
<1>8. bad \in [1..n -> Byte]
  <2>1. \A i \in 1..n : Xor(bytes[i], damage[i]) \in Byte
    BY <1>6, XorBits
  <2> QED
    BY <1>7, <2>1
<1>9. damage = [i \in 1..n |-> Xor(bytes[i], bad[i])]
  <2>1. \A i \in 1..n : damage[i] = Xor(bytes[i], bad[i])
    BY <1>6, <1>7, XorCancels
  <2> QED
    BY <1>6, <2>1
<1> SUFFICES ASSUME Verify(SubSeq(bad, 1, n - 1), bad[n]) PROVE FALSE
  OBVIOUS
<1>10. PICK left : Undetected(n, damage, left)
  BY <1>8, <1>9, DamageAdds
<1>11. damage[m] = IF m = 1 THEN 0 ELSE Entry(damage[m - 1])
  BY <1>5, <1>6, <1>10, DamageRemains
<1>12. CASE m = 1
  <2>1. \A i \in 1..n : damage[i] = 0
    BY <1>5, <1>11, <1>12
  <2>2. \A i \in 1..n : Xor(bytes[i], 0) = bytes[i]
    <3>1. 0 \in Byte /\ \A i \in 1..n : bytes[i] \in Byte
      BY DEF Byte
    <3> QED
      BY <3>1, XorLaws
  <2>3. bad = bytes
    BY <1>7, <2>1, <2>2
  <2> QED
    BY <2>3
<1>13. CASE m # 1
  <2>1. m - 1 \in 1..n
    BY <1>13
  <2> QED
    BY <1>3, <1>5, <1>11, <1>13, <2>1
<1> QED
  BY <1>12, <1>13

----------------------------------------------------------------------------
(* The id. *)

\* What a machine may be found to be.
RawId == (Sid \cup {NoSid}) \X VolumeId

Hash(s) == IF s = NoSid THEN [i \in 1..HashLength |-> 0] ELSE Digest[s]

LEMMA HexDigits == \A i, j \in 1..16 : Hex[i] = Hex[j] => i = j
BY DEF Hex

\* The two digits of a byte.
LEMMA TextOf ==
  ASSUME NEW n \in Nat, NEW x, Len(x) = n, NEW i \in 1..n
  PROVE  /\ BytesToString(x)[2 * i - 1] = Hex[1 + x[i] \div 16]
         /\ BytesToString(x)[2 * i] = Hex[1 + (x[i] % 16)]
<1>1. /\ 2 * i - 1 \in 1..(2 * n) /\ ((2 * i - 1) + 1) \div 2 = i /\ (2 * i - 1) % 2 = 1
      /\ 2 * i \in 1..(2 * n) /\ (2 * i + 1) \div 2 = i /\ (2 * i) % 2 = 0
  OBVIOUS
<1>2. BytesToString(x) = [k \in 1..(2 * n) |->
                            Hex[1 + IF k % 2 = 1 THEN x[(k + 1) \div 2] \div 16
                                    ELSE x[(k + 1) \div 2] % 16]]
  BY DEF BytesToString
<1> QED
  BY <1>1, <1>2

\* A text gives back the bytes it was made of.
LEMMA TextToBytes ==
  ASSUME NEW a, NEW b, NEW n \in Nat, Len(a) = n, Len(b) = n, BytesToString(a) = BytesToString(b),
         NEW i \in 1..n, a[i] \in Byte, b[i] \in Byte
  PROVE  a[i] = b[i]
<1>1. Hex[1 + a[i] \div 16] = Hex[1 + b[i] \div 16] /\ Hex[1 + (a[i] % 16)] = Hex[1 + (b[i] % 16)]
  <2>1. ASSUME NEW x, Len(x) = n
        PROVE  /\ BytesToString(x)[2 * i - 1] = Hex[1 + x[i] \div 16]
               /\ BytesToString(x)[2 * i] = Hex[1 + (x[i] % 16)]
    BY <2>1, TextOf, Zenon
  <2> QED
    BY <2>1
<1>2. \A x \in Byte : 1 + x \div 16 \in 1..16 /\ 1 + (x % 16) \in 1..16 /\ x = 16 * (x \div 16) + (x % 16)
  BY SMT DEF Byte
<1>3. PICK x \in Byte, y \in Byte : x = a[i] /\ y = b[i]
  OBVIOUS
<1>4. 1 + x \div 16 = 1 + y \div 16 /\ 1 + (x % 16) = 1 + (y % 16)
  BY <1>1, <1>2, <1>3, HexDigits
<1>5. x \div 16 \in Int /\ y \div 16 \in Int /\ x % 16 \in Int /\ y % 16 \in Int
  BY DEF Byte
<1>6. x \div 16 = y \div 16 /\ x % 16 = y % 16
  BY <1>4, <1>5
<1>7. x = y
  BY <1>2, <1>6
<1> QED
  BY <1>3, <1>7

LEMMA BigEndianBytes ==
  ASSUME NEW v \in VolumeId PROVE BigEndian(v) \in Seq(Byte) /\ Len(BigEndian(v)) = 4
<1>1. v \in Int
  BY MachineIdAssumption, SMT
<1>2. \A x \in Int : x % 256 \in Byte
  BY SMT DEF Byte
<1>3. v \div 16777216 \in Int /\ v \div 65536 \in Int /\ v \div 256 \in Int
  BY <1>1, SMT
<1> QED
  BY <1>1, <1>2, <1>3, SMT DEF BigEndian

\* A number of 32 bits is what its bytes make of it.
LEMMA NumberOfBytes ==
  ASSUME NEW n \in Int, n \div 16777216 \in -128..127
  PROVE  /\ n \div 65536 = 256 * (n \div 16777216) + ((n \div 65536) % 256)
         /\ n \div 256 = 256 * (n \div 65536) + ((n \div 256) % 256)
         /\ n = 256 * (n \div 256) + (n % 256)
         /\ n \div 65536 \in Int /\ n \div 256 \in Int
BY SMT

LEMMA VolumeIdHigh == \A v \in VolumeId : v \in Int /\ v \div 16777216 \in -128..127
BY MachineIdAssumption, SMT

LEMMA HighByte == \A x, y \in -128..127 : x % 256 = y % 256 => x = y
<1>1. ASSUME NEW x \in -128..127 PROVE x % 256 = IF x < 0 THEN x + 256 ELSE x
  <2>1. CASE x < 0
    BY <2>1, SMT
  <2>2. CASE x >= 0
    BY <2>2, SMT
  <2> QED
    BY <2>1, <2>2
<1> QED
  BY <1>1, SMT

\* The serial number can be had from its bytes.
LEMMA BytesToNumber ==
  ASSUME NEW v \in VolumeId, NEW w \in VolumeId, \A j \in 1..4 : BigEndian(v)[j] = BigEndian(w)[j]
  PROVE  v = w
<1>1. BigEndian(v)[1] = BigEndian(w)[1] /\ BigEndian(v)[2] = BigEndian(w)[2]
      /\ BigEndian(v)[3] = BigEndian(w)[3] /\ BigEndian(v)[4] = BigEndian(w)[4]
  OBVIOUS
<1>2. /\ (v \div 16777216) % 256 = (w \div 16777216) % 256
      /\ (v \div 65536) % 256 = (w \div 65536) % 256
      /\ (v \div 256) % 256 = (w \div 256) % 256
      /\ v % 256 = w % 256
  BY <1>1, SMT DEF BigEndian
<1>3. v \div 16777216 = w \div 16777216
  BY <1>2, HighByte, VolumeIdHigh, SMT
<1>4. v \div 65536 = w \div 65536
  BY <1>2, <1>3, NumberOfBytes, VolumeIdHigh, SMT
<1>5. v \div 256 = w \div 256
  BY <1>2, <1>4, NumberOfBytes, VolumeIdHigh, SMT
<1> QED
  BY <1>2, <1>5, NumberOfBytes, VolumeIdHigh, SMT

LEMMA SameHash ==
  ASSUME NEW f \in [1..HashLength -> Byte], NEW g \in [1..HashLength -> Byte],
         \A i \in 1..HashLength : f[i] = g[i]
  PROVE  f = g
<1>1. f = [i \in 1..HashLength |-> f[i]] /\ g = [i \in 1..HashLength |-> g[i]]
  OBVIOUS
<1>2. [i \in 1..HashLength |-> f[i]] = [i \in 1..HashLength |-> g[i]]
  OBVIOUS
<1> QED
  BY ONLY <1>1, <1>2

LEMMA Joined ==
  ASSUME NEW x \in Seq(Byte), NEW y \in Seq(Byte), NEW n \in Nat, Len(x) = n, Len(y) = 4
  PROVE  /\ x \o y \in Seq(Byte) /\ Len(x \o y) = n + 4
         /\ \A i \in 1..n : (x \o y)[i] = x[i]
         /\ \A j \in 1..4 : (x \o y)[n + j] = y[j]
<1>1. /\ x \o y \in Seq(Byte) /\ Len(x \o y) = n + 4
      /\ \A i \in 1..(n + 4) : (x \o y)[i] = IF i <= n THEN x[i] ELSE y[i - n]
  <2>1. /\ x \o y \in Seq(Byte) /\ Len(x \o y) = Len(x) + Len(y)
        /\ \A i \in 1..(Len(x) + Len(y)) : (x \o y)[i] = IF i <= Len(x) THEN x[i] ELSE y[i - Len(x)]
    BY ConcatProperties
  <2> QED
    BY <2>1
<1>2. \A j \in 1..4 : n + j \in 1..(n + 4) /\ ~(n + j <= n) /\ (n + j) - n = j
  OBVIOUS
<1>3. \A j \in 1..4 : (x \o y)[n + j] = y[j]
  BY <1>1, <1>2
<1> QED
  BY <1>1, <1>3

LEMMA HashOf ==
  ASSUME NEW s \in Sid \cup {NoSid}
  PROVE  Hash(s) \in Seq(Byte) /\ Len(Hash(s)) = HashLength
<1>1. HashLength \in Nat /\ 0 \in Byte
  BY MachineIdAssumption, SMT DEF Byte
<1>2. CASE s = NoSid
  BY <1>1, <1>2 DEF Hash
<1>3. CASE s # NoSid
  <2>1. Hash(s) \in [1..HashLength -> Byte]
    BY <1>3, MachineIdAssumption, SMT DEF Hash
  <2> QED
    BY <1>1, <2>1
<1> QED
  BY <1>2, <1>3

\* The bytes of an id are the hash, the serial number and the checksum.
LEMMA BytesOfId ==
  ASSUME NEW s \in Sid \cup {NoSid}, NEW v \in VolumeId
  PROVE  /\ Len(IdBytes(s, v)) = HashLength + 5
         /\ \A i \in 1..HashLength : IdBytes(s, v)[i] = Hash(s)[i] /\ IdBytes(s, v)[i] \in Byte
         /\ \A j \in 1..4 : /\ IdBytes(s, v)[HashLength + j] = BigEndian(v)[j]
                            /\ IdBytes(s, v)[HashLength + j] \in Byte
<1> DEFINE body == Hash(s) \o BigEndian(v)
           checksum == IF s = NoSid /\ v = 0 THEN 0 ELSE Generate(body)
<1>1. IdBytes(s, v) = Append(body, checksum)
  BY DEF IdBytes, Hash
<1>2. HashLength \in Nat
  BY MachineIdAssumption, SMT
<1>3. BigEndian(v) \in Seq(Byte) /\ Len(BigEndian(v)) = 4
  BY BigEndianBytes
<1>4. /\ body \in Seq(Byte) /\ Len(body) = HashLength + 4
      /\ \A i \in 1..HashLength : body[i] = Hash(s)[i]
      /\ \A j \in 1..4 : body[HashLength + j] = BigEndian(v)[j]
  <2>1. Hash(s) \in Seq(Byte) /\ Len(Hash(s)) = HashLength
    BY HashOf
  <2> QED
    BY <1>2, <1>3, <2>1, Joined
<1>5. body \in Seq(Byte \cup {checksum})
  BY <1>4
<1>6. /\ Len(Append(body, checksum)) = HashLength + 5
      /\ \A i \in 1..(HashLength + 4) : Append(body, checksum)[i] = body[i] /\ body[i] \in Byte
  <2> HIDE DEF body, checksum
  <2> QED
    BY <1>2, <1>4, <1>5
<1> HIDE DEF body, checksum
<1> QED
  BY <1>1, <1>2, <1>4, <1>6

\* Different findings have different ids, whatever the checksum is.
LEMMA IdsDiffer ==
  ASSUME NEW s \in Sid \cup {NoSid}, NEW v \in VolumeId,
         NEW t \in Sid \cup {NoSid}, NEW w \in VolumeId,
         GetMachineIdImpl(s, v) = GetMachineIdImpl(t, w)
  PROVE  s = t /\ v = w
<1>1. HashLength \in Nat /\ HashLength + 5 \in Nat
  BY MachineIdAssumption, SMT
<1>2. Len(IdBytes(s, v)) = HashLength + 5 /\ Len(IdBytes(t, w)) = HashLength + 5
  BY BytesOfId
<1>3. \A i \in 1..(HashLength + 5) :
        IdBytes(s, v)[i] \in Byte /\ IdBytes(t, w)[i] \in Byte => IdBytes(s, v)[i] = IdBytes(t, w)[i]
  BY <1>1, <1>2, TextToBytes DEF GetMachineIdImpl
<1>4. \A i \in 1..HashLength : Hash(s)[i] = Hash(t)[i]
  BY <1>1, <1>3, BytesOfId
<1>5. \A j \in 1..4 : BigEndian(v)[j] = BigEndian(w)[j]
  <2> SUFFICES ASSUME NEW j \in 1..4 PROVE BigEndian(v)[j] = BigEndian(w)[j]
    OBVIOUS
  <2>1. HashLength + j \in 1..(HashLength + 5)
    BY <1>1
  <2> QED
    BY <1>3, <2>1, BytesOfId
<1>6. v = w
  BY <1>5, BytesToNumber
<1>7. s = t
  <2>1. ASSUME NEW x \in Sid PROVE \E i \in 1..HashLength : Hash(x)[i] # Hash(NoSid)[i]
    BY MachineIdAssumption, SMT DEF Hash
  <2>2. CASE s = NoSid \/ t = NoSid
    BY <1>4, <2>1, <2>2
  <2>3. CASE s # NoSid /\ t # NoSid
    <3>1. s \in Sid /\ t \in Sid /\ Hash(s) = Digest[s] /\ Hash(t) = Digest[t]
      BY <2>3 DEF Hash
    <3>2. Digest[s] \in [1..HashLength -> Byte] /\ Digest[t] \in [1..HashLength -> Byte]
      BY <3>1, MachineIdAssumption, SMT
    <3>3. \A i \in 1..HashLength : Digest[s][i] = Digest[t][i]
      BY <1>4, <3>1
    <3>4. Digest[s] = Digest[t]
      BY <3>2, <3>3, SameHash
    <3> QED
      BY <3>1, <3>4, MachineIdAssumption, SMT
  <2> QED
    BY <2>2, <2>3
<1> QED
  BY <1>6, <1>7

\* The id that the process keeps is that of something found about the machine.
IdInv ==
  /\ system \in {"win", "mac"} /\ sid \in Sid /\ volume_id \in VolumeId
  /\ calculated_id # NoId =>
       \E raw \in RawIds : calculated_id = GetMachineIdImpl(raw[1], raw[2])

LEMMA RawIdsFound == sid \in Sid /\ volume_id \in VolumeId => RawIds \subseteq RawId
BY MachineIdAssumption, SMT
   DEF RawIds, WinRawIds, MacRawIds, ComputerSid, SystemVolumeSerialNumber, RawId

\* At any time the id of the process is none or that of something that may be
\* found about its machine (GetMachineId keeps what it has calculated).
THEOREM IdInvariant == IdSpec => []IdInv
<1>1. InitId => IdInv
  BY DEF InitId, IdInv
<1>2. IdInv /\ [NextId]_idVars => IdInv'
  <2> SUFFICES ASSUME IdInv, [NextId]_idVars PROVE IdInv'
    OBVIOUS
  <2>1. UNCHANGED <<system, sid, volume_id>>
    BY DEF NextId, GetMachineId, Restart, idVars
  <2>2. RawIds' = RawIds
    BY <2>1 DEF RawIds, WinRawIds, MacRawIds, ComputerSid, SystemVolumeSerialNumber
  <2>3. \/ calculated_id' \in {calculated_id, NoId}
        \/ \E raw \in RawIds : calculated_id' = GetMachineIdImpl(raw[1], raw[2])
    BY DEF NextId, GetMachineId, Restart, idVars
  <2> QED
    BY <2>1, <2>2, <2>3 DEF IdInv
<1> QED
  BY <1>1, <1>2, PTL DEF IdSpec

\* A machine's id tells what has been found about it from all else that may be
\* found about any machine (GetMachineIdImpl and GetRawMachineId), for any
\* machines, hashes without collisions, and whatever the checksum.
THEOREM IdIsOfOne == IdSpec => []IdIdentifies
<1>1. IdInv => IdIdentifies
  <2> SUFFICES ASSUME IdInv, calculated_id # NoId
               PROVE  \E raw \in RawIds :
                        {m \in RawId : GetMachineIdImpl(m[1], m[2]) = calculated_id} = {raw}
    BY DEF IdIdentifies, RawId
  <2>1. PICK raw \in RawIds : calculated_id = GetMachineIdImpl(raw[1], raw[2])
    BY DEF IdInv
  <2>2. raw \in RawId
    BY <2>1, RawIdsFound DEF IdInv
  <2>3. ASSUME NEW m \in RawId, GetMachineIdImpl(m[1], m[2]) = calculated_id PROVE m = raw
    <3>1. /\ m[1] \in Sid \cup {NoSid} /\ m[2] \in VolumeId /\ m = <<m[1], m[2]>>
          /\ raw[1] \in Sid \cup {NoSid} /\ raw[2] \in VolumeId /\ raw = <<raw[1], raw[2]>>
      BY <2>2 DEF RawId
    <3>2. m[1] = raw[1] /\ m[2] = raw[2]
      BY <2>1, <2>3, <3>1, IdsDiffer
    <3> QED
      BY <3>1, <3>2
  <2> QED
    BY <2>1, <2>2, <2>3
<1> QED
  BY <1>1, IdInvariant, PTL

\* The last byte of an id is the checksum of the others.
LEMMA ChecksumOfId ==
  ASSUME NEW s \in Sid \cup {NoSid}, NEW v \in VolumeId
  PROVE  /\ HashLength + 5 \in Nat /\ Len(IdBytes(s, v)) = HashLength + 5
         /\ SubSeq(IdBytes(s, v), 1, HashLength + 4) \in Seq(Byte)
         /\ IdBytes(s, v) \in [1..(HashLength + 5) -> Byte]
         /\ <<s, v>> # <<NoSid, 0>> =>
              Verify(SubSeq(IdBytes(s, v), 1, HashLength + 4), IdBytes(s, v)[HashLength + 5])
<1> DEFINE body == Hash(s) \o BigEndian(v)
           checksum == IF s = NoSid /\ v = 0 THEN 0 ELSE Generate(body)
<1>1. IdBytes(s, v) = Append(body, checksum)
  BY DEF IdBytes, Hash
<1>2. PICK n \in Nat : n = HashLength + 4
  BY MachineIdAssumption, SMT
<1>3. body \in Seq(Byte) /\ Len(body) = n
  <2>1. Hash(s) \in Seq(Byte) /\ Len(Hash(s)) = HashLength /\ HashLength \in Nat
    BY HashOf, MachineIdAssumption, SMT
  <2>2. BigEndian(v) \in Seq(Byte) /\ Len(BigEndian(v)) = 4
    BY BigEndianBytes
  <2> QED
    BY <1>2, <2>1, <2>2, Joined
<1>4. checksum \in Byte
  <2>1. 0 \in Byte /\ 85 \in Byte
    BY DEF Byte
  <2>2. Generate(body) \in Byte
    <3> HIDE DEF body
    <3>1. n \in 0..n
      OBVIOUS
    <3>2. Remainders(body)[n] \in Byte /\ Generate(body) = Xor(Remainders(body)[n], 85)
      BY <1>3, <3>1, GenerateIs
    <3> QED
      BY <2>1, <3>2, XorBits
  <2> QED
    BY <2>1, <2>2
<1>5. ASSUME NEW x \in Seq(Byte), NEW e \in Byte, Len(x) = n
      PROVE  /\ Append(x, e) \in [1..(n + 1) -> Byte] /\ Len(Append(x, e)) = n + 1
             /\ Append(x, e)[n + 1] = e /\ SubSeq(Append(x, e), 1, n) = x
  <2>1. /\ Append(x, e) \in [1..(n + 1) -> Byte] /\ Len(Append(x, e)) = n + 1
        /\ Append(x, e)[n + 1] = e /\ \A i \in 1..n : Append(x, e)[i] = x[i] /\ x[i] \in Byte
    <3>1. /\ Append(x, e) \in Seq(Byte) /\ Len(Append(x, e)) = n + 1
          /\ \A i \in 1..n : Append(x, e)[i] = x[i]
          /\ Append(x, e)[n + 1] = e
      BY <1>5, AppendProperties
    <3>2. \A i \in 1..n : x[i] \in Byte
      BY <1>5
    <3>3. Append(x, e) \in [1..(n + 1) -> Byte]
      BY <3>1, LenProperties
    <3> QED
      BY <3>1, <3>2, <3>3
  <2>2. SubSeq(Append(x, e), 1, n) = x
    <3>1. SubSeq(Append(x, e), 1, n) = [i \in 1..n |-> Append(x, e)[i]]
      BY <2>1 DEF SubSeq
    <3>2. x = [i \in 1..n |-> x[i]]
      BY <1>5
    <3> QED
      BY <2>1, <3>1, <3>2
  <2> QED
    BY <2>1, <2>2
<1>6. s # NoSid \/ v # 0 => checksum = Generate(body)
  OBVIOUS
<1> HIDE DEF body, checksum
<1>7. /\ IdBytes(s, v) \in [1..(n + 1) -> Byte] /\ Len(IdBytes(s, v)) = n + 1
      /\ IdBytes(s, v)[n + 1] = checksum /\ SubSeq(IdBytes(s, v), 1, n) = body
  BY <1>1, <1>3, <1>4, <1>5
<1>8. HashLength + 5 = n + 1 /\ n + 1 \in Nat
  BY <1>2, MachineIdAssumption, SMT
<1>9. SubSeq(IdBytes(s, v), 1, HashLength + 4) = body
  BY ONLY <1>2, <1>7
<1>10. IdBytes(s, v) \in [1..(HashLength + 5) -> Byte] /\ IdBytes(s, v)[HashLength + 5] = checksum
  BY ONLY <1>7, <1>8
<1>11. <<s, v>> # <<NoSid, 0>> => checksum = Generate(body)
  BY <1>6
<1> QED
  BY <1>3, <1>7, <1>8, <1>9, <1>10, <1>11, Zenon DEF Verify

\* Whoever verifies the checksum of an id finds any damage of up to eight bits
\* in a row to it, in the hash, the serial number or the checksum itself
\* (Crc8::Generate and Crc8::Verify): for ids of any length.
THEOREM DamagedIdIsFound == IdSpec => []ChecksumDetects
<1>1. IdInv => ChecksumDetects
  <2> SUFFICES ASSUME IdInv, NEW raw \in RawIds, raw # <<NoSid, 0>>,
                      NEW bytes, bytes = IdBytes(raw[1], raw[2]), NEW n, n = Len(bytes),
                      NEW burst \in Burst, NEW at \in 0..(8 * n - 1),
                      NEW bad, bad = Damaged(bytes, burst, at), bad # bytes
               PROVE  ~Verify(SubSeq(bad, 1, n - 1), bad[n])
    BY DEF ChecksumDetects
  <2>1. /\ raw[1] \in Sid \cup {NoSid} /\ raw[2] \in VolumeId /\ <<raw[1], raw[2]>> # <<NoSid, 0>>
    BY RawIdsFound DEF IdInv, RawId
  <2>2. /\ HashLength + 5 \in Nat /\ n = HashLength + 5 /\ bytes \in [1..(HashLength + 5) -> Byte]
        /\ Verify(SubSeq(bytes, 1, HashLength + 4), bytes[HashLength + 5])
    BY <2>1, ChecksumOfId
  <2>3. n \in Nat \ {0} /\ n - 1 = HashLength + 4
    BY <2>2, MachineIdAssumption, SMT
  <2>4. burst \in 1..255
    BY MachineIdAssumption, SMT
  <2>5. bytes \in [1..n -> Byte] /\ Verify(SubSeq(bytes, 1, n - 1), bytes[n])
    BY <2>2, <2>3
  <2> QED
    BY <2>3, <2>4, <2>5, DamageDetected
<1> QED
  BY <1>1, IdInvariant, PTL

\* The checksum of an id is what is left of its bytes when they are divided, bit
\* by bit, by the polynomial (the table and the loop of Crc8::Generate), as is
\* that of any byte.
THEOREM ChecksumIsRemainder == IdSpec => []ChecksumIsCrc
<1>1. IdInv => ChecksumIsCrc
  <2> SUFFICES ASSUME IdInv PROVE ChecksumIsCrc
    OBVIOUS
  <2>1. ASSUME NEW raw \in RawIds, NEW bytes, bytes = IdBytes(raw[1], raw[2]),
               NEW body, body = SubSeq(bytes, 1, Len(bytes) - 1)
        PROVE  Generate(body) = CrcOf(body)
    <3>1. raw[1] \in Sid \cup {NoSid} /\ raw[2] \in VolumeId
      BY RawIdsFound DEF IdInv, RawId
    <3>2. Len(bytes) - 1 = HashLength + 4
      BY <2>1, <3>1, ChecksumOfId, MachineIdAssumption, SMT
    <3>3. body \in Seq(Byte)
      BY <2>1, <3>1, <3>2, ChecksumOfId
    <3> QED
      BY <3>3, GenerateDivides
  <2>2. ASSUME NEW byte \in Byte PROVE Generate(<<byte>>) = CrcOf(<<byte>>)
    <3>1. <<byte>> \in Seq(Byte)
      OBVIOUS
    <3> QED
      BY <3>1, GenerateDivides
  <2> QED
    BY <2>1, <2>2 DEF ChecksumIsCrc
<1> QED
  BY <1>1, IdInvariant, PTL

----------------------------------------------------------------------------
(* Hexadecimal text. *)

LEMMA NotDigits ==
  /\ \A i \in 1..16, j \in 1..6 : Hex[i] # LowerHex[j]
  /\ \A i \in 1..16 : Hex[i] \notin Blank \cup {"x", "X"}
  /\ \A j \in 1..6 : LowerHex[j] # Space
  /\ Blank \cap {"0", "x", "X"} = {}
<1> DEFINE Upper == {"0", "1", "2", "3", "4", "5", "6", "7", "8", "9", "A", "B", "C", "D", "E", "F"}
           Lower == {"a", "b", "c", "d", "e", "f"}
<1>1. /\ \A i \in 1..16 : Hex[i] \in Upper /\ Hex[i] \notin {"x", "X"}
      /\ \A j \in 1..6 : LowerHex[j] \in Lower
      /\ \A c \in Lower : c \notin Upper
  BY DEF Hex, LowerHex
<1>2. \A c \in Upper \cup Lower \cup {"x", "X"} : c # Space /\ c # Tab
  BY Zenon DEF Space, Tab
<1> HIDE DEF Upper, Lower
<1>3. "0" \in Upper
  BY Zenon DEF Upper
<1> QED
  BY <1>1, <1>2, <1>3, Zenon DEF Blank

LEMMA DigitValues ==
  /\ \A v \in 0..15 : HexValues(Hex[v + 1]) = {v} /\ GetHexValue(Hex[v + 1]) = v
  /\ HexValues(Space) = {}
<1>1. ASSUME NEW v \in 0..15 PROVE HexValues(Hex[v + 1]) = {v}
  <2>1. v + 1 \in 1..16
    OBVIOUS
  <2>2. ASSUME NEW w \in 0..15, Hex[v + 1] = Hex[w + 1] PROVE w = v
    <3>1. w + 1 \in 1..16
      OBVIOUS
    <3>2. w + 1 = v + 1
      BY <2>1, <2>2, <3>1, HexDigits
    <3> QED
      BY <3>2
  <2>3. ASSUME NEW w \in 0..15, w >= 10 PROVE Hex[v + 1] # LowerHex[w - 9]
    <3>1. w - 9 \in 1..6
      BY <2>3
    <3> QED
      BY <2>1, <3>1, NotDigits
  <2> QED
    BY <2>2, <2>3 DEF HexValues
<1>2. HexValues(Space) = {}
  <2>1. ASSUME NEW w \in 0..15 PROVE Hex[w + 1] # Space
    <3>1. w + 1 \in 1..16
      OBVIOUS
    <3>2. Space \in Blank
      BY DEF Blank
    <3>3. Hex[w + 1] \notin Blank
      BY <3>1, NotDigits
    <3> QED
      BY <3>2, <3>3
  <2>2. ASSUME NEW w \in 0..15, w >= 10 PROVE LowerHex[w - 9] # Space
    <3>1. w - 9 \in 1..6
      BY <2>2
    <3> QED
      BY <3>1, NotDigits
  <2> QED
    BY <2>1, <2>2 DEF HexValues
<1> QED
  BY <1>1, <1>2 DEF GetHexValue

\* Blanks are skipped.
LEMMA FirstNotBlank ==
  ASSUME NEW text, NEW n \in Nat, Len(text) = n, NEW q \in 1..n, text[q] \notin Blank,
         \A j \in 1..(q - 1) : text[j] \in Blank
  PROVE  First(text, 1, LAMBDA c : c \notin Blank) = q
<1> DEFINE At(i) == /\ i <= n => text[i] \notin Blank
                    /\ \A j \in 1..(i - 1) : ~(text[j] \notin Blank)
<1>1. First(text, 1, LAMBDA c : c \notin Blank) = CHOOSE i \in 1..(n + 1) : At(i)
  BY DEF First
<1>2. At(q) /\ q \in 1..(n + 1)
  OBVIOUS
<1>3. ASSUME NEW i \in 1..(n + 1), At(i) PROVE i = q
  <2>1. CASE i < q
    <3>1. i \in 1..(q - 1) /\ i <= n
      BY <2>1
    <3> QED
      BY <1>3, <3>1
  <2>2. CASE i > q
    <3>1. q \in 1..(i - 1)
      BY <2>2
    <3> QED
      BY <1>3, <3>1
  <2> QED
    BY <2>1, <2>2
<1> HIDE DEF At
<1> QED
  BY <1>1, <1>2, <1>3

\* Four digits in a text, at its end or before a blank, are read.
Numbers(text, begin, end) ==
  CHOOSE f : f = [i \in begin..end |->
                    IF i = begin THEN 0
                    ELSE (16 * f[i - 1] + GetHexValue(text[i - 1])) % 2^Width]

LEMMA SmallNumber == \A x \in Nat : x < 65536 => x % 2^Width = x
<1>1. PICK m \in Nat : m = 2^Width /\ m >= 65536
  BY WidthAssumption
<1>2. \A x \in Nat : x < 65536 => x % m = x
  BY <1>1, SMT
<1> QED
  BY <1>1, <1>2

Small(x) == x % 2^Width = x

HexSums(a, b, c, d, v2, v3, v4) ==
  /\ 16 * 0 + a = a /\ v2 = 16 * a + b /\ v3 = 16 * v2 + c /\ v4 = 16 * v3 + d
  /\ Small(a) /\ Small(v2) /\ Small(v3) /\ Small(v4)

LEMMA SumsFit ==
  ASSUME NEW a \in 0..15, NEW b \in 0..15, NEW c \in 0..15, NEW d \in 0..15
  PROVE  \E v2, v3, v4 : HexSums(a, b, c, d, v2, v3, v4)
<1>1. PICK v2 \in Nat : v2 = 16 * a + b /\ v2 < 256
  BY SMT
<1>2. PICK v3 \in Nat : v3 = 16 * v2 + c /\ v3 < 4096
  BY <1>1, SMT
<1>3. PICK v4 \in Nat : v4 = 16 * v3 + d /\ v4 < 65536
  BY <1>2, SMT
<1>4. 16 * 0 + a = a /\ a \in Nat /\ a < 65536 /\ v2 < 65536 /\ v3 < 65536
  BY <1>1, <1>2, SMT
<1>5. Small(a) /\ Small(v2) /\ Small(v3) /\ Small(v4)
  <2>1. \A x \in Nat : x < 65536 => Small(x)
    BY SmallNumber, SMT DEF Small
  <2> QED
    BY <1>3, <1>4, <2>1, SMT
<1>6. 16 * 0 + a = a /\ v2 = 16 * a + b /\ v3 = 16 * v2 + c /\ v4 = 16 * v3 + d
  BY <1>1, <1>2, <1>3, <1>4
<1> QED
  BY ONLY <1>5, <1>6, Zenon DEF HexSums

LEMMA NextDigit ==
  ASSUME NEW number, NEW before, NEW value, number = (16 * before + value) % 2^Width,
         NEW e, before = e, NEW v, value = v, NEW w, (16 * e + v) % 2^Width = w
  PROVE  number = w
OBVIOUS

DigitsAt(text, p, a, b, c, d) ==
  /\ text[p] = Hex[a + 1] /\ text[p + 1] = Hex[b + 1]
  /\ text[p + 2] = Hex[c + 1] /\ text[p + 3] = Hex[d + 1]
NumberAt(text, p, a, b, c, d) == NumberFrom(text, p) = 16 * (16 * (16 * a + b) + c) + d

LEMMA FourDigits ==
  ASSUME NEW text, NEW p \in Nat \ {0}, NEW l \in {0, 1}, Len(text) = p + 3 + l,
         l = 1 => text[p + 4] = Space,
         NEW a \in 0..15, NEW b \in 0..15, NEW c \in 0..15, NEW d \in 0..15,
         DigitsAt(text, p, a, b, c, d)
  PROVE  NumberAt(text, p, a, b, c, d)
<1> PICK n \in Nat : n = p + 3 + l
  OBVIOUS
<1> DEFINE At(i) == /\ i <= n => HexValues(text[i]) = {}
                    /\ \A j \in p..(i - 1) : ~(HexValues(text[j]) = {})
<1>1. /\ HexValues(text[p]) # {} /\ HexValues(text[p + 1]) # {}
      /\ HexValues(text[p + 2]) # {} /\ HexValues(text[p + 3]) # {}
  BY DigitValues DEF DigitsAt
<1>2. \A j \in p..(p + 3) : HexValues(text[j]) # {}
  <2>1. \A j \in p..(p + 3) : j = p \/ j = p + 1 \/ j = p + 2 \/ j = p + 3
    OBVIOUS
  <2> QED
    BY <1>1, <2>1
<1>3. p + 4 \in p..(n + 1) /\ (p + 4) - 1 = p + 3 /\ (p + 4 <= n => l = 1)
  OBVIOUS
<1>4. At(p + 4)
  <2>1. p + 4 <= n => HexValues(text[p + 4]) = {}
    BY <1>3, DigitValues
  <2> QED
    BY <1>2, <1>3, <2>1
<1>5. ASSUME NEW i \in p..(n + 1), At(i) PROVE i = p + 4
  <2>1. CASE i < p + 4
    <3>1. i \in p..(p + 3) /\ i <= n
      BY <2>1
    <3> QED
      BY <1>2, <1>5, <3>1
  <2>2. CASE i > p + 4
    <3>1. p + 4 \in p..(i - 1) /\ p + 4 <= n
      BY <1>3, <2>2
    <3> QED
      BY <1>4, <1>5, <3>1
  <2> QED
    BY <1>3, <2>1, <2>2
<1>6. First(text, p, LAMBDA x : HexValues(x) = {}) = p + 4
  <2>1. First(text, p, LAMBDA x : HexValues(x) = {}) = CHOOSE i \in p..(n + 1) : At(i)
    BY DEF First
  <2> HIDE DEF At
  <2> QED
    BY <1>3, <1>4, <1>5, <2>1
<1>7. NumberFrom(text, p) = Numbers(text, p, p + 4)[p + 4]
  BY <1>6 DEF NumberFrom, Numbers
<1>8. /\ GetHexValue(text[p]) = a /\ GetHexValue(text[p + 1]) = b
      /\ GetHexValue(text[p + 2]) = c /\ GetHexValue(text[p + 3]) = d
  BY DigitValues DEF DigitsAt
<1>9. PICK v2, v3, v4 : HexSums(a, b, c, d, v2, v3, v4)
  BY SumsFit
<1>10. /\ (16 * 0 + a) % 2^Width = a /\ (16 * a + b) % 2^Width = v2
       /\ (16 * v2 + c) % 2^Width = v3 /\ (16 * v3 + d) % 2^Width = v4
  BY <1>9, Zenon DEF HexSums, Small
<1>11. ASSUME NEW f,
              f = [i \in p..(p + 4) |->
                     IF i = p THEN 0 ELSE (16 * f[i - 1] + GetHexValue(text[i - 1])) % 2^Width]
       PROVE  f[p + 4] = v4
  <2>1. \A i \in p..(p + 4) :
          f[i] = IF i = p THEN 0 ELSE (16 * f[i - 1] + GetHexValue(text[i - 1])) % 2^Width
    BY <1>11
  <2>2. /\ (p + 1) - 1 = p /\ (p + 2) - 1 = p + 1 /\ (p + 3) - 1 = p + 2 /\ (p + 4) - 1 = p + 3
        /\ p + 1 # p /\ p + 2 # p /\ p + 3 # p /\ p + 4 # p
        /\ p \in p..(p + 4) /\ p + 1 \in p..(p + 4) /\ p + 2 \in p..(p + 4)
        /\ p + 3 \in p..(p + 4) /\ p + 4 \in p..(p + 4)
    OBVIOUS
  <2>3. /\ f[p] = 0
        /\ f[p + 1] = (16 * f[(p + 1) - 1] + GetHexValue(text[(p + 1) - 1])) % 2^Width
        /\ f[p + 2] = (16 * f[(p + 2) - 1] + GetHexValue(text[(p + 2) - 1])) % 2^Width
        /\ f[p + 3] = (16 * f[(p + 3) - 1] + GetHexValue(text[(p + 3) - 1])) % 2^Width
        /\ f[p + 4] = (16 * f[(p + 4) - 1] + GetHexValue(text[(p + 4) - 1])) % 2^Width
    BY ONLY <2>1, <2>2, Zenon
  <2>4. /\ f[p + 1] = (16 * f[p] + GetHexValue(text[p])) % 2^Width
        /\ f[p + 2] = (16 * f[p + 1] + GetHexValue(text[p + 1])) % 2^Width
        /\ f[p + 3] = (16 * f[p + 2] + GetHexValue(text[p + 2])) % 2^Width
        /\ f[p + 4] = (16 * f[p + 3] + GetHexValue(text[p + 3])) % 2^Width
    BY ONLY <2>2, <2>3, Zenon
  <2>5. f[p + 1] = a
    BY ONLY <1>8, <1>10, <2>3, <2>4, NextDigit
  <2>6. f[p + 2] = v2
    BY ONLY <1>8, <1>10, <2>4, <2>5, NextDigit
  <2>7. f[p + 3] = v3
    BY ONLY <1>8, <1>10, <2>4, <2>6, NextDigit
  <2> QED
    BY ONLY <1>8, <1>10, <2>4, <2>7, NextDigit
<1>12. \E f : f = [i \in p..(p + 4) |->
                     IF i = p THEN 0 ELSE (16 * f[i - 1] + GetHexValue(text[i - 1])) % 2^Width]
  <2>1. PICK g : g = [i \in p..(p + 4) |->
                        IF i = p THEN 0 ELSE IF i = p + 1 THEN a ELSE IF i = p + 2 THEN v2
                        ELSE IF i = p + 3 THEN v3 ELSE v4]
    OBVIOUS
  <2>2. g[p] = 0 /\ g[p + 1] = a /\ g[p + 2] = v2 /\ g[p + 3] = v3 /\ g[p + 4] = v4
    BY <2>1
  <2>3. /\ a = (16 * g[p] + GetHexValue(text[p])) % 2^Width
        /\ v2 = (16 * g[p + 1] + GetHexValue(text[p + 1])) % 2^Width
        /\ v3 = (16 * g[p + 2] + GetHexValue(text[p + 2])) % 2^Width
        /\ v4 = (16 * g[p + 3] + GetHexValue(text[p + 3])) % 2^Width
    BY ONLY <1>8, <1>10, <2>2
  <2>4. \A i \in p..(p + 4) :
          g[i] = IF i = p THEN 0 ELSE (16 * g[i - 1] + GetHexValue(text[i - 1])) % 2^Width
    <3>1. ASSUME NEW i \in p..(p + 4)
          PROVE  \/ i = p
                 \/ (i = p + 1 /\ i - 1 = p /\ i # p) \/ (i = p + 2 /\ i - 1 = p + 1 /\ i # p)
                 \/ (i = p + 3 /\ i - 1 = p + 2 /\ i # p) \/ (i = p + 4 /\ i - 1 = p + 3 /\ i # p)
      OBVIOUS
    <3> SUFFICES ASSUME NEW i \in p..(p + 4), i # p
                 PROVE  g[i] = (16 * g[i - 1] + GetHexValue(text[i - 1])) % 2^Width
      BY <2>2
    <3>2. CASE i = p + 1 /\ i - 1 = p
      BY ONLY <2>2, <2>3, <3>2, Zenon
    <3>3. CASE i = p + 2 /\ i - 1 = p + 1
      BY ONLY <2>2, <2>3, <3>3, Zenon
    <3>4. CASE i = p + 3 /\ i - 1 = p + 2
      BY ONLY <2>2, <2>3, <3>4, Zenon
    <3>5. CASE i = p + 4 /\ i - 1 = p + 3
      BY ONLY <2>2, <2>3, <3>5, Zenon
    <3> QED
      BY <3>1, <3>2, <3>3, <3>4, <3>5
  <2>5. g = [i \in p..(p + 4) |-> g[i]]
    BY <2>1
  <2>6. g = [i \in p..(p + 4) |->
               IF i = p THEN 0 ELSE (16 * g[i - 1] + GetHexValue(text[i - 1])) % 2^Width]
    BY <2>4, <2>5
  <2> QED
    BY <2>6
<1>13. PICK f : /\ f = Numbers(text, p, p + 4)
                /\ f = [i \in p..(p + 4) |->
                          IF i = p THEN 0 ELSE (16 * f[i - 1] + GetHexValue(text[i - 1])) % 2^Width]
  BY <1>12 DEF Numbers
<1>14. v4 = 16 * (16 * (16 * a + b) + c) + d
  BY <1>9, Zenon DEF HexSums
<1>15. f[p + 4] = v4
  BY <1>11, <1>13, Zenon
<1> QED
  BY <1>7, <1>13, <1>14, <1>15, Zenon DEF NumberAt

\* A text of digits, with k characters before them and l behind, of which the
\* first one is a blank.
Written(text, S, prefix, digits, suffix, k, l) ==
  /\ prefix \in Seq(S) /\ digits \in Seq(S) /\ suffix \in Seq(S)
  /\ k \in Nat /\ Len(prefix) = k /\ Len(digits) = 4
  /\ l \in {0, 1} /\ Len(suffix) = l /\ (l = 1 => suffix[1] = Space)
  /\ text = prefix \o digits \o suffix

HasParts(text, prefix, digits, k, l) ==
  /\ Len(text) = k + 4 + l
  /\ \A j \in 1..k : text[j] = prefix[j]
  /\ \A j \in 1..4 : text[k + j] = digits[j]
  /\ l = 1 => text[k + 5] = Space
HasNumber(text, prefix, k, l, a, b, c, d) ==
  /\ Len(text) = k + 4 + l
  /\ \A j \in 1..k : text[j] = prefix[j]
  /\ DigitsAt(text, k + 1, a, b, c, d) /\ NumberAt(text, k + 1, a, b, c, d)

LEMMA WrittenParts ==
  ASSUME NEW text, NEW S, NEW prefix, NEW digits, NEW suffix, NEW k, NEW l,
         Written(text, S, prefix, digits, suffix, k, l)
  PROVE  HasParts(text, prefix, digits, k, l)
<1> /\ prefix \in Seq(S) /\ digits \in Seq(S) /\ suffix \in Seq(S)
    /\ k \in Nat /\ Len(prefix) = k /\ Len(digits) = 4
    /\ l \in {0, 1} /\ Len(suffix) = l /\ (l = 1 => suffix[1] = Space)
    /\ text = prefix \o digits \o suffix
  BY DEF Written
<1>1. PICK s : s = prefix \o digits
  OBVIOUS
<1>2. /\ s \in Seq(S) /\ Len(s) = k + 4
      /\ \A j \in 1..(k + 4) : s[j] = IF j <= k THEN prefix[j] ELSE digits[j - k]
  <2>1. /\ s \in Seq(S) /\ Len(s) = Len(prefix) + Len(digits)
        /\ \A j \in 1..(Len(prefix) + Len(digits)) :
             s[j] = IF j <= Len(prefix) THEN prefix[j] ELSE digits[j - Len(prefix)]
    BY <1>1, ConcatProperties
  <2> QED
    BY <2>1
<1>3. /\ Len(text) = k + 4 + l
      /\ \A j \in 1..(k + 4 + l) : text[j] = IF j <= k + 4 THEN s[j] ELSE suffix[j - (k + 4)]
  <2>1. /\ Len(text) = Len(s) + Len(suffix)
        /\ \A j \in 1..(Len(s) + Len(suffix)) :
             text[j] = IF j <= Len(s) THEN s[j] ELSE suffix[j - Len(s)]
    BY <1>1, <1>2, ConcatProperties
  <2> QED
    BY <1>2, <2>1
<1>4. \A j \in 1..k : j \in 1..(k + 4) /\ j \in 1..(k + 4 + l) /\ j <= k /\ j <= k + 4
  OBVIOUS
<1>5. \A j \in 1..k : text[j] = prefix[j]
  BY <1>2, <1>3, <1>4
<1>6. \A j \in 1..4 : /\ k + j \in 1..(k + 4) /\ k + j \in 1..(k + 4 + l)
                      /\ ~(k + j <= k) /\ k + j <= k + 4 /\ (k + j) - k = j
  OBVIOUS
<1>7. \A j \in 1..4 : text[k + j] = digits[j]
  BY <1>2, <1>3, <1>6
<1>8. l = 1 => text[k + 5] = Space
  <2>1. l = 1 => k + 5 \in 1..(k + 4 + l) /\ ~(k + 5 <= k + 4) /\ (k + 5) - (k + 4) = 1
    OBVIOUS
  <2> QED
    BY <1>3, <2>1
<1> QED
  BY <1>3, <1>5, <1>7, <1>8, Zenon DEF HasParts

LEMMA NumberWritten ==
  ASSUME NEW text, NEW S, NEW prefix, NEW digits, NEW suffix, NEW k, NEW l,
         Written(text, S, prefix, digits, suffix, k, l),
         NEW a \in 0..15, NEW b \in 0..15, NEW c \in 0..15, NEW d \in 0..15,
         DigitsAt(digits, 1, a, b, c, d)
  PROVE  HasNumber(text, prefix, k, l, a, b, c, d)
<1> k \in Nat /\ l \in {0, 1}
  BY DEF Written
<1>1. /\ Len(text) = k + 4 + l /\ \A j \in 1..4 : text[k + j] = digits[j]
      /\ l = 1 => text[k + 5] = Space
      /\ \A j \in 1..k : text[j] = prefix[j]
  <2>1. HasParts(text, prefix, digits, k, l)
    BY WrittenParts, Zenon
  <2> QED
    BY <2>1, Zenon DEF HasParts
<1>2. PICK p \in Nat \ {0} : p = k + 1
  OBVIOUS
<1>3. p + 1 = k + 2 /\ p + 2 = k + 3 /\ p + 3 = k + 4 /\ p + 4 = k + 5 /\ p + 3 + l = k + 4 + l
  BY <1>2
<1>4. /\ digits[1] = Hex[a + 1] /\ digits[2] = Hex[b + 1]
      /\ digits[3] = Hex[c + 1] /\ digits[4] = Hex[d + 1]
  BY DEF DigitsAt
<1>5. DigitsAt(text, p, a, b, c, d)
  <2>1. /\ text[k + 1] = digits[1] /\ text[k + 2] = digits[2]
        /\ text[k + 3] = digits[3] /\ text[k + 4] = digits[4]
    BY <1>1
  <2>2. /\ text[p] = digits[1] /\ text[p + 1] = digits[2]
        /\ text[p + 2] = digits[3] /\ text[p + 3] = digits[4]
    BY ONLY <1>2, <1>3, <2>1, Zenon
  <2> QED
    BY ONLY <1>4, <2>2, Zenon DEF DigitsAt
<1>6. Len(text) = p + 3 + l /\ (l = 1 => text[p + 4] = Space)
  BY <1>1, <1>3
<1>7. NumberAt(text, p, a, b, c, d)
  BY <1>5, <1>6, FourDigits
<1> QED
  BY ONLY <1>1, <1>2, <1>5, <1>7, Zenon DEF HasNumber

\* Four digits, with what may be written before and after them, are read as the
\* number they are written for.
HasDigits(digits, number, a, b, c, d) ==
  DigitsAt(digits, 1, a, b, c, d) /\ number = 16 * (16 * (16 * a + b) + c) + d
DigitsOf(digits, S, number) ==
  /\ digits \in Seq(S) /\ Len(digits) = 4
  /\ \E a, b, c, d \in 0..15 : HasDigits(digits, number, a, b, c, d)
ReadBack(digits, number) ==
  \A prefix \in {<<>>, <<Space, Tab>>, <<"0", "x">>, <<Space, "0", "X">>},
     suffix \in {<<>>, <<Space>>} : HexStringToInteger(prefix \o digits \o suffix) = number
LetterSet(S) == {Space, Tab, "0", "x", "X"} \subseteq S /\ \A v \in 1..16 : Hex[v] \in S

LEMMA DigitsReadBack ==
  ASSUME NEW digits, NEW S, NEW number, LetterSet(S), DigitsOf(digits, S, number)
  PROVE  ReadBack(digits, number)
<1> PICK a \in 0..15, b \in 0..15, c \in 0..15, d \in 0..15 : HasDigits(digits, number, a, b, c, d)
  BY Zenon DEF DigitsOf
<1>1. DigitsAt(digits, 1, a, b, c, d) /\ number = 16 * (16 * (16 * a + b) + c) + d
  BY Zenon DEF HasDigits
<1> digits \in Seq(S) /\ Len(digits) = 4 /\ {Space, Tab, "0", "x", "X"} \subseteq S
  BY Zenon DEF DigitsOf, LetterSet
<1> DigitsAt(digits, 1, a, b, c, d)
  BY <1>1
<1> SUFFICES ASSUME NEW prefix \in {<<>>, <<Space, Tab>>, <<"0", "x">>, <<Space, "0", "X">>},
                    NEW suffix \in {<<>>, <<Space>>}
             PROVE  HexStringToInteger(prefix \o digits \o suffix)
                      = 16 * (16 * (16 * a + b) + c) + d
  BY <1>1, Zenon DEF ReadBack
<1>2. PICK text : text = prefix \o digits \o suffix
  OBVIOUS
<1>3. PICK l \in {0, 1} : suffix \in Seq(S) /\ Len(suffix) = l /\ (l = 1 => suffix[1] = Space)
  <2>1. CASE suffix = <<>>
    BY <2>1
  <2>2. CASE suffix = <<Space>>
    BY <2>2
  <2> QED
    BY <2>1, <2>2
<1>4. /\ Hex[a + 1] \notin Blank /\ Hex[b + 1] \notin {"x", "X"}
      /\ Space \in Blank /\ Tab \in Blank /\ "0" \notin Blank
  <2>1. a + 1 \in 1..16 /\ b + 1 \in 1..16
    OBVIOUS
  <2>2. Space \in Blank /\ Tab \in Blank
    BY DEF Blank
  <2> QED
    BY <2>1, <2>2, NotDigits
<1>5. ASSUME NEW k \in Nat, prefix \in Seq(S), Len(prefix) = k
      PROVE  HasNumber(text, prefix, k, l, a, b, c, d)
  <2>1. Written(text, S, prefix, digits, suffix, k, l)
    BY <1>2, <1>3, <1>5, Zenon DEF Written
  <2> QED
    BY <2>1, NumberWritten, Zenon
<1>6. CASE prefix = <<>>
  <2>1. prefix \in Seq(S) /\ Len(prefix) = 0 /\ 0 \in Nat
    BY ONLY <1>6
  <2>2. /\ 4 + l \in Nat /\ Len(text) = 4 + l /\ text[1] = Hex[a + 1] /\ text[2] = Hex[b + 1]
        /\ NumberAt(text, 1, a, b, c, d)
    <3>1. PICK k \in Nat : k = 0
      OBVIOUS
    <3>2. k + 1 = 1 /\ 1 + 1 = 2 /\ k + 4 + l = 4 + l /\ 4 + l \in Nat
      BY ONLY <1>3, <3>1
    <3>3. HasNumber(text, prefix, k, l, a, b, c, d)
      <4>1. k \in Nat /\ prefix \in Seq(S) /\ Len(prefix) = k
        BY ONLY <2>1, <3>1
      <4> QED
        BY ONLY <1>5, <4>1
    <3>4. /\ Len(text) = k + 4 + l
          /\ DigitsAt(text, k + 1, a, b, c, d) /\ NumberAt(text, k + 1, a, b, c, d)
      BY ONLY <3>3, Zenon DEF HasNumber
    <3>5. DigitsAt(text, 1, a, b, c, d) /\ NumberAt(text, 1, a, b, c, d)
      BY ONLY <3>2, <3>4, Zenon
    <3>6. text[1] = Hex[a + 1] /\ text[2] = Hex[b + 1]
      BY ONLY <3>2, <3>5, Zenon DEF DigitsAt
    <3> QED
      BY ONLY <3>2, <3>4, <3>5, <3>6, Zenon
  <2>3. First(text, 1, LAMBDA x : x \notin Blank) = 1
    <3>1. 1 \in 1..(4 + l) /\ 1..(1 - 1) = {}
      BY <1>3
    <3> QED
      BY <1>4, <2>2, <3>1, FirstNotBlank
  <2>4. ~IsPrefix0x(text, 1)
    BY <1>4, <2>2 DEF IsPrefix0x
  <2> QED
    BY <1>2, <2>2, <2>3, <2>4 DEF HexStringToInteger, NumberAt
<1>7. CASE prefix = <<Space, Tab>>
  <2>1. prefix \in Seq(S) /\ Len(prefix) = 2 /\ prefix[1] = Space /\ prefix[2] = Tab
    BY <1>7
  <2>2. /\ 6 + l \in Nat /\ Len(text) = 6 + l /\ text[3] = Hex[a + 1] /\ text[4] = Hex[b + 1]
        /\ text[1] = Space /\ text[2] = Tab
        /\ NumberAt(text, 3, a, b, c, d)
    <3>1. /\ Len(text) = 2 + 4 + l /\ \A j \in 1..2 : text[j] = prefix[j]
          /\ DigitsAt(text, 2 + 1, a, b, c, d) /\ NumberAt(text, 2 + 1, a, b, c, d)
      BY ONLY <1>5, <2>1, Zenon DEF HasNumber
    <3>2. 2 + 1 = 3 /\ 3 + 1 = 4 /\ 2 + 4 + l = 6 + l /\ 6 + l \in Nat
      OBVIOUS
    <3>3. text[1] = prefix[1] /\ text[2] = prefix[2]
      BY <3>1
    <3> QED
      BY <2>1, <3>1, <3>2, <3>3, Zenon DEF DigitsAt
  <2>3. First(text, 1, LAMBDA x : x \notin Blank) = 3
    <3>1. 3 \in 1..(6 + l) /\ \A j \in 1..(3 - 1) : j = 1 \/ j = 2
      BY <1>3
    <3>2. \A j \in 1..(3 - 1) : text[j] \in Blank
      BY <1>4, <2>2, <3>1
    <3> QED
      BY <1>4, <2>2, <3>1, <3>2, FirstNotBlank
  <2>4. ~IsPrefix0x(text, 3)
    BY <1>4, <2>2 DEF IsPrefix0x
  <2> QED
    BY <1>2, <2>2, <2>3, <2>4 DEF HexStringToInteger, NumberAt
<1>8. CASE prefix = <<"0", "x">>
  <2>1. prefix \in Seq(S) /\ Len(prefix) = 2 /\ prefix[1] = "0" /\ prefix[2] = "x"
    BY <1>8
  <2>2. /\ 6 + l \in Nat /\ Len(text) = 6 + l /\ text[1] = "0" /\ text[2] = "x"
        /\ NumberAt(text, 3, a, b, c, d)
    <3>1. /\ Len(text) = 2 + 4 + l /\ \A j \in 1..2 : text[j] = prefix[j]
          /\ DigitsAt(text, 2 + 1, a, b, c, d) /\ NumberAt(text, 2 + 1, a, b, c, d)
      BY ONLY <1>5, <2>1, Zenon DEF HasNumber
    <3>2. 2 + 1 = 3 /\ 3 + 1 = 4 /\ 2 + 4 + l = 6 + l /\ 6 + l \in Nat
      OBVIOUS
    <3>3. text[1] = prefix[1] /\ text[2] = prefix[2]
      BY <3>1
    <3> QED
      BY <2>1, <3>1, <3>2, <3>3, Zenon DEF DigitsAt
  <2>3. First(text, 1, LAMBDA x : x \notin Blank) = 1
    <3>1. 1 \in 1..(6 + l) /\ 1..(1 - 1) = {}
      BY <1>3
    <3> QED
      BY <1>4, <2>2, <3>1, FirstNotBlank
  <2>4. IsPrefix0x(text, 1)
    BY <1>3, <2>2 DEF IsPrefix0x
  <2>5. 1 + 2 = 3
    OBVIOUS
  <2> QED
    BY <1>2, <2>2, <2>3, <2>4, <2>5 DEF HexStringToInteger, NumberAt
<1>9. CASE prefix = <<Space, "0", "X">>
  <2>1. /\ prefix \in Seq(S) /\ Len(prefix) = 3
        /\ prefix[1] = Space /\ prefix[2] = "0" /\ prefix[3] = "X"
    BY <1>9
  <2>2. /\ 7 + l \in Nat /\ Len(text) = 7 + l /\ text[1] = Space /\ text[2] = "0" /\ text[3] = "X"
        /\ NumberAt(text, 4, a, b, c, d)
    <3>1. /\ Len(text) = 3 + 4 + l /\ \A j \in 1..3 : text[j] = prefix[j]
          /\ DigitsAt(text, 3 + 1, a, b, c, d) /\ NumberAt(text, 3 + 1, a, b, c, d)
      BY ONLY <1>5, <2>1, Zenon DEF HasNumber
    <3>2. 3 + 1 = 4 /\ 4 + 1 = 5 /\ 3 + 4 + l = 7 + l /\ 7 + l \in Nat
      OBVIOUS
    <3>3. text[1] = prefix[1] /\ text[2] = prefix[2] /\ text[3] = prefix[3]
      BY <3>1
    <3> QED
      BY <2>1, <3>1, <3>2, <3>3, Zenon DEF DigitsAt
  <2>3. First(text, 1, LAMBDA x : x \notin Blank) = 2
    <3>1. 2 \in 1..(7 + l) /\ \A j \in 1..(2 - 1) : j = 1
      BY <1>3
    <3>2. \A j \in 1..(2 - 1) : text[j] \in Blank
      BY <1>4, <2>2, <3>1
    <3> QED
      BY <1>4, <2>2, <3>1, <3>2, FirstNotBlank
  <2>4. IsPrefix0x(text, 2)
    BY <1>3, <2>2 DEF IsPrefix0x
  <2> QED
    BY <1>2, <2>2, <2>3, <2>4 DEF HexStringToInteger, NumberAt
<1> QED
  BY <1>6, <1>7, <1>8, <1>9

\* The digits of two bytes of an id, side by side.
LEMMA DigitsOfText ==
  ASSUME NEW n \in Nat, NEW bytes \in [1..n -> Byte], Len(bytes) = n, NEW i \in 1..(n - 1),
         NEW digits, digits = SubSeq(BytesToString(bytes), 2 * i - 1, 2 * i + 2),
         NEW S, LetterSet(S)
  PROVE  DigitsOf(digits, S, 256 * bytes[i] + bytes[i + 1])
<1>1. PICK text : text = BytesToString(bytes)
  OBVIOUS
<1>2. i \in 1..n /\ i + 1 \in 1..n
  OBVIOUS
<1>3. PICK x \in Byte, y \in Byte : x = bytes[i] /\ y = bytes[i + 1]
  BY <1>2
<1>4. PICK a \in 0..15, b \in 0..15 : a = x \div 16 /\ b = x % 16 /\ x = 16 * a + b
  BY SMT DEF Byte
<1>5. PICK c \in 0..15, d \in 0..15 : c = y \div 16 /\ d = y % 16 /\ y = 16 * c + d
  BY SMT DEF Byte
<1>6. /\ text[2 * i - 1] = Hex[1 + x \div 16] /\ text[2 * i] = Hex[1 + (x % 16)]
      /\ text[2 * (i + 1) - 1] = Hex[1 + y \div 16] /\ text[2 * (i + 1)] = Hex[1 + (y % 16)]
  <2>1. ASSUME NEW j \in 1..n
        PROVE  /\ text[2 * j - 1] = Hex[1 + bytes[j] \div 16]
               /\ text[2 * j] = Hex[1 + (bytes[j] % 16)]
    BY <1>1, TextOf, Zenon
  <2> QED
    BY ONLY <1>2, <1>3, <2>1, Zenon
<1>7. /\ text[2 * i - 1] = Hex[a + 1] /\ text[2 * i] = Hex[b + 1]
      /\ text[2 * i + 1] = Hex[c + 1] /\ text[2 * i + 2] = Hex[d + 1]
  <2>1. 2 * (i + 1) - 1 = 2 * i + 1 /\ 2 * (i + 1) = 2 * i + 2
    OBVIOUS
  <2>2. 1 + a = a + 1 /\ 1 + b = b + 1 /\ 1 + c = c + 1 /\ 1 + d = d + 1
    OBVIOUS
  <2> QED
    BY ONLY <1>4, <1>5, <1>6, <2>1, <2>2, Zenon
<1>8. digits = [j \in 1..4 |-> text[j + (2 * i - 1) - 1]]
  <2>1. digits = [j \in 1..((2 * i + 2) - (2 * i - 1) + 1) |-> text[j + (2 * i - 1) - 1]]
    BY <1>1 DEF SubSeq
  <2>2. (2 * i + 2) - (2 * i - 1) + 1 = 4
    OBVIOUS
  <2> QED
    BY <2>1, <2>2
<1>9. /\ digits[1] = text[2 * i - 1] /\ digits[2] = text[2 * i]
      /\ digits[3] = text[2 * i + 1] /\ digits[4] = text[2 * i + 2]
  <2>1. /\ 1 + (2 * i - 1) - 1 = 2 * i - 1 /\ 2 + (2 * i - 1) - 1 = 2 * i
        /\ 3 + (2 * i - 1) - 1 = 2 * i + 1 /\ 4 + (2 * i - 1) - 1 = 2 * i + 2
    OBVIOUS
  <2>2. 1 \in 1..4 /\ 2 \in 1..4 /\ 3 \in 1..4 /\ 4 \in 1..4
    OBVIOUS
  <2> QED
    BY ONLY <1>8, <2>1, <2>2, Zenon
<1>10. DigitsAt(digits, 1, a, b, c, d)
  <2>1. 1 + 1 = 2 /\ 1 + 2 = 3 /\ 1 + 3 = 4
    OBVIOUS
  <2> QED
    BY ONLY <1>7, <1>9, <2>1, Zenon DEF DigitsAt
<1>11. digits \in Seq(S) /\ Len(digits) = 4
  <2>1. a + 1 \in 1..16 /\ b + 1 \in 1..16 /\ c + 1 \in 1..16 /\ d + 1 \in 1..16
    OBVIOUS
  <2>2. digits[1] \in S /\ digits[2] \in S /\ digits[3] \in S /\ digits[4] \in S
    BY <1>7, <1>9, <2>1, Zenon DEF LetterSet
  <2>3. \A j \in 1..4 : digits[j] \in S
    <3>1. \A j \in 1..4 : j = 1 \/ j = 2 \/ j = 3 \/ j = 4
      OBVIOUS
    <3> QED
      BY <2>2, <3>1
  <2>4. digits = [j \in 1..4 |-> digits[j]]
    BY ONLY <1>8
  <2> QED
    BY ONLY <2>3, <2>4
<1>12. 256 * x + y = 16 * (16 * (16 * a + b) + c) + d
  BY <1>4, <1>5
<1>13. HasDigits(digits, 256 * bytes[i] + bytes[i + 1], a, b, c, d)
  BY ONLY <1>3, <1>10, <1>12, Zenon DEF HasDigits
<1> QED
  BY <1>11, <1>13, Zenon DEF DigitsOf

\* What is written of an id is read back: any two bytes side by side, from
\* their four digits, with blanks around or "0x" before them (BytesToString
\* and HexStringToInteger), for ids of any length and an int of 16 bits or more.
THEOREM IdIsReadBack == IdSpec => []HexReadsBack
<1>1. IdInv => HexReadsBack
  <2> SUFFICES ASSUME IdInv, NEW raw \in RawIds, calculated_id = GetMachineIdImpl(raw[1], raw[2]),
                      NEW i \in 1..(Len(IdBytes(raw[1], raw[2])) - 1)
               PROVE  ReadBack(SubSeq(calculated_id, 2 * i - 1, 2 * i + 2),
                               256 * IdBytes(raw[1], raw[2])[i] + IdBytes(raw[1], raw[2])[i + 1])
    BY Zenon DEF HexReadsBack, ReadBack
  <2>1. raw[1] \in Sid \cup {NoSid} /\ raw[2] \in VolumeId
    BY RawIdsFound DEF IdInv, RawId
  <2>2. PICK bytes : bytes = IdBytes(raw[1], raw[2])
    OBVIOUS
  <2>3. PICK n \in Nat : n = Len(bytes) /\ bytes \in [1..n -> Byte]
    BY <2>1, <2>2, ChecksumOfId
  <2>4. PICK S : S = {Hex[v] : v \in 1..16} \cup {Space, Tab, "0", "x", "X"}
    OBVIOUS
  <2>5. LetterSet(S)
    BY ONLY <2>4, Zenon DEF LetterSet
  <2>6. i \in 1..(n - 1)
    BY <2>2, <2>3
  <2>7. DigitsOf(SubSeq(BytesToString(bytes), 2 * i - 1, 2 * i + 2), S,
                 256 * bytes[i] + bytes[i + 1])
    BY ONLY <2>3, <2>5, <2>6, DigitsOfText, Zenon
  <2>8. calculated_id = BytesToString(bytes)
    BY <2>2, Zenon DEF GetMachineIdImpl
  <2> QED
    BY ONLY <2>2, <2>5, <2>7, <2>8, DigitsReadBack, Zenon
<1> QED
  BY <1>1, IdInvariant, PTL
=============================================================================
