----------------------------- MODULE MachineId -----------------------------
(***************************************************************************)
(* The id of the machine that a ping with events reports: the hash of its  *)
(* SID, the serial number of its volume, and a checksum.  Each of the two  *)
(* may not be found.  On the Mac a text with its address and its serial    *)
(* number takes the place of the SID, and there is no volume.  The process *)
(* keeps the id it has computed.                                           *)
(***************************************************************************)
EXTENDS Integers, Crc8, StringUtils

CONSTANTS Sid, NoSid,  \* SIDs or such texts, and the empty string
          Found,       \* what may be found of each text on a Mac
          Digest,      \* SHA-1: a function from Sid to byte sequences
          HashLength,  \* kSHA1Length
          VolumeId,    \* ints of 32 bits
          Burst        \* bit patterns, see Damaged

ASSUME MachineIdAssumption ==
  /\ NoSid \notin Sid /\ HashLength \in Nat
  /\ \A s \in Sid : Found[s] \subseteq Sid \cup {NoSid}
  /\ \A s \in Sid : /\ Digest[s] \in [1..HashLength -> Byte]
                   /\ \E i \in 1..HashLength : Digest[s][i] # 0
  /\ \A s, t \in Sid : Digest[s] = Digest[t] => s = t
  /\ {0, 1} \subseteq VolumeId
  /\ \A v \in VolumeId : v \in Int /\ v \div 16777216 \in -128..127
  /\ Burst \subseteq 1..255

VARIABLES system,         \* "win" or "mac"
          sid, volume_id, \* of the machine
          calculated_id   \* what GetMachineId has calculated

idVars == <<system, sid, volume_id, calculated_id>>

NoId == <<>>

InitId == /\ system \in {"win", "mac"} /\ sid \in Sid /\ volume_id \in VolumeId
          /\ calculated_id = NoId

\* Bug: the upper half of the number is lost.
LowBytes(n) == <<0, 0, (n \div 256) % 256, n % 256>>

BigEndian(n) ==
  <<(n \div 16777216) % 256, (n \div 65536) % 256, (n \div 256) % 256, n % 256>>

IdBytes(s, v) ==
  LET hash == IF s = NoSid THEN [i \in 1..HashLength |-> 0] ELSE Digest[s]
      body == hash \o BigEndian(v)
  IN  Append(body, IF s = NoSid /\ v = 0 THEN 0 ELSE Generate(body))

GetMachineIdImpl(s, v) == BytesToString(IdBytes(s, v))

\* What GetRawMachineId may come to.  Any of the calls it makes of the system
\* may fail, and what is not found is left empty.
ComputerSid == {sid, NoSid}
SystemVolumeSerialNumber == {volume_id, 0}
WinRawIds == ComputerSid \X SystemVolumeSerialNumber
MacRawIds == Found[sid] \X {1}
RawIds == IF system = "win" THEN WinRawIds ELSE MacRawIds

GetMachineId ==
  /\ calculated_id' \in IF calculated_id # NoId THEN {calculated_id}
                        ELSE {GetMachineIdImpl(raw[1], raw[2]) : raw \in RawIds}
  /\ UNCHANGED <<system, sid, volume_id>>

Restart == /\ calculated_id # NoId /\ calculated_id' = NoId
           /\ UNCHANGED <<system, sid, volume_id>>

NextId == GetMachineId \/ Restart

IdSpec == InitId /\ [][NextId]_idVars

----------------------------------------------------------------------------
(* Properties *)

\* Of all that may be found out about a machine, one thing only has this id,
\* and it is something found out about this machine.
IdIdentifies ==
  calculated_id # NoId =>
    \E raw \in RawIds :
      {m \in (Sid \cup {NoSid}) \X VolumeId : GetMachineIdImpl(m[1], m[2]) = calculated_id}
        = {raw}

\* The bytes with a burst of errors in it, of up to eight bits.
Damaged(bytes, burst, at) ==
  [i \in DOMAIN bytes |->
     Xor(bytes[i], CASE i = (at \div 8) + 1 -> (burst * 2^(at % 8)) % 256
                     [] i = at \div 8       -> (burst * 2^(at % 8)) \div 256
                     [] OTHER               -> 0)]

\* Whoever verifies the checksum of an id finds any such damage to it.
ChecksumDetects ==
  \A raw \in RawIds : calculated_id = GetMachineIdImpl(raw[1], raw[2]) /\ raw # <<NoSid, 0>> =>
    LET bytes == IdBytes(raw[1], raw[2])
        n == Len(bytes)
    IN  \A burst \in Burst, at \in 0..(8 * n - 1) :
          LET bad == Damaged(bytes, burst, at)
          IN  bad # bytes => ~Verify(SubSeq(bad, 1, n - 1), bad[n])

\* The table gives the remainder of the division, for every byte and for ids.
ChecksumIsCrc ==
  calculated_id # NoId =>
    /\ \A raw \in RawIds : LET bytes == IdBytes(raw[1], raw[2])
                               body == SubSeq(bytes, 1, Len(bytes) - 1)
                           IN  Generate(body) = CrcOf(body)
    /\ \A byte \in Byte : Generate(<<byte>>) = CrcOf(<<byte>>)

\* Four digits of an id are read as the number they are written for, with
\* "0x" before and blanks around them too.
HexReadsBack ==
  \A raw \in RawIds : calculated_id = GetMachineIdImpl(raw[1], raw[2]) =>
    LET bytes == IdBytes(raw[1], raw[2])
    IN  \A i \in 1..(Len(bytes) - 1) :
          LET digits == SubSeq(calculated_id, 2 * i - 1, 2 * i + 2)
          IN  \A prefix \in {<<>>, <<Space, Tab>>, <<"0", "x">>, <<Space, "0", "X">>},
                 suffix \in {<<>>, <<Space>>} :
                HexStringToInteger(prefix \o digits \o suffix) = 256 * bytes[i] + bytes[i + 1]
=============================================================================
