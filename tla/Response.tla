------------------------------ MODULE Response ------------------------------
(***************************************************************************)
(* An answer of the server and its checksum (IsPingResponseValid).         *)
(*                                                                         *)
(* An answer is a sequence of lines and whether the last one ends with a   *)
(* newline.  A checksum line knows whether it is the CRC-32 of what comes  *)
(* before it.  A DCC is a sequence of characters as an RLZ is.             *)
(***************************************************************************)
EXTENDS Rlz

CONSTANTS NoAccessPoint, \* a name that is none, or a line without ": "
          MaxLines,      \* kMaxPingResponseLength, in lines
          Response       \* what the server, or anybody else, may answer

Kind == {"rlz", "events", "stateful", "dcc", "set_dcc", "crc32", "other", "empty"}

LineOK(l) ==
  /\ l.kind \in Kind
  /\ l.kind = "rlz" => /\ l.point \in AccessPoint \cup {NoAccessPoint}
                       /\ l.rlz \in Seq(Char)
  /\ l.kind \in {"dcc", "set_dcc"} => l.value \in Seq(Char)
  /\ l.kind = "crc32" => l.good \in BOOLEAN

ASSUME ResponseAssumption ==
  /\ NoAccessPoint \notin AccessPoint
  /\ MaxLines \in Nat
  /\ \A r \in Response : /\ r.ended \in BOOLEAN
                         /\ Len(r.lines) \in Nat /\ DOMAIN r.lines = 1..Len(r.lines)
                         /\ r.lines = <<>> => ~r.ended
                         /\ \A i \in DOMAIN r.lines : LineOK(r.lines[i])

Least(S) == CHOOSE i \in S : \A j \in S : i <= j

\* The line that find("\ncrc32: ") finds, or the first line if it is the
\* only one to start with "crc32: ", or 0.
ChecksumLine(r) ==
  LET crc == {i \in DOMAIN r.lines : r.lines[i].kind = "crc32"}
  IN  IF crc \ {1} # {} THEN Least(crc \ {1}) ELSE IF crc = {} THEN 0 ELSE 1

\* The lines of the message, up to "the effective end of the message"
\* (rlz_lib.h:188), the index that IsPingResponseValid returns.
Message(r) == 1..(ChecksumLine(r) - 1)

\* Bug: that there is a checksum is enough.
HasChecksum(r) ==
  /\ r.lines # <<>>
  /\ Len(r.lines) <= MaxLines
  /\ ChecksumLine(r) # 0

IsPingResponseValid(r) ==
  /\ r.lines # <<>>
  /\ Len(r.lines) <= MaxLines
  /\ ChecksumLine(r) # 0
  /\ r.lines[ChecksumLine(r)].good
=============================================================================
