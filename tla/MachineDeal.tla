---------------------------- MODULE MachineDeal ----------------------------
(***************************************************************************)
(* The OEM deal confirmation code (DCC) of a machine, on Windows: what an  *)
(* answer of the server does to it.  To say so, an answer repeats the code *)
(* that is stored ("dcc: ...") and gives the new one ("set_dcc: ...").     *)
(***************************************************************************)
EXTENDS Response

CONSTANTS GoodDccChar, \* see IsGoodDccChar
          Colon,       \* one of them, which also ends the key of a line
          MaxDccLength \* kMaxDccLength

ASSUME DccAssumption ==
  /\ GoodDccChar \subseteq Char /\ Dot \in GoodDccChar /\ Colon \in GoodDccChar
  /\ MaxDccLength \in Nat

\* Get fails if there is no code or no machine key, which to its callers is
\* the same as the empty code.
NoDcc == <<>>

StoredDcc == UNION {[1..n -> GoodDccChar] : n \in 0..MaxDccLength}

NormalizeDcc(raw) ==
  [i \in 1..Lesser(Len(raw), MaxDccLength) |->
     IF raw[i] \in GoodDccChar THEN raw[i] ELSE Dot]

\* The lines that give key a value: split at ":", they must give two tokens.
GetResponseValue(r, key) ==
  {i \in Message(r) : /\ r.lines[i].kind = key
                      /\ \A k \in DOMAIN r.lines[i].value : r.lines[i].value[k] # Colon}

NewCodes(r) ==
  {i \in GetResponseValue(r, "set_dcc") : Len(r.lines[i].value) <= MaxDccLength}

\* Bug: any of the codes that the answer repeats will do.
ConfirmsAnywhere(r, stored) ==
  LET repeated == GetResponseValue(r, "dcc")
  IN  IF repeated = {} THEN stored = NoDcc
      ELSE \E i \in repeated : r.lines[i].value = stored

\* What GetNewCodeFromPingResponse returns.  The first code that the answer
\* repeats decides.
Confirms(r, stored) ==
  LET repeated == GetResponseValue(r, "dcc")
  IN  IF repeated = {} THEN stored = NoDcc
      ELSE r.lines[Least(repeated)].value = stored

GetNewCode(r) == r.lines[Least(NewCodes(r))].value

\* The code after Set, and after SetFromPingResponse, if it can be written.
Set(stored, code) == IF Len(code) > MaxDccLength THEN stored ELSE NormalizeDcc(code)

\* The answer is held against what Get has read.
SetFromPingResponse(r, stored, read) ==
  IF Confirms(r, read) /\ NewCodes(r) # {} THEN Set(stored, GetNewCode(r)) ELSE stored
=============================================================================
