--------------------------- MODULE DealCodeCalls ---------------------------
(***************************************************************************)
(* The calls that applications make of MachineDealCode themselves, for all *)
(* processes of the machine.  Get and Set each take the lock for their own *)
(* time, so that a SetFromPingResponse that is not part of                 *)
(* ParsePingResponse is two steps, with the calls of others in between.    *)
(***************************************************************************)
EXTENDS MachineDeal

CONSTANTS Caller,     \* threads that call
          Code,       \* what Set is called with
          GetMayFail, \* whether Get may fail to lock or to read
          NoAnswer

VARIABLES code,  \* the deal code of the machine, see NoDcc
          answer \* what a call that has looked at the code is about to apply

dealVars == <<code, answer>>

InitDeal == code = NoDcc /\ answer = [c \in Caller |-> NoAnswer]

SetCode(raw) == code' = Set(code, raw) /\ UNCHANGED answer

Clear == code' = NoDcc /\ UNCHANGED answer

\* A Get that fails counts as no code.  A call that goes no further changes
\* nothing.
GetNewCodeFromPingResponse(c) ==
  /\ answer[c] = NoAnswer
  /\ \E r \in Response, got \in {TRUE, ~GetMayFail} :
       /\ IsPingResponseValid(r)
       /\ Confirms(r, IF got THEN code ELSE NoDcc)
       /\ NewCodes(r) # {}
       /\ answer' = [answer EXCEPT ![c] = r]
  /\ UNCHANGED code

SetNewCode(c) == /\ answer[c] # NoAnswer
                 /\ code' = Set(code, GetNewCode(answer[c]))
                 /\ answer' = [answer EXCEPT ![c] = NoAnswer]

\* Set cannot lock or write, or the process dies.
CallFails(c) == /\ answer[c] # NoAnswer
                /\ answer' = [answer EXCEPT ![c] = NoAnswer]
                /\ UNCHANGED code

NextDeal == \/ \E raw \in Code : SetCode(raw)
            \/ Clear
            \/ \E c \in Caller :
                 GetNewCodeFromPingResponse(c) \/ SetNewCode(c) \/ CallFails(c)

DealSpec == InitDeal /\ [][NextDeal]_dealVars

----------------------------------------------------------------------------

\* "The ping must also contain the current DCC value in order to be considered
\* valid" (rlz_lib.h:285): an answer replaces a code only if it contains that
\* code, whatever other calls do in the meantime.
DirectCallConfirms ==
  [][\A c \in Caller :
       SetNewCode(c) /\ code \notin {NoDcc, code'} =>
         \E i \in Message(answer[c]) :
           /\ answer[c].lines[i].kind = "dcc"
           /\ answer[c].lines[i].value = code]_dealVars
=============================================================================
