------------------------- MODULE PingResponseProofs -------------------------
(***************************************************************************)
(* An answer of any length, with any lines, applied to any store.  The     *)
(* last two theorems are about answers with nothing after their checksum:  *)
(* they do not hold for the others (MCPingResponse_tail.cfg).              *)
(***************************************************************************)
EXTENDS PingResponse, WellFoundedInduction, TLAPS

\* What a server sends: the checksum is the last line.
NothingAfterChecksum ==
  \A r \in Response : IsPingResponseValid(r) => ChecksumLine(r) = Len(r.lines)

----------------------------------------------------------------------------
(* The operators *)

LEMMA LeastOf ==
  ASSUME NEW S \in SUBSET Nat, S # {}
  PROVE  Least(S) \in S /\ \A j \in S : Least(S) <= j
<1>1. PICK i \in S : \A j \in S : <<j, i>> \notin OpToRel(<, Nat)
  BY NatLessThanWellFounded, WFMin
<1>2. \A j \in S : ~(j < i)
  BY <1>1 DEF OpToRel
<1>3. \A j \in S : i <= j
  BY <1>2
<1> QED
  BY <1>3 DEF Least

\* Among the numbers up to n there is a greatest one with any property.
LEMMA GreatestOf ==
  ASSUME NEW n \in Nat, NEW S \in SUBSET (1..n), S # {}
  PROVE  \E i \in S : \A j \in S : j <= i
<1> DEFINE T == {n - i : i \in S}
<1>1. T \in SUBSET Nat /\ T # {}
  <2>1. \A i \in S : n - i \in Nat
    OBVIOUS
  <2> QED
    BY <2>1
<1>2. PICK i \in S : Least(T) = n - i
  BY <1>1, LeastOf
<1>3. \A j \in S : n - i <= n - j
  BY <1>1, <1>2, LeastOf
<1>4. \A j \in S : j <= i
  BY <1>3
<1> QED
  BY <1>4

LEMMA Lines ==
  ASSUME NEW r \in Response
  PROVE  /\ Len(r.lines) \in Nat /\ DOMAIN r.lines = 1..Len(r.lines)
         /\ \A i \in DOMAIN r.lines : LineOK(r.lines[i])
BY ResponseAssumption

LEMMA ValidChecksum ==
  ASSUME NEW r \in Response, IsPingResponseValid(r)
  PROVE  /\ ChecksumLine(r) \in DOMAIN r.lines
         /\ r.lines[ChecksumLine(r)].kind = "crc32" /\ r.lines[ChecksumLine(r)].good
<1> DEFINE crc == {i \in DOMAIN r.lines : r.lines[i].kind = "crc32"}
<1>1. ChecksumLine(r) \in crc
  <2>1. crc \ {1} \in SUBSET Nat
    BY Lines
  <2>2. CASE crc \ {1} # {}
    BY <2>1, <2>2, LeastOf DEF ChecksumLine
  <2>3. CASE crc \ {1} = {}
    <3>1. crc # {}
      BY <2>3 DEF IsPingResponseValid, ChecksumLine
    <3> QED
      BY <2>3, <3>1 DEF ChecksumLine
  <2> QED
    BY <2>2, <2>3
<1> QED
  BY <1>1 DEF IsPingResponseValid

LEMMA NormalizedRlz ==
  ASSUME NEW raw \in Seq(Char)
  PROVE  NormalizeRlz(raw) \in StoredRlz
<1>1. Lesser(Len(raw), MaxRlzLength) \in 0..MaxRlzLength
  BY RlzAssumption DEF Lesser
<1>2. NormalizeRlz(raw) \in [1..Lesser(Len(raw), MaxRlzLength) -> GoodChar]
  BY RlzAssumption DEF NormalizeRlz
<1> QED
  BY <1>1, <1>2 DEF StoredRlz

LEMMA NormalizedDcc ==
  ASSUME NEW raw \in Seq(Char)
  PROVE  NormalizeDcc(raw) \in StoredDcc
<1>1. Lesser(Len(raw), MaxDccLength) \in 0..MaxDccLength
  BY DccAssumption DEF Lesser
<1>2. NormalizeDcc(raw) \in [1..Lesser(Len(raw), MaxDccLength) -> GoodDccChar]
  BY DccAssumption DEF NormalizeDcc
<1> QED
  BY <1>1, <1>2 DEF StoredDcc

LEMMA GivesValues == Gives("dcc") = GetResponseValue(response, "dcc") /\
                     Gives("set_dcc") = GetResponseValue(response, "set_dcc")
  BY DEF Gives, GetResponseValue

\* A new code comes from the first line that gives one that is not too long,
\* and the first code that the message repeats is the one that was read.
LEMMA NewCode ==
  ASSUME response \in Response, IsPingResponseValid(response), NEW stored, NEW read,
         NEW code, code = SetFromPingResponse(response, stored, read), code # stored
  PROVE  /\ \E i \in Gives("set_dcc") :
              /\ Len(response.lines[i].value) <= MaxDccLength
              /\ code = NormalizeDcc(response.lines[i].value)
              /\ \A j \in Gives("set_dcc") :
                   j < i => ~(Len(response.lines[j].value) <= MaxDccLength)
         /\ \A i \in Gives("dcc") : \/ response.lines[i].value = read
                                    \/ \E j \in Gives("dcc") : j < i
         /\ read = NoDcc \/ Gives("dcc") # {}
         /\ code \in StoredDcc
<1> DEFINE new == NewCodes(response)
           repeated == GetResponseValue(response, "dcc")
<1>1. Message(response) \subseteq DOMAIN response.lines /\ Message(response) \subseteq Nat
  BY Lines, ValidChecksum DEF Message
<1>2. /\ Confirms(response, read) /\ new # {}
      /\ code = NormalizeDcc(response.lines[Least(new)].value)
  BY DEF SetFromPingResponse, Set, GetNewCode
<1>3. new \in SUBSET Nat /\ repeated \in SUBSET Nat
  BY <1>1 DEF NewCodes, GetResponseValue
<1>4. Least(new) \in new /\ \A j \in new : Least(new) <= j
  BY <1>2, <1>3, LeastOf
<1>5. /\ Least(new) \in Gives("set_dcc")
      /\ Len(response.lines[Least(new)].value) <= MaxDccLength
      /\ \A j \in Gives("set_dcc") :
           j < Least(new) => ~(Len(response.lines[j].value) <= MaxDccLength)
  <2>1. Least(new) \in Gives("set_dcc") /\ Len(response.lines[Least(new)].value) <= MaxDccLength
    BY <1>4, GivesValues DEF NewCodes
  <2>2. ASSUME NEW j \in Gives("set_dcc"), j < Least(new),
               Len(response.lines[j].value) <= MaxDccLength
        PROVE  FALSE
    <3>1. j \in new
      BY <2>2, GivesValues DEF NewCodes
    <3> QED
      BY <1>3, <1>4, <2>2, <3>1
  <2> QED
    BY <2>1, <2>2
<1>6. /\ \A i \in Gives("dcc") : \/ response.lines[i].value = read
                                 \/ \E j \in Gives("dcc") : j < i
      /\ read = NoDcc \/ Gives("dcc") # {}
  <2>1. CASE repeated = {}
    BY <1>2, <2>1, GivesValues DEF Confirms
  <2>2. CASE repeated # {}
    <3>1. Least(repeated) \in repeated /\ \A j \in repeated : Least(repeated) <= j
      BY <1>3, <2>2, LeastOf
    <3>2. response.lines[Least(repeated)].value = read
      BY <1>2, <2>2 DEF Confirms
    <3>3. ASSUME NEW i \in repeated, response.lines[i].value # read PROVE Least(repeated) < i
      BY <1>3, <3>1, <3>2, <3>3
    <3> QED
      BY <2>2, <3>1, <3>3, GivesValues
  <2> QED
    BY <2>1, <2>2
<1>7. response.lines[Least(new)].value \in Seq(Char)
  BY <1>1, <1>4, Lines DEF NewCodes, GetResponseValue, LineOK
<1>8. code \in StoredDcc
  BY <1>2, <1>7, NormalizedDcc
<1> QED
  BY <1>2, <1>5, <1>6, <1>8

----------------------------------------------------------------------------
(* Types, and what every answer keeps *)

BeforeOK == before \in [rlz : [Supported -> StoredRlz], events : SUBSET Event,
                       stateful : SUBSET Event, dcc : StoredDcc]

\* An answer is on its way, or has been applied, only if it is valid.
ValidSteps ==
  /\ pc # "returned" => ~result
  /\ pc \in {"lines", "crashed"} => IsPingResponseValid(response)
  /\ pc = "returned" /\ result => IsPingResponseValid(response)
  /\ pc = "called" \/ (pc = "returned" /\ ~result) => store = before
  /\ pc # "returned" => dcc = before.dcc

IInv == TypeOK /\ BeforeOK /\ ValidSteps /\ DccConfirmed

LEMMA InitIInv == Init => IInv
<1> SUFFICES ASSUME Init PROVE IInv
  OBVIOUS
<1>1. TypeOK /\ BeforeOK
  <2>1. next \in 1..(Len(response.lines) + 1)
    BY Lines DEF Init
  <2>2. result \in BOOLEAN
    BY DEF Init
  <2> QED
    BY <2>1, <2>2 DEF Init, TypeOK, BeforeOK, store
<1>2. ValidSteps
  BY DEF Init, ValidSteps, store
<1>3. DccConfirmed
  BY DEF Init, DccConfirmed, store
<1> QED
  BY <1>1, <1>2, <1>3 DEF IInv

\* A step in the loop, without the deal code.
LoopStep == RlzLine \/ IgnoreRlzLine \/ EventsLine \/ StatefulLine \/ SkipLine

LEMMA LoopFrame ==
  LoopStep => /\ pc = "lines" /\ next \in DOMAIN response.lines /\ next' = next + 1
              /\ UNCHANGED <<call, deal, pc, result>>
BY DEF LoopStep, RlzLine, IgnoreRlzLine, EventsLine, StatefulLine, SkipLine, AtLine, NextLine

LEMMA LoopIInv == ASSUME IInv, LoopStep PROVE IInv'
<1>1. /\ pc = "lines" /\ next \in DOMAIN response.lines /\ next' = next + 1
      /\ UNCHANGED <<call, deal, pc, result>>
  BY LoopFrame
<1>2. UNCHANGED <<build, response, before, dcc, got>>
  BY <1>1 DEF call, deal
<1>3. response \in Response
  BY DEF IInv, TypeOK
<1>4. next' \in 1..(Len(response.lines) + 1)
  BY <1>1, <1>3, Lines
<1>5. rlz' \in [Supported -> StoredRlz]
  <2>1. CASE RlzLine
    <3>1. Line.rlz \in Seq(Char)
      BY <1>1, <1>3, <2>1, Lines DEF RlzLine, AtLine, Line, LineOK
    <3> QED
      BY <2>1, <3>1, NormalizedRlz DEF RlzLine, SetAccessPointRlz, IInv, TypeOK
  <2>2. CASE rlz' = rlz
    BY <2>2 DEF IInv, TypeOK
  <2> QED
    BY <2>1, <2>2 DEF LoopStep, IgnoreRlzLine, EventsLine, StatefulLine, SkipLine
<1>6. events' \subseteq Event /\ stateful' \subseteq Event
  BY DEF IInv, TypeOK, LoopStep, RlzLine, IgnoreRlzLine, EventsLine, StatefulLine, SkipLine,
         RecordStatefulEvent, ReturnedEvents
<1>7. TypeOK'
  BY <1>1, <1>2, <1>4, <1>5, <1>6 DEF IInv, TypeOK
<1>8. BeforeOK'
  BY <1>2 DEF IInv, BeforeOK
<1>9. ValidSteps'
  BY <1>1, <1>2 DEF IInv, ValidSteps
<1>10. DccConfirmed'
  BY <1>1, <1>2 DEF IInv, ValidSteps, DccConfirmed
<1> QED
  BY <1>7, <1>8, <1>9, <1>10 DEF IInv

LEMMA ReturnIInv ==
  ASSUME IInv, CannotOpen \/ Reject \/ AcceptEmpty \/ Accept
  PROVE  IInv'
<1>1. /\ pc = "called" /\ UNCHANGED <<build, response, before, rlz, events, stateful, dcc, got, next>>
      /\ \/ pc' = "returned" /\ result' = FALSE
         \/ pc' = "returned" /\ result' = TRUE /\ IsPingResponseValid(response)
         \/ pc' = "lines" /\ result' = result /\ IsPingResponseValid(response)
  BY DEF CannotOpen, Reject, AcceptEmpty, Accept, Return, call, deal
<1>2. TypeOK' /\ BeforeOK'
  BY <1>1 DEF IInv, TypeOK, BeforeOK
<1>3. store = before /\ dcc = before.dcc
  BY <1>1 DEF IInv, ValidSteps
<1>4. ValidSteps'
  BY <1>1, <1>3 DEF IInv, ValidSteps, store
<1>5. DccConfirmed'
  BY <1>1, <1>3 DEF DccConfirmed
<1> QED
  BY <1>2, <1>4, <1>5 DEF IInv

LEMMA FinishIInv == ASSUME IInv, Finish PROVE IInv'
<1>1. /\ pc = "lines" /\ pc' = "returned" /\ result' = TRUE
      /\ UNCHANGED <<build, response, before, rlz, events, stateful, next>>
      /\ got' \in BOOLEAN
      /\ dcc' # dcc =>
           build = "win" /\ dcc' = SetFromPingResponse(response, dcc, IF got' THEN dcc ELSE NoDcc)
  BY DEF Finish, Return, call, deal, IInv, TypeOK
<1>2. dcc = before.dcc /\ IsPingResponseValid(response) /\ response \in Response
  BY <1>1 DEF IInv, ValidSteps, TypeOK
<1>3. dcc' \in StoredDcc
  BY <1>1, <1>2, NewCode DEF IInv, TypeOK
<1>4. TypeOK' /\ BeforeOK'
  BY <1>1, <1>3 DEF IInv, TypeOK, BeforeOK
<1>5. ValidSteps'
  BY <1>1, <1>2 DEF ValidSteps
<1>6. DccConfirmed'
  <2>1. CASE dcc' = dcc
    BY <1>1, <1>2, <2>1 DEF DccConfirmed
  <2>2. CASE dcc' # dcc
    <3> DEFINE read == IF got' THEN dcc ELSE NoDcc
    <3>1. /\ \E i \in Gives("set_dcc") :
               /\ Len(response.lines[i].value) <= MaxDccLength
               /\ dcc' = NormalizeDcc(response.lines[i].value)
               /\ \A j \in Gives("set_dcc") :
                    j < i => ~(Len(response.lines[j].value) <= MaxDccLength)
          /\ \A i \in Gives("dcc") : \/ response.lines[i].value = read
                                     \/ \E j \in Gives("dcc") : j < i
          /\ read = NoDcc \/ Gives("dcc") # {}
      BY <1>1, <1>2, <2>2, NewCode
    <3>2. /\ \A key : Gives(key)' = Gives(key)
          /\ read = (IF got THEN before.dcc ELSE NoDcc)' /\ build' = "win"
      BY <1>1, <1>2, <2>2 DEF Gives, Message
    <3> QED
      BY <1>1, <3>1, <3>2 DEF DccConfirmed
  <2> QED
    BY <2>1, <2>2
<1> QED
  BY <1>4, <1>5, <1>6 DEF IInv

LEMMA CrashIInv == ASSUME IInv, Crash \/ CrashInLine PROVE IInv'
<1>1. /\ pc = "lines" /\ pc' = "crashed"
      /\ UNCHANGED <<build, response, before, dcc, got, next, result>>
  BY DEF Crash, CrashInLine, AtLine, call, deal
<1>2. /\ rlz' \in {rlz, before.rlz}
      /\ events' \subseteq Event /\ stateful' \subseteq Event
  BY DEF Crash, CrashInLine, IInv, TypeOK, BeforeOK, RecordStatefulEvent, ReturnedEvents
<1>3. TypeOK' /\ BeforeOK'
  BY <1>1, <1>2 DEF IInv, TypeOK, BeforeOK
<1>4. ValidSteps'
  BY <1>1 DEF IInv, ValidSteps
<1>5. DccConfirmed'
  BY <1>1 DEF IInv, ValidSteps, DccConfirmed
<1> QED
  BY <1>3, <1>4, <1>5 DEF IInv

LEMMA NextIInv == IInv /\ [Next]_vars => IInv'
<1> SUFFICES ASSUME IInv, [Next]_vars PROVE IInv'
  OBVIOUS
<1>1. CASE LoopStep
  BY <1>1, LoopIInv
<1>2. CASE CannotOpen \/ Reject \/ AcceptEmpty \/ Accept
  BY <1>2, ReturnIInv
<1>3. CASE Finish
  BY <1>3, FinishIInv
<1>4. CASE Crash \/ CrashInLine
  BY <1>4, CrashIInv
<1>5. CASE UNCHANGED vars
  <2>1. UNCHANGED <<build, response, before, rlz, events, stateful, dcc, got, pc, next, result>>
    BY <1>5 DEF vars, call, deal
  <2>2. \A key : Gives(key)' = Gives(key)
    BY <2>1 DEF Gives, Message
  <2>3. DccConfirmed'
    BY <2>1, <2>2 DEF IInv, DccConfirmed
  <2> QED
    BY <2>1, <2>3 DEF IInv, TypeOK, BeforeOK, ValidSteps, store
<1> QED
  BY <1>1, <1>2, <1>3, <1>4, <1>5 DEF Next, LoopStep

THEOREM ResponseInvariant == Spec => []IInv
  BY InitIInv, NextIInv, PTL DEF Spec

\* What ParsePingResponse stores is normalised and not too long, whatever the
\* answer has.
THEOREM ResponseTypeOK == Spec => []TypeOK
<1>1. IInv => TypeOK
  BY DEF IInv
<1> QED
  BY <1>1, ResponseInvariant, PTL

\* A call that returns FALSE has changed nothing, and neither has any call with an
\* answer that no checksum in it confirms (IsPingResponseValid).
THEOREM ResponseRejectedUnchanged == Spec => []RejectedUnchanged
<1>1. IInv => RejectedUnchanged
  <2> SUFFICES ASSUME IInv, pc = "returned", result,
                      \A i \in DOMAIN response.lines :
                        response.lines[i].kind = "crc32" => ~response.lines[i].good
               PROVE  FALSE
    BY DEF RejectedUnchanged, IInv, ValidSteps
  <2>1. response \in Response /\ IsPingResponseValid(response)
    BY DEF IInv, TypeOK, ValidSteps
  <2> QED
    BY <2>1, ValidChecksum
<1> QED
  BY <1>1, ResponseInvariant, PTL

\* The deal code becomes only the first new code of a valid answer, and only if
\* the first code which that answer repeats is the one that was stored, wherever
\* its lines stand (SetFromPingResponse), or the stored one could not be read.
THEOREM ResponseDccConfirmed == Spec => []DccConfirmed
<1>1. IInv => DccConfirmed
  BY DEF IInv
<1> QED
  BY <1>1, ResponseInvariant, PTL

----------------------------------------------------------------------------
(* The whole message and nothing but the message *)

\* What has changed is what some line of the message says.
Progress ==
  /\ events \subseteq before.events /\ before.events \ events \subseteq Listed("events")
  /\ before.stateful \subseteq stateful
  /\ stateful \ before.stateful \subseteq Listed("stateful") \cap Event
  /\ \A point \in Supported : RlzLines(point) = {} => rlz[point] = before.rlz[point]

\* What the lines before the next one say has been done.
Done ==
  /\ \A i \in Message(response) : i < next =>
       /\ response.lines[i].kind = "events" => events \cap response.lines[i].events = {}
       /\ response.lines[i].kind = "stateful" =>
            response.lines[i].events \cap Event \subseteq stateful
  /\ \A point \in Supported : \A i \in RlzLines(point) :
       i < next /\ (\A j \in RlzLines(point) : j < next => j <= i)
         => rlz[point] = NormalizeRlz(response.lines[i].rlz)

AInv == /\ pc = "called" => next = 1
        /\ pc \in {"lines", "crashed"} => Progress
        /\ pc = "lines" => Done
        /\ pc = "crashed" /\ build = "mac" => store = before
        /\ AppliedAtOnce

LEMMA MessageLines ==
  ASSUME IInv
  PROVE  /\ Message(response) \subseteq Nat \ {0}
         /\ IsPingResponseValid(response) => Message(response) \subseteq 1..Len(response.lines)
         /\ \A point : RlzLines(point) \subseteq Message(response)
<1>1. response \in Response
  BY DEF IInv, TypeOK
<1>2. IsPingResponseValid(response) => ChecksumLine(response) \in 1..Len(response.lines)
  BY <1>1, Lines, ValidChecksum
<1> QED
  BY <1>1, <1>2, Lines DEF Message, RlzLines

\* The call comes to the lines of the message and to the checksum, no further.
LEMMA NextInMessage ==
  ASSUME NothingAfterChecksum, IInv, pc = "lines", next \in DOMAIN response.lines
  PROVE  /\ Line.kind # "crc32" => next \in Message(response)
         /\ next \in Message(response) => (HasText(next) <=> Line.kind # "empty")
         /\ next \in Nat
<1>1. response \in Response /\ IsPingResponseValid(response)
  BY DEF IInv, TypeOK, ValidSteps
<1>2. /\ ChecksumLine(response) = Len(response.lines) /\ Len(response.lines) \in Nat
      /\ next \in 1..Len(response.lines)
  BY <1>1, Lines DEF NothingAfterChecksum
<1>3. response.lines[ChecksumLine(response)].kind = "crc32"
  BY <1>1, ValidChecksum
<1>4. next \in Message(response) <=> next # ChecksumLine(response)
  BY <1>2 DEF Message
<1> QED
  BY <1>2, <1>3, <1>4 DEF HasText, Line

\* Only an RLZ line gives an RLZ, and so on.
LEMMA OtherLines ==
  ASSUME NothingAfterChecksum, IInv, LoopStep
  PROVE  /\ ~RlzLine => /\ rlz' = rlz
                        /\ \A point \in Supported : next \notin RlzLines(point)
         /\ ~EventsLine => /\ events' = events
                           /\ next \in Message(response) => Line.kind # "events"
         /\ ~StatefulLine => /\ stateful' = stateful
                             /\ next \in Message(response) => Line.kind # "stateful"
<1>1. pc = "lines" /\ next \in DOMAIN response.lines
  BY LoopFrame
<1>2. next \in Message(response) => (HasText(next) <=> Line.kind # "empty")
  BY <1>1, NextInMessage
<1>3. CASE RlzLine
  BY <1>3 DEF RlzLine, AtLine, EventsLine, StatefulLine
<1>4. CASE IgnoreRlzLine
  <2>1. Len(Line.rlz) \in Nat /\ MaxRlzLength \in Nat
    BY <1>1, <1>4, Lines, RlzAssumption DEF IgnoreRlzLine, AtLine, IInv, TypeOK, Line, LineOK
  <2> QED
    BY <1>4, <2>1 DEF IgnoreRlzLine, AtLine, RlzLines, Line
<1>5. CASE EventsLine
  BY <1>5 DEF EventsLine, AtLine, RlzLines, Line
<1>6. CASE StatefulLine
  BY <1>6 DEF StatefulLine, AtLine, RlzLines, Line
<1>7. CASE SkipLine
  BY <1>2, <1>7 DEF SkipLine, RlzLines, Line
<1> QED
  BY <1>3, <1>4, <1>5, <1>6, <1>7 DEF LoopStep

\* Lines of the message after a step are those before it.
LEMMA SameMessage ==
  ASSUME response' = response
  PROVE  /\ Message(response)' = Message(response)
         /\ \A kind : Listed(kind)' = Listed(kind)
         /\ \A point : RlzLines(point)' = RlzLines(point)
BY DEF Message, Listed, RlzLines

LEMMA LoopProgress ==
  ASSUME NothingAfterChecksum, IInv, Progress, Done, LoopStep
  PROVE  Progress' /\ Done'
<1>1. /\ pc = "lines" /\ next \in DOMAIN response.lines /\ next' = next + 1
      /\ response' = response /\ before' = before
  BY LoopFrame DEF call
<1>2. /\ Line.kind # "crc32" => next \in Message(response)
      /\ next \in Nat /\ Message(response) \subseteq Nat
      /\ \A point : RlzLines(point) \subseteq Message(response)
  BY <1>1, NextInMessage, MessageLines
<1>3. events \subseteq Event
  BY DEF IInv, TypeOK
<1>4. /\ Message(response)' = Message(response)
      /\ Listed("events")' = Listed("events") /\ Listed("stateful")' = Listed("stateful")
      /\ \A point : RlzLines(point)' = RlzLines(point)
  BY <1>1, SameMessage
<1>5. /\ events' \subseteq events /\ events \ events' \subseteq Listed("events")
      /\ \A i \in Message(response) : i < next' /\ response.lines[i].kind = "events"
           => events' \cap response.lines[i].events = {}
  <2>1. CASE EventsLine
    <3>1. /\ next \in Message(response) /\ Line.kind = "events"
          /\ events' = events \ (Line.events \cap Event)
      BY <1>2, <2>1 DEF EventsLine, AtLine, ReturnedEvents
    <3>2. Line.events \subseteq Listed("events")
      BY <3>1 DEF Listed, Line
    <3>3. \A i \in Message(response) : i < next' => i < next \/ i = next
      BY <1>1, <1>2
    <3> QED
      BY <1>3, <3>1, <3>2, <3>3 DEF Done, Line
  <2>2. CASE ~EventsLine
    <3>1. events' = events /\ (next \in Message(response) => Line.kind # "events")
      BY <2>2, OtherLines
    <3>2. \A i \in Message(response) : i < next' => i < next \/ i = next
      BY <1>1, <1>2
    <3> QED
      BY <3>1, <3>2 DEF Done, Line
  <2> QED
    BY <2>1, <2>2
<1>6. /\ stateful \subseteq stateful' /\ stateful' \ stateful \subseteq Listed("stateful") \cap Event
      /\ \A i \in Message(response) : i < next' /\ response.lines[i].kind = "stateful"
           => response.lines[i].events \cap Event \subseteq stateful'
  <2>1. CASE StatefulLine
    <3>1. /\ next \in Message(response) /\ Line.kind = "stateful"
          /\ stateful' = stateful \cup (Line.events \cap Event)
      BY <1>2, <2>1 DEF StatefulLine, AtLine, ReturnedEvents, RecordStatefulEvent
    <3>2. Line.events \subseteq Listed("stateful")
      BY <3>1 DEF Listed, Line
    <3>3. \A i \in Message(response) : i < next' => i < next \/ i = next
      BY <1>1, <1>2
    <3> QED
      BY <3>1, <3>2, <3>3 DEF Done, Line
  <2>2. CASE ~StatefulLine
    <3>1. stateful' = stateful /\ (next \in Message(response) => Line.kind # "stateful")
      BY <2>2, OtherLines
    <3>2. \A i \in Message(response) : i < next' => i < next \/ i = next
      BY <1>1, <1>2
    <3> QED
      BY <3>1, <3>2 DEF Done, Line
  <2> QED
    BY <2>1, <2>2
<1>7. \A point \in Supported :
        /\ RlzLines(point) = {} => rlz'[point] = rlz[point]
        /\ \A i \in RlzLines(point) :
             i < next' /\ (\A j \in RlzLines(point) : j < next' => j <= i)
               => rlz'[point] = NormalizeRlz(response.lines[i].rlz)
  <2> SUFFICES ASSUME NEW point \in Supported
               PROVE  /\ RlzLines(point) = {} => rlz'[point] = rlz[point]
                      /\ \A i \in RlzLines(point) :
                           i < next' /\ (\A j \in RlzLines(point) : j < next' => j <= i)
                             => rlz'[point] = NormalizeRlz(response.lines[i].rlz)
    OBVIOUS
  <2>1. \A i \in RlzLines(point) : i < next' <=> i < next \/ i = next
    BY <1>1, <1>2
  <2>2. CASE RlzLine /\ Line.point = point
    <3>1. next \in RlzLines(point) /\ rlz'[point] = NormalizeRlz(Line.rlz)
      BY <1>2, <2>2 DEF RlzLine, AtLine, SetAccessPointRlz, RlzLines, Line, IInv, TypeOK
    <3>2. \A i \in RlzLines(point) :
            i < next' /\ (\A j \in RlzLines(point) : j < next' => j <= i) => i = next
      BY <1>1, <1>2, <3>1
    <3> QED
      BY <3>1, <3>2 DEF Line
  <2>3. CASE ~(RlzLine /\ Line.point = point)
    <3>1. next \notin RlzLines(point) /\ rlz'[point] = rlz[point]
      <4>1. CASE RlzLine
        BY <2>3, <4>1 DEF RlzLine, SetAccessPointRlz, RlzLines, Line, IInv, TypeOK
      <4>2. CASE ~RlzLine
        BY <4>2, OtherLines
      <4> QED
        BY <4>1, <4>2
    <3> QED
      BY <2>1, <3>1 DEF Done
  <2> QED
    BY <2>2, <2>3
<1>8. Progress'
  BY <1>1, <1>4, <1>5, <1>6, <1>7 DEF Progress
<1>9. Done'
  BY <1>1, <1>4, <1>5, <1>6, <1>7 DEF Done
<1> QED
  BY <1>8, <1>9

----------------------------------------------------------------------------

LEMMA ProgressApplied == ASSUME Progress PROVE Applied(store) = Applied(before)
<1>1. events \ Listed("events") = before.events \ Listed("events")
  BY DEF Progress
<1>2. stateful \cup (Listed("stateful") \cap Event)
        = before.stateful \cup (Listed("stateful") \cap Event)
  BY DEF Progress
<1>3. \A point \in Supported : LastRlz(rlz, point) = LastRlz(before.rlz, point)
  BY DEF Progress, LastRlz
<1> QED
  BY <1>1, <1>2, <1>3 DEF Applied, store

LEMMA DoneApplied ==
  ASSUME IInv, Progress, Done, next > Len(response.lines), IsPingResponseValid(response)
  PROVE  [events |-> events, stateful |-> stateful, rlz |-> rlz] = Applied(before)
<1>1. /\ response \in Response /\ Message(response) \subseteq 1..Len(response.lines)
      /\ Len(response.lines) \in Nat /\ next \in Nat
      /\ \A i \in DOMAIN response.lines : LineOK(response.lines[i])
      /\ DOMAIN response.lines = 1..Len(response.lines)
  BY Lines, MessageLines DEF IInv, TypeOK
<1>2. \A i \in Message(response) : i < next
  BY <1>1
<1>3. events = before.events \ Listed("events")
  <2>1. \A e \in events : e \notin Listed("events")
    BY <1>2 DEF Done, Listed
  <2> QED
    BY <2>1 DEF Progress
<1>4. stateful = before.stateful \cup (Listed("stateful") \cap Event)
  <2>1. Listed("stateful") \cap Event \subseteq stateful
    BY <1>2 DEF Done, Listed
  <2> QED
    BY <2>1 DEF Progress
<1>5. ASSUME NEW point \in Supported PROVE rlz[point] = LastRlz(before.rlz, point)
  <2>1. CASE RlzLines(point) = {}
    BY <2>1 DEF Progress, LastRlz
  <2>2. CASE RlzLines(point) # {}
    <3> DEFINE last == CHOOSE i \in RlzLines(point) : \A j \in RlzLines(point) : j <= i
               raw == response.lines[last].rlz
    <3>1. RlzLines(point) \subseteq 1..Len(response.lines)
      BY <1>1 DEF RlzLines
    <3>2. last \in RlzLines(point) /\ \A j \in RlzLines(point) : j <= last
      BY <1>1, <2>2, <3>1, GreatestOf
    <3>3. rlz[point] = NormalizeRlz(raw)
      BY <1>1, <1>2, <3>1, <3>2 DEF Done, RlzLines
    <3>4. raw \in Seq(Char) /\ Len(raw) <= MaxRlzLength
      BY <1>1, <3>1, <3>2 DEF RlzLines, LineOK
    <3>5. Lesser(Len(raw), MaxRlzLength) = Len(raw)
      BY <3>4, RlzAssumption DEF Lesser
    <3>6. NormalizeRlz(raw) = [i \in DOMAIN raw |-> IF raw[i] \in GoodChar THEN raw[i] ELSE Dot]
      BY <3>4, <3>5 DEF NormalizeRlz
    <3> QED
      BY <2>2, <3>3, <3>6 DEF LastRlz
  <2> QED
    BY <2>1, <2>2
<1>6. rlz = [point \in Supported |-> LastRlz(before.rlz, point)]
  BY <1>5 DEF IInv, TypeOK
<1> QED
  BY <1>3, <1>4, <1>6 DEF Applied

\* An empty message says nothing.
LEMMA EmptyApplied ==
  ASSUME IInv, store = before, EmptyMessage(response)
  PROVE  [events |-> events, stateful |-> stateful, rlz |-> rlz] = Applied(before)
<1>1. Listed("events") = {} /\ Listed("stateful") = {}
  BY DEF EmptyMessage, Listed
<1>2. \A point : RlzLines(point) = {}
  BY DEF EmptyMessage, RlzLines
<1>3. rlz = [point \in Supported |-> LastRlz(before.rlz, point)]
  BY <1>2 DEF LastRlz, store, IInv, TypeOK
<1> QED
  BY <1>1, <1>3 DEF Applied, store

LEMMA NextAInv ==
  ASSUME NothingAfterChecksum, IInv, AInv, [Next]_vars
  PROVE  AInv'
<1>1. CASE LoopStep
  <2>1. pc = "lines" /\ UNCHANGED <<build, response, before, pc, result>>
    BY <1>1, LoopFrame DEF call
  <2>2. Progress' /\ Done'
    BY <1>1, <2>1, LoopProgress DEF AInv
  <2> QED
    BY <2>1, <2>2 DEF AInv, AppliedAtOnce
<1>2. CASE CannotOpen \/ Reject
  BY <1>2 DEF CannotOpen, Reject, Return, AInv, AppliedAtOnce
<1>3. CASE AcceptEmpty
  <2>1. /\ pc' = "returned" /\ UNCHANGED <<build, response, before, rlz, events, stateful>>
        /\ store = before /\ EmptyMessage(response)
    BY <1>3 DEF AcceptEmpty, Return, call, IInv, ValidSteps
  <2>2. [events |-> events, stateful |-> stateful, rlz |-> rlz] = Applied(before)
    BY <2>1, EmptyApplied
  <2>3. Applied(before)' = Applied(before)
    BY <2>1 DEF Applied, Listed, LastRlz, RlzLines, Message
  <2> QED
    BY <2>1, <2>2, <2>3 DEF AInv, AppliedAtOnce
<1>4. CASE Accept
  <2>1. /\ pc = "called" /\ pc' = "lines"
        /\ UNCHANGED <<build, response, before, rlz, events, stateful, dcc, next, result>>
    BY <1>4 DEF Accept, call, deal
  <2>2. store = before /\ next = 1
    BY <2>1 DEF IInv, ValidSteps, AInv
  <2>3. Progress'
    BY <2>1, <2>2, SameMessage DEF Progress, store
  <2>4. Done'
    <3>1. \A i \in Message(response) : ~(i < next)
      BY <2>2, MessageLines
    <3>2. \A point : RlzLines(point) \subseteq Message(response)
      BY DEF RlzLines
    <3>3. /\ Message(response)' = Message(response)
          /\ \A point : RlzLines(point)' = RlzLines(point)
      BY <2>1, SameMessage
    <3> QED
      BY <2>1, <3>1, <3>2, <3>3 DEF Done
  <2> QED
    BY <2>1, <2>3, <2>4 DEF AInv, AppliedAtOnce
<1>5. CASE Finish
  <2>1. /\ pc = "lines" /\ next > Len(response.lines) /\ pc' = "returned"
        /\ UNCHANGED <<build, response, before, rlz, events, stateful>>
    BY <1>5 DEF Finish, Return, call
  <2>2. [events |-> events, stateful |-> stateful, rlz |-> rlz] = Applied(before)
    BY <2>1, DoneApplied DEF AInv, IInv, ValidSteps
  <2>3. Applied(before)' = Applied(before)
    BY <2>1 DEF Applied, Listed, LastRlz, RlzLines, Message
  <2> QED
    BY <2>1, <2>2, <2>3 DEF AInv, AppliedAtOnce
<1>6. CASE Crash
  <2>1. /\ pc = "lines" /\ pc' = "crashed" /\ UNCHANGED <<build, response, before, dcc>>
        /\ dcc = before.dcc /\ Progress
    BY <1>6 DEF Crash, call, deal, IInv, ValidSteps, AInv
  <2>2. CASE build = "win"
    <3>1. UNCHANGED <<rlz, events, stateful>>
      BY <1>6, <2>2 DEF Crash
    <3>2. Progress'
      BY <2>1, <3>1, SameMessage DEF Progress
    <3> QED
      BY <2>1, <2>2, <3>2 DEF AInv, AppliedAtOnce
  <2>3. CASE build = "mac"
    <3>1. rlz' = before.rlz /\ events' = before.events /\ stateful' = before.stateful
      BY <1>6, <2>3 DEF Crash
    <3>2. Progress'
      BY <2>1, <3>1 DEF Progress
    <3>3. store' = before
      BY <2>1, <3>1 DEF store, IInv, BeforeOK
    <3> QED
      BY <2>1, <3>2, <3>3 DEF AInv, AppliedAtOnce
  <2> QED
    BY <2>2, <2>3 DEF IInv, TypeOK
<1>7. CASE CrashInLine
  <2>1. /\ pc = "lines" /\ next \in DOMAIN response.lines /\ pc' = "crashed" /\ build = "win"
        /\ UNCHANGED <<build, response, before, rlz>> /\ Progress
        /\ Line.kind \in {"events", "stateful"}
    BY <1>7 DEF CrashInLine, AtLine, call, AInv
  <2>2. next \in Message(response)
    BY <2>1, NextInMessage
  <2>3. /\ Line.kind = "events" => Line.events \subseteq Listed("events")
        /\ Line.kind = "stateful" => Line.events \subseteq Listed("stateful")
    BY <2>2 DEF Listed, Line
  <2>4. /\ events' \subseteq events /\ events \ events' \subseteq Listed("events")
        /\ stateful \subseteq stateful'
        /\ stateful' \ stateful \subseteq Listed("stateful") \cap Event
    BY <1>7, <2>3 DEF CrashInLine, AtLine, ReturnedEvents, RecordStatefulEvent
  <2>5. Progress'
    BY <2>1, <2>4, SameMessage DEF Progress
  <2> QED
    BY <2>1, <2>5 DEF AInv, AppliedAtOnce
<1>8. CASE UNCHANGED vars
  <2>1. UNCHANGED <<build, response, before, rlz, events, stateful, dcc, pc, next, result>>
    BY <1>8 DEF vars, call, deal
  <2>2. Applied(before)' = Applied(before)
    BY <2>1 DEF Applied, Listed, LastRlz, RlzLines, Message
  <2>3. /\ Message(response)' = Message(response)
        /\ \A kind : Listed(kind)' = Listed(kind)
        /\ \A point : RlzLines(point)' = RlzLines(point)
    BY <2>1, SameMessage
  <2>4. (Progress => Progress') /\ (Done => Done')
    BY <2>1, <2>3 DEF Progress, Done
  <2> QED
    BY <2>1, <2>2, <2>4 DEF AInv, AppliedAtOnce, store
<1> QED
  BY <1>1, <1>2, <1>3, <1>4, <1>5, <1>6, <1>7, <1>8 DEF Next, LoopStep

\* If nothing follows the checksum of an answer, a call that returns TRUE has
\* applied every line of the message and nothing else, in whatever order and
\* however often they come (ParsePingResponse).
THEOREM ResponseAppliedAtOnce == NothingAfterChecksum => (Spec => []AppliedAtOnce)
<1> SUFFICES ASSUME NothingAfterChecksum PROVE Spec => []AppliedAtOnce
  OBVIOUS
<1>1. Init => AInv
  BY DEF Init, AInv, AppliedAtOnce
<1>2. IInv /\ AInv /\ [Next]_vars => AInv'
  BY NextAInv
<1>3. AInv => AppliedAtOnce
  BY DEF AInv
<1> QED
  BY <1>1, <1>2, <1>3, ResponseInvariant, PTL DEF Spec

\* An answer that was cut short by the end of the process can be parsed again, and
\* leaves what it would have left at once.
THEOREM ResponseCrashRepaired == NothingAfterChecksum => (Spec => []CrashRepairedByRetry)
<1> SUFFICES ASSUME NothingAfterChecksum PROVE Spec => []CrashRepairedByRetry
  OBVIOUS
<1>1. Init => AInv
  BY DEF Init, AInv, AppliedAtOnce
<1>2. IInv /\ AInv /\ [Next]_vars => AInv'
  BY NextAInv
<1>3. AInv => CrashRepairedByRetry
  BY ProgressApplied DEF AInv, CrashRepairedByRetry
<1> QED
  BY <1>1, <1>2, <1>3, ResponseInvariant, PTL DEF Spec
=============================================================================
