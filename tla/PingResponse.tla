---------------------------- MODULE PingResponse ----------------------------
(***************************************************************************)
(* ParsePingResponse: one answer of the server applied to the store, line  *)
(* by line, on Windows with the deal code of the machine at the end.  The  *)
(* whole loop runs in one lock scope, so that outside of it the answer is  *)
(* applied at once: this is the atomic ParsePingResponse of FinancialPing, *)
(* and AppliedAtOnce says what its answer is.                              *)
(*                                                                         *)
(* The process may die in the loop.  What it has written stays in the      *)
(* registry; on the Mac it is lost with the working copy of the scope.     *)
(***************************************************************************)
EXTENDS MachineDeal

CONSTANTS Supported,     \* access points that this build can set
          Event          \* pairs of an access point and an event

ASSUME PingResponseAssumption == Supported \subseteq AccessPoint

VARIABLES
  build,     \* "win" or "mac"
  rlz,       \* RLZ of each access point in the store, <<>> if there is none
  events, stateful, \* as in FinancialPing
  dcc,       \* the deal code of the machine, NoDcc on the Mac
  got,       \* history: the deal code could be read
  response,  \* the answer to parse
  before,    \* history: the store when the call began
  pc, next,  \* "called", "lines", "returned" or "crashed"; the line that comes next
  result     \* what the call returned

store == [rlz |-> rlz, events |-> events, stateful |-> stateful, dcc |-> dcc]

call == <<build, response, before>>
deal == <<dcc, got>>
vars == <<call, rlz, events, stateful, deal, pc, next, result>>

Init == /\ build \in {"win", "mac"}
        /\ rlz \in [Supported -> StoredRlz]
        /\ events \in SUBSET Event /\ stateful \in SUBSET (Event \ events)
        /\ dcc \in StoredDcc /\ (build = "mac" => dcc = NoDcc)
        /\ got = TRUE
        /\ response \in Response
        /\ before = store
        /\ pc = "called" /\ next = 1 /\ result = FALSE

\* Nothing comes before the checksum, or only the newline that starts its line.
EmptyMessage(r) ==
  \A i \in Message(r) : i = 1 /\ r.lines[i].kind = "empty"

----------------------------------------------------------------------------
(* The lines *)

Line == response.lines[next]

\* Bug: the last line before the checksum is taken for the end.
EndsBeforeChecksum(i) == i + 1 < ChecksumLine(response)

\* A line that a newline ends runs up to it.  What is left after the last
\* newline would run up to the checksum, which lies before it.
HasText(i) == /\ response.lines[i].kind # "empty"
              /\ i < Len(response.lines) \/ response.ended

\* SetAccessPointRlz; to set the empty RLZ is to clear.
SetAccessPointRlz(point, raw) ==
  /\ point \in Supported
  /\ Len(raw) <= MaxRlzLength
  /\ rlz' = [rlz EXCEPT ![point] = NormalizeRlz(raw)]

NextLine == next' = next + 1

AtLine(kind) == /\ pc = "lines" /\ next \in DOMAIN response.lines
                /\ HasText(next) /\ Line.kind = kind

RlzLine ==
  /\ AtLine("rlz")
  /\ SetAccessPointRlz(Line.point, Line.rlz)
  /\ NextLine
  /\ UNCHANGED <<call, events, stateful, deal, pc, result>>

\* The access point is not known or not supported, or the RLZ is too long.
IgnoreRlzLine ==
  /\ AtLine("rlz")
  /\ Line.point \notin Supported \/ Len(Line.rlz) > MaxRlzLength
  /\ NextLine
  /\ UNCHANGED <<call, rlz, events, stateful, deal, pc, result>>

\* GetEventsFromResponseString: names it does not know are left out.
ReturnedEvents(l) == l.events \cap Event

RecordStatefulEvent(es) == stateful' = stateful \cup es

\* ClearProductEvent for every event that the server says it parsed.
EventsLine ==
  /\ AtLine("events")
  /\ events' = events \ ReturnedEvents(Line)
  /\ NextLine
  /\ UNCHANGED <<call, rlz, stateful, deal, pc, result>>

\* RecordStatefulEvent for every event the server does not want again.
StatefulLine ==
  /\ AtLine("stateful")
  /\ RecordStatefulEvent(ReturnedEvents(Line))
  /\ NextLine
  /\ UNCHANGED <<call, rlz, events, deal, pc, result>>

SkipLine ==
  /\ pc = "lines" /\ next \in DOMAIN response.lines
  /\ ~HasText(next) \/ Line.kind \in {"dcc", "set_dcc", "crc32", "other"}
  /\ NextLine
  /\ UNCHANGED <<call, rlz, events, stateful, deal, pc, result>>

----------------------------------------------------------------------------

Return(value) == /\ pc' = "returned" /\ result' = value
                 /\ UNCHANGED <<call, rlz, events, stateful, next>>

CannotOpen == pc = "called" /\ Return(FALSE) /\ UNCHANGED deal

Reject == /\ pc = "called" /\ ~IsPingResponseValid(response)
          /\ Return(FALSE)
          /\ UNCHANGED deal

AcceptEmpty == /\ pc = "called" /\ IsPingResponseValid(response)
               /\ EmptyMessage(response)
               /\ Return(TRUE)
               /\ UNCHANGED deal

Accept == /\ pc = "called" /\ IsPingResponseValid(response)
          /\ ~EmptyMessage(response)
          /\ pc' = "lines"
          /\ UNCHANGED <<call, rlz, events, stateful, deal, next, result>>

\* What becomes of the deal code is not reported, not even that the machine key
\* cannot be written.  A code that Get could not read counts as none.
Finish == /\ pc = "lines" /\ next > Len(response.lines)
          /\ Return(TRUE)
          /\ \/ build = "win" /\ got' \in BOOLEAN
                /\ dcc' = SetFromPingResponse(response, dcc, IF got' THEN dcc ELSE NoDcc)
             \/ UNCHANGED deal

\* Bug: the answer is saved on the Mac as far as it goes.
CrashKeeps == /\ pc = "lines" /\ pc' = "crashed"
              /\ UNCHANGED <<call, rlz, events, stateful, deal, next, result>>

\* The process dies between two writes.
Crash == /\ pc = "lines" /\ pc' = "crashed"
         /\ IF build = "win" THEN UNCHANGED <<rlz, events, stateful>>
            ELSE /\ rlz' = before.rlz
                 /\ events' = before.events /\ stateful' = before.stateful
         /\ UNCHANGED <<call, deal, next, result>>

\* It dies when some of the events of a line are done.
CrashInLine ==
  /\ build = "win"
  /\ \/ AtLine("events") /\ UNCHANGED stateful
        /\ \E done \in SUBSET ReturnedEvents(Line) : events' = events \ done
     \/ AtLine("stateful") /\ UNCHANGED events
        /\ \E done \in SUBSET ReturnedEvents(Line) : RecordStatefulEvent(done)
  /\ pc' = "crashed"
  /\ UNCHANGED <<call, rlz, deal, next, result>>

Next == \/ CannotOpen \/ Reject \/ AcceptEmpty \/ Accept
        \/ RlzLine \/ IgnoreRlzLine \/ EventsLine \/ StatefulLine \/ SkipLine
        \/ Finish \/ Crash \/ CrashInLine

Spec == Init /\ [][Next]_vars

----------------------------------------------------------------------------
(* Properties *)

\* What is stored is normalised and no longer than kMaxRlzLength, or
\* kMaxDccLength.
TypeOK ==
  /\ build \in {"win", "mac"}
  /\ rlz \in [Supported -> StoredRlz]
  /\ events \subseteq Event /\ stateful \subseteq Event
  /\ dcc \in StoredDcc /\ got \in BOOLEAN
  /\ response \in Response
  /\ pc \in {"called", "lines", "returned", "crashed"}
  /\ next \in 1..(Len(response.lines) + 1)
  /\ result \in BOOLEAN

Listed(kind) ==
  UNION {response.lines[i].events :
           i \in {j \in Message(response) : response.lines[j].kind = kind}}

\* The message may give an RLZ for an access point more than once.
RlzLines(point) ==
  {i \in Message(response) : /\ response.lines[i].kind = "rlz"
                             /\ response.lines[i].point = point
                             /\ Len(response.lines[i].rlz) <= MaxRlzLength}

LastRlz(old, point) ==
  LET last == CHOOSE i \in RlzLines(point) : \A j \in RlzLines(point) : j <= i
      raw  == response.lines[last].rlz
  IN  IF RlzLines(point) = {} THEN old[point]
      ELSE [i \in DOMAIN raw |-> IF raw[i] \in GoodChar THEN raw[i] ELSE Dot]

\* What the message makes of the store, whatever the order of its lines: the
\* events it lists are gone, those it lists as stateful are kept as such, every
\* access point has the last RLZ the message gives it.
Applied(s) ==
  [events |-> s.events \ Listed("events"),
   stateful |-> s.stateful \cup (Listed("stateful") \cap Event),
   rlz |-> [point \in Supported |-> LastRlz(s.rlz, point)]]

\* A call that returns TRUE has applied the message, all of it and nothing
\* else.
AppliedAtOnce ==
  pc = "returned" /\ result =>
    [events |-> events, stateful |-> stateful, rlz |-> rlz] = Applied(before)

\* A call that returns FALSE has changed nothing, and so has every call with
\* an answer in which no line is the checksum of what precedes it.
RejectedUnchanged ==
  pc = "returned" /\ (result => \A i \in DOMAIN response.lines :
                                  response.lines[i].kind = "crc32" => ~response.lines[i].good)
    => store = before

\* A call that is cut short can be repeated: the same answer, parsed again,
\* leaves what it would have left at once.  On the Mac nothing has happened.
CrashRepairedByRetry ==
  pc = "crashed" => /\ Applied(store) = Applied(before)
                    /\ build = "mac" => store = before

\* The lines of the message that give key a code, which has no colon in it.
Gives(key) ==
  {i \in Message(response) :
     /\ response.lines[i].kind = key
     /\ \A k \in DOMAIN response.lines[i].value : response.lines[i].value[k] # Colon}

\* "The ping must also contain the current DCC value in order to be considered
\* valid" (rlz_lib.h:285): the deal code becomes the first code of the message
\* that is not too long, normalised, and only if the first code that the message
\* repeats, wherever its lines stand, is the one there was.  A message need not
\* repeat a code that was empty, or that could not be read.
DccConfirmed ==
  dcc # before.dcc =>
    LET known == IF got THEN before.dcc ELSE NoDcc
        Fits(i) == Len(response.lines[i].value) <= MaxDccLength
    IN  /\ build = "win" /\ pc = "returned" /\ result
        /\ \E i \in Gives("set_dcc") :
             /\ Fits(i) /\ dcc = NormalizeDcc(response.lines[i].value)
             /\ \A j \in Gives("set_dcc") : j < i => ~Fits(j)
        /\ \A i \in Gives("dcc") :
             \/ response.lines[i].value = known
             \/ \E j \in Gives("dcc") : j < i
        /\ known = NoDcc \/ Gives("dcc") # {}
=============================================================================
