---------------------------- MODULE FinancialPing ----------------------------
(***************************************************************************)
(* The financial ping of one product.  A client forms a request from the   *)
(* events that are stored, asks whether it is time to ping, notes the time,*)
(* pings, and clears the events that the answer lists.  Each of these      *)
(* steps takes the store lock by itself; between two of them, and all the  *)
(* time the ping is under way, other clients and the application go on.    *)
(*                                                                         *)
(* One step here is one lock scope, which TransactionalStore allows.  The  *)
(* ping time is kept as its age, now - last_ping, counted in units of      *)
(* EventsInterval and no further than NoEventsInterval.                    *)
(***************************************************************************)
EXTENDS Integers, FiniteSets

CONSTANTS Client,            \* callers of SendFinancialPing and its parts
          Event,             \* events of the product
          Never,             \* no ping time is stored
          EventsInterval,    \* kEventsPingInterval (a day)
          NoEventsInterval,  \* kNoEventsPingInterval (a week)
          Ways,              \* how clients ping: "whole" or in "parts"
          AppClears,         \* the application clears events and state
          Faults             \* "lock", "network", "clock", "exit"

ASSUME PingAssumption ==
  /\ EventsInterval \in Nat \ {0}
  /\ NoEventsInterval \in Nat
  /\ EventsInterval <= NoEventsInterval
  /\ Never \notin Int
  /\ Ways \subseteq {"whole", "parts"}
  /\ AppClears \in BOOLEAN
  /\ Faults \subseteq {"lock", "network", "clock", "exit"}

VARIABLES
  events,     \* product events in the store
  stateful,   \* stateful events in the store
  pingAge,    \* age of the ping time in the store, or Never
  pc,         \* where a client is
  call,       \* how it was called: [way, skip_time_check]
  request,    \* the events in the request it formed
  answer,     \* the events that the answer clears and makes stateful
  grantAge,   \* history: time since a client was last told to ping
  unsent,     \* history: events recorded and not yet known to the server
  fresh,      \* history: events of each request recorded before it was formed
  torn        \* history: events left by a client that died while it parsed

vars == <<events, stateful, pingAge, pc, call, request, answer,
          grantAge, unsent, fresh, torn>>

store == <<events, stateful, pingAge>>
history == <<grantAge, unsent, fresh, torn>>

PC == {"idle",     \* not pinging
       "formed",   \* has a request
       "granted",  \* IsPingTime said yes
       "timed",    \* UpdateLastPingTime is done
       "waiting",  \* in PingServer
       "served",   \* the server has the request, the answer is on its way
       "answered", \* PingServer returned the answer
       "parsing"}  \* about to call ParsePingResponse

NoAnswer == [clear |-> {}, stateful |-> {}]
NoCall == [way |-> "none", skip |-> FALSE]

Ahead == -1   \* the age of any ping time in the future
Ages == {Never} \cup (Ahead..NoEventsInterval)

Init == /\ events = {} /\ stateful = {} /\ pingAge = Never
        /\ pc = [c \in Client |-> "idle"]
        /\ call = [c \in Client |-> NoCall]
        /\ request = [c \in Client |-> {}]
        /\ answer = [c \in Client |-> NoAnswer]
        /\ grantAge = NoEventsInterval
        /\ unsent = {}
        /\ fresh = [c \in Client |-> {}]
        /\ torn = {}

GoTo(c, label) == pc' = [pc EXCEPT ![c] = label]

\* Bug: what a call leaves behind is not reset for the next one.
ReturnWithRequest(c) == /\ GoTo(c, "idle")
                        /\ call' = [call EXCEPT ![c] = NoCall]
                        /\ fresh' = [fresh EXCEPT ![c] = {}]
                        /\ UNCHANGED <<request, answer>>

\* The call of client c is over.
Return(c) == /\ GoTo(c, "idle")
             /\ call' = [call EXCEPT ![c] = NoCall]
             /\ request' = [request EXCEPT ![c] = {}]
             /\ answer' = [answer EXCEPT ![c] = NoAnswer]
             /\ fresh' = [fresh EXCEPT ![c] = {}]

----------------------------------------------------------------------------
(* The application *)

\* Bug: the list of stateful events is not looked at.
RecordAnyEvent(e) ==
  /\ events' = events \cup {e}
  /\ unsent' = IF e \in events THEN unsent ELSE unsent \cup {e}
  /\ fresh' = IF e \in events THEN fresh ELSE [c \in Client |-> fresh[c] \ {e}]
  /\ UNCHANGED <<stateful, pingAge, pc, call, request, answer, grantAge, torn>>

\* An event that is stateful already counts as recorded.
RecordProductEvent(e) ==
  /\ e \notin stateful
  /\ events' = events \cup {e}
  /\ unsent' = IF e \in events THEN unsent ELSE unsent \cup {e}
  /\ fresh' = IF e \in events THEN fresh ELSE [c \in Client |-> fresh[c] \ {e}]
  /\ UNCHANGED <<stateful, pingAge, pc, call, request, answer, grantAge, torn>>

\* What the application clears it does not want reported.
Discard(removed) == unsent' = unsent \ removed /\ torn' = torn \ removed

ClearProductEvent(e) ==
  /\ AppClears
  /\ events' = events \ {e}
  /\ Discard({e})
  /\ UNCHANGED <<stateful, pingAge, pc, call, request, answer, grantAge, fresh>>

ClearAllProductEvents ==
  /\ AppClears
  /\ events' = {} /\ stateful' = {}
  /\ Discard(Event)
  /\ UNCHANGED <<pingAge, pc, call, request, answer, grantAge, fresh>>

\* Uninstallation: the next ping of a new installation is at once.
ClearProductState ==
  /\ AppClears
  /\ events' = {} /\ stateful' = {} /\ pingAge' = Never
  /\ Discard(Event)
  /\ grantAge' = NoEventsInterval
  /\ UNCHANGED <<pc, call, request, answer, fresh>>

ClearLastPingTime ==
  /\ AppClears
  /\ pingAge' = Never
  /\ grantAge' = NoEventsInterval
  /\ UNCHANGED <<events, stateful, pc, call, request, answer, unsent, fresh, torn>>

----------------------------------------------------------------------------
(* Time *)

Older(age) == IF age < NoEventsInterval THEN age + 1 ELSE age

\* A ping time in the future (Ahead) is reached at some time or other.
Tick == /\ \/ pingAge = Never /\ UNCHANGED pingAge
           \/ pingAge = Ahead /\ pingAge' \in {Ahead, 0}
           \/ pingAge \notin {Never, Ahead} /\ pingAge' = Older(pingAge)
        /\ grantAge' = Older(grantAge)
        /\ UNCHANGED <<events, stateful, pc, call, request, answer, unsent, fresh, torn>>

\* The system clock is set to before the last ping, by however much.
ClockReset == /\ "clock" \in Faults
              /\ pingAge # Never
              /\ pingAge' = Ahead
              /\ grantAge' = NoEventsInterval
              /\ UNCHANGED <<events, stateful, pc, call, request, answer, unsent, fresh, torn>>

----------------------------------------------------------------------------
(* The ping *)

\* GetProductEventsAsCgi: the names of all the events there are fit in the
\* buffers that the ping gives it, so that the list is never cut.
EventsAsCgi == events

\* FinancialPing::FormRequest, called by SendFinancialPing ("whole") or by
\* FormFinancialPingRequest ("parts", which cannot skip the time check).
FormRequest(c) ==
  /\ pc[c] = "idle"
  /\ \E way \in Ways, skip \in BOOLEAN :
       /\ way = "parts" => ~skip
       /\ call' = [call EXCEPT ![c] = [way |-> way, skip |-> skip]]
  /\ request' = [request EXCEPT ![c] = EventsAsCgi]
  /\ fresh' = [fresh EXCEPT ![c] = EventsAsCgi]
  /\ GoTo(c, "formed")
  /\ UNCHANGED <<store, answer, grantAge, unsent, torn>>

\* Bug: a ping time in the future is compared like any other.
IsLaterPingTime(skip) ==
  pingAge # Never =>
    \/ skip /\ EventsAsCgi # {}
    \/ pingAge >= IF EventsAsCgi # {} THEN EventsInterval ELSE NoEventsInterval

\* FinancialPing::IsPingTime with the store open.
IsPingTime(skip) ==
  pingAge # Never =>
    \/ pingAge < 0
    \/ skip /\ EventsAsCgi # {}
    \/ pingAge >= IF EventsAsCgi # {} THEN EventsInterval ELSE NoEventsInterval

CheckTime(c) ==
  /\ pc[c] = "formed"
  /\ IsPingTime(call[c].skip)
  /\ GoTo(c, "granted")
  /\ grantAge' = 0
  /\ UNCHANGED <<store, call, request, answer, unsent, fresh, torn>>

\* It is too early, or the store cannot be opened: the call fails.
TooEarly(c) ==
  /\ pc[c] = "formed"
  /\ ~IsPingTime(call[c].skip) \/ "lock" \in Faults
  /\ Return(c)
  /\ UNCHANGED <<store, grantAge, unsent, torn>>

\* UpdateLastPingTime comes before the ping when the client sends it whole,
\* and after it, in ParseFinancialPingResponse, when it goes through the parts.
Updates(c, from, to) ==
  /\ pc[c] = from
  /\ GoTo(c, to)

MovesToUpdate(c) ==
  \/ call[c].way = "whole" /\ Updates(c, "granted", "timed")
  \/ call[c].way = "parts" /\ Updates(c, "answered", "parsing")

\* Bug: only a ping that is answered has its time noted.
UpdateAnsweredPingTime(c) ==
  /\ MovesToUpdate(c)
  /\ pingAge' = IF pc[c] = "answered" THEN 0 ELSE pingAge
  /\ UNCHANGED <<events, stateful, call, request, answer, history>>

UpdateLastPingTime(c) ==
  /\ MovesToUpdate(c)
  /\ pingAge' = 0
  /\ UNCHANGED <<events, stateful, call, request, answer, history>>

\* Its result is ignored: a client that cannot open the store pings all the same.
UpdateFails(c) ==
  /\ "lock" \in Faults
  /\ MovesToUpdate(c)
  /\ UNCHANGED <<store, call, request, answer, history>>

\* PingServer starts.
SendPing(c) ==
  /\ \/ call[c].way = "whole" /\ pc[c] = "timed"
     \/ call[c].way = "parts" /\ pc[c] = "granted"
  /\ GoTo(c, "waiting")
  /\ UNCHANGED <<store, call, request, answer, history>>

\* The server takes the request: it has the events of it, acknowledges those it
\* parsed and may declare some of them stateful.
ServerReceives(c) ==
  /\ pc[c] = "waiting"
  /\ \E parsed \in SUBSET request[c] : \E once \in SUBSET parsed :
       answer' = [answer EXCEPT ![c] = [clear |-> parsed, stateful |-> once]]
  /\ unsent' = unsent \ fresh[c]
  /\ GoTo(c, "served")
  /\ UNCHANGED <<store, call, request, grantAge, fresh, torn>>

\* PingServer returns the answer.
PingServer(c) ==
  /\ pc[c] = "served"
  /\ GoTo(c, "answered")
  /\ UNCHANGED <<store, call, request, answer, history>>

\* PingServer fails: no connection, a status that is not 200, or the time-out,
\* whether the server has had the request or not.
PingFails(c) ==
  /\ "network" \in Faults
  /\ pc[c] \in {"waiting", "served"}
  /\ Return(c)
  /\ UNCHANGED <<store, grantAge, unsent, torn>>

AboutToParse(c) ==
  \/ call[c].way = "whole" /\ pc[c] = "answered"
  \/ call[c].way = "parts" /\ pc[c] = "parsing"

\* Bug: an answer clears all events, not those it lists.
ParseClearsAll(c) ==
  /\ AboutToParse(c)
  /\ events' = {}
  /\ stateful' = stateful \cup answer[c].stateful
  /\ torn' = {}
  /\ Return(c)
  /\ UNCHANGED <<pingAge, grantAge, unsent>>

\* Bug: the stateful events of the answer are stored, its events stay.
ParseKeepsEvents(c) ==
  /\ AboutToParse(c)
  /\ stateful' = stateful \cup answer[c].stateful
  /\ Return(c)
  /\ UNCHANGED <<events, pingAge, grantAge, unsent, torn>>

\* ParsePingResponse, all of it in one lock scope.
ParsePingResponse(c) ==
  /\ AboutToParse(c)
  /\ events' = events \ answer[c].clear
  /\ stateful' = stateful \cup answer[c].stateful
  /\ torn' = torn \ answer[c].clear
  /\ Return(c)
  /\ UNCHANGED <<pingAge, grantAge, unsent>>

\* The store cannot be opened, or the checksum of the answer is wrong.
ParseFails(c) ==
  /\ Faults \cap {"lock", "network"} # {}
  /\ AboutToParse(c)
  /\ Return(c)
  /\ UNCHANGED <<store, grantAge, unsent, torn>>

\* The process of a client ends between two steps of its ping.
ClientExits(c) ==
  /\ "exit" \in Faults
  /\ pc[c] # "idle"
  /\ Return(c)
  /\ UNCHANGED <<store, grantAge, unsent, torn>>

\* ... or while it parses an answer, whose lines have been done in part: on
\* Windows each write goes to the registry at once.
ParseCutShort(c) ==
  /\ "exit" \in Faults
  /\ AboutToParse(c)
  /\ \E gone \in SUBSET answer[c].clear, kept \in SUBSET answer[c].stateful :
       /\ events' = events \ gone
       /\ stateful' = stateful \cup kept
       /\ torn' = (torn \cup (kept \cap events)) \ gone
  /\ Return(c)
  /\ UNCHANGED <<pingAge, grantAge, unsent>>

----------------------------------------------------------------------------

Application == \/ \E e \in Event : RecordProductEvent(e) \/ ClearProductEvent(e)
               \/ ClearAllProductEvents \/ ClearProductState \/ ClearLastPingTime

ClientStep(c) == \/ FormRequest(c) \/ CheckTime(c) \/ TooEarly(c)
                 \/ UpdateLastPingTime(c) \/ UpdateFails(c) \/ SendPing(c)
                 \/ ParsePingResponse(c) \/ ParseFails(c)

Network(c) == ServerReceives(c) \/ PingServer(c) \/ PingFails(c)

Next == \/ Application \/ Tick \/ ClockReset
        \/ \E c \in Client : ClientStep(c) \/ Network(c) \/ ClientExits(c) \/ ParseCutShort(c)

Spec == Init /\ [][Next]_vars

\* Clients go on pinging ("This ping method should be called daily",
\* rlz_lib.h), time passes, a request is answered or times out, and a server
\* that is asked again and again once takes all the events it was sent, in an
\* answer that arrives and is valid.  A clock that is behind the ping time need
\* not catch up with it.
FullAnswer(c) == PingServer(c) /\ answer[c].clear = request[c]

Fairness == /\ WF_vars(Tick /\ pingAge # Ahead)
            /\ \A c \in Client :
                 /\ WF_vars(ClientStep(c))
                 /\ WF_vars(Network(c))
                 /\ SF_vars(ServerReceives(c) /\ answer'[c].clear = request[c])
                 /\ SF_vars(FullAnswer(c))
                 /\ SF_vars(ParsePingResponse(c) /\ answer[c].clear = request[c])

FairSpec == Spec /\ Fairness

----------------------------------------------------------------------------
(* Properties *)

\* Every variable has its type, and a client that is not pinging has neither a
\* request nor an answer left over (SendFinancialPing keeps both as locals).
TypeOK ==
  /\ events \subseteq Event /\ stateful \subseteq Event
  /\ pingAge \in Ages
  /\ pc \in [Client -> PC]
  /\ call \in [Client -> [way : Ways, skip : BOOLEAN] \cup {NoCall}]
  /\ request \in [Client -> SUBSET Event]
  /\ answer \in [Client -> [clear : SUBSET Event, stateful : SUBSET Event]]
  /\ grantAge \in 0..NoEventsInterval
  /\ unsent \subseteq Event
  /\ fresh \in [Client -> SUBSET Event]
  /\ torn \subseteq Event
  /\ \A c \in Client : pc[c] = "idle" => request[c] = {} /\ answer[c] = NoAnswer

\* An event the server has declared stateful is not waiting to be reported
\* again, whoever records events and parses answers at the same time, unless a
\* process has died while it parsed the answer that says so.
StatefulNotPending == events \cap stateful \subseteq torn

\* "a stateful event will only be sent in financial pings once"
\* (rlz_lib_test.cc:360): no ping starts with an event that an answer has
\* declared stateful, although the request was formed some steps before.
StatefulSentOnce ==
  [][\A c \in Client : SendPing(c) => request[c] \cap stateful \subseteq torn]_vars

\* "This ping method should be called daily. (More frequent calls will fail)"
\* (rlz_lib.h:204): a client is told to ping only a day after one was told so
\* before, unless the caller skips the time check to report events or the
\* clock, the ping time or the product state was reset in between.
PingRate ==
  [][\A c \in Client : CheckTime(c) =>
       grantAge >= EventsInterval \/ (call[c].skip /\ events # {})]_vars

\* "if there are no events, the call will succeed only once a week"
\* (rlz_lib.h:205): a request without events is let through only after a week,
\* for callers that do not skip the time check.
EventlessPingWeekly ==
  [][\A c \in Client : CheckTime(c) /\ request[c] = {} /\ ~call[c].skip =>
       grantAge >= NoEventsInterval]_vars

\* No report is lost: until the server has had an event in a request formed
\* after the event was recorded, the event stays in the store.
NoEventLost == unsent \subseteq events

ClockSettles == <>[][~ClockReset]_vars

\* Every event that is recorded leaves the store, and by NoEventLost that
\* means it was reported, whatever pings fail in between, unless the clock is
\* set back for ever.
EventReported == ClockSettles => \A e \in Event : e \in events ~> e \notin events
=============================================================================
