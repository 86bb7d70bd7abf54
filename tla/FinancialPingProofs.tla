------------------------- MODULE FinancialPingProofs -------------------------
(***************************************************************************)
(* The financial ping with any set of events and any intervals.  What has  *)
(* to hold for any number of clients comes first; the second half is about *)
(* a product that one client at a time pings for.                          *)
(***************************************************************************)
EXTENDS FinancialPing, TLAPS

\* TypeOK, conjunct by conjunct, for the steps that touch only some of it.
StoreOK == events \subseteq Event /\ stateful \subseteq Event /\ pingAge \in Ages
CallsOK == /\ pc \in [Client -> PC]
           /\ call \in [Client -> [way : Ways, skip : BOOLEAN] \cup {NoCall}]
           /\ request \in [Client -> SUBSET Event]
           /\ answer \in [Client -> [clear : SUBSET Event, stateful : SUBSET Event]]
           /\ \A c \in Client : pc[c] = "idle" => request[c] = {} /\ answer[c] = NoAnswer
HistoryOK == /\ grantAge \in 0..NoEventsInterval
             /\ unsent \subseteq Event
             /\ fresh \in [Client -> SUBSET Event]
             /\ torn \subseteq Event

\* A server only makes events stateful that it parsed.
AnswersMatch == \A c \in Client : answer[c].stateful \subseteq answer[c].clear

IInv == StoreOK /\ CallsOK /\ HistoryOK /\ StatefulNotPending /\ AnswersMatch

LEMMA InvariantTypes == IInv => TypeOK
  BY DEF IInv, TypeOK, StoreOK, CallsOK, HistoryOK

LEMMA OlderAge ==
  /\ \A age \in Ahead..NoEventsInterval : Older(age) \in Ahead..NoEventsInterval
  /\ \A age \in 0..NoEventsInterval : Older(age) \in 0..NoEventsInterval
  BY PingAssumption DEF Older, Ahead

LEMMA InitIInv == Init => IInv
<1> SUFFICES ASSUME Init PROVE IInv
  OBVIOUS
<1>1. StoreOK /\ HistoryOK
  BY PingAssumption DEF Init, StoreOK, HistoryOK, Ages, Ahead
<1>2. CallsOK
  BY DEF Init, CallsOK, PC, NoCall, NoAnswer
<1>3. StatefulNotPending /\ AnswersMatch
  BY DEF Init, StatefulNotPending, AnswersMatch, NoAnswer
<1> QED
  BY <1>1, <1>2, <1>3 DEF IInv

----------------------------------------------------------------------------
(* Steps *)

LEMMA ApplicationIInv == IInv /\ Application => IInv'
<1> SUFFICES ASSUME IInv, Application PROVE IInv'
  OBVIOUS
<1> USE DEF IInv
<1>1. StoreOK /\ CallsOK /\ HistoryOK
  BY DEF IInv
<1>2. UNCHANGED <<pc, call, request, answer>>
  BY DEF Application, RecordProductEvent, ClearProductEvent, ClearAllProductEvents,
         ClearProductState, ClearLastPingTime
<1>3. StoreOK'
  BY <1>1 DEF StoreOK, Ages, Application, RecordProductEvent, ClearProductEvent,
              ClearAllProductEvents, ClearProductState, ClearLastPingTime
<1>4. HistoryOK'
  BY <1>1, PingAssumption
     DEF HistoryOK, Discard, Application, RecordProductEvent, ClearProductEvent,
         ClearAllProductEvents, ClearProductState, ClearLastPingTime
<1>5. CallsOK'
  BY <1>1, <1>2 DEF CallsOK
<1>6. StatefulNotPending'
  BY DEF StatefulNotPending, Discard, Application, RecordProductEvent, ClearProductEvent,
         ClearAllProductEvents, ClearProductState, ClearLastPingTime
<1>7. AnswersMatch'
  BY <1>2 DEF AnswersMatch
<1> QED
  BY <1>3, <1>4, <1>5, <1>6, <1>7

LEMMA TimeIInv == IInv /\ (Tick \/ ClockReset) => IInv'
<1> SUFFICES ASSUME IInv, Tick \/ ClockReset PROVE IInv'
  OBVIOUS
<1> USE DEF IInv
<1>1. StoreOK /\ CallsOK /\ HistoryOK
  BY DEF IInv
<1>2. UNCHANGED <<events, stateful, pc, call, request, answer, unsent, fresh, torn>>
  BY DEF Tick, ClockReset
<1>3. pingAge' \in Ages /\ grantAge' \in 0..NoEventsInterval
  BY <1>1, OlderAge, PingAssumption DEF StoreOK, HistoryOK, Ages, Ahead, Tick, ClockReset
<1> QED
  BY <1>1, <1>2, <1>3
     DEF StoreOK, CallsOK, HistoryOK, StatefulNotPending, AnswersMatch

\* A call that is over leaves nothing behind.
LEMMA ReturnIInv ==
  ASSUME IInv, NEW c \in Client, Return(c), UNCHANGED <<grantAge, unsent>>,
         torn' \subseteq Event
  PROVE  CallsOK' /\ HistoryOK' /\ AnswersMatch'
<1>1. StoreOK /\ CallsOK /\ HistoryOK
  BY DEF IInv
<1>2. CallsOK'
  BY <1>1 DEF CallsOK, Return, GoTo, PC, NoCall, NoAnswer
<1>3. HistoryOK'
  BY <1>1 DEF HistoryOK, Return
<1>4. AnswersMatch'
  BY <1>1 DEF IInv, AnswersMatch, CallsOK, Return, NoAnswer
<1> QED
  BY <1>2, <1>3, <1>4

\* A client that goes on to the next part of its call.
LEMMA GoOnIInv ==
  ASSUME IInv, NEW c \in Client, NEW label \in PC \ {"idle"}, GoTo(c, label),
         pc[c] # "idle", UNCHANGED <<call, request, answer>>
  PROVE  CallsOK' /\ AnswersMatch'
  BY DEF IInv, CallsOK, AnswersMatch, GoTo

LEMMA FormIInv ==
  ASSUME IInv, NEW c \in Client, FormRequest(c)
  PROVE  IInv'
<1>1. StoreOK /\ CallsOK /\ HistoryOK
  BY DEF IInv
<1>2. StoreOK' /\ HistoryOK'
  BY <1>1 DEF FormRequest, EventsAsCgi, StoreOK, HistoryOK, store
<1>3. call' \in [Client -> [way : Ways, skip : BOOLEAN] \cup {NoCall}]
  BY <1>1 DEF FormRequest, CallsOK
<1>4. CallsOK'
  BY <1>1, <1>3 DEF FormRequest, EventsAsCgi, CallsOK, StoreOK, GoTo, PC
<1>5. StatefulNotPending' /\ AnswersMatch'
  BY DEF IInv, FormRequest, StatefulNotPending, AnswersMatch, store
<1> QED
  BY <1>2, <1>4, <1>5 DEF IInv

\* Checking, noting the time, sending and waiting leave events alone.
LEMMA PingIInv ==
  ASSUME IInv, NEW c \in Client,
         \/ CheckTime(c) \/ UpdateLastPingTime(c) \/ UpdateFails(c)
         \/ SendPing(c) \/ PingServer(c)
  PROVE  IInv'
<1>1. StoreOK /\ CallsOK /\ HistoryOK
  BY DEF IInv
<1>2. UNCHANGED <<events, stateful, call, request, answer, unsent, fresh, torn>>
  BY DEF CheckTime, UpdateLastPingTime, UpdateFails, SendPing, PingServer, store, history
<1>3. pingAge' \in Ages /\ grantAge' \in 0..NoEventsInterval
  BY <1>1, PingAssumption
     DEF CheckTime, UpdateLastPingTime, UpdateFails, SendPing, PingServer,
         store, history, StoreOK, HistoryOK, Ages, Ahead
<1>4. pc[c] # "idle" /\ \E label \in PC \ {"idle"} : GoTo(c, label)
  BY DEF CheckTime, UpdateLastPingTime, UpdateFails, MovesToUpdate, Updates,
         SendPing, PingServer, PC
<1>5. CallsOK' /\ AnswersMatch'
  BY <1>2, <1>4, GoOnIInv
<1>6. StoreOK' /\ HistoryOK' /\ StatefulNotPending'
  BY <1>1, <1>2, <1>3 DEF IInv, StoreOK, HistoryOK, StatefulNotPending
<1> QED
  BY <1>5, <1>6 DEF IInv

LEMMA ReceiveIInv ==
  ASSUME IInv, NEW c \in Client, ServerReceives(c)
  PROVE  IInv'
<1>1. StoreOK /\ CallsOK /\ HistoryOK
  BY DEF IInv
<1>2. PICK parsed \in SUBSET request[c] : \E once \in SUBSET parsed :
        answer' = [answer EXCEPT ![c] = [clear |-> parsed, stateful |-> once]]
  BY DEF ServerReceives
<1>3. PICK once \in SUBSET parsed :
        answer' = [answer EXCEPT ![c] = [clear |-> parsed, stateful |-> once]]
  BY <1>2
<1>4. parsed \subseteq Event /\ once \subseteq Event
  BY <1>1 DEF CallsOK
<1>5. CallsOK'
  BY <1>1, <1>3, <1>4 DEF ServerReceives, CallsOK, GoTo, PC, store
<1>6. AnswersMatch'
  BY <1>1, <1>3 DEF IInv, AnswersMatch, CallsOK
<1>7. StoreOK' /\ HistoryOK' /\ StatefulNotPending'
  BY <1>1 DEF IInv, ServerReceives, StoreOK, HistoryOK, StatefulNotPending, store
<1> QED
  BY <1>5, <1>6, <1>7 DEF IInv

\* An answer makes stateful only what it also clears, and what a process that
\* dies in between leaves is torn.
LEMMA ParseIInv ==
  ASSUME IInv, NEW c \in Client, ParsePingResponse(c) \/ ParseCutShort(c)
  PROVE  IInv'
<1>1. StoreOK /\ CallsOK /\ HistoryOK
  BY DEF IInv
<1>2. answer[c].clear \subseteq Event /\ answer[c].stateful \subseteq Event
  BY <1>1 DEF CallsOK
<1>3. StoreOK' /\ torn' \subseteq Event
  BY <1>1, <1>2 DEF ParsePingResponse, ParseCutShort, StoreOK, HistoryOK
<1>4. StatefulNotPending'
  BY DEF IInv, ParsePingResponse, ParseCutShort, StatefulNotPending, AnswersMatch
<1> QED
  BY <1>3, <1>4, ReturnIInv DEF ParsePingResponse, ParseCutShort, IInv

\* A call that fails changes nothing in the store.
LEMMA FailIInv ==
  ASSUME IInv, NEW c \in Client,
         TooEarly(c) \/ PingFails(c) \/ ParseFails(c) \/ ClientExits(c)
  PROVE  IInv'
<1>1. Return(c) /\ UNCHANGED <<events, stateful, pingAge, grantAge, unsent, torn>>
  BY DEF TooEarly, PingFails, ParseFails, ClientExits, store
<1>2. StoreOK' /\ StatefulNotPending'
  BY <1>1 DEF IInv, StoreOK, StatefulNotPending
<1> QED
  BY <1>1, <1>2, ReturnIInv DEF IInv, HistoryOK

LEMMA NextIInv == IInv /\ [Next]_vars => IInv'
<1> SUFFICES ASSUME IInv, [Next]_vars PROVE IInv'
  OBVIOUS
<1>1. CASE Application \/ Tick \/ ClockReset
  BY <1>1, ApplicationIInv, TimeIInv
<1>2. ASSUME NEW c \in Client, ClientStep(c) \/ Network(c) \/ ClientExits(c) \/ ParseCutShort(c)
      PROVE  IInv'
  BY <1>2, FormIInv, PingIInv, ReceiveIInv, ParseIInv, FailIInv DEF ClientStep, Network
<1>3. CASE UNCHANGED vars
  BY <1>3 DEF IInv, StoreOK, CallsOK, HistoryOK, StatefulNotPending, AnswersMatch, vars
<1> QED
  BY <1>1, <1>2, <1>3 DEF Next

THEOREM PingInvariant == Spec => []IInv
  BY InitIInv, NextIInv, PTL DEF Spec

\* Every variable has its type and a client that does not ping holds nothing.
THEOREM PingTypeOK == Spec => []TypeOK
  BY PingInvariant, InvariantTypes, PTL

\* An event that the server has declared stateful is never stored to be
\* reported again, for any number of clients that ping at the same time.
THEOREM PingStatefulNotPending == Spec => []StatefulNotPending
  BY PingInvariant, PTL DEF IInv
----------------------------------------------------------------------------
(***************************************************************************)
(* One client at a time, which is what an application has when only one    *)
(* thread of one process pings for a product.                              *)
(***************************************************************************)
OneClient == \A c, d \in Client : c = d

\* What a ping has in flight is still in the store, and once the server has
\* it, it is not counted as unsent.
InFlight ==
  \A c \in Client : /\ request[c] \subseteq events
                    /\ fresh[c] = request[c]
                    /\ answer[c].clear \subseteq request[c]
                    /\ answer[c].clear \cap unsent = {}

LossInv == IInv /\ NoEventLost /\ InFlight

LEMMA InitLossInv == Init => LossInv
<1>1. Init => NoEventLost /\ InFlight
  BY DEF Init, NoEventLost, InFlight, NoAnswer
<1> QED
  BY <1>1, InitIInv DEF LossInv

\* An event that is recorded while it is in flight is in the store already.
LEMMA RecordLossInv ==
  ASSUME LossInv, NEW e \in Event, RecordProductEvent(e)
  PROVE  (NoEventLost /\ InFlight)'
<1>1. CASE e \in events
  BY <1>1 DEF LossInv, RecordProductEvent, NoEventLost, InFlight
<1>2. CASE e \notin events
  <2>1. \A c \in Client : e \notin request[c] /\ e \notin answer[c].clear
    BY <1>2 DEF LossInv, InFlight
  <2>2. \A c \in Client : fresh'[c] = fresh[c]
    BY <1>2, <2>1 DEF LossInv, InFlight, RecordProductEvent
  <2> QED
    BY <1>2, <2>1, <2>2 DEF LossInv, RecordProductEvent, NoEventLost, InFlight
<1> QED
  BY <1>1, <1>2

LEMMA ReturnLossInv ==
  ASSUME LossInv, OneClient, NEW c \in Client, Return(c)
  PROVE  \A d \in Client : /\ request'[d] = {} /\ fresh'[d] = {}
                           /\ answer'[d].clear = {}
  BY DEF LossInv, IInv, CallsOK, HistoryOK, OneClient, Return, NoAnswer

LEMMA ClientLossInv ==
  ASSUME LossInv, OneClient, NEW c \in Client,
         ClientStep(c) \/ Network(c) \/ ClientExits(c) \/ ParseCutShort(c)
  PROVE  (NoEventLost /\ InFlight)'
<1> USE DEF LossInv
<1>1. CASE FormRequest(c)
  <2>1. \A d \in Client : answer[d] = NoAnswer
    BY <1>1 DEF FormRequest, OneClient, IInv, CallsOK
  <2> QED
    BY <1>1, <2>1 DEF FormRequest, EventsAsCgi, NoEventLost, InFlight, store, NoAnswer,
                      OneClient, IInv, CallsOK, HistoryOK
<1>2. CASE \/ CheckTime(c) \/ UpdateLastPingTime(c) \/ UpdateFails(c)
           \/ SendPing(c) \/ PingServer(c)
  BY <1>2 DEF CheckTime, UpdateLastPingTime, UpdateFails, SendPing, PingServer,
              store, history, NoEventLost, InFlight
<1>3. CASE ServerReceives(c)
  <2>1. PICK parsed \in SUBSET request[c] : \E once \in SUBSET parsed :
          answer' = [answer EXCEPT ![c] = [clear |-> parsed, stateful |-> once]]
    BY <1>3 DEF ServerReceives
  <2>2. \A d \in Client : answer'[d].clear = parsed
    BY <2>1 DEF OneClient, IInv, CallsOK
  <2>3. unsent' = unsent \ request[c]
    BY <1>3 DEF ServerReceives, InFlight
  <2> QED
    BY <1>3, <2>1, <2>2, <2>3 DEF ServerReceives, NoEventLost, InFlight, store, OneClient
<1>4. CASE ParsePingResponse(c) \/ ParseCutShort(c)
  BY <1>4, ReturnLossInv DEF ParsePingResponse, ParseCutShort, NoEventLost, InFlight
<1>5. CASE TooEarly(c) \/ PingFails(c) \/ ParseFails(c) \/ ClientExits(c)
  <2>1. Return(c) /\ UNCHANGED <<events, unsent>>
    BY <1>5 DEF TooEarly, PingFails, ParseFails, ClientExits, store
  <2> QED
    BY <2>1, ReturnLossInv DEF NoEventLost, InFlight
<1> QED
  BY <1>1, <1>2, <1>3, <1>4, <1>5 DEF ClientStep, Network

LEMMA NextLossInv ==
  ASSUME OneClient, ~AppClears, LossInv, [Next]_vars
  PROVE  LossInv'
<1>1. IInv'
  BY NextIInv DEF LossInv
<1>2. CASE Application
  <2>1. \E e \in Event : RecordProductEvent(e)
    BY <1>2 DEF Application, ClearProductEvent, ClearAllProductEvents, ClearProductState,
                ClearLastPingTime
  <2> QED
    BY <1>1, <2>1, RecordLossInv DEF LossInv
<1>3. CASE Tick \/ ClockReset \/ UNCHANGED vars
  BY <1>1, <1>3 DEF Tick, ClockReset, vars, LossInv, NoEventLost, InFlight
<1>4. ASSUME NEW c \in Client, ClientStep(c) \/ Network(c) \/ ClientExits(c) \/ ParseCutShort(c)
      PROVE  LossInv'
  BY <1>1, <1>4, ClientLossInv DEF LossInv
<1> QED
  BY <1>2, <1>3, <1>4 DEF Next

\* With one client, however it pings and whatever fails, an event stays in the
\* store until the server has had it.
THEOREM PingLosesNothing ==
  ASSUME OneClient, ~AppClears
  PROVE  Spec => []NoEventLost
<1>1. LossInv => NoEventLost
  BY DEF LossInv
<1> QED
  BY <1>1, InitLossInv, NextLossInv, PTL DEF Spec

\* With one client no ping starts with an event that is stateful already, but
\* for those that a process left when it died.
THEOREM PingStatefulOnce ==
  ASSUME OneClient, ~AppClears
  PROVE  Spec => StatefulSentOnce
<1>1. ASSUME LossInv, NEW c \in Client PROVE request[c] \cap stateful \subseteq torn
  BY <1>1 DEF LossInv, IInv, InFlight, StatefulNotPending
<1>2. LossInv /\ [Next]_vars =>
        [\A c \in Client : SendPing(c) => request[c] \cap stateful \subseteq torn]_vars
  BY <1>1
<1> QED
  BY <1>2, InitLossInv, NextLossInv, PTL DEF Spec, StatefulSentOnce
----------------------------------------------------------------------------
(* How often one client is told to ping, when nothing comes between the     *)
(* check of the time and the note of it.                                    *)

WholePings == OneClient /\ Ways = {"whole"} /\ Faults \cap {"lock", "exit"} = {}

\* The stored ping time is no older than the last time a client was told to
\* ping; where there is none, or one in the future, that was long ago.
TimeIsNoted ==
  /\ pingAge = Never \/ pingAge = Ahead => grantAge = NoEventsInterval
  /\ pingAge \in 0..NoEventsInterval => pingAge <= grantAge

RateInv == IInv /\ ((\A c \in Client : pc[c] # "granted") => TimeIsNoted)

LEMMA TimeStep == IInv /\ TimeIsNoted /\ (Tick \/ ClockReset) => TimeIsNoted'
<1> SUFFICES ASSUME IInv, TimeIsNoted, Tick \/ ClockReset PROVE TimeIsNoted'
  OBVIOUS
<1>1. CASE ClockReset
  BY <1>1, PingAssumption DEF ClockReset, TimeIsNoted, Ahead
<1>2. CASE Tick /\ pingAge = Never
  BY <1>2, PingAssumption DEF Tick, TimeIsNoted, Older
<1>3. CASE Tick /\ pingAge # Never
  <2>1. pingAge \in Ahead..NoEventsInterval /\ grantAge \in 0..NoEventsInterval
    BY <1>3 DEF IInv, StoreOK, HistoryOK, Ages
  <2> QED
    BY <1>3, <2>1, PingAssumption DEF Tick, TimeIsNoted, Older, Ahead
<1> QED
  BY <1>1, <1>2, <1>3

LEMMA ClientRateInv ==
  ASSUME WholePings, RateInv, NEW c \in Client,
         ClientStep(c) \/ Network(c) \/ ClientExits(c) \/ ParseCutShort(c)
  PROVE  (\A d \in Client : pc'[d] # "granted") => TimeIsNoted'
<1> USE DEF RateInv
<1>1. CASE CheckTime(c)
  BY <1>1 DEF CheckTime, GoTo, IInv, CallsOK
<1>2. CASE UpdateLastPingTime(c)
  <2>1. pingAge' = 0 /\ grantAge' \in 0..NoEventsInterval
    BY <1>2 DEF UpdateLastPingTime, history, IInv, HistoryOK
  <2> QED
    BY <2>1, PingAssumption DEF TimeIsNoted, Ahead
<1>3. CASE ~CheckTime(c) /\ ~UpdateLastPingTime(c)
  <2>1. call[c].way # "parts"
    <3>1. call[c] \in [way : Ways, skip : BOOLEAN] \/ call[c] = NoCall
      BY DEF IInv, CallsOK
    <3>2. NoCall.way = "none"
      BY DEF NoCall
    <3> QED
      BY <3>1, <3>2 DEF WholePings
  <2>2. pc[c] # "granted"
    BY <1>3, <2>1 DEF WholePings, ClientStep, Network, FormRequest, TooEarly, UpdateFails,
        SendPing, ParsePingResponse, ParseFails, AboutToParse, ServerReceives, PingServer,
        PingFails, ClientExits, ParseCutShort
  <2>3. UNCHANGED <<pingAge, grantAge>>
    BY <1>3 DEF ClientStep, Network, FormRequest, TooEarly, UpdateFails, SendPing,
        ParsePingResponse, ParseFails, ServerReceives, PingServer, PingFails, ClientExits,
        ParseCutShort, store, history
  <2> QED
    BY <2>2, <2>3 DEF WholePings, OneClient, TimeIsNoted
<1> QED
  BY <1>1, <1>2, <1>3

LEMMA NextRateInv ==
  ASSUME WholePings, RateInv, [Next]_vars
  PROVE  RateInv'
<1>1. IInv'
  BY NextIInv DEF RateInv
<1>2. CASE Application
  <2>1. pc' = pc /\ (TimeIsNoted => TimeIsNoted')
    <3>1. CASE ClearProductState \/ ClearLastPingTime
      <4>1. pingAge' = Never /\ grantAge' = NoEventsInterval /\ pc' = pc
        BY <3>1 DEF ClearProductState, ClearLastPingTime
      <4>2. Never \notin 0..NoEventsInterval
        BY PingAssumption
      <4> QED
        BY <4>1, <4>2 DEF TimeIsNoted
    <3>2. CASE ~ClearProductState /\ ~ClearLastPingTime
      <4>1. UNCHANGED <<pingAge, grantAge, pc>>
        BY <1>2, <3>2 DEF Application, RecordProductEvent, ClearProductEvent,
                          ClearAllProductEvents
      <4> QED
        BY <4>1 DEF TimeIsNoted
    <3> QED
      BY <3>1, <3>2
  <2> QED
    BY <1>1, <2>1 DEF RateInv
<1>3. CASE Tick \/ ClockReset
  <2>1. pc' = pc
    BY <1>3 DEF Tick, ClockReset
  <2> QED
    BY <1>1, <1>3, <2>1, TimeStep DEF RateInv
<1>4. CASE UNCHANGED vars
  BY <1>1, <1>4 DEF RateInv, TimeIsNoted, vars
<1>5. ASSUME NEW c \in Client, ClientStep(c) \/ Network(c) \/ ClientExits(c) \/ ParseCutShort(c)
      PROVE  RateInv'
  BY <1>1, <1>5, ClientRateInv DEF RateInv
<1> QED
  BY <1>2, <1>3, <1>4, <1>5 DEF Next

\* A client that is told to ping was not told so within the last day, unless
\* it asked to skip the check and has events to report.
LEMMA GrantedInTime ==
  ASSUME WholePings, RateInv, NEW c \in Client, CheckTime(c)
  PROVE  grantAge >= EventsInterval \/ (call[c].skip /\ events # {})
<1>1. TimeIsNoted
  BY DEF WholePings, OneClient, RateInv, CheckTime
<1>2. CASE pingAge = Never \/ pingAge = Ahead
  BY <1>1, <1>2, PingAssumption DEF TimeIsNoted
<1>3. CASE pingAge \in 0..NoEventsInterval
  <2>1. pingAge # Never /\ pingAge <= grantAge /\ grantAge \in 0..NoEventsInterval
    BY <1>1, <1>3, PingAssumption DEF TimeIsNoted, RateInv, IInv, HistoryOK
  <2> QED
    BY <1>3, <2>1, PingAssumption DEF CheckTime, IsPingTime, EventsAsCgi
<1> QED
  BY <1>2, <1>3 DEF RateInv, IInv, StoreOK, Ages, Ahead

\* With one client that sends its pings whole, and can open the store and
\* stays alive for it, pings are not more frequent than documented.
THEOREM PingNotTooOften ==
  ASSUME WholePings
  PROVE  Spec => PingRate
<1>1. Init => RateInv
  BY InitIInv, PingAssumption DEF Init, RateInv, TimeIsNoted
<1>2. RateInv /\ [Next]_vars =>
        [\A c \in Client : CheckTime(c) =>
           grantAge >= EventsInterval \/ (call[c].skip /\ events # {})]_vars
  BY GrantedInTime
<1> QED
  BY <1>1, <1>2, NextRateInv, PTL DEF Spec, PingRate
=============================================================================
