----------------------------- MODULE ValueStore -----------------------------
(***************************************************************************)
(* What the library promises of the data it keeps, whatever it keeps them  *)
(* in: a call changes the data of the brand in force, of the product and   *)
(* the access points it is given, and nothing else (rlz_lib.h:290-325).    *)
(***************************************************************************)
CONSTANTS Brand, NoBrand, Product, AccessPoint, Event, Value, NoRlz, Time, NoTime

VARIABLES brand, rlz, events, stateful, pingTime

vars == <<brand, rlz, events, stateful, pingTime>>

Brands == Brand \cup {NoBrand}

\* What one product has under one brand.
None == [p \in Product |-> {}]

Init == /\ brand = NoBrand
        /\ rlz = [b \in Brands |-> [point \in AccessPoint |-> NoRlz]]
        /\ events = [b \in Brands |-> None] /\ stateful = [b \in Brands |-> None]
        /\ pingTime = [b \in Brands |-> [p \in Product |-> NoTime]]

\* A scope of a brand begins or ends.  Scopes do not overlap.
Scope(b) == /\ brand' = b /\ NoBrand \in {b, brand}
            /\ UNCHANGED <<rlz, events, stateful, pingTime>>

SetRlz(point, r) ==
  /\ rlz' = [rlz EXCEPT ![brand][point] = r]
  /\ UNCHANGED <<brand, events, stateful, pingTime>>

\* An event that is stateful is not recorded again.
RecordEvent(p, e) ==
  /\ e \notin stateful[brand][p]
  /\ events' = [events EXCEPT ![brand][p] = @ \cup {e}]
  /\ UNCHANGED <<brand, rlz, stateful, pingTime>>

RecordStateful(p, e) ==
  /\ stateful' = [stateful EXCEPT ![brand][p] = @ \cup {e}]
  /\ UNCHANGED <<brand, rlz, events, pingTime>>

ClearEvent(p, e) ==
  /\ events' = [events EXCEPT ![brand][p] = @ \ {e}]
  /\ UNCHANGED <<brand, rlz, stateful, pingTime>>

ClearAllEvents(p) ==
  /\ events' = [events EXCEPT ![brand][p] = {}]
  /\ stateful' = [stateful EXCEPT ![brand][p] = {}]
  /\ UNCHANGED <<brand, rlz, pingTime>>

SetPingTime(p, t) ==
  /\ pingTime' = [pingTime EXCEPT ![brand][p] = t]
  /\ UNCHANGED <<brand, rlz, events, stateful>>

\* All that a product has goes, with the RLZs of the points it takes away.
ClearProduct(p, points) ==
  /\ events' = [events EXCEPT ![brand][p] = {}]
  /\ stateful' = [stateful EXCEPT ![brand][p] = {}]
  /\ pingTime' = [pingTime EXCEPT ![brand][p] = NoTime]
  /\ rlz' = [rlz EXCEPT ![brand] =
               [point \in AccessPoint |-> IF point \in points THEN NoRlz ELSE @[point]]]
  /\ UNCHANGED brand

\* A process that dies meanwhile leaves the rest of it, and takes its brand
\* along.
Dies(p, points) ==
  /\ brand' = NoBrand
  /\ \/ UNCHANGED <<rlz, events, stateful, pingTime>>
     \/ /\ events' = [events EXCEPT ![brand][p] = {}]
        /\ stateful' \in {stateful, [stateful EXCEPT ![brand][p] = {}]}
        /\ pingTime' \in {pingTime, [pingTime EXCEPT ![brand][p] = NoTime]}
        /\ rlz' \in [Brands -> [AccessPoint -> Value \cup {NoRlz}]]
        /\ \A b \in Brands, point \in AccessPoint :
             rlz'[b][point] # rlz[b][point] =>
               b = brand /\ point \in points /\ rlz'[b][point] = NoRlz

Next ==
  \/ \E b \in Brands : Scope(b)
  \/ \E point \in AccessPoint, r \in Value \cup {NoRlz} : SetRlz(point, r)
  \/ \E p \in Product, e \in Event :
       RecordEvent(p, e) \/ RecordStateful(p, e) \/ ClearEvent(p, e)
  \/ \E p \in Product : ClearAllEvents(p)
  \/ \E p \in Product, t \in Time \cup {NoTime} : SetPingTime(p, t)
  \/ \E p \in Product, points \in SUBSET AccessPoint :
       ClearProduct(p, points) \/ Dies(p, points)

Spec == Init /\ [][Next]_vars
=============================================================================
