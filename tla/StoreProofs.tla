---------------------------- MODULE StoreProofs ----------------------------
(***************************************************************************)
(* Either store, with the calls of the library, does what ValueStore       *)
(* promises, call by call.                                                 *)
(***************************************************************************)
EXTENDS LibraryProofs

----------------------------------------------------------------------------
(* What is read from a tree *)

Ev(t, b, s, p) == Names(t, EventsPath(b, s, p))
Pg(t, b, p) == ValueOr(t, PingPath(b, p), PingName(p), NoTime)

\* The places of two sorts of data differ, and where the events of a product
\* are there is nothing else below.
LEMMA Places ==
  ASSUME NEW s \in EventType, NEW b \in Brands, NEW p \in Product, NEW path,
         path = EventsPath(b, s, p)
  PROVE  /\ \A u \in EventType, c \in Brands, q \in Product :
              path = EventsPath(c, u, q) <=> s = u /\ b = c /\ p = q
         /\ \A c \in Brands, q \in Product : path # PingPath(c, q)
         /\ \A c \in Brands : path # RlzPath(c)
         /\ \A u \in EventType, c \in Brands, q \in Product :
              ~IsStrictPrefix(path, EventsPath(c, u, q)) /\ ~IsStrictPrefix(path, PingPath(c, q))
         /\ \A c \in Brands : ~IsStrictPrefix(path, RlzPath(c))
<1>1. /\ \A u \in EventType, c \in Brands, q \in Product :
           path = EventsPath(c, u, q) => s = u /\ b = c /\ p = q
      /\ \A c \in Brands, q \in Product : path # PingPath(c, q) /\ path # RlzPath(c)
  BY PathsDiffer
<1>2. \A u \in EventType, c \in Brands, q \in Product :
        /\ ~IsStrictPrefix(path, EventsPath(c, u, q)) /\ ~IsStrictPrefix(path, PingPath(c, q))
        /\ ~IsStrictPrefix(path, RlzPath(c))
  BY PathsDiffer
<1> QED
  BY <1>1, <1>2

LEMMA PingPlaces ==
  ASSUME NEW b \in Brands, NEW p \in Product
  PROVE  /\ \A c \in Brands, q \in Product :
              PingPath(c, q) = PingPath(b, p) /\ PingName(q) = PingName(p) <=> b = c /\ p = q
         /\ \A s \in EventType, c \in Brands, q \in Product : EventsPath(c, s, q) # PingPath(b, p)
         /\ \A c \in Brands : RlzPath(c) # PingPath(b, p)
         /\ \A c \in Brands, q \in Product : PingPath(c, q) # RlzPath(b)
         /\ \A s \in EventType, c \in Brands, q \in Product : EventsPath(c, s, q) # RlzPath(b)
         /\ \A c \in Brands : RlzPath(c) = RlzPath(b) <=> b = c
<1>1. "Events" \in EventType
  BY DEF EventType
<1>2. \A c \in Brands, q \in Product :
        PingPath(c, q) = PingPath(b, p) /\ PingName(q) = PingName(p) => b = c /\ p = q
  BY <1>1, PathsDiffer
<1>3. \A s \in EventType, c \in Brands, q \in Product :
        EventsPath(c, s, q) # PingPath(b, p) /\ EventsPath(c, s, q) # RlzPath(b)
  BY PathsDiffer
<1>4. \A c \in Brands, q \in Product : PingPath(c, q) # RlzPath(b)
  BY <1>1, PathsDiffer
<1>5. \A c \in Brands : RlzPath(c) # PingPath(b, p) /\ (RlzPath(c) = RlzPath(b) => b = c)
  BY <1>1, PathsDiffer
<1> QED
  BY <1>2, <1>3, <1>4, <1>5

LEMMA PathsProper ==
  ASSUME NEW b \in Brands, NEW p \in Product
  PROVE  /\ \A s \in EventType : Proper(EventsPath(b, s, p))
         /\ Proper(PingPath(b, p)) /\ Proper(RlzPath(b))
<1>1. Neighbours({}) /\ "Events" \in EventType
  BY DEF Neighbours, EventType
<1>2. \A s \in EventType :
        OwnPath(EventsPath(b, s, p), {}) /\ OwnPath(PingPath(b, p), {}) /\ OwnPath(RlzPath(b), {})
  BY <1>1, PathsOwn
<1> QED
  BY <1>1, <1>2 DEF OwnPath

\* The data of the trees t and u do not differ.
SameEvents(t, u) ==
  \A b \in Brands, s \in EventType, p \in Product : Ev(u, b, s, p) = Ev(t, b, s, p)
SamePings(t, u) == \A b \in Brands, p \in Product : Pg(u, b, p) = Pg(t, b, p)
SameRlzs(t, u) == \A b \in Brands, point \in AccessPoint : Stored(u, b, point) = Stored(t, b, point)
SameData(t, u) == SameEvents(t, u) /\ SamePings(t, u) /\ SameRlzs(t, u)

LEMMA SameWithSame ==
  ASSUME NEW t, NEW u, \A key : Names(u, key) = Names(t, key),
         \A key, n, d : ValueOr(u, key, n, d) = ValueOr(t, key, n, d)
  PROVE  SameData(t, u)
BY DEF SameData, SameEvents, SamePings, SameRlzs, Ev, Pg, Stored

LEMMA CreatedSame ==
  ASSUME NEW t, NEW path
  PROVE  SameData(t, Created(t, path))
<1>1. /\ \A key : Names(Created(t, path), key) = Names(t, key)
      /\ \A key, n, d : ValueOr(Created(t, path), key, n, d) = ValueOr(t, key, n, d)
  BY CreatedTree
<1> QED
  BY <1>1, SameWithSame

LEMMA SameAgain ==
  ASSUME NEW t, NEW u, NEW v, SameData(t, u), SameData(u, v)
  PROVE  SameData(t, v)
BY DEF SameData, SameEvents, SamePings, SameRlzs

\* Garbage collection deletes no data of any brand.
LEMMA CollectedSame ==
  ASSUME NEW t, NEW b, NEW n
  PROVE  SameData(t, Win!CollectedUpTo(t, b, n))
<1>1. \A u, i : SameData(u, Step(u, b, i, n))
  <2>1. \A u, path : SameData(u, Delete(u, path))
    BY DeleteOne, SameWithSame
  <2>2. \A u : SameData(u, u)
    BY SameWithSame
  <2> QED
    BY <2>1, <2>2 DEF Step
<1>2. \A u, i : SameData(t, u) => SameData(t, Step(u, b, i, n))
  BY <1>1, SameAgain
<1>3. SameData(t, t)
  BY SameWithSame
<1> QED
  BY <1>2, <1>3, CollectedInSteps

\* An event is added.
LEMMA EventAdded ==
  ASSUME brand \in Brands, NEW s \in EventType, NEW p \in Product, NEW e, NEW t,
         NEW u, u = AddEvent(t, s, p, e)
  PROVE  /\ SamePings(t, u) /\ SameRlzs(t, u)
         /\ \A b \in Brands, k \in EventType, q \in Product :
              Ev(u, b, k, q) =
                IF b = brand /\ k = s /\ q = p THEN Ev(t, b, k, q) \cup {e} ELSE Ev(t, b, k, q)
<1>1. PICK path : path = EventsPath(brand, s, p)
  OBVIOUS
<1>2. Proper(path)
  BY <1>1, PathsProper
<1>3. u = WithValue(t, path, e, 1)
  BY <1>1, Operations
<1>4. \A key : Names(u, key) = Names(t, key) \cup (IF key = path THEN {e} ELSE {})
  BY <1>2, <1>3, WithValueNames
<1>5. \A key, n, d : ValueOr(u, key, n, d) =
                       IF key = path /\ n = e THEN 1 ELSE ValueOr(t, key, n, d)
  BY <1>2, <1>3, WithValueOr
<1>6. \A k \in EventType, b \in Brands, q \in Product :
        EventsPath(b, k, q) = path <=> k = s /\ b = brand /\ q = p
  BY <1>1, Places
<1>7. /\ \A b \in Brands, q \in Product : PingPath(b, q) # path
      /\ \A b \in Brands : RlzPath(b) # path
  BY <1>1, Places
<1>8. SamePings(t, u) /\ SameRlzs(t, u)
  BY <1>5, <1>7 DEF SamePings, SameRlzs, Pg, Stored
<1>9. \A b \in Brands, k \in EventType, q \in Product :
        Ev(u, b, k, q) =
          IF b = brand /\ k = s /\ q = p THEN Ev(t, b, k, q) \cup {e} ELSE Ev(t, b, k, q)
  BY <1>4, <1>6 DEF Ev
<1> QED
  BY <1>8, <1>9

\* The events of a product are deleted.
LEMMA EventsGone ==
  ASSUME brand \in Brands, NEW s \in EventType, NEW p \in Product, NEW t,
         NEW u, u = ClearEvents(t, s, p)
  PROVE  /\ SamePings(t, u) /\ SameRlzs(t, u)
         /\ \A b \in Brands, k \in EventType, q \in Product :
              Ev(u, b, k, q) = IF b = brand /\ k = s /\ q = p THEN {} ELSE Ev(t, b, k, q)
<1>1. PICK path : path = EventsPath(brand, s, p)
  OBVIOUS
<1> DEFINE c == Created(t, ClearPath(brand, s, p))
           v == WithoutKey(c, path)
           Gone(key) == key = path \/ IsStrictPrefix(path, key)
<1>2. SameData(t, c)
  BY CreatedSame
<1>3. /\ DOMAIN v = {key \in DOMAIN c : ~Gone(key)}
      /\ \A key : Names(v, key) = IF Gone(key) THEN {} ELSE Names(c, key)
      /\ \A key, n, d : ValueOr(v, key, n, d) = IF Gone(key) THEN d ELSE ValueOr(c, key, n, d)
  BY WithoutKeyTree
<1>4. u = v
  BY <1>1, Operations
<1>5. \A k \in EventType, b \in Brands, q \in Product :
        Gone(EventsPath(b, k, q)) <=> k = s /\ b = brand /\ q = p
  BY <1>1, Places
<1>6. /\ \A b \in Brands, q \in Product : ~Gone(PingPath(b, q))
      /\ \A b \in Brands : ~Gone(RlzPath(b))
  BY <1>1, Places
<1> HIDE DEF c, v, Gone
<1>7. SamePings(t, u) /\ SameRlzs(t, u)
  BY <1>2, <1>3, <1>4, <1>6 DEF SameData, SamePings, SameRlzs, Pg, Stored
<1>8. \A b \in Brands, k \in EventType, q \in Product :
        Ev(u, b, k, q) = IF b = brand /\ k = s /\ q = p THEN {} ELSE Ev(t, b, k, q)
  <2>1. SameEvents(t, c)
    BY <1>2 DEF SameData
  <2>2. \A key : Names(u, key) = IF Gone(key) THEN {} ELSE Names(c, key)
    BY <1>3, <1>4
  <2> QED
    BY <1>5, <2>1, <2>2 DEF SameEvents, Ev
<1> QED
  BY <1>7, <1>8

\* Values are deleted in a key that is created for it.
LEMMA ValuesGone ==
  ASSUME NEW t, NEW above, NEW path, NEW names,
         NEW u, u = WithoutValues(Created(t, above), path, names)
  PROVE  /\ \A key : Names(u, key) = Names(t, key) \ (IF key = path THEN names ELSE {})
         /\ \A key, n, d : ValueOr(u, key, n, d) =
              IF key = path /\ n \in names THEN d ELSE ValueOr(t, key, n, d)
<1> DEFINE c == Created(t, above)
<1>1. u = WithoutValues(c, path, names)
  OBVIOUS
<1>2. /\ \A key : Names(c, key) = Names(t, key)
      /\ \A key, n, d : ValueOr(c, key, n, d) = ValueOr(t, key, n, d)
  BY CreatedTree
<1> HIDE DEF c
<1> DEFINE v == WithoutValues(c, path, names)
<1>3. /\ DOMAIN v = DOMAIN c
      /\ \A key : Names(v, key) = Names(c, key) \ (IF key = path THEN names ELSE {})
      /\ \A key, n, d : ValueOr(v, key, n, d) =
           IF key = path /\ n \in names THEN d ELSE ValueOr(c, key, n, d)
  BY WithoutValuesTree
<1>4. u = v
  BY <1>1
<1> HIDE DEF v
<1> QED
  BY <1>2, <1>3, <1>4

\* The ping time of a product is deleted, or written.
LEMMA PingGone ==
  ASSUME brand \in Brands, NEW p \in Product, NEW t, NEW u, u = ClearPingTime(t, p)
  PROVE  /\ SameEvents(t, u) /\ SameRlzs(t, u)
         /\ \A b \in Brands, q \in Product :
              Pg(u, b, q) = IF b = brand /\ q = p THEN NoTime ELSE Pg(t, b, q)
<1>1. PICK path : path = PingPath(brand, p)
  OBVIOUS
<1>2. PICK name : name = PingName(p)
  OBVIOUS
<1>3. u = WithoutValues(Created(t, path), path, {name})
  BY <1>1, <1>2, Operations
<1>4. \A key : Names(u, key) = Names(t, key) \ (IF key = path THEN {name} ELSE {})
  BY <1>3, ValuesGone
<1>5. \A key, n, d : ValueOr(u, key, n, d) =
                       IF key = path /\ n \in {name} THEN d ELSE ValueOr(t, key, n, d)
  BY <1>3, ValuesGone
<1>6. /\ \A b \in Brands, q \in Product :
           PingPath(b, q) = path /\ PingName(q) = name <=> b = brand /\ q = p
      /\ \A s \in EventType, b \in Brands, q \in Product : EventsPath(b, s, q) # path
      /\ \A b \in Brands : RlzPath(b) # path
  BY <1>1, <1>2, PingPlaces
<1>7. SameEvents(t, u)
  BY <1>4, <1>6 DEF SameEvents, Ev
<1>8. SameRlzs(t, u)
  BY <1>5, <1>6 DEF SameRlzs, Stored
<1>9. \A b \in Brands, q \in Product :
        Pg(u, b, q) = IF b = brand /\ q = p THEN NoTime ELSE Pg(t, b, q)
  BY <1>5, <1>6 DEF Pg
<1> QED
  BY <1>7, <1>8, <1>9

LEMMA PingWritten ==
  ASSUME brand \in Brands, NEW p \in Product, NEW time, NEW t,
         NEW u, u = WithValue(t, PingPath(brand, p), PingName(p), time)
  PROVE  /\ SameEvents(t, u) /\ SameRlzs(t, u)
         /\ \A b \in Brands, q \in Product :
              Pg(u, b, q) = IF b = brand /\ q = p THEN time ELSE Pg(t, b, q)
<1>1. PICK path : path = PingPath(brand, p)
  OBVIOUS
<1>2. PICK name : name = PingName(p)
  OBVIOUS
<1>3. Proper(path)
  BY <1>1, PathsProper
<1>4. \A key : Names(u, key) = Names(t, key) \cup (IF key = path THEN {name} ELSE {})
  BY <1>1, <1>2, <1>3, WithValueNames
<1>5. \A key, n, d : ValueOr(u, key, n, d) =
                       IF key = path /\ n = name THEN time ELSE ValueOr(t, key, n, d)
  BY <1>1, <1>2, <1>3, WithValueOr
<1>6. /\ \A b \in Brands, q \in Product :
           PingPath(b, q) = path /\ PingName(q) = name <=> b = brand /\ q = p
      /\ \A s \in EventType, b \in Brands, q \in Product : EventsPath(b, s, q) # path
      /\ \A b \in Brands : RlzPath(b) # path
  BY <1>1, <1>2, PingPlaces
<1>7. SameEvents(t, u)
  BY <1>4, <1>6 DEF SameEvents, Ev
<1>8. SameRlzs(t, u)
  BY <1>5, <1>6 DEF SameRlzs, Stored
<1>9. \A b \in Brands, q \in Product :
        Pg(u, b, q) = IF b = brand /\ q = p THEN time ELSE Pg(t, b, q)
  BY <1>5, <1>6 DEF Pg
<1> QED
  BY <1>7, <1>8, <1>9

\* RLZs are deleted, or one is written.
LEMMA RlzsGone ==
  ASSUME brand \in Brands, NEW points \in SUBSET AccessPoint, NEW t, NEW u, u = RlzsCleared(t, points)
  PROVE  /\ SameEvents(t, u) /\ SamePings(t, u)
         /\ \A b \in Brands, point \in AccessPoint :
              Stored(u, b, point) = IF b = brand /\ point \in points THEN <<>> ELSE Stored(t, b, point)
<1>1. CASE points = {}
  BY <1>1 DEF RlzsCleared, SameEvents, SamePings
<1>2. CASE points # {}
  <2>1. PICK path : path = RlzPath(brand)
    OBVIOUS
  <2>2. u = WithoutValues(Created(t, ClearRlzPath(brand)), path, points)
    BY <1>2, <2>1, Operations DEF RlzsCleared
  <2>3. \A key : Names(u, key) = Names(t, key) \ (IF key = path THEN points ELSE {})
    BY <2>2, ValuesGone
  <2>4. \A key, n, d : ValueOr(u, key, n, d) =
                         IF key = path /\ n \in points THEN d ELSE ValueOr(t, key, n, d)
    BY <2>2, ValuesGone
  <2>5. PICK p : p \in Product
    BY LibraryAssumption
  <2>6. /\ \A b \in Brands, q \in Product : PingPath(b, q) # path
        /\ \A s \in EventType, b \in Brands, q \in Product : EventsPath(b, s, q) # path
        /\ \A b \in Brands : RlzPath(b) = path <=> b = brand
    BY <2>1, <2>5, PingPlaces
  <2>7. SameEvents(t, u)
    BY <2>3, <2>6 DEF SameEvents, Ev
  <2>8. SamePings(t, u)
    BY <2>4, <2>6 DEF SamePings, Pg
  <2>9. \A b \in Brands, point \in AccessPoint :
          Stored(u, b, point) = IF b = brand /\ point \in points THEN <<>> ELSE Stored(t, b, point)
    BY <2>4, <2>6 DEF Stored
  <2> QED
    BY <2>7, <2>8, <2>9
<1> QED
  BY <1>1, <1>2

LEMMA RlzWritten ==
  ASSUME brand \in Brands, NEW at \in AccessPoint, NEW r, NEW t,
         NEW u, u = WithValue(t, RlzPath(brand), at, r)
  PROVE  /\ SameEvents(t, u) /\ SamePings(t, u)
         /\ \A b \in Brands, point \in AccessPoint :
              Stored(u, b, point) = IF b = brand /\ point = at THEN r ELSE Stored(t, b, point)
<1>1. PICK path : path = RlzPath(brand)
  OBVIOUS
<1>2. PICK p : p \in Product
  BY LibraryAssumption
<1>3. Proper(path)
  BY <1>1, <1>2, PathsProper
<1>4. \A key : Names(u, key) = Names(t, key) \cup (IF key = path THEN {at} ELSE {})
  BY <1>1, <1>3, WithValueNames
<1>5. \A key, n, d : ValueOr(u, key, n, d) =
                       IF key = path /\ n = at THEN r ELSE ValueOr(t, key, n, d)
  BY <1>1, <1>3, WithValueOr
<1>6. /\ \A b \in Brands, q \in Product : PingPath(b, q) # path
      /\ \A s \in EventType, b \in Brands, q \in Product : EventsPath(b, s, q) # path
      /\ \A b \in Brands : RlzPath(b) = path <=> b = brand
  BY <1>1, <1>2, PingPlaces
<1>7. SameEvents(t, u)
  BY <1>4, <1>6 DEF SameEvents, Ev
<1>8. SamePings(t, u)
  BY <1>5, <1>6 DEF SamePings, Pg
<1>9. \A b \in Brands, point \in AccessPoint :
        Stored(u, b, point) = IF b = brand /\ point = at THEN r ELSE Stored(t, b, point)
  BY <1>5, <1>6 DEF Stored
<1> QED
  BY <1>7, <1>8, <1>9

\* One event of a product is deleted.
LEMMA EventGone ==
  ASSUME brand \in Brands, NEW p \in Product, NEW names, NEW t, NEW above,
         NEW path, path = EventsPath(brand, "Events", p),
         NEW u, u = WithoutValues(Created(t, above), path, names)
  PROVE  /\ SamePings(t, u) /\ SameRlzs(t, u)
         /\ \A b \in Brands, k \in EventType, q \in Product :
              Ev(u, b, k, q) =
                IF b = brand /\ k = "Events" /\ q = p THEN Ev(t, b, k, q) \ names
                ELSE Ev(t, b, k, q)
<1>1. "Events" \in EventType
  BY DEF EventType
<1>2. \A key : Names(u, key) = Names(t, key) \ (IF key = path THEN names ELSE {})
  BY ValuesGone
<1>3. \A key, n, d : ValueOr(u, key, n, d) =
                       IF key = path /\ n \in names THEN d ELSE ValueOr(t, key, n, d)
  BY ValuesGone
<1>4. \A k \in EventType, b \in Brands, q \in Product :
        EventsPath(b, k, q) = path <=> k = "Events" /\ b = brand /\ q = p
  BY <1>1, Places
<1>5. /\ \A b \in Brands, q \in Product : PingPath(b, q) # path
      /\ \A b \in Brands : RlzPath(b) # path
  BY <1>1, Places
<1>6. SamePings(t, u) /\ SameRlzs(t, u)
  BY <1>3, <1>5 DEF SamePings, SameRlzs, Pg, Stored
<1>7. \A b \in Brands, k \in EventType, q \in Product :
        Ev(u, b, k, q) =
          IF b = brand /\ k = "Events" /\ q = p THEN Ev(t, b, k, q) \ names ELSE Ev(t, b, k, q)
  BY <1>2, <1>4 DEF Ev
<1> QED
  BY <1>6, <1>7

\* All events of a product are deleted, and all that it has.
LEMMA AllEventsGone ==
  ASSUME brand \in Brands, NEW p \in Product, NEW t, NEW u, u = AllEventsCleared(t, p)
  PROVE  /\ SamePings(t, u) /\ SameRlzs(t, u)
         /\ \A b \in Brands, k \in EventType, q \in Product :
              Ev(u, b, k, q) = IF b = brand /\ q = p THEN {} ELSE Ev(t, b, k, q)
<1>1. "Events" \in EventType /\ "StatefulEvents" \in EventType
      /\ \A k \in EventType : k = "Events" \/ k = "StatefulEvents"
  BY DEF EventType
<1>2. PICK v : v = ClearEvents(t, "Events", p)
  OBVIOUS
<1>3. u = ClearEvents(v, "StatefulEvents", p)
  BY <1>2 DEF AllEventsCleared
<1>4. /\ SamePings(t, v) /\ SameRlzs(t, v)
      /\ \A b \in Brands, k \in EventType, q \in Product :
           Ev(v, b, k, q) = IF b = brand /\ k = "Events" /\ q = p THEN {} ELSE Ev(t, b, k, q)
  BY <1>1, <1>2, EventsGone
<1>5. /\ SamePings(v, u) /\ SameRlzs(v, u)
      /\ \A b \in Brands, k \in EventType, q \in Product :
           Ev(u, b, k, q) = IF b = brand /\ k = "StatefulEvents" /\ q = p THEN {} ELSE Ev(v, b, k, q)
  BY <1>1, <1>3, EventsGone
<1>6. SamePings(t, u) /\ SameRlzs(t, u)
  BY <1>4, <1>5 DEF SamePings, SameRlzs
<1>7. \A b \in Brands, k \in EventType, q \in Product :
        Ev(u, b, k, q) = IF b = brand /\ q = p THEN {} ELSE Ev(t, b, k, q)
  BY <1>1, <1>4, <1>5
<1> QED
  BY <1>6, <1>7

(* What clearing a product leaves of t: nothing of the product, and no RLZ string at the points. *)
ProductIsGone(t, u, p, points) ==
  /\ \A b \in Brands, k \in EventType, q \in Product :
       Ev(u, b, k, q) = IF b = brand /\ q = p THEN {} ELSE Ev(t, b, k, q)
  /\ \A b \in Brands, q \in Product :
       Pg(u, b, q) = IF b = brand /\ q = p THEN NoTime ELSE Pg(t, b, q)
  /\ \A b \in Brands, point \in AccessPoint :
       Stored(u, b, point) = IF b = brand /\ point \in points THEN <<>> ELSE Stored(t, b, point)

LEMMA ProductGone ==
  ASSUME brand \in Brands, NEW p \in Product, NEW points \in SUBSET AccessPoint, NEW t,
         NEW u, SameData(StateCleared(t, p, points), u)
  PROVE  ProductIsGone(t, u, p, points)
<1>1. PICK v : v = AllEventsCleared(t, p)
  OBVIOUS
<1>2. PICK w : w = ClearPingTime(v, p)
  OBVIOUS
<1>3. PICK x : x = RlzsCleared(w, points)
  OBVIOUS
<1>4. SameData(x, u)
  BY <1>1, <1>2, <1>3 DEF StateCleared
<1>5. /\ SamePings(t, v) /\ SameRlzs(t, v)
      /\ \A b \in Brands, k \in EventType, q \in Product :
           Ev(v, b, k, q) = IF b = brand /\ q = p THEN {} ELSE Ev(t, b, k, q)
  BY <1>1, AllEventsGone
<1>6. /\ SameEvents(v, w) /\ SameRlzs(v, w)
      /\ \A b \in Brands, q \in Product :
           Pg(w, b, q) = IF b = brand /\ q = p THEN NoTime ELSE Pg(v, b, q)
  BY <1>2, PingGone
<1>7. /\ SameEvents(w, x) /\ SamePings(w, x)
      /\ \A b \in Brands, point \in AccessPoint :
           Stored(x, b, point) = IF b = brand /\ point \in points THEN <<>> ELSE Stored(w, b, point)
  BY <1>3, RlzsGone
<1>8. \A b \in Brands, k \in EventType, q \in Product :
        Ev(u, b, k, q) = IF b = brand /\ q = p THEN {} ELSE Ev(t, b, k, q)
  BY <1>4, <1>5, <1>6, <1>7 DEF SameData, SameEvents
<1>9. \A b \in Brands, q \in Product :
        Pg(u, b, q) = IF b = brand /\ q = p THEN NoTime ELSE Pg(t, b, q)
  BY <1>4, <1>5, <1>6, <1>7 DEF SameData, SamePings
<1>10. \A b \in Brands, point \in AccessPoint :
         Stored(u, b, point) = IF b = brand /\ point \in points THEN <<>> ELSE Stored(t, b, point)
  BY <1>4, <1>5, <1>6, <1>7 DEF SameData, SameRlzs
<1> QED
  BY <1>8, <1>9, <1>10 DEF ProductIsGone

----------------------------------------------------------------------------
(* The variables of ValueStore *)

rlzNow == [b \in Brands |-> [point \in AccessPoint |-> ReadRlz(tree, b, point)]]
eventsNow == [b \in Brands |-> [p \in Product |-> ReadEvents(tree, b, "Events", p)]]
statefulNow == [b \in Brands |-> [p \in Product |-> ReadEvents(tree, b, "StatefulEvents", p)]]
pingTimeNow == [b \in Brands |-> [p \in Product |-> ReadPingTime(tree, b, p)]]

EventsOf(t, s) == [b \in Brands |-> [p \in Product |-> Ev(t, b, s, p)]]
PingsOf(t) == [b \in Brands |-> [p \in Product |-> Pg(t, b, p)]]
RlzsOf(t) == [b \in Brands |-> [point \in AccessPoint |-> Stored(t, b, point)]]

\* What is stored is normalised, hence short enough for the buffer of the
\* registry store.
LEMMA StoredRead ==
  ASSUME NEW o, NEW t, Fine(t, o), NEW b \in Brands, NEW point \in AccessPoint
  PROVE  Stored(t, b, point) \in StoredRlz /\ ReadRlz(t, b, point) = Stored(t, b, point)
<1>1. PICK r : r = Stored(t, b, point)
  OBVIOUS
<1>2. r \in StoredRlz
  <2>1. CASE point \in Names(t, RlzPath(b))
    BY <1>1, <2>1 DEF Fine, Stored
  <2>2. CASE point \notin Names(t, RlzPath(b))
    <3>1. r = <<>>
      BY <1>1, <2>2 DEF Stored, ValueOr
    <3>2. <<>> \in [1..0 -> GoodChar] /\ 0 \in 0..MaxRlzLength
      BY RlzAssumption
    <3> QED
      BY <3>1, <3>2 DEF StoredRlz
  <2> QED
    BY <2>1, <2>2
<1>3. PICK n \in 0..MaxRlzLength : r \in [1..n -> GoodChar]
  BY <1>2 DEF StoredRlz
<1>4. r \in Seq(GoodChar) /\ Len(r) = n
  BY <1>3
<1>5. Win!RegKeyReadValue(r, MaxRlzLength + 1) = r
  <2>1. Win!RegKeyReadValue(r, MaxRlzLength + 1) = SubSeq(r, 1, Len(r))
    BY <1>3, <1>4, RlzAssumption DEF Win!RegKeyReadValue, Win!Lesser
  <2>2. SubSeq(r, 1, Len(r)) = r
    BY <1>4
  <2> QED
    BY <2>1, <2>2
<1> QED
  BY <1>1, <1>2, <1>5, Reads

LEMMA NowIs ==
  ASSUME NEW o, Fine(tree, o)
  PROVE  /\ rlzNow = RlzsOf(tree) /\ eventsNow = EventsOf(tree, "Events")
         /\ statefulNow = EventsOf(tree, "StatefulEvents") /\ pingTimeNow = PingsOf(tree)
<1>1. rlzNow = RlzsOf(tree)
  BY StoredRead DEF rlzNow, RlzsOf
<1>2. eventsNow = EventsOf(tree, "Events") /\ statefulNow = EventsOf(tree, "StatefulEvents")
  BY Reads DEF eventsNow, statefulNow, EventsOf, Ev
<1>3. pingTimeNow = PingsOf(tree)
  BY Reads DEF pingTimeNow, PingsOf, Pg
<1> QED
  BY <1>1, <1>2, <1>3

LEMMA NextIs ==
  ASSUME build' = build, NEW o, Fine(tree', o)
  PROVE  /\ rlzNow' = RlzsOf(tree') /\ eventsNow' = EventsOf(tree', "Events")
         /\ statefulNow' = EventsOf(tree', "StatefulEvents") /\ pingTimeNow' = PingsOf(tree')
<1>1. rlzNow' = [b \in Brands |-> [point \in AccessPoint |-> ReadRlz(tree', b, point)]]
  BY DEF rlzNow, ReadRlz, OnWin, Brands
<1>2. rlzNow' = RlzsOf(tree')
  BY <1>1, StoredRead DEF RlzsOf
<1>3. eventsNow' = [b \in Brands |-> [p \in Product |-> ReadEvents(tree', b, "Events", p)]]
  BY DEF eventsNow, ReadEvents, OnWin, Brands
<1>4. statefulNow' = [b \in Brands |-> [p \in Product |-> ReadEvents(tree', b, "StatefulEvents", p)]]
  BY DEF statefulNow, ReadEvents, OnWin, Brands
<1>5. eventsNow' = EventsOf(tree', "Events") /\ statefulNow' = EventsOf(tree', "StatefulEvents")
  BY <1>3, <1>4, Reads DEF EventsOf, Ev
<1>6. pingTimeNow' = [b \in Brands |-> [p \in Product |-> ReadPingTime(tree', b, p)]]
  BY DEF pingTimeNow, ReadPingTime, OnWin, Brands
<1>7. pingTimeNow' = PingsOf(tree')
  BY <1>6, Reads DEF PingsOf, Pg
<1> QED
  BY <1>2, <1>5, <1>7

\* The actions of ValueStore, over these variables.
LEMMA Promised ==
  /\ Store!Brands = Brands
  /\ Store!vars = <<brand, rlzNow, eventsNow, statefulNow, pingTimeNow>>
  /\ \A b : Store!Scope(b) <=> /\ brand' = b /\ NoBrand \in {b, brand}
                               /\ UNCHANGED <<rlzNow, eventsNow, statefulNow, pingTimeNow>>
  /\ \A point, r : Store!SetRlz(point, r) <=>
       /\ rlzNow' = [rlzNow EXCEPT ![brand][point] = r]
       /\ UNCHANGED <<brand, eventsNow, statefulNow, pingTimeNow>>
  /\ \A p, e : Store!RecordEvent(p, e) <=>
       /\ e \notin statefulNow[brand][p]
       /\ eventsNow' = [eventsNow EXCEPT ![brand][p] = @ \cup {e}]
       /\ UNCHANGED <<brand, rlzNow, statefulNow, pingTimeNow>>
  /\ \A p, e : Store!RecordStateful(p, e) <=>
       /\ statefulNow' = [statefulNow EXCEPT ![brand][p] = @ \cup {e}]
       /\ UNCHANGED <<brand, rlzNow, eventsNow, pingTimeNow>>
  /\ \A p, e : Store!ClearEvent(p, e) <=>
       /\ eventsNow' = [eventsNow EXCEPT ![brand][p] = @ \ {e}]
       /\ UNCHANGED <<brand, rlzNow, statefulNow, pingTimeNow>>
  /\ \A p : Store!ClearAllEvents(p) <=>
       /\ eventsNow' = [eventsNow EXCEPT ![brand][p] = {}]
       /\ statefulNow' = [statefulNow EXCEPT ![brand][p] = {}]
       /\ UNCHANGED <<brand, rlzNow, pingTimeNow>>
  /\ \A p, time : Store!SetPingTime(p, time) <=>
       /\ pingTimeNow' = [pingTimeNow EXCEPT ![brand][p] = time]
       /\ UNCHANGED <<brand, rlzNow, eventsNow, statefulNow>>
<1>1. Store!Brands = Brands
  BY DEF Store!Brands, Brands
<1>2. Store!vars = <<brand, rlzNow, eventsNow, statefulNow, pingTimeNow>>
  BY DEF Store!vars, rlzNow, eventsNow, statefulNow, pingTimeNow
<1>3. \A b : Store!Scope(b) <=> /\ brand' = b /\ NoBrand \in {b, brand}
                                /\ UNCHANGED <<rlzNow, eventsNow, statefulNow, pingTimeNow>>
  BY DEF Store!Scope, rlzNow, eventsNow, statefulNow, pingTimeNow
<1>4. \A point, r : Store!SetRlz(point, r) <=>
        /\ rlzNow' = [rlzNow EXCEPT ![brand][point] = r]
        /\ UNCHANGED <<brand, eventsNow, statefulNow, pingTimeNow>>
  BY DEF Store!SetRlz, rlzNow, eventsNow, statefulNow, pingTimeNow
<1>5. \A p, e : Store!RecordEvent(p, e) <=>
        /\ e \notin statefulNow[brand][p]
        /\ eventsNow' = [eventsNow EXCEPT ![brand][p] = @ \cup {e}]
        /\ UNCHANGED <<brand, rlzNow, statefulNow, pingTimeNow>>
  BY DEF Store!RecordEvent, rlzNow, eventsNow, statefulNow, pingTimeNow
<1>6. \A p, e : Store!RecordStateful(p, e) <=>
        /\ statefulNow' = [statefulNow EXCEPT ![brand][p] = @ \cup {e}]
        /\ UNCHANGED <<brand, rlzNow, eventsNow, pingTimeNow>>
  BY DEF Store!RecordStateful, rlzNow, eventsNow, statefulNow, pingTimeNow
<1>7. \A p, e : Store!ClearEvent(p, e) <=>
        /\ eventsNow' = [eventsNow EXCEPT ![brand][p] = @ \ {e}]
        /\ UNCHANGED <<brand, rlzNow, statefulNow, pingTimeNow>>
  BY DEF Store!ClearEvent, rlzNow, eventsNow, statefulNow, pingTimeNow
<1>8. \A p : Store!ClearAllEvents(p) <=>
        /\ eventsNow' = [eventsNow EXCEPT ![brand][p] = {}]
        /\ statefulNow' = [statefulNow EXCEPT ![brand][p] = {}]
        /\ UNCHANGED <<brand, rlzNow, pingTimeNow>>
  BY DEF Store!ClearAllEvents, rlzNow, eventsNow, statefulNow, pingTimeNow
<1>9. \A p, time : Store!SetPingTime(p, time) <=>
        /\ pingTimeNow' = [pingTimeNow EXCEPT ![brand][p] = time]
        /\ UNCHANGED <<brand, rlzNow, eventsNow, statefulNow>>
  BY DEF Store!SetPingTime, rlzNow, eventsNow, statefulNow, pingTimeNow
<1> QED
  BY <1>1, <1>2, <1>3, <1>4, <1>5, <1>6, <1>7, <1>8, <1>9

LEMMA PromisedClear ==
  ASSUME NEW p, NEW points
  PROVE  Store!ClearProduct(p, points) <=>
           /\ eventsNow' = [eventsNow EXCEPT ![brand][p] = {}]
           /\ statefulNow' = [statefulNow EXCEPT ![brand][p] = {}]
           /\ pingTimeNow' = [pingTimeNow EXCEPT ![brand][p] = NoTime]
           /\ rlzNow' = [rlzNow EXCEPT ![brand] =
                [point \in AccessPoint |-> IF point \in points THEN <<>> ELSE @[point]]]
           /\ UNCHANGED brand
BY DEF Store!ClearProduct, rlzNow, eventsNow, statefulNow, pingTimeNow

LEMMA PromisedDies ==
  ASSUME NEW p, NEW points, brand' = NoBrand,
         eventsNow' = [eventsNow EXCEPT ![brand][p] = {}],
         statefulNow' \in {statefulNow, [statefulNow EXCEPT ![brand][p] = {}]},
         pingTimeNow' \in {pingTimeNow, [pingTimeNow EXCEPT ![brand][p] = NoTime]},
         rlzNow' \in [Brands -> [AccessPoint -> (StoredRlz \ {<<>>}) \cup {<<>>}]],
         \A b \in Brands, point \in AccessPoint :
           rlzNow'[b][point] # rlzNow[b][point] =>
             b = brand /\ point \in points /\ rlzNow'[b][point] = <<>>
  PROVE  Store!Dies(p, points)
BY DEF Store!Dies, Store!Brands, Brands, rlzNow, eventsNow, statefulNow, pingTimeNow

LEMMA PromisedInit ==
  Store!Init <=>
    /\ brand = NoBrand
    /\ rlzNow = [b \in Brands |-> [point \in AccessPoint |-> <<>>]]
    /\ eventsNow = [b \in Brands |-> [p \in Product |-> {}]]
    /\ statefulNow = [b \in Brands |-> [p \in Product |-> {}]]
    /\ pingTimeNow = [b \in Brands |-> [p \in Product |-> NoTime]]
BY DEF Store!Init, Store!None, Store!Brands, Brands, rlzNow, eventsNow, statefulNow, pingTimeNow

----------------------------------------------------------------------------
(* What the calls do to them *)

LEMMA SameOf ==
  ASSUME NEW t, NEW u
  PROVE  /\ \A s \in EventType : SameEvents(t, u) => EventsOf(u, s) = EventsOf(t, s)
         /\ SamePings(t, u) => PingsOf(u) = PingsOf(t)
         /\ SameRlzs(t, u) => RlzsOf(u) = RlzsOf(t)
<1>1. \A s \in EventType : SameEvents(t, u) => EventsOf(u, s) = EventsOf(t, s)
  BY DEF SameEvents, EventsOf
<1>2. SamePings(t, u) => PingsOf(u) = PingsOf(t)
  BY DEF SamePings, PingsOf
<1>3. SameRlzs(t, u) => RlzsOf(u) = RlzsOf(t)
  BY DEF SameRlzs, RlzsOf
<1> QED
  BY <1>1, <1>2, <1>3

LEMMA PingsExcept ==
  ASSUME brand \in Brands, NEW p \in Product, NEW t, NEW u, NEW x,
         \A b \in Brands, q \in Product :
           Pg(u, b, q) = IF b = brand /\ q = p THEN x ELSE Pg(t, b, q)
  PROVE  PingsOf(u) = [PingsOf(t) EXCEPT ![brand][p] = x]
BY DEF PingsOf

LEMMA RlzsExcept ==
  ASSUME brand \in Brands, NEW at \in AccessPoint, NEW t, NEW u, NEW x,
         \A b \in Brands, point \in AccessPoint :
           Stored(u, b, point) = IF b = brand /\ point = at THEN x ELSE Stored(t, b, point)
  PROVE  RlzsOf(u) = [RlzsOf(t) EXCEPT ![brand][at] = x]
BY DEF RlzsOf

LEMMA RlzsExceptAll ==
  ASSUME brand \in Brands, NEW points \in SUBSET AccessPoint, NEW t, NEW u,
         \A b \in Brands, point \in AccessPoint :
           Stored(u, b, point) = IF b = brand /\ point \in points THEN <<>> ELSE Stored(t, b, point)
  PROVE  RlzsOf(u) = [RlzsOf(t) EXCEPT ![brand] =
                        [point \in AccessPoint |-> IF point \in points THEN <<>> ELSE @[point]]]
BY DEF RlzsOf

\* A step from one state in which the invariant holds to another.
LEMMA Views ==
  ASSUME IInv, IInv', build' = build
  PROVE  /\ rlzNow = RlzsOf(tree) /\ rlzNow' = RlzsOf(tree')
         /\ eventsNow = EventsOf(tree, "Events") /\ eventsNow' = EventsOf(tree', "Events")
         /\ statefulNow = EventsOf(tree, "StatefulEvents")
         /\ statefulNow' = EventsOf(tree', "StatefulEvents")
         /\ pingTimeNow = PingsOf(tree) /\ pingTimeNow' = PingsOf(tree')
<1>1. Fine(tree, others)
  BY DEF IInv
<1>2. Fine(tree', others')
  BY DEF IInv, Fine, Closed, IsTree
<1> QED
  BY <1>1, <1>2, NowIs, NextIs

\* A step that changes no data and no brand.
LEMMA Stutters ==
  ASSUME IInv, IInv', build' = build, brand' = brand, SameData(tree, tree')
  PROVE  UNCHANGED Store!vars
<1>1. "Events" \in EventType /\ "StatefulEvents" \in EventType
  BY DEF EventType
<1>2. /\ EventsOf(tree', "Events") = EventsOf(tree, "Events")
      /\ EventsOf(tree', "StatefulEvents") = EventsOf(tree, "StatefulEvents")
      /\ PingsOf(tree') = PingsOf(tree) /\ RlzsOf(tree') = RlzsOf(tree)
  BY <1>1, SameOf DEF SameData
<1>3. UNCHANGED <<brand, rlzNow, eventsNow, statefulNow, pingTimeNow>>
  BY <1>2, Views
<1> QED
  BY <1>3 DEF Store!vars, rlzNow, eventsNow, statefulNow, pingTimeNow

LEMMA StepRecordEvent ==
  ASSUME IInv, IInv', NEW p \in Product, NEW e \in Event, RecordProductEvent(p, e)
  PROVE  IF e \in ReadEvents(tree, brand, "StatefulEvents", p)
         THEN UNCHANGED Store!vars ELSE Store!RecordEvent(p, e)
<1>1. build' = build /\ brand' = brand /\ brand \in Brands
  BY DEF RecordProductEvent, Leaves, IInv
<1>2. "Events" \in EventType /\ "StatefulEvents" \in EventType /\ "Events" # "StatefulEvents"
  BY DEF EventType
<1>3. PICK t : t = Touched(tree, p)
  OBVIOUS
<1>4. SameData(tree, t)
  BY <1>3, CreatedSame, SameWithSame, Operations
<1>5. CASE e \in ReadEvents(tree, brand, "StatefulEvents", p)
  <2>1. tree' = t
    BY <1>3, <1>5 DEF RecordProductEvent, Leaves
  <2>2. UNCHANGED Store!vars
    BY <1>1, <1>4, <2>1, Stutters
  <2> QED
    BY <1>5, <2>2
<1>6. CASE e \notin ReadEvents(tree, brand, "StatefulEvents", p)
  <2>1. tree' = AddEvent(t, "Events", p, e)
    BY <1>3, <1>6 DEF RecordProductEvent, Leaves
  <2>2. /\ SamePings(t, tree') /\ SameRlzs(t, tree')
        /\ \A b \in Brands, k \in EventType, q \in Product :
             Ev(tree', b, k, q) =
               IF b = brand /\ k = "Events" /\ q = p THEN Ev(t, b, k, q) \cup {e}
               ELSE Ev(t, b, k, q)
    BY <1>1, <1>2, <2>1, EventAdded
  <2>3. SamePings(tree, tree') /\ SameRlzs(tree, tree')
    BY <1>4, <2>2 DEF SameData, SamePings, SameRlzs
  <2>4. \A b \in Brands, k \in EventType, q \in Product : Ev(t, b, k, q) = Ev(tree, b, k, q)
    BY <1>4 DEF SameData, SameEvents
  <2>5. PICK x : x = Ev(tree, brand, "Events", p) \cup {e}
    OBVIOUS
  <2>6. \A b \in Brands, q \in Product :
          Ev(tree', b, "Events", q) = IF b = brand /\ q = p THEN x ELSE Ev(tree, b, "Events", q)
    BY <1>2, <2>2, <2>4, <2>5
  <2>7. EventsOf(tree', "Events") = [EventsOf(tree, "Events") EXCEPT ![brand][p] = x]
    BY <1>1, <2>6 DEF EventsOf
  <2>8. EventsOf(tree, "Events")[brand][p] = Ev(tree, brand, "Events", p)
    BY <1>1 DEF EventsOf
  <2>9. \A b \in Brands, q \in Product :
          Ev(tree', b, "StatefulEvents", q) = Ev(tree, b, "StatefulEvents", q)
    BY <1>2, <2>2, <2>4
  <2>10. EventsOf(tree', "StatefulEvents") = EventsOf(tree, "StatefulEvents")
    BY <2>9 DEF EventsOf
  <2>11. e \notin EventsOf(tree, "StatefulEvents")[brand][p]
    BY <1>1, <1>6, Reads DEF EventsOf, Ev
  <2>12. PingsOf(tree') = PingsOf(tree) /\ RlzsOf(tree') = RlzsOf(tree)
    BY <2>3, SameOf
  <2>13. /\ e \notin statefulNow[brand][p]
         /\ eventsNow' = [eventsNow EXCEPT ![brand][p] = @ \cup {e}]
         /\ UNCHANGED <<brand, rlzNow, statefulNow, pingTimeNow>>
    BY <1>1, <2>5, <2>7, <2>8, <2>10, <2>11, <2>12, Views
  <2>14. Store!RecordEvent(p, e)
    BY <2>13, Promised
  <2> QED
    BY <1>6, <2>14
<1> QED
  BY <1>5, <1>6

LEMMA StepRecordStateful ==
  ASSUME IInv, IInv', NEW p \in Product, NEW e \in Event, RecordStatefulEvent(p, e)
  PROVE  Store!RecordStateful(p, e)
<1>1. build' = build /\ brand' = brand /\ brand \in Brands
      /\ tree' = AddEvent(tree, "StatefulEvents", p, e)
  BY DEF RecordStatefulEvent, Leaves, IInv
<1>2. "Events" \in EventType /\ "StatefulEvents" \in EventType /\ "Events" # "StatefulEvents"
  BY DEF EventType
<1>3. /\ SamePings(tree, tree') /\ SameRlzs(tree, tree')
      /\ \A b \in Brands, k \in EventType, q \in Product :
           Ev(tree', b, k, q) =
             IF b = brand /\ k = "StatefulEvents" /\ q = p THEN Ev(tree, b, k, q) \cup {e}
             ELSE Ev(tree, b, k, q)
  BY <1>1, <1>2, EventAdded
<1>4. PICK x : x = Ev(tree, brand, "StatefulEvents", p) \cup {e}
  OBVIOUS
<1>5. \A b \in Brands, q \in Product :
        Ev(tree', b, "StatefulEvents", q) =
          IF b = brand /\ q = p THEN x ELSE Ev(tree, b, "StatefulEvents", q)
  BY <1>2, <1>3, <1>4
<1>6. EventsOf(tree', "StatefulEvents") = [EventsOf(tree, "StatefulEvents") EXCEPT ![brand][p] = x]
  BY <1>1, <1>5 DEF EventsOf
<1>7. EventsOf(tree, "StatefulEvents")[brand][p] = Ev(tree, brand, "StatefulEvents", p)
  BY <1>1 DEF EventsOf
<1>8. \A b \in Brands, q \in Product : Ev(tree', b, "Events", q) = Ev(tree, b, "Events", q)
  BY <1>2, <1>3
<1>9. EventsOf(tree', "Events") = EventsOf(tree, "Events")
  BY <1>8 DEF EventsOf
<1>10. PingsOf(tree') = PingsOf(tree) /\ RlzsOf(tree') = RlzsOf(tree)
  BY <1>3, SameOf
<1>11. /\ statefulNow' = [statefulNow EXCEPT ![brand][p] = @ \cup {e}]
       /\ UNCHANGED <<brand, rlzNow, eventsNow, pingTimeNow>>
  BY <1>1, <1>4, <1>6, <1>7, <1>9, <1>10, Views
<1> QED
  BY <1>11, Promised

LEMMA StepClearEvent ==
  ASSUME IInv, IInv', NEW p \in Product, NEW e \in Event, ClearProductEvent(p, e)
  PROVE  Store!ClearEvent(p, e)
<1>1. build' = build /\ brand' = brand /\ brand \in Brands
  BY DEF ClearProductEvent, Leaves, IInv
<1>2. "Events" \in EventType /\ "StatefulEvents" \in EventType /\ "Events" # "StatefulEvents"
  BY DEF EventType
<1>3. PICK above : above = IF OnWin THEN EventsPath(brand, "Events", p) ELSE Mac!ProductDict(brand, p)
  OBVIOUS
<1>4. PICK path : path = EventsPath(brand, "Events", p)
  OBVIOUS
<1>5. PICK one : one = {e}
  OBVIOUS
<1>6. tree' = WithoutValues(Created(tree, above), path, one)
  <2>1. tree' = IF OnWin THEN Win!ClearProductEvent(tree, brand, p, e)
                ELSE Mac!ClearProductEvent(tree, brand, p, e)
    BY DEF ClearProductEvent, Leaves
  <2> QED
    BY <1>3, <1>4, <1>5, <2>1, OtherWrites
<1>7. /\ SamePings(tree, tree') /\ SameRlzs(tree, tree')
      /\ \A b \in Brands, k \in EventType, q \in Product :
           Ev(tree', b, k, q) =
             IF b = brand /\ k = "Events" /\ q = p THEN Ev(tree, b, k, q) \ one
             ELSE Ev(tree, b, k, q)
  BY <1>1, <1>6, <1>4, EventGone
<1>8. PICK x : x = Ev(tree, brand, "Events", p) \ {e}
  OBVIOUS
<1>9. \A b \in Brands, q \in Product :
        Ev(tree', b, "Events", q) = IF b = brand /\ q = p THEN x ELSE Ev(tree, b, "Events", q)
  BY <1>2, <1>7, <1>8, <1>5
<1>10. EventsOf(tree', "Events") = [EventsOf(tree, "Events") EXCEPT ![brand][p] = x]
  BY <1>1, <1>9 DEF EventsOf
<1>11. EventsOf(tree, "Events")[brand][p] = Ev(tree, brand, "Events", p)
  BY <1>1 DEF EventsOf
<1>12. \A b \in Brands, q \in Product :
        Ev(tree', b, "StatefulEvents", q) = Ev(tree, b, "StatefulEvents", q)
  BY <1>2, <1>7
<1>13. EventsOf(tree', "StatefulEvents") = EventsOf(tree, "StatefulEvents")
  BY <1>12 DEF EventsOf
<1>14. PingsOf(tree') = PingsOf(tree) /\ RlzsOf(tree') = RlzsOf(tree)
  BY <1>7, SameOf
<1>15. /\ eventsNow' = [eventsNow EXCEPT ![brand][p] = @ \ {e}]
       /\ UNCHANGED <<brand, rlzNow, statefulNow, pingTimeNow>>
  BY <1>1, <1>8, <1>10, <1>11, <1>13, <1>14, Views
<1> QED
  BY <1>15, Promised

\* The events of either sort of one product.
LEMMA EventsOfGone ==
  ASSUME brand \in Brands, NEW p \in Product, NEW u, NEW s \in EventType,
         \A b \in Brands, k \in EventType, q \in Product :
           Ev(u, b, k, q) = IF b = brand /\ q = p THEN {} ELSE Ev(tree, b, k, q)
  PROVE  EventsOf(u, s) = [EventsOf(tree, s) EXCEPT ![brand][p] = {}]
<1>1. PICK none : none = {}
  OBVIOUS
<1>2. \A b \in Brands, q \in Product :
        Ev(u, b, s, q) = IF b = brand /\ q = p THEN none ELSE Ev(tree, b, s, q)
  BY <1>1
<1>3. EventsOf(u, s) = [EventsOf(tree, s) EXCEPT ![brand][p] = none]
  BY ONLY <1>2, brand \in Brands, p \in Product DEF EventsOf
<1> QED
  BY <1>1, <1>3

LEMMA StepClearAllEvents ==
  ASSUME IInv, IInv', NEW p \in Product, ClearAllProductEvents(p)
  PROVE  Store!ClearAllEvents(p)
<1>1. build' = build /\ brand' = brand /\ brand \in Brands /\ tree' = AllEventsCleared(tree, p)
  BY DEF ClearAllProductEvents, Leaves, IInv
<1>2. "Events" \in EventType /\ "StatefulEvents" \in EventType
  BY DEF EventType
<1>3. /\ SamePings(tree, tree') /\ SameRlzs(tree, tree')
      /\ \A b \in Brands, k \in EventType, q \in Product :
           Ev(tree', b, k, q) = IF b = brand /\ q = p THEN {} ELSE Ev(tree, b, k, q)
  BY <1>1, AllEventsGone
<1>4. /\ EventsOf(tree', "Events") = [EventsOf(tree, "Events") EXCEPT ![brand][p] = {}]
      /\ EventsOf(tree', "StatefulEvents") = [EventsOf(tree, "StatefulEvents") EXCEPT ![brand][p] = {}]
  BY <1>1, <1>2, <1>3, EventsOfGone
<1>5. PingsOf(tree') = PingsOf(tree) /\ RlzsOf(tree') = RlzsOf(tree)
  BY <1>3, SameOf
<1>6. /\ eventsNow' = [eventsNow EXCEPT ![brand][p] = {}]
      /\ statefulNow' = [statefulNow EXCEPT ![brand][p] = {}]
      /\ UNCHANGED <<brand, rlzNow, pingTimeNow>>
  BY <1>1, <1>4, <1>5, Views
<1> QED
  BY <1>6, Promised

LEMMA StepPing ==
  ASSUME IInv, IInv', build' = build, brand' = brand, NEW p \in Product, NEW time,
         SameEvents(tree, tree'), SameRlzs(tree, tree'),
         \A b \in Brands, q \in Product :
           Pg(tree', b, q) = IF b = brand /\ q = p THEN time ELSE Pg(tree, b, q)
  PROVE  Store!SetPingTime(p, time)
<1>1. "Events" \in EventType /\ "StatefulEvents" \in EventType /\ brand \in Brands
  BY DEF EventType, IInv
<1>2. /\ EventsOf(tree', "Events") = EventsOf(tree, "Events")
      /\ EventsOf(tree', "StatefulEvents") = EventsOf(tree, "StatefulEvents")
      /\ RlzsOf(tree') = RlzsOf(tree)
  BY <1>1, SameOf
<1>3. PingsOf(tree') = [PingsOf(tree) EXCEPT ![brand][p] = time]
  BY <1>1, PingsExcept
<1>4. /\ pingTimeNow' = [pingTimeNow EXCEPT ![brand][p] = time]
      /\ UNCHANGED <<brand, rlzNow, eventsNow, statefulNow>>
  BY <1>2, <1>3, Views
<1> QED
  BY <1>4, Promised

LEMMA StepRlz ==
  ASSUME IInv, IInv', build' = build, brand' = brand, NEW at \in AccessPoint, NEW r,
         SameEvents(tree, tree'), SamePings(tree, tree'),
         \A b \in Brands, point \in AccessPoint :
           Stored(tree', b, point) = IF b = brand /\ point = at THEN r ELSE Stored(tree, b, point)
  PROVE  Store!SetRlz(at, r)
<1>1. "Events" \in EventType /\ "StatefulEvents" \in EventType /\ brand \in Brands
  BY DEF EventType, IInv
<1>2. /\ EventsOf(tree', "Events") = EventsOf(tree, "Events")
      /\ EventsOf(tree', "StatefulEvents") = EventsOf(tree, "StatefulEvents")
      /\ PingsOf(tree') = PingsOf(tree)
  BY <1>1, SameOf
<1>3. RlzsOf(tree') = [RlzsOf(tree) EXCEPT ![brand][at] = r]
  BY <1>1, RlzsExcept
<1>4. /\ rlzNow' = [rlzNow EXCEPT ![brand][at] = r]
      /\ UNCHANGED <<brand, eventsNow, statefulNow, pingTimeNow>>
  BY <1>2, <1>3, Views
<1> QED
  BY <1>4, Promised

LEMMA PingsOfGone ==
  ASSUME brand \in Brands, NEW p \in Product, NEW u,
         \A b \in Brands, q \in Product :
           Pg(u, b, q) = IF b = brand /\ q = p THEN NoTime ELSE Pg(tree, b, q)
  PROVE  PingsOf(u) = [PingsOf(tree) EXCEPT ![brand][p] = NoTime]
BY DEF PingsOf

LEMMA GarbageSame ==
  ASSUME NEW t
  PROVE  SameData(t, CollectGarbage(t))
BY CollectedSame, SameWithSame DEF CollectGarbage, Win!CollectGarbage, Mac!CollectGarbage

LEMMA StepClearProduct ==
  ASSUME IInv, IInv', NEW p \in Product, NEW points \in SUBSET AccessPoint, ClearProductState(p, points)
  PROVE  Store!ClearProduct(p, points)
<1>1. build' = build /\ brand' = brand /\ brand \in Brands
  BY DEF ClearProductState, IInv
<1>2. "Events" \in EventType /\ "StatefulEvents" \in EventType
  BY DEF EventType
<1>3. SameData(StateCleared(tree, p, points), tree')
  BY GarbageSame DEF ClearProductState, Uninstalled
<1>4. /\ \A b \in Brands, k \in EventType, q \in Product :
           Ev(tree', b, k, q) = IF b = brand /\ q = p THEN {} ELSE Ev(tree, b, k, q)
      /\ \A b \in Brands, q \in Product :
           Pg(tree', b, q) = IF b = brand /\ q = p THEN NoTime ELSE Pg(tree, b, q)
      /\ \A b \in Brands, point \in AccessPoint :
           Stored(tree', b, point) = IF b = brand /\ point \in points THEN <<>>
                                     ELSE Stored(tree, b, point)
  <2>1. ProductIsGone(tree, tree', p, points)
    BY <1>1, <1>3, ProductGone
  <2> QED
    BY ONLY <2>1 DEF ProductIsGone
<1>5. /\ EventsOf(tree', "Events") = [EventsOf(tree, "Events") EXCEPT ![brand][p] = {}]
      /\ EventsOf(tree', "StatefulEvents") = [EventsOf(tree, "StatefulEvents") EXCEPT ![brand][p] = {}]
  BY <1>1, <1>2, <1>4, EventsOfGone
<1>6. PingsOf(tree') = [PingsOf(tree) EXCEPT ![brand][p] = NoTime]
  BY <1>1, <1>4, PingsOfGone
<1>7. RlzsOf(tree') = [RlzsOf(tree) EXCEPT ![brand] =
                         [point \in AccessPoint |-> IF point \in points THEN <<>> ELSE @[point]]]
  BY ONLY <1>1, <1>4 DEF RlzsOf
<1>8. /\ eventsNow' = [eventsNow EXCEPT ![brand][p] = {}]
      /\ statefulNow' = [statefulNow EXCEPT ![brand][p] = {}]
      /\ pingTimeNow' = [pingTimeNow EXCEPT ![brand][p] = NoTime]
      /\ UNCHANGED brand
  BY <1>1, <1>5, <1>6, Views
<1>9. rlzNow' = [rlzNow EXCEPT ![brand] =
                   [point \in AccessPoint |-> IF point \in points THEN <<>> ELSE @[point]]]
  BY <1>1, <1>7, Views
<1> QED
  BY <1>8, <1>9, PromisedClear

\* A crash leaves the events gone, and the rest as it was or as it would be.
LEMMA PartlyGone ==
  ASSUME brand \in Brands, NEW p \in Product, NEW points \in SUBSET AccessPoint,
         NEW t \in PartlyUninstalled(p, points)
  PROVE  /\ EventsOf(t, "Events") = [EventsOf(tree, "Events") EXCEPT ![brand][p] = {}]
         /\ EventsOf(t, "StatefulEvents") \in
              {EventsOf(tree, "StatefulEvents"), [EventsOf(tree, "StatefulEvents") EXCEPT ![brand][p] = {}]}
         /\ PingsOf(t) \in {PingsOf(tree), [PingsOf(tree) EXCEPT ![brand][p] = NoTime]}
         /\ \A b \in Brands, point \in AccessPoint :
              Stored(t, b, point) # Stored(tree, b, point) =>
                b = brand /\ point \in points /\ Stored(t, b, point) = <<>>
<1>1. "Events" \in EventType /\ "StatefulEvents" \in EventType /\ "Events" # "StatefulEvents"
  BY DEF EventType
<1>2. CASE t = ClearEvents(tree, "Events", p)
  <2>1. /\ SamePings(tree, t) /\ SameRlzs(tree, t)
        /\ \A b \in Brands, k \in EventType, q \in Product :
             Ev(t, b, k, q) = IF b = brand /\ k = "Events" /\ q = p THEN {} ELSE Ev(tree, b, k, q)
    BY <1>1, <1>2, EventsGone
  <2>2. PICK none : none = {}
    OBVIOUS
  <2>3. \A b \in Brands, q \in Product :
          Ev(t, b, "Events", q) = IF b = brand /\ q = p THEN none ELSE Ev(tree, b, "Events", q)
    BY <1>1, <2>1, <2>2
  <2>4. EventsOf(t, "Events") = [EventsOf(tree, "Events") EXCEPT ![brand][p] = none]
    BY ONLY <2>3, brand \in Brands, p \in Product DEF EventsOf
  <2>5. \A b \in Brands, q \in Product :
          Ev(t, b, "StatefulEvents", q) = Ev(tree, b, "StatefulEvents", q)
    BY <1>1, <2>1
  <2>6. EventsOf(t, "StatefulEvents") = EventsOf(tree, "StatefulEvents")
    BY <2>5 DEF EventsOf
  <2>7. PingsOf(t) = PingsOf(tree)
    BY <2>1, SameOf
  <2> QED
    BY <2>1, <2>2, <2>4, <2>6, <2>7 DEF SameRlzs
<1>3. CASE t = AllEventsCleared(tree, p)
  <2>1. /\ SamePings(tree, t) /\ SameRlzs(tree, t)
        /\ \A b \in Brands, k \in EventType, q \in Product :
             Ev(t, b, k, q) = IF b = brand /\ q = p THEN {} ELSE Ev(tree, b, k, q)
    BY <1>3, AllEventsGone
  <2>2. /\ EventsOf(t, "Events") = [EventsOf(tree, "Events") EXCEPT ![brand][p] = {}]
        /\ EventsOf(t, "StatefulEvents") = [EventsOf(tree, "StatefulEvents") EXCEPT ![brand][p] = {}]
    BY <1>1, <2>1, EventsOfGone
  <2>3. PingsOf(t) = PingsOf(tree)
    BY <2>1, SameOf
  <2> QED
    BY <2>1, <2>2, <2>3 DEF SameRlzs
<1>4. ASSUME NEW some \in SUBSET points, SameData(StateCleared(tree, p, some), t)
      PROVE  /\ EventsOf(t, "Events") = [EventsOf(tree, "Events") EXCEPT ![brand][p] = {}]
             /\ EventsOf(t, "StatefulEvents") = [EventsOf(tree, "StatefulEvents") EXCEPT ![brand][p] = {}]
             /\ PingsOf(t) = [PingsOf(tree) EXCEPT ![brand][p] = NoTime]
             /\ \A b \in Brands, point \in AccessPoint :
                  Stored(t, b, point) # Stored(tree, b, point) =>
                    b = brand /\ point \in points /\ Stored(t, b, point) = <<>>
  <2>1. /\ \A b \in Brands, k \in EventType, q \in Product :
             Ev(t, b, k, q) = IF b = brand /\ q = p THEN {} ELSE Ev(tree, b, k, q)
        /\ \A b \in Brands, q \in Product :
             Pg(t, b, q) = IF b = brand /\ q = p THEN NoTime ELSE Pg(tree, b, q)
        /\ \A b \in Brands, point \in AccessPoint :
             Stored(t, b, point) = IF b = brand /\ point \in some THEN <<>> ELSE Stored(tree, b, point)
    <3>1. ProductIsGone(tree, t, p, some)
      BY <1>4, ProductGone
    <3> QED
      BY ONLY <3>1 DEF ProductIsGone
  <2>2. /\ EventsOf(t, "Events") = [EventsOf(tree, "Events") EXCEPT ![brand][p] = {}]
        /\ EventsOf(t, "StatefulEvents") = [EventsOf(tree, "StatefulEvents") EXCEPT ![brand][p] = {}]
    BY <1>1, <2>1, EventsOfGone
  <2>3. PingsOf(t) = [PingsOf(tree) EXCEPT ![brand][p] = NoTime]
    BY <2>1, PingsOfGone
  <2> QED
    BY <2>1, <2>2, <2>3
<1>5. \/ t = ClearEvents(tree, "Events", p) \/ t = AllEventsCleared(tree, p)
      \/ \E some \in SUBSET points : SameData(StateCleared(tree, p, some), t)
  <2>1. \A u : SameData(u, u)
    BY SameWithSame
  <2> QED
    BY <2>1, CollectedSame DEF PartlyUninstalled
<1> QED
  BY <1>2, <1>3, <1>4, <1>5

LEMMA StepDies ==
  ASSUME IInv, IInv', NEW p \in Product, NEW points \in SUBSET AccessPoint, CrashInClear(p, points)
  PROVE  Store!Dies(p, points)
<1>1. /\ build' = build /\ brand' = NoBrand /\ brand \in Brands
      /\ tree' \in PartlyUninstalled(p, points)
  BY DEF CrashInClear, IInv
<1>2. PICK t \in PartlyUninstalled(p, points) : t = tree'
  BY <1>1
<1>3. /\ EventsOf(t, "Events") = [EventsOf(tree, "Events") EXCEPT ![brand][p] = {}]
      /\ EventsOf(t, "StatefulEvents") \in
           {EventsOf(tree, "StatefulEvents"), [EventsOf(tree, "StatefulEvents") EXCEPT ![brand][p] = {}]}
      /\ PingsOf(t) \in {PingsOf(tree), [PingsOf(tree) EXCEPT ![brand][p] = NoTime]}
  BY <1>1, PartlyGone
<1>4. \A b \in Brands, point \in AccessPoint :
        Stored(t, b, point) # Stored(tree, b, point) =>
          b = brand /\ point \in points /\ Stored(t, b, point) = <<>>
  BY <1>1, PartlyGone
<1>5. \A b \in Brands, point \in AccessPoint : Stored(tree', b, point) \in StoredRlz
  <2>1. Fine(tree', others')
    BY DEF IInv, Fine, Closed, IsTree
  <2> QED
    BY <2>1, StoredRead
<1>6. RlzsOf(tree') \in [Brands -> [AccessPoint -> (StoredRlz \ {<<>>}) \cup {<<>>}]]
  BY <1>5 DEF RlzsOf
<1>7. \A b \in Brands, point \in AccessPoint :
        RlzsOf(tree')[b][point] # RlzsOf(tree)[b][point] =>
          b = brand /\ point \in points /\ RlzsOf(tree')[b][point] = <<>>
  BY <1>2, <1>4 DEF RlzsOf
<1>8. eventsNow' = [eventsNow EXCEPT ![brand][p] = {}]
  BY <1>1, <1>2, <1>3, Views
<1>9. statefulNow' \in {statefulNow, [statefulNow EXCEPT ![brand][p] = {}]}
  BY <1>1, <1>2, <1>3, Views
<1>10. pingTimeNow' \in {pingTimeNow, [pingTimeNow EXCEPT ![brand][p] = NoTime]}
  BY <1>1, <1>2, <1>3, Views
<1>11. rlzNow' \in [Brands -> [AccessPoint -> (StoredRlz \ {<<>>}) \cup {<<>>}]]
  BY <1>1, <1>6, Views
<1>12. \A b \in Brands, point \in AccessPoint :
         rlzNow'[b][point] # rlzNow[b][point] =>
           b = brand /\ point \in points /\ rlzNow'[b][point] = <<>>
  BY <1>1, <1>7, Views
<1> QED
  BY <1>1, <1>8, <1>9, <1>10, <1>11, <1>12, PromisedDies

LEMMA StoreInit == Init => Store!Init
<1> SUFFICES ASSUME Init PROVE Store!Init
  OBVIOUS
<1>1. IInv /\ brand = NoBrand /\ brand \in Brands
  BY Initially DEF Init, Brands
<1>2. Fine(tree, others)
  BY <1>1 DEF IInv
<1>3. \A key : Names(<<>>, key) = {}
  BY NoValuesHasNone DEF Names, NoValues
<1>4. \A key : Names(tree, key) # {} => key \in others
  <2>1. CASE tree = <<>>
    BY <1>3, <2>1
  <2>2. CASE \E key \in Foreign : others = {key} /\ tree = WithValue(<<>>, key, "theirs", 1)
    <3>1. PICK key \in Foreign : others = {key} /\ tree = WithValue(<<>>, key, "theirs", 1)
      BY <2>2
    <3>2. key \in Seq(STRING) /\ key # <<>>
      BY LibraryAssumption
    <3>3. Proper(key)
      BY <3>2, SelfAbove
    <3>4. \A k : Names(tree, k) = Names(<<>>, k) \cup (IF k = key THEN {"theirs"} ELSE {})
      BY <3>1, <3>3, WithValueNames
    <3> QED
      BY <1>3, <3>1, <3>4
  <2> QED
    BY <2>1, <2>2 DEF Init
<1>5. \A s \in EventType, b \in Brands, p \in Product :
        /\ EventsPath(b, s, p) \notin others /\ PingPath(b, p) \notin others
        /\ RlzPath(b) \notin others
  BY <1>1, PathsOwn DEF IInv, OwnPath
<1>6. "Events" \in EventType /\ "StatefulEvents" \in EventType
  BY DEF EventType
<1>7. \A s \in EventType : EventsOf(tree, s) = [b \in Brands |-> [p \in Product |-> {}]]
  BY <1>4, <1>5 DEF EventsOf, Ev
<1>8. \A b \in Brands, p \in Product : Pg(tree, b, p) = NoTime
  <2> SUFFICES ASSUME NEW b \in Brands, NEW p \in Product PROVE Pg(tree, b, p) = NoTime
    OBVIOUS
  <2>1. Names(tree, PingPath(b, p)) = {}
    BY <1>4, <1>5, <1>6
  <2> QED
    BY <2>1 DEF Pg, ValueOr
<1>9. \A b \in Brands, point \in AccessPoint : Stored(tree, b, point) = <<>>
  <2> SUFFICES ASSUME NEW b \in Brands, NEW point \in AccessPoint PROVE Stored(tree, b, point) = <<>>
    OBVIOUS
  <2>1. PICK p : p \in Product
    BY LibraryAssumption
  <2>2. Names(tree, RlzPath(b)) = {}
    BY <1>4, <1>5, <1>6, <2>1
  <2> QED
    BY <2>2 DEF Stored, ValueOr
<1>10. PingsOf(tree) = [b \in Brands |-> [p \in Product |-> NoTime]]
  BY <1>8 DEF PingsOf
<1>11. RlzsOf(tree) = [b \in Brands |-> [point \in AccessPoint |-> <<>>]]
  BY <1>9 DEF RlzsOf
<1>12. /\ rlzNow = RlzsOf(tree) /\ eventsNow = EventsOf(tree, "Events")
       /\ statefulNow = EventsOf(tree, "StatefulEvents") /\ pingTimeNow = PingsOf(tree)
  BY <1>2, NowIs
<1> QED
  BY <1>1, <1>6, <1>7, <1>10, <1>11, <1>12, PromisedInit

LEMMA StepScope ==
  ASSUME IInv, IInv', build' = build, tree' = tree, NEW b \in Brands, brand' = b,
         NoBrand \in {b, brand}
  PROVE  Store!Scope(b)
<1>1. UNCHANGED <<rlzNow, eventsNow, statefulNow, pingTimeNow>>
  BY Views
<1> QED
  BY <1>1, Promised

LEMMA StepGetEvents ==
  ASSUME IInv, IInv', NEW p \in Product, GetProductEventsAsCgi(p)
  PROVE  UNCHANGED Store!vars
<1>1. build' = build /\ brand' = brand /\ tree' = Touched(tree, p)
  BY DEF GetProductEventsAsCgi, Leaves
<1>2. SameData(tree, Touched(tree, p))
  BY CreatedSame, SameWithSame, Operations
<1> QED
  BY <1>1, <1>2, Stutters

LEMMA StepClearPing ==
  ASSUME IInv, IInv', NEW p \in Product, ClearLastPingTime(p)
  PROVE  Store!SetPingTime(p, NoTime)
<1>1. build' = build /\ brand' = brand /\ brand \in Brands /\ tree' = ClearPingTime(tree, p)
  BY DEF ClearLastPingTime, Leaves, IInv
<1>2. /\ SameEvents(tree, tree') /\ SameRlzs(tree, tree')
      /\ \A b \in Brands, q \in Product :
           Pg(tree', b, q) = IF b = brand /\ q = p THEN NoTime ELSE Pg(tree, b, q)
  BY <1>1, PingGone
<1> QED
  BY <1>1, <1>2, StepPing

LEMMA StepUpdatePing ==
  ASSUME IInv, IInv', NEW p \in Product, NEW time \in Time, UpdateLastPingTime(p, time)
  PROVE  Store!SetPingTime(p, time)
<1>1. /\ build' = build /\ brand' = brand /\ brand \in Brands
      /\ tree' = WithValue(tree, PingPath(brand, p), PingName(p), time)
  BY OtherWrites DEF UpdateLastPingTime, Leaves, IInv
<1>2. /\ SameEvents(tree, tree') /\ SameRlzs(tree, tree')
      /\ \A b \in Brands, q \in Product :
           Pg(tree', b, q) = IF b = brand /\ q = p THEN time ELSE Pg(tree, b, q)
  BY <1>1, PingWritten
<1> QED
  BY <1>1, <1>2, StepPing

LEMMA StepGetRlz ==
  ASSUME IInv, IInv', NEW point \in AccessPoint, GetAccessPointRlz(point)
  PROVE  UNCHANGED Store!vars
<1>1. build' = build /\ brand' = brand /\ tree' = TouchedBrand(tree)
  BY DEF GetAccessPointRlz, Leaves
<1>2. SameData(tree, TouchedBrand(tree))
  BY CreatedSame, SameWithSame, Operations
<1> QED
  BY <1>1, <1>2, Stutters

LEMMA StepSetRlz ==
  ASSUME IInv, IInv', NEW at \in AccessPoint, NEW raw \in RawRlz, SetAccessPointRlz(at, raw)
  PROVE  NormalizeRlz(raw) \in StoredRlz /\ Store!SetRlz(at, NormalizeRlz(raw))
<1>1. brand \in Brands
  BY DEF IInv
<1>2. PICK r : r = NormalizeRlz(raw)
  OBVIOUS
<1>3. r \in StoredRlz
  BY <1>2, Normalised, LibraryAssumption
<1>4. /\ build' = build /\ brand' = brand
      /\ tree' = IF r = <<>> THEN ClearRlzs(tree, {at})
                 ELSE IF OnWin THEN Win!WriteAccessPointRlz(tree, brand, at, r)
                 ELSE Mac!WriteAccessPointRlz(tree, brand, at, r)
  BY <1>2 DEF SetAccessPointRlz, Leaves
<1>5. /\ SameEvents(tree, tree') /\ SamePings(tree, tree')
      /\ \A b \in Brands, point \in AccessPoint :
           Stored(tree', b, point) = IF b = brand /\ point = at THEN r ELSE Stored(tree, b, point)
  <2>1. CASE r = <<>>
    <3>1. PICK one : one = {at}
      OBVIOUS
    <3>2. tree' = RlzsCleared(tree, one) /\ one \in SUBSET AccessPoint
      BY <1>4, <2>1, <3>1 DEF RlzsCleared
    <3>3. /\ SameEvents(tree, tree') /\ SamePings(tree, tree')
          /\ \A b \in Brands, point \in AccessPoint :
               Stored(tree', b, point) = IF b = brand /\ point \in one THEN <<>>
                                         ELSE Stored(tree, b, point)
      BY <1>1, <3>2, RlzsGone
    <3> QED
      BY <2>1, <3>1, <3>3
  <2>2. CASE r # <<>>
    <3>1. tree' = WithValue(tree, RlzPath(brand), at, r)
      BY <1>4, <2>2, OtherWrites
    <3> QED
      BY <1>1, <3>1, RlzWritten
  <2> QED
    BY <2>1, <2>2
<1>6. Store!SetRlz(at, r)
  <2>1. build' = build /\ brand' = brand
    BY ONLY <1>4
  <2> QED
    BY ONLY IInv, IInv', at \in AccessPoint, <2>1, <1>5, StepRlz
<1> QED
  BY <1>2, <1>3, <1>6

\* Every call does to the data what it is asked.
LEMMA AskedNext == IInv /\ IInv' /\ Next => ActsAsAsked
<1> SUFFICES ASSUME IInv, IInv', Next PROVE ActsAsAsked
  OBVIOUS
<1>1. ASSUME NEW p \in Product, NEW e \in Event, RecordProductEvent(p, e) PROVE ActsAsAsked
  <2>1. call' = <<"RecordProductEvent", p, e>>
    BY <1>1 DEF RecordProductEvent
  <2>2. IF e \in ReadEvents(tree, brand, "StatefulEvents", p)
        THEN UNCHANGED Store!vars ELSE Store!RecordEvent(p, e)
    BY <1>1, StepRecordEvent
  <2> QED
    BY <2>1, <2>2 DEF ActsAsAsked
<1>2. ASSUME NEW p \in Product, NEW e \in Event, RecordStatefulEvent(p, e) PROVE ActsAsAsked
  <2>1. call' = <<"RecordStatefulEvent", p, e>>
    BY <1>2 DEF RecordStatefulEvent
  <2>2. Store!RecordStateful(p, e)
    BY <1>2, StepRecordStateful
  <2> QED
    BY <2>1, <2>2 DEF ActsAsAsked
<1>3. ASSUME NEW p \in Product, NEW e \in Event, ClearProductEvent(p, e) PROVE ActsAsAsked
  <2>1. call' = <<"ClearProductEvent", p, e>>
    BY <1>3 DEF ClearProductEvent
  <2>2. Store!ClearEvent(p, e)
    BY <1>3, StepClearEvent
  <2> QED
    BY <2>1, <2>2 DEF ActsAsAsked
<1>4. ASSUME NEW p \in Product, ClearAllProductEvents(p) PROVE ActsAsAsked
  <2>1. call' = <<"ClearAllProductEvents", p>>
    BY <1>4 DEF ClearAllProductEvents
  <2>2. Store!ClearAllEvents(p)
    BY <1>4, StepClearAllEvents
  <2> QED
    BY <2>1, <2>2 DEF ActsAsAsked
<1>5. ASSUME NEW p \in Product, GetProductEventsAsCgi(p) PROVE ActsAsAsked
  <2>1. call' = <<"GetProductEventsAsCgi", p>>
    BY <1>5 DEF GetProductEventsAsCgi
  <2>2. UNCHANGED Store!vars
    BY <1>5, StepGetEvents
  <2> QED
    BY <2>1, <2>2 DEF ActsAsAsked
<1>6. ASSUME NEW p \in Product, ClearLastPingTime(p) PROVE ActsAsAsked
  <2>1. call' = <<"ClearLastPingTime", p>>
    BY <1>6 DEF ClearLastPingTime
  <2>2. Store!SetPingTime(p, NoTime)
    BY <1>6, StepClearPing
  <2> QED
    BY <2>1, <2>2 DEF ActsAsAsked
<1>7. ASSUME NEW p \in Product, NEW time \in Time, UpdateLastPingTime(p, time) PROVE ActsAsAsked
  <2>1. call' = <<"UpdateLastPingTime", p, time>>
    BY <1>7 DEF UpdateLastPingTime
  <2>2. Store!SetPingTime(p, time)
    BY <1>7, StepUpdatePing
  <2> QED
    BY <2>1, <2>2 DEF ActsAsAsked
<1>8. ASSUME NEW point \in AccessPoint, GetAccessPointRlz(point) PROVE ActsAsAsked
  <2>1. call' = <<"GetAccessPointRlz", point>>
    BY <1>8 DEF GetAccessPointRlz
  <2>2. UNCHANGED Store!vars
    BY <1>8, StepGetRlz
  <2> QED
    BY <2>1, <2>2 DEF ActsAsAsked
<1>9. ASSUME NEW point \in AccessPoint, NEW raw \in RawRlz, SetAccessPointRlz(point, raw) PROVE ActsAsAsked
  <2>1. call' = <<"SetAccessPointRlz", point, raw>>
    BY <1>9 DEF SetAccessPointRlz
  <2>2. Store!SetRlz(point, NormalizeRlz(raw))
    BY <1>9, StepSetRlz
  <2> QED
    BY <2>1, <2>2 DEF ActsAsAsked
<1>10. ASSUME NEW p \in Product, NEW points \in SUBSET AccessPoint, ClearProductState(p, points) PROVE ActsAsAsked
  <2>1. call' = <<"ClearProductState", p, points>>
    BY <1>10 DEF ClearProductState
  <2>2. Store!ClearProduct(p, points)
    BY <1>10, StepClearProduct
  <2> QED
    BY <2>1, <2>2 DEF ActsAsAsked
<1>11. ASSUME NEW p \in Product, NEW points \in SUBSET AccessPoint, CrashInClear(p, points) PROVE ActsAsAsked
  <2>1. call' = <<"CrashInClear", p, points>>
    BY <1>11 DEF CrashInClear
  <2>2. Store!Dies(p, points)
    BY <1>11, StepDies
  <2> QED
    BY <2>1, <2>2 DEF ActsAsAsked
<1>12. ASSUME NEW b \in Brand, SupplementaryBranding(b) PROVE ActsAsAsked
  <2>1. call' = <<"SupplementaryBranding", b>> /\ b \in Brands
    BY <1>12 DEF SupplementaryBranding, Brands
  <2>2. Store!Scope(b)
    BY <1>12, <2>1, StepScope DEF SupplementaryBranding
  <2> QED
    BY <2>1, <2>2 DEF ActsAsAsked
<1>13. CASE EndBranding
  <2>1. call' = <<"SupplementaryBranding", NoBrand>> /\ NoBrand \in Brands
    BY <1>13 DEF EndBranding, Brands
  <2>2. Store!Scope(NoBrand)
    BY <1>13, <2>1, StepScope DEF EndBranding
  <2> QED
    BY <2>1, <2>2 DEF ActsAsAsked
<1> QED
  BY <1>1, <1>2, <1>3, <1>4, <1>5, <1>6, <1>7, <1>8, <1>9, <1>10, <1>11, <1>12, <1>13 DEF Next

\* What a call is asked to do is an action of ValueStore, or changes none of
\* its data.
LEMMA StoreNext == IInv /\ IInv' /\ [Next]_vars => [Store!Next]_(Store!vars)
<1> SUFFICES ASSUME IInv, IInv', [Next]_vars PROVE Store!Next \/ UNCHANGED Store!vars
  OBVIOUS
<1>1. CASE UNCHANGED vars
  BY <1>1, SameWithSame, Stutters DEF vars
<1>2. CASE Next
  <2>1. ActsAsAsked
    BY <1>2, AskedNext
  <2>2. Store!Brands = Brands
    BY Promised
  <2>3. ASSUME NEW p \in Product, NEW e \in Event,
               Store!RecordEvent(p, e) \/ Store!RecordStateful(p, e) \/ Store!ClearEvent(p, e)
        PROVE  Store!Next
    BY <2>3 DEF Store!Next
  <2>4. ASSUME NEW p \in Product, Store!ClearAllEvents(p) PROVE Store!Next
    BY <2>4 DEF Store!Next
  <2>5. ASSUME NEW p \in Product, NEW time \in Time \cup {NoTime}, Store!SetPingTime(p, time)
        PROVE  Store!Next
    BY <2>5 DEF Store!Next
  <2>6. ASSUME NEW p \in Product, NEW points \in SUBSET AccessPoint,
               Store!ClearProduct(p, points) \/ Store!Dies(p, points)
        PROVE  Store!Next
    BY <2>6 DEF Store!Next
  <2>7. ASSUME NEW b \in Brands, Store!Scope(b) PROVE Store!Next
    BY <2>2, <2>7 DEF Store!Next
  <2>8. ASSUME NEW point \in AccessPoint, NEW raw \in RawRlz, Store!SetRlz(point, NormalizeRlz(raw))
        PROVE  Store!Next
    <3>1. NormalizeRlz(raw) \in StoredRlz
      BY Normalised, LibraryAssumption
    <3> QED
      BY <2>8, <3>1 DEF Store!Next
  <2> QED
    BY <2>1, <2>3, <2>4, <2>5, <2>6, <2>7, <2>8 DEF ActsAsAsked
<1> QED
  BY <1>1, <1>2

\* Either store implements ValueStore: a call changes the data of the brand in
\* force, of the product and the access points that it is given, and nothing
\* else, whatever happened before, crashes in ClearProductState included
\* (rlz_lib.h:290-325).
THEOREM LibraryImplementsStore == Spec => StoreSpec
<1>1. Init => Store!Init
  BY StoreInit
<1>2. IInv /\ IInv' /\ [Next]_vars => [Store!Next]_(Store!vars)
  BY StoreNext
<1> QED
  BY <1>1, <1>2, LibraryInvariant, PTL DEF Spec, StoreSpec, Store!Spec

\* Each call does to the data what it is asked, with what it is given, for any
\* brands, products, access points and RLZs: what is written is read back whole,
\* also where the registry's reader cuts a value to its buffer
\* (registry_util.cc:28).
THEOREM LibraryCallsActAsAsked == Spec => CallsActAsAsked
<1>1. IInv /\ IInv' /\ [Next]_vars => [ActsAsAsked]_vars
  BY AskedNext
<1> QED
  BY <1>1, LibraryInvariant, PTL DEF Spec, CallsActAsAsked
=============================================================================
