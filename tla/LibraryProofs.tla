--------------------------- MODULE LibraryProofs ---------------------------
(***************************************************************************)
(* The library's store, for any brands, products, access points and        *)
(* events, and on either build.                                            *)
(***************************************************************************)
EXTENDS Library, KeyTreeProofs

----------------------------------------------------------------------------
(* Where the registry has the data *)

Fixed == {"Google", "Common", "Rlz", "RLZs", "Events", "StatefulEvents", "PTimes"}
EventType == {"Events", "StatefulEvents"}
Part == Fixed \cup STRING \cup Brand \cup Product

LEMMA LibKeyElements ==
  LET key == Win!LibKey
  IN  key \in Seq(Part) /\ Len(key) = 3 /\ key[1] = "Google" /\ key[2] = "Common" /\ key[3] = "Rlz"
<1>1. Win!Common \in Seq(Part) /\ "Rlz" \in Part
  BY DEF Part, Fixed, Win!Common
<1>2. Len(Win!Common) = 2 /\ Win!Common[1] = "Google" /\ Win!Common[2] = "Common"
  BY DEF Win!Common
<1> DEFINE key == Append(Win!Common, "Rlz")
<1>3. /\ key \in Seq(Part) /\ Len(key) = Len(Win!Common) + 1 /\ key[Len(Win!Common) + 1] = "Rlz"
      /\ \A i \in 1..Len(Win!Common) : key[i] = Win!Common[i]
  BY <1>1, Appended
<1> HIDE DEF key
<1>4. key \in Seq(Part) /\ Len(key) = 3 /\ key[1] = "Google" /\ key[2] = "Common" /\ key[3] = "Rlz"
  BY <1>2, <1>3
<1> QED
  BY <1>4 DEF Win!LibKey, key

\* The elements of a key of the brand b.
WinKey(key, s, b) ==
  /\ key \in Seq(Part)
  /\ key[1] = "Google" /\ key[2] = "Common" /\ key[3] = "Rlz" /\ key[4] = s
  /\ b # NoBrand => key[5] = b

LEMMA WinRegKey ==
  ASSUME NEW s \in Fixed, NEW b \in Brands
  PROVE  LET key == Win!RegKey(s, b)
         IN  WinKey(key, s, b) /\ Len(key) = IF b = NoBrand THEN 4 ELSE 5
<1> DEFINE lib == Win!LibKey
           plain == Append(lib, s)
           branded == Append(plain, b)
<1>1. lib \in Seq(Part) /\ Len(lib) = 3 /\ lib[1] = "Google" /\ lib[2] = "Common" /\ lib[3] = "Rlz"
  BY LibKeyElements
<1>2. s \in Part /\ (b # NoBrand => b \in Part) /\ lib \in Seq(Part)
  BY <1>1 DEF Part, Fixed, Brands
<1>3. Win!RegKey(s, b) = IF b = NoBrand THEN plain ELSE branded
  BY DEF Win!RegKey, Win!AppendBrand
<1> HIDE DEF lib
<1>4. /\ plain \in Seq(Part) /\ Len(plain) = Len(lib) + 1 /\ plain[Len(lib) + 1] = s
      /\ \A i \in 1..Len(lib) : plain[i] = lib[i]
  BY <1>2, Appended
<1> HIDE DEF plain
<1>5. /\ Len(plain) = 4 /\ plain[4] = s
      /\ plain[1] = "Google" /\ plain[2] = "Common" /\ plain[3] = "Rlz"
  BY <1>1, <1>4
<1>6. b # NoBrand =>
        /\ branded \in Seq(Part) /\ Len(branded) = Len(plain) + 1 /\ branded[Len(plain) + 1] = b
        /\ \A i \in 1..Len(plain) : branded[i] = plain[i]
  BY <1>2, <1>4, Appended
<1> HIDE DEF branded
<1>7. WinKey(plain, s, NoBrand) /\ Len(plain) = 4
  BY <1>4, <1>5 DEF WinKey
<1>8. b # NoBrand => WinKey(branded, s, b) /\ Len(branded) = 5
  BY <1>5, <1>6 DEF WinKey
<1> QED
  BY <1>3, <1>7, <1>8 DEF WinKey

LEMMA WinEventsKey ==
  ASSUME NEW s \in Fixed, NEW b \in Brands, NEW p \in Product
  PROVE  LET key == Win!EventsKey(s, b, p)
         IN  WinKey(key, s, b) /\ Len(key) = (IF b = NoBrand THEN 5 ELSE 6) /\ key[Len(key)] = p
<1> DEFINE above == Win!RegKey(s, b)
           key == Append(above, p)
<1>1. WinKey(above, s, b) /\ Len(above) = IF b = NoBrand THEN 4 ELSE 5
  BY WinRegKey
<1>2. p \in Part /\ above \in Seq(Part)
  BY <1>1 DEF Part, WinKey
<1> HIDE DEF above
<1>3. /\ key \in Seq(Part) /\ Len(key) = Len(above) + 1 /\ key[Len(above) + 1] = p
      /\ \A i \in 1..Len(above) : key[i] = above[i]
  BY <1>2, Appended
<1> HIDE DEF key
<1>4. WinKey(key, s, b) /\ Len(key) = (IF b = NoBrand THEN 5 ELSE 6) /\ key[Len(key)] = p
  BY <1>1, <1>3 DEF WinKey
<1> QED
  BY <1>4 DEF Win!EventsKey, key, above

\* The keys of brands, products and kinds of data differ, and none lies below
\* the events of a product.
LEMMA WinKeysDiffer ==
  ASSUME NEW s \in Fixed, NEW u \in Fixed, NEW b \in Brands, NEW c \in Brands,
         NEW p \in Product, NEW q \in Product
  PROVE  /\ Win!RegKey(s, b) = Win!RegKey(u, c) => s = u /\ b = c
         /\ Win!EventsKey(s, b, p) = Win!EventsKey(u, c, q) => s = u /\ b = c /\ p = q
         /\ Win!EventsKey(s, b, p) # Win!RegKey(u, c)
         /\ ~IsStrictPrefix(Win!EventsKey(s, b, p), Win!RegKey(u, c))
         /\ ~IsStrictPrefix(Win!EventsKey(s, b, p), Win!EventsKey(u, c, q))
<1>1. PICK d : d = Win!EventsKey(s, b, p)
  OBVIOUS
<1>2. PICK e : e = Win!EventsKey(u, c, q)
  OBVIOUS
<1>3. PICK k : k = Win!RegKey(s, b)
  OBVIOUS
<1>4. PICK r : r = Win!RegKey(u, c)
  OBVIOUS
<1>5. WinKey(d, s, b) /\ Len(d) = (IF b = NoBrand THEN 5 ELSE 6) /\ d[Len(d)] = p
  BY <1>1, WinEventsKey
<1>6. WinKey(e, u, c) /\ Len(e) = (IF c = NoBrand THEN 5 ELSE 6) /\ e[Len(e)] = q
  BY <1>2, WinEventsKey
<1>7. WinKey(k, s, b) /\ Len(k) = IF b = NoBrand THEN 4 ELSE 5
  BY <1>3, WinRegKey
<1>8. WinKey(r, u, c) /\ Len(r) = IF c = NoBrand THEN 4 ELSE 5
  BY <1>4, WinRegKey
<1>9. c # NoBrand => c # p
  BY LibraryAssumption DEF Brands
<1>10. k = r => s = u /\ b = c
  BY <1>7, <1>8 DEF WinKey
<1>11. d = e => s = u /\ b = c /\ p = q
  BY <1>5, <1>6 DEF WinKey
<1>12. d # r /\ ~IsStrictPrefix(d, r)
  <2>1. IsStrictPrefix(d, r) <=> Len(d) < Len(r) /\ \A i \in 1..Len(d) : d[i] = r[i]
    BY <1>5, <1>8, StrictPrefixElements DEF WinKey
  <2> QED
    BY <1>5, <1>8, <1>9, <2>1 DEF WinKey
<1>13. ~IsStrictPrefix(d, e)
  <2>1. IsStrictPrefix(d, e) <=> Len(d) < Len(e) /\ \A i \in 1..Len(d) : d[i] = e[i]
    BY <1>5, <1>6, StrictPrefixElements DEF WinKey
  <2> QED
    BY <1>5, <1>6, <1>9, <2>1 DEF WinKey
<1> QED
  BY <1>1, <1>2, <1>3, <1>4, <1>10, <1>11, <1>12, <1>13

\* A key of the library is not one of other software, and has none below it.
LEMMA WinKeyNotForeign ==
  ASSUME NEW s, NEW b, NEW key, WinKey(key, s, b), Len(key) > 3, NEW other \in Foreign
  PROVE  other # key /\ ~IsStrictPrefix(key, other)
<1>1. PICK lib : lib = <<"Google", "Common", "Rlz">>
  OBVIOUS
<1>2. lib \in Seq(Part)
  BY <1>1 DEF Part, Fixed
<1>3. Len(lib) = 3 /\ lib[1] = "Google" /\ lib[2] = "Common" /\ lib[3] = "Rlz"
  BY <1>1
<1>4. other \in Seq(Part) /\ ~IsPrefix(lib, other)
  BY <1>1, LibraryAssumption DEF Part
<1>5. ~(Len(other) > 3 /\ \A i \in 1..3 : other[i] = lib[i])
  BY <1>2, <1>3, <1>4, PrefixElements
<1>6. key[1] = lib[1] /\ key[2] = lib[2] /\ key[3] = lib[3]
  BY <1>3 DEF WinKey
<1>7. ASSUME Len(key) <= Len(other), \A i \in 1..Len(key) : key[i] = other[i] PROVE FALSE
  <2>1. 1 \in 1..Len(key) /\ 2 \in 1..Len(key) /\ 3 \in 1..Len(key)
    BY DEF WinKey
  <2> QED
    BY <1>4, <1>5, <1>6, <1>7, <2>1 DEF WinKey
<1> QED
  BY <1>4, <1>7, StrictPrefixElements DEF WinKey

----------------------------------------------------------------------------
(* Where the property list of the Mac has it *)

LEMMA MacDicts ==
  ASSUME NEW b \in Brands, NEW p \in Product
  PROVE  /\ LET d == Mac!ProductDict(b, p)
            IN  /\ d \in Seq(Part) /\ Len(d) = (IF b = NoBrand THEN 1 ELSE 2)
                /\ d[Len(d)] = p /\ (b # NoBrand => d[1] = b)
         /\ LET d == Mac!AccessPoints(b)
            IN  /\ d \in Seq(Part) /\ Len(d) = (IF b = NoBrand THEN 1 ELSE 2)
                /\ d[Len(d)] = "RLZs" /\ (b # NoBrand => d[1] = b)
         /\ Mac!WorkingDict(b) \in Seq(Part)
<1> DEFINE w == Mac!WorkingDict(b)
<1>1. w \in Seq(Part) /\ p \in Part /\ "RLZs" \in Part
  <2>1. p \in Part /\ "RLZs" \in Part /\ (b # NoBrand => b \in Part)
    BY DEF Part, Fixed, Brands
  <2> QED
    BY <2>1 DEF Mac!WorkingDict
<1>2. Len(w) = (IF b = NoBrand THEN 0 ELSE 1) /\ (b # NoBrand => w[1] = b)
  BY DEF Mac!WorkingDict
<1>3. w \in Seq(Part)
  BY <1>1
<1> HIDE DEF w
<1>4. ASSUME NEW n \in Part
      PROVE  LET d == Append(w, n)
             IN  /\ d \in Seq(Part) /\ Len(d) = (IF b = NoBrand THEN 1 ELSE 2)
                 /\ d[Len(d)] = n /\ (b # NoBrand => d[1] = b)
  <2>1. PICK d : d = Append(w, n)
    OBVIOUS
  <2>2. /\ d \in Seq(Part) /\ Len(d) = Len(w) + 1 /\ d[Len(w) + 1] = n
        /\ \A i \in 1..Len(w) : d[i] = w[i]
    BY <1>3, <2>1, Appended
  <2>3. /\ d \in Seq(Part) /\ Len(d) = (IF b = NoBrand THEN 1 ELSE 2)
        /\ d[Len(d)] = n /\ (b # NoBrand => d[1] = b)
    BY <1>2, <2>2
  <2> QED
    BY <2>1, <2>3
<1>5. Mac!ProductDict(b, p) = Append(w, p) /\ Mac!AccessPoints(b) = Append(w, "RLZs")
  BY DEF Mac!ProductDict, Mac!AccessPoints, w
<1> QED
  BY <1>1, <1>4, <1>5 DEF w

LEMMA MacEventsDict ==
  ASSUME NEW b \in Brands, NEW p \in Product, NEW type \in Fixed,
         NEW d, d = Mac!EventsDict(b, type, p)
  PROVE  /\ d \in Seq(Part) /\ Len(d) = (IF b = NoBrand THEN 2 ELSE 3)
         /\ d[Len(d)] = type /\ d[Len(d) - 1] = p /\ (b # NoBrand => d[1] = b)
<1>1. PICK w : w = Mac!ProductDict(b, p)
  OBVIOUS
<1>2. w \in Seq(Part) /\ type \in Part
  BY <1>1, MacDicts DEF Part
<1>3. /\ Len(w) = (IF b = NoBrand THEN 1 ELSE 2)
      /\ w[Len(w)] = p /\ (b # NoBrand => w[1] = b)
  BY <1>1, MacDicts
<1>4. d = Append(w, type)
  BY <1>1 DEF Mac!EventsDict
<1>5. /\ d \in Seq(Part) /\ Len(d) = Len(w) + 1 /\ d[Len(w) + 1] = type
      /\ \A i \in 1..Len(w) : d[i] = w[i]
  BY <1>2, <1>4, Appended
<1>6. /\ Len(d) = (IF b = NoBrand THEN 2 ELSE 3)
      /\ d[Len(d)] = type /\ d[Len(d) - 1] = p /\ (b # NoBrand => d[1] = b)
  BY <1>3, <1>5
<1> QED
  BY <1>5, <1>6

LEMMA MacDictsDiffer ==
  ASSUME NEW s \in EventType, NEW u \in EventType,
         NEW b \in Brands, NEW c \in Brands, NEW p \in Product, NEW q \in Product
  PROVE  /\ Mac!ProductDict(b, p) = Mac!ProductDict(c, q) => b = c /\ p = q
         /\ Mac!AccessPoints(b) = Mac!AccessPoints(c) => b = c
         /\ Mac!ProductDict(b, p) # Mac!AccessPoints(c)
         /\ Mac!EventsDict(b, s, p) = Mac!EventsDict(c, u, q) => s = u /\ b = c /\ p = q
         /\ Mac!EventsDict(b, s, p) \notin {Mac!ProductDict(c, q), Mac!AccessPoints(c)}
         /\ ~IsStrictPrefix(Mac!EventsDict(b, s, p), Mac!ProductDict(c, q))
         /\ ~IsStrictPrefix(Mac!EventsDict(b, s, p), Mac!AccessPoints(c))
         /\ ~IsStrictPrefix(Mac!EventsDict(b, s, p), Mac!EventsDict(c, u, q))
<1>1. s \in Fixed /\ u \in Fixed /\ s # "RLZs"
  BY DEF Fixed, EventType
<1>2. PICK d : d = Mac!ProductDict(b, p)
  OBVIOUS
<1>3. PICK e : e = Mac!ProductDict(c, q)
  OBVIOUS
<1>4. PICK a : a = Mac!AccessPoints(b)
  OBVIOUS
<1>5. PICK r : r = Mac!AccessPoints(c)
  OBVIOUS
<1>6. PICK g : g = Mac!EventsDict(b, s, p)
  OBVIOUS
<1>7. PICK h : h = Mac!EventsDict(c, u, q)
  OBVIOUS
<1>8. /\ d \in Seq(Part) /\ Len(d) = (IF b = NoBrand THEN 1 ELSE 2)
      /\ d[Len(d)] = p /\ (b # NoBrand => d[1] = b)
  BY <1>2, MacDicts
<1>9. /\ e \in Seq(Part) /\ Len(e) = (IF c = NoBrand THEN 1 ELSE 2)
      /\ e[Len(e)] = q /\ (c # NoBrand => e[1] = c)
  BY <1>3, MacDicts
<1>10. /\ a \in Seq(Part) /\ Len(a) = (IF b = NoBrand THEN 1 ELSE 2)
      /\ a[Len(a)] = "RLZs" /\ (b # NoBrand => a[1] = b)
  BY <1>4, MacDicts
<1>11. /\ r \in Seq(Part) /\ Len(r) = (IF c = NoBrand THEN 1 ELSE 2)
       /\ r[Len(r)] = "RLZs" /\ (c # NoBrand => r[1] = c)
  BY <1>5, MacDicts
<1>12. /\ g \in Seq(Part) /\ Len(g) = (IF b = NoBrand THEN 2 ELSE 3)
       /\ g[Len(g)] = s /\ g[Len(g) - 1] = p /\ (b # NoBrand => g[1] = b)
  <2>1. s \in Fixed /\ g = Mac!EventsDict(b, s, p)
    BY <1>1, <1>6
  <2> QED
    BY ONLY <2>1, b \in Brands, p \in Product, MacEventsDict
<1>13. /\ h \in Seq(Part) /\ Len(h) = (IF c = NoBrand THEN 2 ELSE 3)
       /\ h[Len(h)] = u /\ h[Len(h) - 1] = q /\ (c # NoBrand => h[1] = c)
  BY <1>1, <1>7, MacEventsDict
<1>14. p # "RLZs" /\ (b # NoBrand => b # q) /\ (c # NoBrand => c # p)
  BY LibraryAssumption DEF Brands
<1>15. (d = e => b = c /\ p = q) /\ (a = r => b = c) /\ d # r
  BY <1>8, <1>9, <1>10, <1>11, <1>14
<1>16. g = h => s = u /\ b = c /\ p = q
  BY <1>12, <1>13
<1>17. g # e
  BY <1>9, <1>12, <1>14
<1>18. g # r
  BY <1>1, <1>11, <1>12
<1>19. ~IsStrictPrefix(g, e) /\ ~IsStrictPrefix(g, r)
  <2>1. ~(Len(g) < Len(e)) /\ ~(Len(g) < Len(r))
    BY <1>9, <1>11, <1>12
  <2> QED
    BY <1>9, <1>11, <1>12, <2>1, StrictPrefixElements
<1>20. ~IsStrictPrefix(g, h)
  <2>1. IsStrictPrefix(g, h) <=> Len(g) < Len(h) /\ \A i \in 1..Len(g) : g[i] = h[i]
    BY <1>12, <1>13, StrictPrefixElements
  <2> QED
    BY <1>12, <1>13, <1>14, <2>1
<1> QED
  BY <1>2, <1>3, <1>4, <1>5, <1>6, <1>7, <1>15, <1>16, <1>17, <1>18, <1>19, <1>20

----------------------------------------------------------------------------
(* Either store: where the data of a brand are, and what is done to them *)

EventsPath(b, type, p) == IF OnWin THEN Win!EventsKey(type, b, p) ELSE Mac!EventsDict(b, type, p)
PingPath(b, p) == IF OnWin THEN Win!RegKey("PTimes", b) ELSE Mac!ProductDict(b, p)
PingName(p) == IF OnWin THEN p ELSE "pingTime"
RlzPath(b) == IF OnWin THEN Win!RegKey("RLZs", b) ELSE Mac!AccessPoints(b)

\* What is created by whoever clears events, or an RLZ.
ClearPath(b, type, p) == IF OnWin THEN Win!RegKey(type, b) ELSE Mac!ProductDict(b, p)
ClearRlzPath(b) == IF OnWin THEN Win!RegKey("RLZs", b) ELSE Mac!WorkingDict(b)

LEMMA WinTree ==
  /\ \A t, path, name, value : Win!WithValue(t, path, name, value) = WithValue(t, path, name, value)
  /\ \A t, path, names : Win!WithoutValues(t, path, names) = WithoutValues(t, path, names)
  /\ \A t, path, name : Win!WithoutValue(t, path, name) = WithoutValues(t, path, {name})
  /\ \A t, path : Win!Created(t, path) = Created(t, path)
  /\ \A t, path : Win!WithoutKey(t, path) = WithoutKey(t, path)
  /\ \A t, path : Win!Subkeys(t, path) = Subkeys(t, path)
  /\ \A t, path : Win!Names(t, path) = Names(t, path)
  /\ \A t, path, name, d : Win!ValueOr(t, path, name, d) = ValueOr(t, path, name, d)
<1>1. \A t, path, name, value : Win!WithValue(t, path, name, value) = WithValue(t, path, name, value)
  BY DEF Win!WithValue, WithValue, Win!Created, Created, Win!Above, Above, Win!NoValues, NoValues
<1>2. \A t, path, names : Win!WithoutValues(t, path, names) = WithoutValues(t, path, names)
  BY DEF Win!WithoutValues, WithoutValues, Win!Restrict, Restrict
<1>3. \A t, path, name : Win!WithoutValue(t, path, name) = WithoutValues(t, path, {name})
  BY <1>2 DEF Win!WithoutValue
<1>4. \A t, path : Win!Created(t, path) = Created(t, path)
  BY DEF Win!Created, Created, Win!Above, Above, Win!NoValues, NoValues
<1>5. \A t, path : Win!WithoutKey(t, path) = WithoutKey(t, path)
  BY DEF Win!WithoutKey, WithoutKey, Win!Subkeys, Subkeys, Win!Restrict, Restrict,
         Win!IsStrictPrefix, IsStrictPrefix, Win!IsPrefix, IsPrefix
<1>6. \A t, path : Win!Subkeys(t, path) = Subkeys(t, path)
  BY DEF Win!Subkeys, Subkeys, Win!IsStrictPrefix, IsStrictPrefix, Win!IsPrefix, IsPrefix
<1>7. \A t, path : Win!Names(t, path) = Names(t, path)
  BY DEF Win!Names, Names
<1>8. \A t, path, name, d : Win!ValueOr(t, path, name, d) = ValueOr(t, path, name, d)
  BY DEF Win!ValueOr, ValueOr, Win!Names, Names
<1> QED
  BY <1>1, <1>2, <1>3, <1>4, <1>5, <1>6, <1>7, <1>8

LEMMA MacTree ==
  /\ \A t, path, name, value : Mac!WithValue(t, path, name, value) = WithValue(t, path, name, value)
  /\ \A t, path, names : Mac!WithoutValues(t, path, names) = WithoutValues(t, path, names)
  /\ \A t, path, name : Mac!WithoutValue(t, path, name) = WithoutValues(t, path, {name})
  /\ \A t, path : Mac!Created(t, path) = Created(t, path)
  /\ \A t, path : Mac!WithoutKey(t, path) = WithoutKey(t, path)
  /\ \A t, path : Mac!Names(t, path) = Names(t, path)
  /\ \A t, path, name, d : Mac!ValueOr(t, path, name, d) = ValueOr(t, path, name, d)
<1>1. \A t, path, name, value : Mac!WithValue(t, path, name, value) = WithValue(t, path, name, value)
  BY DEF Mac!WithValue, WithValue, Mac!Created, Created, Mac!Above, Above, Mac!NoValues, NoValues
<1>2. \A t, path, names : Mac!WithoutValues(t, path, names) = WithoutValues(t, path, names)
  BY DEF Mac!WithoutValues, WithoutValues, Mac!Restrict, Restrict
<1>3. \A t, path, name : Mac!WithoutValue(t, path, name) = WithoutValues(t, path, {name})
  BY <1>2 DEF Mac!WithoutValue
<1>4. \A t, path : Mac!Created(t, path) = Created(t, path)
  BY DEF Mac!Created, Created, Mac!Above, Above, Mac!NoValues, NoValues
<1>5. \A t, path : Mac!WithoutKey(t, path) = WithoutKey(t, path)
  BY DEF Mac!WithoutKey, WithoutKey, Mac!Subkeys, Subkeys, Mac!Restrict, Restrict,
         Mac!IsStrictPrefix, IsStrictPrefix, Mac!IsPrefix, IsPrefix
<1>6. \A t, path : Mac!Names(t, path) = Names(t, path)
  BY DEF Mac!Names, Names
<1>7. \A t, path, name, d : Mac!ValueOr(t, path, name, d) = ValueOr(t, path, name, d)
  BY DEF Mac!ValueOr, ValueOr, Mac!Names, Names
<1> QED
  BY <1>1, <1>2, <1>3, <1>4, <1>5, <1>6, <1>7

\* The operations of either store are operations on the tree, at those paths.
LEMMA Operations ==
  /\ \A t, p : Touched(t, p) = IF OnWin THEN t ELSE Created(t, Mac!ProductDict(brand, p))
  /\ \A t : TouchedBrand(t) = IF OnWin THEN t ELSE Created(t, Mac!WorkingDict(brand))
  /\ \A t, type, p, e : AddEvent(t, type, p, e) = WithValue(t, EventsPath(brand, type, p), e, 1)
  /\ \A t, type, p : ClearEvents(t, type, p) =
       WithoutKey(Created(t, ClearPath(brand, type, p)), EventsPath(brand, type, p))
  /\ \A t, p : ClearPingTime(t, p) =
       WithoutValues(Created(t, PingPath(brand, p)), PingPath(brand, p), {PingName(p)})
  /\ \A t, points : ClearRlzs(t, points) =
       WithoutValues(Created(t, ClearRlzPath(brand)), RlzPath(brand), points)
<1>1. CASE OnWin
  BY <1>1, WinTree
  DEF EventsPath, PingPath, PingName, RlzPath, ClearPath, ClearRlzPath,
      Touched, TouchedBrand, AddEvent, ClearEvents, ClearPingTime, ClearRlzs,
      Win!AddEvent, Win!ClearAllProductEventValues, Win!ClearPingTime, Win!ClearAccessPointRlzs
<1>2. CASE ~OnWin
  BY <1>2, MacTree
  DEF EventsPath, PingPath, PingName, RlzPath, ClearPath, ClearRlzPath,
      Touched, TouchedBrand, AddEvent, ClearEvents, ClearPingTime, ClearRlzs,
      Mac!Touched, Mac!TouchedBrand,
      Mac!AddEvent, Mac!ClearAllProductEventValues, Mac!ClearPingTime, Mac!ClearAccessPointRlzs
<1> QED
  BY <1>1, <1>2

LEMMA OtherWrites ==
  /\ \A t, p, e : (IF OnWin THEN Win!ClearProductEvent(t, brand, p, e)
                   ELSE Mac!ClearProductEvent(t, brand, p, e)) =
       WithoutValues(Created(t, IF OnWin THEN EventsPath(brand, "Events", p) ELSE Mac!ProductDict(brand, p)),
                     EventsPath(brand, "Events", p), {e})
  /\ \A t, p, time : (IF OnWin THEN Win!WritePingTime(t, brand, p, time)
                      ELSE Mac!WritePingTime(t, brand, p, time)) =
       WithValue(t, PingPath(brand, p), PingName(p), time)
  /\ \A t, point, rlz : (IF OnWin THEN Win!WriteAccessPointRlz(t, brand, point, rlz)
                         ELSE Mac!WriteAccessPointRlz(t, brand, point, rlz)) =
       WithValue(t, RlzPath(brand), point, rlz)
<1>1. CASE OnWin
  BY <1>1, WinTree
  DEF EventsPath, PingPath, PingName, RlzPath,
      Win!ClearProductEvent, Win!WritePingTime, Win!WriteAccessPointRlz
<1>2. CASE ~OnWin
  BY <1>2, MacTree
  DEF EventsPath, PingPath, PingName, RlzPath,
      Mac!ClearProductEvent, Mac!WritePingTime, Mac!WriteAccessPointRlz, Mac!Touched
<1> QED
  BY <1>1, <1>2

Stored(t, b, point) == ValueOr(t, RlzPath(b), point, <<>>)

LEMMA Reads ==
  /\ \A t, b, type, p : ReadEvents(t, b, type, p) = Names(t, EventsPath(b, type, p))
  /\ \A t, b, p : ReadPingTime(t, b, p) = ValueOr(t, PingPath(b, p), PingName(p), NoTime)
  /\ \A t, b, point : ReadRlz(t, b, point) =
       IF OnWin THEN Win!RegKeyReadValue(Stored(t, b, point), MaxRlzLength + 1)
       ELSE Stored(t, b, point)
<1>1. CASE OnWin
  BY <1>1, WinTree
  DEF EventsPath, PingPath, PingName, RlzPath, Stored, ReadEvents, ReadPingTime, ReadRlz,
      Win!ReadEvents, Win!ReadPingTime, Win!ReadAccessPointRlz
<1>2. CASE ~OnWin
  BY <1>2, MacTree
  DEF EventsPath, PingPath, PingName, RlzPath, Stored, ReadEvents, ReadPingTime, ReadRlz,
      Mac!ReadEvents, Mac!ReadPingTime, Mac!ReadAccessPointRlz
<1> QED
  BY <1>1, <1>2

\* The places differ, whatever the store.
LEMMA PathsDiffer ==
  ASSUME NEW s \in EventType, NEW u \in EventType,
         NEW b \in Brands, NEW c \in Brands, NEW p \in Product, NEW q \in Product
  PROVE  /\ EventsPath(b, s, p) = EventsPath(c, u, q) => s = u /\ b = c /\ p = q
         /\ EventsPath(b, s, p) # PingPath(c, q) /\ EventsPath(b, s, p) # RlzPath(c)
         /\ PingPath(b, p) = PingPath(c, q) /\ PingName(p) = PingName(q) => b = c /\ p = q
         /\ PingPath(b, p) # RlzPath(c)
         /\ RlzPath(b) = RlzPath(c) => b = c
         /\ ~IsStrictPrefix(EventsPath(b, s, p), EventsPath(c, u, q))
         /\ ~IsStrictPrefix(EventsPath(b, s, p), PingPath(c, q))
         /\ ~IsStrictPrefix(EventsPath(b, s, p), RlzPath(c))
<1>1. s \in Fixed /\ u \in Fixed /\ "PTimes" \in Fixed /\ "RLZs" \in Fixed
  BY DEF EventType, Fixed
<1>2. CASE OnWin
  <2>1. Win!EventsKey(s, b, p) = Win!EventsKey(u, c, q) => s = u /\ b = c /\ p = q
    BY <1>1, WinKeysDiffer
  <2>2. \A k \in Fixed : Win!EventsKey(s, b, p) # Win!RegKey(k, c)
                         /\ ~IsStrictPrefix(Win!EventsKey(s, b, p), Win!RegKey(k, c))
    BY <1>1, WinKeysDiffer
  <2>3. \A k, l \in Fixed : Win!RegKey(k, b) = Win!RegKey(l, c) => k = l /\ b = c
    BY WinKeysDiffer
  <2>4. ~IsStrictPrefix(Win!EventsKey(s, b, p), Win!EventsKey(u, c, q))
    BY <1>1, WinKeysDiffer
  <2> QED
    BY <1>1, <1>2, <2>1, <2>2, <2>3, <2>4 DEF EventsPath, PingPath, PingName, RlzPath
<1>3. CASE ~OnWin
  BY <1>3, MacDictsDiffer DEF EventsPath, PingPath, PingName, RlzPath
<1> QED
  BY <1>2, <1>3

----------------------------------------------------------------------------
(* What every operation preserves *)

\* Only keys of the library are written to and deleted from.
OwnPath(path, o) ==
  /\ path \in Seq(Part) \ {<<>>} /\ Proper(path)
  /\ \A key \in o : key # path /\ ~IsStrictPrefix(path, key)

Neighbours(o) == o \subseteq Foreign /\ (OnWin \/ o = {})

LEMMA PathsOwn ==
  ASSUME NEW o, Neighbours(o), NEW b \in Brands, NEW p \in Product, NEW s \in EventType
  PROVE  /\ OwnPath(EventsPath(b, s, p), o) /\ OwnPath(PingPath(b, p), o) /\ OwnPath(RlzPath(b), o)
         /\ Mac!ProductDict(b, p) \in Seq(Part) /\ Mac!WorkingDict(b) \in Seq(Part)
         /\ ClearPath(b, s, p) \in Seq(Part) /\ ClearRlzPath(b) \in Seq(Part)
<1>1. s \in Fixed /\ "PTimes" \in Fixed /\ "RLZs" \in Fixed
  BY DEF EventType, Fixed
<1>2. ASSUME OnWin, NEW key, \E k, c : WinKey(key, k, c), Len(key) \in {4, 5, 6}
      PROVE  OwnPath(key, o)
  <2>1. PICK k, c : WinKey(key, k, c)
    BY <1>2
  <2>2. key \in Seq(Part) /\ key # <<>> /\ Len(key) > 3
    BY <1>2, <2>1 DEF WinKey
  <2>3. Proper(key)
    BY <2>2, SelfAbove
  <2>4. \A other \in o : other # key /\ ~IsStrictPrefix(key, other)
    BY <2>1, <2>2, WinKeyNotForeign DEF Neighbours
  <2> QED
    BY <2>2, <2>3, <2>4 DEF OwnPath
<1>3. ASSUME ~OnWin, NEW key \in Seq(Part), Len(key) \in {1, 2, 3} PROVE OwnPath(key, o)
  <2>1. key # <<>>
    BY <1>3
  <2> QED
    BY <1>3, <2>1, SelfAbove DEF OwnPath, Neighbours
<1>4. /\ Mac!ProductDict(b, p) \in Seq(Part) /\ Mac!WorkingDict(b) \in Seq(Part)
      /\ Mac!AccessPoints(b) \in Seq(Part)
      /\ Len(Mac!ProductDict(b, p)) \in {1, 2} /\ Len(Mac!AccessPoints(b)) \in {1, 2}
  BY MacDicts
<1>5. \A k \in Fixed : /\ WinKey(Win!RegKey(k, b), k, b) /\ Win!RegKey(k, b) \in Seq(Part)
                       /\ Len(Win!RegKey(k, b)) \in {4, 5}
  BY WinRegKey DEF WinKey
<1>6. CASE OnWin
  <2>1. OwnPath(Win!RegKey("PTimes", b), o) /\ OwnPath(Win!RegKey("RLZs", b), o)
    BY <1>1, <1>2, <1>5, <1>6
  <2>2. OwnPath(Win!EventsKey(s, b, p), o)
    <3>1. WinKey(Win!EventsKey(s, b, p), s, b) /\ Len(Win!EventsKey(s, b, p)) \in {5, 6}
      BY <1>1, WinEventsKey
    <3> QED
      BY <1>2, <1>6, <3>1
  <2> QED
    BY <1>1, <1>4, <1>5, <1>6, <2>1, <2>2
    DEF EventsPath, PingPath, RlzPath, ClearPath, ClearRlzPath
<1>7. CASE ~OnWin
  <2>1. OwnPath(Mac!ProductDict(b, p), o) /\ OwnPath(Mac!AccessPoints(b), o)
    BY <1>3, <1>4, <1>7
  <2>2. OwnPath(Mac!EventsDict(b, s, p), o)
    <3>1. Mac!EventsDict(b, s, p) \in Seq(Part) /\ Len(Mac!EventsDict(b, s, p)) \in {2, 3}
      BY <1>1, MacEventsDict
    <3> QED
      BY <1>3, <1>7, <3>1
  <2> QED
    BY <1>4, <1>7, <2>1, <2>2
    DEF EventsPath, PingPath, RlzPath, ClearPath, ClearRlzPath
<1> QED
  BY <1>6, <1>7

\* The tree is one, closed under parents, has the values of others and only
\* RLZs that are normalised.
Fine(t, o) ==
  /\ IsTree(t) /\ Closed(t, Part)
  /\ \A key \in o : "theirs" \in Names(t, key)
  /\ \A key, point : point \in AccessPoint /\ point \in Names(t, key) =>
                       ValueOr(t, key, point, <<>>) \in StoredRlz \ {<<>>}

LEMMA FineCreated ==
  ASSUME NEW o, NEW t, Fine(t, o), NEW path \in Seq(Part)
  PROVE  Fine(Created(t, path), o)
<1> DEFINE u == Created(t, path)
<1>1. Closed(u, Part)
  BY CreatedClosed DEF Fine
<1>2. /\ \A key : Names(u, key) = Names(t, key)
      /\ \A key, n, d : ValueOr(u, key, n, d) = ValueOr(t, key, n, d)
      /\ IsTree(u)
  BY CreatedTree DEF Fine
<1> HIDE DEF u
<1>3. Fine(u, o)
  BY <1>1, <1>2 DEF Fine
<1> QED
  BY <1>3 DEF u

LEMMA FineWithValue ==
  ASSUME NEW o, NEW t, Fine(t, o), NEW path, OwnPath(path, o), NEW name, NEW value,
         name \in AccessPoint => value \in StoredRlz \ {<<>>}
  PROVE  Fine(WithValue(t, path, name, value), o)
<1>1. PICK u : u = WithValue(t, path, name, value)
  OBVIOUS
<1>2. Proper(path) /\ IsTree(t)
  BY DEF OwnPath, Fine
<1>3. DOMAIN u = DOMAIN t \cup Above(path) /\ IsTree(u)
  BY <1>1, <1>2, WithValueKeys, WithValueTree
<1>4. Closed(u, Part)
  <2>1. Closed(Created(t, path), Part) /\ DOMAIN Created(t, path) = DOMAIN u
    BY <1>3, CreatedClosed, CreatedTree DEF Fine, OwnPath
  <2> QED
    BY <2>1 DEF Closed
<1>5. \A key : Names(u, key) = Names(t, key) \cup (IF key = path THEN {name} ELSE {})
  BY <1>1, <1>2, WithValueNames
<1>6. \A key, n, d : ValueOr(u, key, n, d) =
        IF key = path /\ n = name THEN value ELSE ValueOr(t, key, n, d)
  BY <1>1, <1>2, WithValueOr
<1>7. \A key \in o : "theirs" \in Names(u, key)
  BY <1>5 DEF Fine
<1>8. ASSUME NEW key, NEW point \in AccessPoint, point \in Names(u, key)
      PROVE  ValueOr(u, key, point, <<>>) \in StoredRlz \ {<<>>}
  <2>1. CASE key = path /\ point = name
    BY <1>6, <2>1
  <2>2. CASE ~(key = path /\ point = name)
    <3>1. point \in Names(t, key) /\ ValueOr(u, key, point, <<>>) = ValueOr(t, key, point, <<>>)
      BY <1>5, <1>6, <1>8, <2>2
    <3> QED
      BY <3>1 DEF Fine
  <2> QED
    BY <2>1, <2>2
<1>9. Fine(u, o)
  BY <1>3, <1>4, <1>7, <1>8 DEF Fine
<1> QED
  BY <1>1, <1>9

LEMMA FineWithoutValues ==
  ASSUME NEW o, NEW t, Fine(t, o), NEW path, OwnPath(path, o), NEW names
  PROVE  Fine(WithoutValues(t, path, names), o)
<1> DEFINE u == WithoutValues(t, path, names)
<1>1. /\ DOMAIN u = DOMAIN t
      /\ \A key : Names(u, key) = Names(t, key) \ (IF key = path THEN names ELSE {})
      /\ \A key, n, d : ValueOr(u, key, n, d) =
           IF key = path /\ n \in names THEN d ELSE ValueOr(t, key, n, d)
      /\ IsTree(u)
  BY WithoutValuesTree DEF Fine
<1> HIDE DEF u
<1>2. Closed(u, Part)
  BY <1>1 DEF Closed, Fine
<1>3. \A key \in o : "theirs" \in Names(u, key)
  BY <1>1 DEF Fine, OwnPath
<1>4. ASSUME NEW key, NEW point \in AccessPoint, point \in Names(u, key)
      PROVE  ValueOr(u, key, point, <<>>) \in StoredRlz \ {<<>>}
  <2>1. point \in Names(t, key) /\ ValueOr(u, key, point, <<>>) = ValueOr(t, key, point, <<>>)
    BY <1>1, <1>4
  <2> QED
    BY <2>1 DEF Fine
<1>5. Fine(u, o)
  BY <1>1, <1>2, <1>3, <1>4 DEF Fine
<1> QED
  BY <1>5 DEF u

\* Keys may go that have no values, or belong to the library.
LEMMA FineWithoutKey ==
  ASSUME NEW o, NEW t, Fine(t, o), NEW path \in Seq(Part) \ {<<>>},
         OwnPath(path, o) \/ (Names(t, path) = {} /\ Subkeys(t, path) = {})
  PROVE  Fine(WithoutKey(t, path), o)
<1> DEFINE u == WithoutKey(t, path)
           Gone(key) == key = path \/ IsStrictPrefix(path, key)
<1>1. /\ DOMAIN u = {key \in DOMAIN t : ~Gone(key)}
      /\ \A key : Names(u, key) = IF Gone(key) THEN {} ELSE Names(t, key)
      /\ \A key, n, d : ValueOr(u, key, n, d) = IF Gone(key) THEN d ELSE ValueOr(t, key, n, d)
      /\ IsTree(u)
  BY WithoutKeyTree DEF Fine
<1>2. Closed(u, Part)
  BY WithoutKeyClosed DEF Fine
<1> HIDE DEF u
<1>3. ASSUME NEW key \in o PROVE "theirs" \in Names(u, key)
  <2>1. "theirs" \in Names(t, key) /\ key \in DOMAIN t
    BY DEF Fine, Names
  <2>2. ~Gone(key)
    BY <2>1 DEF OwnPath, Subkeys
  <2> QED
    BY <1>1, <2>1, <2>2
<1> HIDE DEF Gone
<1>4. ASSUME NEW key, NEW point \in AccessPoint, point \in Names(u, key)
      PROVE  ValueOr(u, key, point, <<>>) \in StoredRlz \ {<<>>}
  <2>1. point \in Names(t, key) /\ ValueOr(u, key, point, <<>>) = ValueOr(t, key, point, <<>>)
    BY <1>1, <1>4
  <2> QED
    BY <2>1 DEF Fine
<1>5. Fine(u, o)
  BY <1>1, <1>2, <1>3, <1>4 DEF Fine
<1> QED
  BY <1>5 DEF u

----------------------------------------------------------------------------
(* Garbage collection, and the calls *)

LEMMA GarbagePaths ==
  ASSUME NEW b \in Brands
  PROVE  \A i \in 1..7 : Win!GarbageKeys(b)[i] \in Seq(Part) \ {<<>>}
<1>1. \A s \in Fixed : Win!RegKey(s, b) \in Seq(Part) \ {<<>>}
  <2> SUFFICES ASSUME NEW s \in Fixed PROVE Win!RegKey(s, b) \in Seq(Part) \ {<<>>}
    OBVIOUS
  <2>1. PICK k : k = Win!RegKey(s, b)
    OBVIOUS
  <2>2. WinKey(k, s, b) /\ Len(k) = IF b = NoBrand THEN 4 ELSE 5
    BY <2>1, WinRegKey
  <2>3. k \in Seq(Part) /\ Len(k) # 0
    BY <2>2 DEF WinKey
  <2>4. k # <<>>
    BY <2>3
  <2> QED
    BY <2>1, <2>3, <2>4
<1>2. "RLZs" \in Fixed /\ "Events" \in Fixed /\ "StatefulEvents" \in Fixed /\ "PTimes" \in Fixed
  BY DEF Fixed
<1>3. Win!LibKey \in Seq(Part) \ {<<>>}
  <2>1. PICK k : k = Win!LibKey
    OBVIOUS
  <2>2. k \in Seq(Part) /\ Len(k) = 3
    BY <2>1, LibKeyElements
  <2>3. k # <<>>
    BY <2>2
  <2> QED
    BY <2>1, <2>2, <2>3
<1>4. Win!Common \in Seq(Part) \ {<<>>} /\ <<"Google">> \in Seq(Part) \ {<<>>}
  BY DEF Part, Fixed, Win!Common
<1>5. PICK g : g = Win!GarbageKeys(b)
  OBVIOUS
<1>6. PICK a \in Seq(Part) \ {<<>>} : a = Win!RegKey("RLZs", b)
  BY <1>1, <1>2
<1>7. PICK e \in Seq(Part) \ {<<>>} : e = Win!RegKey("Events", b)
  BY <1>1, <1>2
<1>8. PICK f \in Seq(Part) \ {<<>>} : f = Win!RegKey("StatefulEvents", b)
  BY <1>1, <1>2
<1>9. PICK h \in Seq(Part) \ {<<>>} : h = Win!RegKey("PTimes", b)
  BY <1>1, <1>2
<1>10. g = <<a, e, f, h, Win!LibKey, Win!Common, <<"Google">>>>
  BY <1>5, <1>6, <1>7, <1>8, <1>9 DEF Win!GarbageKeys
<1>11. /\ g[1] = a /\ g[2] = e /\ g[3] = f /\ g[4] = h
       /\ g[5] = Win!LibKey /\ g[6] = Win!Common /\ g[7] = <<"Google">>
  BY <1>10
<1>12. \A i \in 1..7 : i = 1 \/ i = 2 \/ i = 3 \/ i = 4 \/ i = 5 \/ i = 6 \/ i = 7
  OBVIOUS
<1>13. \A i \in 1..7 : g[i] \in Seq(Part) \ {<<>>}
  BY <1>3, <1>4, <1>11, <1>12
<1> QED
  BY <1>5, <1>13

\* One key of the garbage.
Delete(t, path) == IF Subkeys(t, path) # {} \/ Names(t, path) # {} THEN t ELSE WithoutKey(t, path)
Step(t, b, i, n) == IF i <= n THEN Delete(t, Win!GarbageKeys(b)[i]) ELSE t

LEMMA CollectedInSteps ==
  ASSUME NEW t, NEW b, NEW n
  PROVE  Win!CollectedUpTo(t, b, n) =
           Step(Step(Step(Step(Step(Step(Step(t, b, 1, n), b, 2, n), b, 3, n), b, 4, n),
                          b, 5, n), b, 6, n), b, 7, n)
<1>1. \A u, i : Step(u, b, i, n) =
        IF i <= n THEN Win!DeleteKeyIfEmpty(u, Win!GarbageKeys(b)[i]) ELSE u
  BY WinTree DEF Step, Delete, Win!DeleteKeyIfEmpty
<1> QED
  BY <1>1 DEF Win!CollectedUpTo

LEMMA FineCollected ==
  ASSUME NEW o, NEW t, Fine(t, o), NEW b \in Brands, NEW n
  PROVE  Fine(Win!CollectedUpTo(t, b, n), o)
<1>1. ASSUME NEW u, Fine(u, o), NEW i \in 1..7 PROVE Fine(Step(u, b, i, n), o)
  <2>1. Win!GarbageKeys(b)[i] \in Seq(Part) \ {<<>>}
    BY GarbagePaths
  <2> QED
    BY <1>1, <2>1, FineWithoutKey DEF Step, Delete
<1>2. /\ 1 \in 1..7 /\ 2 \in 1..7 /\ 3 \in 1..7 /\ 4 \in 1..7
      /\ 5 \in 1..7 /\ 6 \in 1..7 /\ 7 \in 1..7
  OBVIOUS
<1> QED
  BY <1>1, <1>2, CollectedInSteps

LEMMA Normalised ==
  ASSUME NEW raw \in Seq(Char)
  PROVE  NormalizeRlz(raw) \in StoredRlz
<1>1. Lesser(Len(raw), MaxRlzLength) \in 0..MaxRlzLength
  BY RlzAssumption DEF Lesser
<1>2. \A i \in 1..Lesser(Len(raw), MaxRlzLength) :
        (IF raw[i] \in GoodChar THEN raw[i] ELSE Dot) \in GoodChar
  BY RlzAssumption
<1>3. NormalizeRlz(raw) \in [1..Lesser(Len(raw), MaxRlzLength) -> GoodChar]
  BY <1>2 DEF NormalizeRlz
<1> QED
  BY <1>1, <1>3 DEF StoredRlz

LEMMA FineOperations ==
  ASSUME NEW o, Neighbours(o), brand \in Brands, NEW t, Fine(t, o),
         NEW p \in Product, NEW s \in EventType
  PROVE  /\ Fine(Touched(t, p), o) /\ Fine(TouchedBrand(t), o)
         /\ \A e \in Event : Fine(AddEvent(t, s, p, e), o)
         /\ Fine(ClearEvents(t, s, p), o) /\ Fine(ClearPingTime(t, p), o)
         /\ \A points : Fine(ClearRlzs(t, points), o) /\ Fine(RlzsCleared(t, points), o)
         /\ Fine(CollectGarbage(t), o)
<1>1. /\ OwnPath(EventsPath(brand, s, p), o) /\ OwnPath(PingPath(brand, p), o)
      /\ OwnPath(RlzPath(brand), o)
      /\ Mac!ProductDict(brand, p) \in Seq(Part) /\ Mac!WorkingDict(brand) \in Seq(Part)
      /\ ClearPath(brand, s, p) \in Seq(Part) /\ ClearRlzPath(brand) \in Seq(Part)
      /\ PingPath(brand, p) \in Seq(Part)
  BY PathsOwn DEF OwnPath
<1>2. Fine(Touched(t, p), o) /\ Fine(TouchedBrand(t), o)
  BY <1>1, FineCreated, Operations
<1>3. \A e \in Event : Fine(AddEvent(t, s, p, e), o)
  <2>1. \A e \in Event : e \notin AccessPoint
    BY LibraryAssumption
  <2> QED
    BY <1>1, <2>1, FineWithValue, Operations
<1>4. Fine(ClearEvents(t, s, p), o)
  <2>1. Fine(Created(t, ClearPath(brand, s, p)), o)
    BY <1>1, FineCreated
  <2> QED
    BY <1>1, <2>1, FineWithoutKey, Operations DEF OwnPath
<1>5. Fine(ClearPingTime(t, p), o)
  <2>1. Fine(Created(t, PingPath(brand, p)), o)
    BY <1>1, FineCreated
  <2> QED
    BY <1>1, <2>1, FineWithoutValues, Operations
<1>6. \A points : Fine(ClearRlzs(t, points), o)
  <2>1. Fine(Created(t, ClearRlzPath(brand)), o)
    BY <1>1, FineCreated
  <2> QED
    BY <1>1, <2>1, FineWithoutValues, Operations
<1>7. Fine(CollectGarbage(t), o)
  BY FineCollected DEF CollectGarbage, Win!CollectGarbage, Mac!CollectGarbage
<1> QED
  BY <1>2, <1>3, <1>4, <1>5, <1>6, <1>7 DEF RlzsCleared

LEMMA FineCleared ==
  ASSUME NEW o, Neighbours(o), brand \in Brands, NEW t, Fine(t, o), NEW p \in Product, NEW points
  PROVE  /\ Fine(ClearEvents(t, "Events", p), o) /\ Fine(AllEventsCleared(t, p), o)
         /\ Fine(StateCleared(t, p, points), o) /\ Fine(Uninstalled(t, p, points), o)
<1>1. "Events" \in EventType /\ "StatefulEvents" \in EventType
  BY DEF EventType
<1>2. Fine(ClearEvents(t, "Events", p), o)
  BY <1>1, FineOperations
<1>3. Fine(AllEventsCleared(t, p), o)
  BY <1>1, <1>2, FineOperations DEF AllEventsCleared
<1>4. Fine(ClearPingTime(AllEventsCleared(t, p), p), o)
  BY <1>1, <1>3, FineOperations
<1>5. Fine(StateCleared(t, p, points), o)
  BY <1>1, <1>4, FineOperations DEF StateCleared
<1> QED
  BY <1>1, <1>2, <1>3, <1>5, FineOperations DEF Uninstalled

LEMMA FineWrites ==
  ASSUME NEW o, Neighbours(o), brand \in Brands, NEW t, Fine(t, o), NEW p \in Product
  PROVE  /\ \A e : Fine(IF OnWin THEN Win!ClearProductEvent(t, brand, p, e)
                        ELSE Mac!ClearProductEvent(t, brand, p, e), o)
         /\ \A time : Fine(IF OnWin THEN Win!WritePingTime(t, brand, p, time)
                           ELSE Mac!WritePingTime(t, brand, p, time), o)
         /\ \A point, r : r \in StoredRlz \ {<<>>} =>
              Fine(IF OnWin THEN Win!WriteAccessPointRlz(t, brand, point, r)
                   ELSE Mac!WriteAccessPointRlz(t, brand, point, r), o)
<1>1. "Events" \in EventType
  BY DEF EventType
<1>2. /\ OwnPath(EventsPath(brand, "Events", p), o) /\ OwnPath(PingPath(brand, p), o)
      /\ OwnPath(RlzPath(brand), o)
      /\ EventsPath(brand, "Events", p) \in Seq(Part) /\ Mac!ProductDict(brand, p) \in Seq(Part)
  BY <1>1, PathsOwn DEF OwnPath
<1>3. \A e : Fine(IF OnWin THEN Win!ClearProductEvent(t, brand, p, e)
                  ELSE Mac!ClearProductEvent(t, brand, p, e), o)
  <2>1. PICK c : c = Created(t, IF OnWin THEN EventsPath(brand, "Events", p)
                                ELSE Mac!ProductDict(brand, p))
    OBVIOUS
  <2>2. Fine(c, o)
    BY <1>2, <2>1, FineCreated
  <2>3. \A e : Fine(WithoutValues(c, EventsPath(brand, "Events", p), {e}), o)
    BY <1>2, <2>2, FineWithoutValues
  <2>4. \A e : (IF OnWin THEN Win!ClearProductEvent(t, brand, p, e)
                ELSE Mac!ClearProductEvent(t, brand, p, e)) =
                 WithoutValues(c, EventsPath(brand, "Events", p), {e})
    BY <2>1, OtherWrites
  <2> QED
    BY <2>3, <2>4
<1>4. \A time : Fine(IF OnWin THEN Win!WritePingTime(t, brand, p, time)
                     ELSE Mac!WritePingTime(t, brand, p, time), o)
  <2>1. PingName(p) \notin AccessPoint
    BY LibraryAssumption DEF PingName
  <2> QED
    BY <1>2, <2>1, FineWithValue, OtherWrites
<1>5. \A point, r : r \in StoredRlz \ {<<>>} =>
        Fine(IF OnWin THEN Win!WriteAccessPointRlz(t, brand, point, r)
             ELSE Mac!WriteAccessPointRlz(t, brand, point, r), o)
  BY <1>2, FineWithValue, OtherWrites
<1> QED
  BY <1>3, <1>4, <1>5

----------------------------------------------------------------------------
(* The invariant *)

IInv ==
  /\ build \in {"win", "mac"} /\ brand \in Brands
  /\ Neighbours(others) /\ Fine(tree, others)

LEMMA Initially == Init => IInv
<1> SUFFICES ASSUME Init PROVE IInv
  OBVIOUS
<1>1. IsTree(<<>>) /\ DOMAIN <<>> = {}
  BY NoValuesHasNone DEF IsTree, NoValues
<1>2. \A key : Names(<<>>, key) = {}
  BY <1>1 DEF Names
<1>3. Fine(<<>>, {})
  BY <1>1, <1>2 DEF Fine, Closed
<1>4. CASE others = {} /\ tree = <<>>
  BY <1>3, <1>4 DEF Init, IInv, Neighbours, Brands
<1>5. CASE build = "win" /\ \E key \in Foreign : others = {key} /\ tree = WithValue(<<>>, key, "theirs", 1)
  <2>1. PICK key \in Foreign : others = {key} /\ tree = WithValue(<<>>, key, "theirs", 1)
    BY <1>5
  <2>2. key \in Seq(Part) /\ key # <<>>
    BY LibraryAssumption DEF Part
  <2>3. Proper(key)
    BY <2>2, SelfAbove
  <2>4. IsTree(tree) /\ DOMAIN tree = DOMAIN <<>> \cup Above(key)
    BY <1>1, <2>1, <2>3, WithValueTree, WithValueKeys
  <2>5. Closed(tree, Part)
    <3>1. Closed(Created(<<>>, key), Part)
      BY <1>1, <2>2, CreatedClosed DEF Closed
    <3>2. DOMAIN Created(<<>>, key) = DOMAIN <<>> \cup Above(key)
      BY CreatedTree
    <3> QED
      BY <2>4, <3>1, <3>2 DEF Closed
  <2>6. \A k : Names(tree, k) = Names(<<>>, k) \cup (IF k = key THEN {"theirs"} ELSE {})
    BY <2>1, <2>3, WithValueNames
  <2>7. "theirs" \notin AccessPoint
    BY LibraryAssumption
  <2>8. Fine(tree, others)
    BY <1>2, <2>1, <2>4, <2>5, <2>6, <2>7 DEF Fine
  <2> QED
    BY <1>5, <2>1, <2>8 DEF Init, IInv, Neighbours, Brands, OnWin
<1> QED
  BY <1>4, <1>5 DEF Init

\* A call changes the tree alone.
LEMMA LeavesKeeps ==
  ASSUME IInv, NEW t, Fine(t, others), Leaves(t)
  PROVE  IInv'
BY DEF IInv, Leaves, Neighbours, OnWin, Brands

LEMMA Inductive == IInv /\ [Next]_vars => IInv'
<1> SUFFICES ASSUME IInv, [Next]_vars PROVE IInv'
  OBVIOUS
<1>1. /\ Neighbours(others) /\ Fine(tree, others) /\ brand \in Brands
      /\ "Events" \in EventType /\ "StatefulEvents" \in EventType
  BY DEF IInv, EventType
<1>2. CASE UNCHANGED vars
  BY <1>2 DEF IInv, vars, Neighbours, OnWin, Brands
<1>3. ASSUME NEW p \in Product, NEW e \in Event, RecordProductEvent(p, e) PROVE IInv'
  <2>1. Fine(Touched(tree, p), others)
    BY <1>1, FineOperations
  <2>2. Fine(AddEvent(Touched(tree, p), "Events", p, e), others)
    BY <1>1, <2>1, FineOperations
  <2> QED
    BY <1>3, <2>1, <2>2, LeavesKeeps DEF RecordProductEvent
<1>4. ASSUME NEW p \in Product, NEW e \in Event, RecordStatefulEvent(p, e) PROVE IInv'
  <2>1. Fine(AddEvent(tree, "StatefulEvents", p, e), others)
    BY <1>1, FineOperations
  <2> QED
    BY <1>4, <2>1, LeavesKeeps DEF RecordStatefulEvent
<1>5. ASSUME NEW p \in Product, NEW e \in Event, ClearProductEvent(p, e) PROVE IInv'
  <2>1. Fine(IF OnWin THEN Win!ClearProductEvent(tree, brand, p, e)
             ELSE Mac!ClearProductEvent(tree, brand, p, e), others)
    BY <1>1, FineWrites
  <2> QED
    BY <1>5, <2>1, LeavesKeeps DEF ClearProductEvent
<1>6. ASSUME NEW p \in Product, ClearAllProductEvents(p) PROVE IInv'
  BY <1>1, <1>6, FineCleared, LeavesKeeps DEF ClearAllProductEvents
<1>7. ASSUME NEW p \in Product, GetProductEventsAsCgi(p) PROVE IInv'
  BY <1>1, <1>7, FineOperations, LeavesKeeps DEF GetProductEventsAsCgi
<1>8. ASSUME NEW p \in Product, ClearLastPingTime(p) PROVE IInv'
  BY <1>1, <1>8, FineOperations, LeavesKeeps DEF ClearLastPingTime
<1>9. ASSUME NEW p \in Product, NEW time \in Time, UpdateLastPingTime(p, time) PROVE IInv'
  <2>1. Fine(IF OnWin THEN Win!WritePingTime(tree, brand, p, time)
             ELSE Mac!WritePingTime(tree, brand, p, time), others)
    BY <1>1, FineWrites
  <2> QED
    BY <1>9, <2>1, LeavesKeeps DEF UpdateLastPingTime
<1>10. ASSUME NEW point \in AccessPoint, GetAccessPointRlz(point) PROVE IInv'
  <2>1. PICK p : p \in Product
    BY LibraryAssumption
  <2> QED
    BY <1>1, <1>10, <2>1, FineOperations, LeavesKeeps DEF GetAccessPointRlz
<1>11. ASSUME NEW point \in AccessPoint, NEW raw \in RawRlz, SetAccessPointRlz(point, raw) PROVE IInv'
  <2>1. PICK p : p \in Product
    BY LibraryAssumption
  <2>2. PICK r : r = NormalizeRlz(raw)
    OBVIOUS
  <2>3. r \in StoredRlz
    BY <2>2, Normalised, LibraryAssumption
  <2>4. Leaves(IF r = <<>> THEN ClearRlzs(tree, {point})
               ELSE IF OnWin THEN Win!WriteAccessPointRlz(tree, brand, point, r)
               ELSE Mac!WriteAccessPointRlz(tree, brand, point, r))
    BY <1>11, <2>2 DEF SetAccessPointRlz
  <2>5. CASE r = <<>>
    <3>1. Fine(ClearRlzs(tree, {point}), others)
      BY <1>1, <2>1, FineOperations
    <3> QED
      BY <2>4, <2>5, <3>1, LeavesKeeps
  <2>6. CASE r # <<>>
    <3>1. Fine(IF OnWin THEN Win!WriteAccessPointRlz(tree, brand, point, r)
               ELSE Mac!WriteAccessPointRlz(tree, brand, point, r), others)
      BY <1>1, <2>1, <2>3, <2>6, FineWrites
    <3> QED
      BY <2>4, <2>6, <3>1, LeavesKeeps
  <2> QED
    BY <2>5, <2>6
<1>12. ASSUME NEW p \in Product, NEW points \in SUBSET AccessPoint, ClearProductState(p, points)
       PROVE IInv'
  <2>1. Fine(tree', others)
    BY <1>1, <1>12, FineCleared DEF ClearProductState
  <2> QED
    BY <1>12, <2>1 DEF IInv, ClearProductState, Neighbours, OnWin, Brands
<1>13. ASSUME NEW p \in Product, NEW points \in SUBSET AccessPoint, CrashInClear(p, points)
       PROVE IInv'
  <2>1. tree' \in PartlyUninstalled(p, points) /\ brand' = NoBrand /\ UNCHANGED <<build, others>>
    BY <1>13 DEF CrashInClear
  <2>2. \A n : Fine(Win!CollectedUpTo(StateCleared(tree, p, points), brand, n), others)
    BY <1>1, FineCleared, FineCollected
  <2>3. Fine(tree', others)
    BY <1>1, <2>1, <2>2, FineCleared DEF PartlyUninstalled
  <2> QED
    BY <2>1, <2>3 DEF IInv, Neighbours, OnWin, Brands
<1>14. ASSUME NEW b \in Brand, SupplementaryBranding(b) PROVE IInv'
  BY <1>14 DEF SupplementaryBranding, IInv, Neighbours, OnWin, Brands
<1>15. CASE EndBranding
  BY <1>15 DEF EndBranding, IInv, Neighbours, OnWin, Brands
<1> QED
  BY <1>2, <1>3, <1>4, <1>5, <1>6, <1>7, <1>8, <1>9, <1>10, <1>11, <1>12, <1>13, <1>14, <1>15
  DEF Next

\* In every state either store is a tree of keys each of which is there with
\* its parent, the keys of other software keep their value, and no RLZ is
\* stored that is not normalised.
THEOREM LibraryInvariant == Spec => []IInv
BY Initially, Inductive, PTL DEF Spec

\* No call and no crash leaves a key without its parent, or an RLZ that is
\* empty, too long or not normalised (SetAccessPointRlz, NormalizeRlz).
THEOREM LibraryTypeOK == Spec => []TypeOK
<1>1. IInv => TypeOK
  <2> SUFFICES ASSUME IInv PROVE TypeOK
    OBVIOUS
  <2>1. ASSUME NEW key \in DOMAIN tree, NEW point \in AccessPoint, point \in Names(tree, key)
        PROVE  tree[key][point] \in StoredRlz \ {<<>>}
    BY <2>1 DEF IInv, Fine, ValueOr
  <2> QED
    BY <2>1 DEF IInv, TypeOK, Fine, Closed
<1> QED
  BY <1>1, LibraryInvariant, PTL

\* Whatever the library clears or collects, what other software has beside or
\* above its keys stays (DeleteKeyIfEmpty, CollectGarbage).
THEOREM LibraryKeepsOthers == Spec => []OtherSoftwareKept
<1>1. IInv => OtherSoftwareKept
  BY DEF IInv, Fine, OtherSoftwareKept
<1> QED
  BY <1>1, LibraryInvariant, PTL

----------------------------------------------------------------------------
(* What an uninstallation leaves *)

Clean(t, key) == key \in DOMAIN t => Names(t, key) # {} \/ Subkeys(t, key) # {}

LEMMA DeleteCleans ==
  ASSUME NEW t, NEW path
  PROVE  Clean(Delete(t, path), path)
<1>1. CASE Subkeys(t, path) # {} \/ Names(t, path) # {}
  BY <1>1 DEF Delete, Clean
<1>2. CASE ~(Subkeys(t, path) # {} \/ Names(t, path) # {})
  <2>1. DOMAIN WithoutKey(t, path) = {key \in DOMAIN t : ~(key = path \/ IsStrictPrefix(path, key))}
    BY WithoutKeyTree
  <2> QED
    BY <1>2, <2>1 DEF Delete, Clean
<1> QED
  BY <1>1, <1>2

\* What an empty key takes with it is itself.
LEMMA DeleteOne ==
  ASSUME NEW t, NEW path
  PROVE  /\ \A key : key # path => (key \in DOMAIN Delete(t, path) <=> key \in DOMAIN t)
         /\ \A key : Names(Delete(t, path), key) = Names(t, key)
         /\ \A key, n, d : ValueOr(Delete(t, path), key, n, d) = ValueOr(t, key, n, d)
<1>1. CASE Subkeys(t, path) # {} \/ Names(t, path) # {}
  BY <1>1 DEF Delete
<1>2. CASE ~(Subkeys(t, path) # {} \/ Names(t, path) # {})
  <2> DEFINE u == WithoutKey(t, path)
             Gone(key) == key = path \/ IsStrictPrefix(path, key)
  <2>1. /\ DOMAIN u = {key \in DOMAIN t : ~Gone(key)}
        /\ \A key : Names(u, key) = IF Gone(key) THEN {} ELSE Names(t, key)
        /\ \A key, n, d : ValueOr(u, key, n, d) = IF Gone(key) THEN d ELSE ValueOr(t, key, n, d)
    BY WithoutKeyTree
  <2>2. \A key \in DOMAIN t : key # path => ~Gone(key)
    BY <1>2 DEF Subkeys
  <2>3. \A key : Gone(key) => Names(t, key) = {}
    BY <1>2, <2>2 DEF Names
  <2>4. \A key, n, d : Gone(key) => ValueOr(t, key, n, d) = d
    BY <2>3 DEF ValueOr
  <2>5. Delete(t, path) = u
    BY <1>2 DEF Delete
  <2> HIDE DEF Gone, u
  <2> QED
    BY <2>1, <2>2, <2>3, <2>4, <2>5
<1> QED
  BY <1>1, <1>2

LEMMA DeleteKeepsClean ==
  ASSUME NEW t, NEW key, Clean(t, key), NEW path, ~IsStrictPrefix(key, path)
  PROVE  Clean(Delete(t, path), key)
<1>1. PICK u : u = Delete(t, path)
  OBVIOUS
<1>2. /\ \A k : k # path => (k \in DOMAIN u <=> k \in DOMAIN t)
      /\ \A k : Names(u, k) = Names(t, k)
  BY <1>1, DeleteOne
<1>3. CASE key = path
  BY <1>1, <1>3, DeleteCleans
<1>4. CASE key # path
  BY <1>1, <1>2, <1>4 DEF Clean, Subkeys
<1> QED
  BY <1>3, <1>4

\* Keys come before those above them.
LEMMA GarbageLengths ==
  ASSUME NEW b \in Brands, NEW i \in 1..7, NEW j \in 1..7, i < j
  PROVE  ~IsStrictPrefix(Win!GarbageKeys(b)[i], Win!GarbageKeys(b)[j])
<1>1. PICK g : g = Win!GarbageKeys(b)
  OBVIOUS
<1>2. PICK n : n = IF b = NoBrand THEN 4 ELSE 5
  OBVIOUS
<1>3. \A s \in Fixed : Len(Win!RegKey(s, b)) = n
  BY <1>2, WinRegKey
<1>4. "RLZs" \in Fixed /\ "Events" \in Fixed /\ "StatefulEvents" \in Fixed /\ "PTimes" \in Fixed
  BY DEF Fixed
<1>5. /\ g[1] = Win!RegKey("RLZs", b) /\ g[2] = Win!RegKey("Events", b)
      /\ g[3] = Win!RegKey("StatefulEvents", b) /\ g[4] = Win!RegKey("PTimes", b)
      /\ g[5] = Win!LibKey /\ g[6] = Win!Common /\ g[7] = <<"Google">>
  BY <1>1 DEF Win!GarbageKeys
<1>6. Len(Win!LibKey) = 3
  BY LibKeyElements
<1>7. Len(Win!Common) = 2 /\ Len(<<"Google">>) = 1
  BY DEF Win!Common
<1>8. /\ Len(g[1]) = n /\ Len(g[2]) = n /\ Len(g[3]) = n /\ Len(g[4]) = n
      /\ Len(g[5]) = 3 /\ Len(g[6]) = 2 /\ Len(g[7]) = 1
  BY <1>3, <1>4, <1>5, <1>6, <1>7
<1>9. ~(Len(g[i]) < Len(g[j]))
  <2> DEFINE Lengths(k) == \/ k < 5 /\ Len(g[k]) = n
                           \/ k > 4 /\ Len(g[k]) = 8 - k
  <2>1. Lengths(1) /\ Lengths(2) /\ Lengths(3) /\ Lengths(4)
    BY <1>8
  <2>2. Lengths(5) /\ Lengths(6) /\ Lengths(7)
    BY <1>8
  <2>3. \A k \in 1..7 : Lengths(k)
    <3> HIDE DEF Lengths
    <3>1. \A k \in 1..7 : k = 1 \/ k = 2 \/ k = 3 \/ k = 4 \/ k = 5 \/ k = 6 \/ k = 7
      OBVIOUS
    <3> QED
      BY <2>1, <2>2, <3>1
  <2>4. n \in Nat /\ n > 3
    BY <1>2
  <2> QED
    BY <2>3, <2>4
<1>10. g[i] \in Seq(Part) /\ g[j] \in Seq(Part)
  BY <1>1, GarbagePaths
<1> QED
  BY <1>1, <1>9, <1>10, StrictPrefixElements

\* The keys collected so far stay clean.
LEMMA StepCleans ==
  ASSUME NEW b \in Brands, NEW i \in 1..7, NEW t,
         \A j \in 1..7 : j < i => Clean(t, Win!GarbageKeys(b)[j])
  PROVE  \A j \in 1..7 : j < i + 1 => Clean(Step(t, b, i, 7), Win!GarbageKeys(b)[j])
<1>1. Step(t, b, i, 7) = Delete(t, Win!GarbageKeys(b)[i])
  BY DEF Step
<1>2. Clean(Step(t, b, i, 7), Win!GarbageKeys(b)[i])
  BY <1>1, DeleteCleans
<1>3. ASSUME NEW j \in 1..7, j < i PROVE Clean(Step(t, b, i, 7), Win!GarbageKeys(b)[j])
  BY <1>1, <1>3, GarbageLengths, DeleteKeepsClean
<1> QED
  BY <1>2, <1>3

LEMMA CollectedClean ==
  ASSUME NEW b \in Brands, NEW t
  PROVE  \A j \in 1..7 : Clean(Win!CollectGarbage(t, b), Win!GarbageKeys(b)[j])
<1> DEFINE Upto(u, i) == \A j \in 1..7 : j < i => Clean(u, Win!GarbageKeys(b)[j])
<1>1. \A u, i : i \in 1..7 /\ Upto(u, i) => Upto(Step(u, b, i, 7), i + 1)
  BY StepCleans
<1>2. Upto(t, 1)
  OBVIOUS
<1> HIDE DEF Upto
<1>3. PICK a : a = Step(t, b, 1, 7)
  OBVIOUS
<1>4. Upto(a, 2)
  BY <1>1, <1>2, <1>3
<1>5. PICK c : c = Step(a, b, 2, 7)
  OBVIOUS
<1>6. Upto(c, 3)
  BY <1>1, <1>4, <1>5
<1>7. PICK d : d = Step(c, b, 3, 7)
  OBVIOUS
<1>8. Upto(d, 4)
  BY <1>1, <1>6, <1>7
<1>9. PICK e : e = Step(d, b, 4, 7)
  OBVIOUS
<1>10. Upto(e, 5)
  BY <1>1, <1>8, <1>9
<1>11. PICK f : f = Step(e, b, 5, 7)
  OBVIOUS
<1>12. Upto(f, 6)
  BY <1>1, <1>10, <1>11
<1>13. PICK g : g = Step(f, b, 6, 7)
  OBVIOUS
<1>14. Upto(g, 7)
  BY <1>1, <1>12, <1>13
<1>15. PICK h : h = Step(g, b, 7, 7)
  OBVIOUS
<1>16. Upto(h, 8)
  BY <1>1, <1>14, <1>15
<1>17. Win!CollectGarbage(t, b) = h
  BY <1>3, <1>5, <1>7, <1>9, <1>11, <1>13, <1>15, CollectedInSteps DEF Win!CollectGarbage
<1> QED
  BY <1>16, <1>17 DEF Upto

\* CollectGarbage leaves none of the keys that it looks at empty, whatever is
\* kept: those of the brand in force, the library's key and its parents (the
\* order of RlzValueStoreRegistry::CollectGarbage).
THEOREM LibraryUninstallCleans == Spec => []UninstallCleans
<1>1. IInv => UninstallCleans
  <2> SUFFICES ASSUME IInv, OnWin, NEW p \in Product, NEW t, t = Uninstalled(tree, p, AccessPoint),
                      NEW key \in Range(Win!GarbageKeys(brand)), key \in DOMAIN t
               PROVE  Names(t, key) # {} \/ Subkeys(t, key) # {}
    BY DEF UninstallCleans
  <2>1. PICK g : g = Win!GarbageKeys(brand)
    OBVIOUS
  <2>2. DOMAIN g = 1..7
    BY <2>1 DEF Win!GarbageKeys
  <2>3. PICK j \in 1..7 : key = g[j]
    BY <2>1, <2>2 DEF Range
  <2>4. t = Win!CollectGarbage(StateCleared(tree, p, AccessPoint), brand)
    BY DEF Uninstalled, CollectGarbage
  <2>5. Clean(t, key)
    BY <2>1, <2>3, <2>4, CollectedClean DEF IInv
  <2> QED
    BY <2>5 DEF Clean
<1> QED
  BY <1>1, LibraryInvariant, PTL

----------------------------------------------------------------------------
(* An uninstallation that is repeated *)

Kept == {"Events", "StatefulEvents", "PTimes", "RLZs"}

\* The keys that go with the product p, those that are created on the way, and
\* the names that are deleted.
Doomed(b, p, key) ==
  \E s \in EventType : key = Win!EventsKey(s, b, p) \/ IsStrictPrefix(Win!EventsKey(s, b, p), key)
Remade(b, key) == \E k \in Kept : key \in Above(Win!RegKey(k, b))
Lost(b, p, key, n) == \/ key = Win!RegKey("PTimes", b) /\ n = p
                      \/ key = Win!RegKey("RLZs", b) /\ n \in AccessPoint

\* Trees that differ in nothing but these.
Alike(t, u, b, p) ==
  /\ \A key : ~Doomed(b, p, key) /\ ~Remade(b, key) => (key \in DOMAIN t <=> key \in DOMAIN u)
  /\ \A key, n : ~Doomed(b, p, key) /\ ~Lost(b, p, key, n) =>
                   (n \in Names(t, key) <=> n \in Names(u, key))
  /\ \A key, n, d : ~Doomed(b, p, key) /\ ~Lost(b, p, key, n) =>
                      ValueOr(t, key, n, d) = ValueOr(u, key, n, d)

LEMMA AlikeCreated ==
  ASSUME NEW b, NEW p, NEW t, NEW k \in Kept
  PROVE  Alike(t, Created(t, Win!RegKey(k, b)), b, p)
<1> DEFINE path == Win!RegKey(k, b)
           u == Created(t, path)
<1>1. /\ DOMAIN u = DOMAIN t \cup Above(path)
      /\ \A key : Names(u, key) = Names(t, key)
      /\ \A key, n, d : ValueOr(u, key, n, d) = ValueOr(t, key, n, d)
  BY CreatedTree
<1>2. \A key : key \in Above(path) => Remade(b, key)
  BY DEF Remade
<1> HIDE DEF u, path
<1>3. Alike(t, u, b, p)
  BY <1>1, <1>2 DEF Alike
<1> QED
  BY <1>3 DEF u, path

LEMMA AlikeWithoutKey ==
  ASSUME NEW b, NEW p, NEW t, NEW s \in EventType
  PROVE  Alike(t, WithoutKey(t, Win!EventsKey(s, b, p)), b, p)
<1> DEFINE path == Win!EventsKey(s, b, p)
           u == WithoutKey(t, path)
           Gone(key) == key = path \/ IsStrictPrefix(path, key)
<1>1. /\ DOMAIN u = {key \in DOMAIN t : ~Gone(key)}
      /\ \A key : Names(u, key) = IF Gone(key) THEN {} ELSE Names(t, key)
      /\ \A key, n, d : ValueOr(u, key, n, d) = IF Gone(key) THEN d ELSE ValueOr(t, key, n, d)
  BY WithoutKeyTree
<1>2. \A key : Gone(key) => Doomed(b, p, key)
  BY DEF Doomed
<1> HIDE DEF u, path, Gone
<1>3. Alike(t, u, b, p)
  BY <1>1, <1>2 DEF Alike
<1> QED
  BY <1>3 DEF u, path

LEMMA AlikeWithoutValues ==
  ASSUME NEW b, NEW p, NEW t, NEW path, NEW names, \A n \in names : Lost(b, p, path, n)
  PROVE  Alike(t, WithoutValues(t, path, names), b, p)
<1> DEFINE u == WithoutValues(t, path, names)
<1>1. /\ DOMAIN u = DOMAIN t
      /\ \A key : Names(u, key) = Names(t, key) \ (IF key = path THEN names ELSE {})
      /\ \A key, n, d : ValueOr(u, key, n, d) =
           IF key = path /\ n \in names THEN d ELSE ValueOr(t, key, n, d)
  BY WithoutValuesTree
<1> HIDE DEF u
<1>2. Alike(t, u, b, p)
  BY <1>1 DEF Alike
<1> QED
  BY <1>2 DEF u

LEMMA AlikeSame ==
  ASSUME NEW b, NEW p, NEW t
  PROVE  Alike(t, t, b, p)
BY DEF Alike

LEMMA AlikeAgain ==
  ASSUME NEW b, NEW p, NEW t, NEW u, NEW v, Alike(t, u, b, p), Alike(u, v, b, p)
  PROVE  Alike(t, v, b, p)
<1>1. \A key : ~Doomed(b, p, key) /\ ~Remade(b, key) => (key \in DOMAIN t <=> key \in DOMAIN v)
  BY DEF Alike
<1>2. \A key, n : ~Doomed(b, p, key) /\ ~Lost(b, p, key, n) =>
                    (n \in Names(t, key) <=> n \in Names(v, key))
  BY DEF Alike
<1>3. \A key, n, d : ~Doomed(b, p, key) /\ ~Lost(b, p, key, n) =>
                       ValueOr(t, key, n, d) = ValueOr(v, key, n, d)
  BY DEF Alike
<1> QED
  BY <1>1, <1>2, <1>3 DEF Alike

\* The garbage keys are among those created on the way.
LEMMA GarbageRemade ==
  ASSUME NEW b \in Brands, NEW i \in 1..7
  PROVE  Remade(b, Win!GarbageKeys(b)[i])
<1>1. PICK g : g = Win!GarbageKeys(b)
  OBVIOUS
<1>2. "RLZs" \in Kept /\ "Events" \in Kept /\ "StatefulEvents" \in Kept /\ "PTimes" \in Kept
      /\ Kept \subseteq Fixed
  BY DEF Kept, Fixed
<1>3. \A k \in Kept : Remade(b, Win!RegKey(k, b))
  <2> SUFFICES ASSUME NEW k \in Kept PROVE Remade(b, Win!RegKey(k, b))
    OBVIOUS
  <2>1. PICK key : key = Win!RegKey(k, b)
    OBVIOUS
  <2>2. WinKey(key, k, b) /\ Len(key) = IF b = NoBrand THEN 4 ELSE 5
    BY <1>2, <2>1, WinRegKey
  <2>3. key \in Seq(Part) /\ Len(key) # 0
    BY <2>2 DEF WinKey
  <2>4. Proper(key)
    BY <2>3, SelfAbove
  <2> QED
    BY <2>1, <2>4 DEF Proper, Remade
<1>4. PICK e : e = Win!RegKey("Events", b)
  OBVIOUS
<1>5. WinKey(e, "Events", b) /\ Len(e) = IF b = NoBrand THEN 4 ELSE 5
  BY <1>2, <1>4, WinRegKey
<1>6. /\ e \in Seq(Part) /\ Len(e) > 3
      /\ e[1] = "Google" /\ e[2] = "Common" /\ e[3] = "Rlz"
  BY <1>5 DEF WinKey
<1>7. ASSUME NEW key \in Seq(Part), Len(key) <= 3, Len(key) # 0,
             \A m \in 1..Len(key) : key[m] = e[m]
      PROVE  Remade(b, key)
  <2>1. SubSeq(e, 1, Len(key)) = key
    BY <1>6, <1>7
  <2>2. Len(key) \in 1..Len(e)
    BY <1>6, <1>7
  <2>3. key \in Above(e)
    BY <2>1, <2>2 DEF Above
  <2> QED
    BY <1>2, <1>4, <2>3 DEF Remade
<1>8. Remade(b, Win!LibKey)
  <2>1. PICK key : key = Win!LibKey
    OBVIOUS
  <2>2. key \in Seq(Part) /\ Len(key) = 3 /\ key[1] = "Google" /\ key[2] = "Common" /\ key[3] = "Rlz"
    BY <2>1, LibKeyElements
  <2>3. key[1] = e[1] /\ key[2] = e[2] /\ key[3] = e[3]
    BY <1>6, <2>2
  <2>4. ASSUME NEW m \in 1..Len(key) PROVE key[m] = e[m]
    <3>1. m = 1 \/ m = 2 \/ m = 3
      BY <2>2
    <3> QED
      BY <2>3, <3>1
  <2>5. key \in Seq(Part) /\ Len(key) <= 3 /\ Len(key) # 0
    BY <2>2
  <2> QED
    BY <1>7, <2>1, <2>4, <2>5
<1>9. Remade(b, Win!Common)
  <2>1. PICK key : key = Win!Common
    OBVIOUS
  <2>2. key \in Seq(Part) /\ Len(key) = 2 /\ key[1] = "Google" /\ key[2] = "Common"
    BY <2>1 DEF Win!Common, Part, Fixed
  <2>3. key[1] = e[1] /\ key[2] = e[2]
    BY <1>6, <2>2
  <2>4. ASSUME NEW m \in 1..Len(key) PROVE key[m] = e[m]
    <3>1. m = 1 \/ m = 2
      BY <2>2
    <3> QED
      BY <2>3, <3>1
  <2>5. key \in Seq(Part) /\ Len(key) <= 3 /\ Len(key) # 0
    BY <2>2
  <2> QED
    BY <1>7, <2>1, <2>4, <2>5
<1>10. Remade(b, <<"Google">>)
  <2>1. PICK key : key = <<"Google">>
    OBVIOUS
  <2>2. key \in Seq(Part) /\ Len(key) = 1 /\ key[1] = "Google"
    BY <2>1 DEF Part, Fixed
  <2>3. key[1] = e[1]
    BY <1>6, <2>2
  <2>4. ASSUME NEW m \in 1..Len(key) PROVE key[m] = e[m]
    <3>1. m = 1
      BY <2>2
    <3> QED
      BY <2>3, <3>1
  <2>5. key \in Seq(Part) /\ Len(key) <= 3 /\ Len(key) # 0
    BY <2>2
  <2> QED
    BY <1>7, <2>1, <2>4, <2>5
<1>11. /\ g[1] = Win!RegKey("RLZs", b) /\ g[2] = Win!RegKey("Events", b)
       /\ g[3] = Win!RegKey("StatefulEvents", b) /\ g[4] = Win!RegKey("PTimes", b)
       /\ g[5] = Win!LibKey /\ g[6] = Win!Common /\ g[7] = <<"Google">>
  BY <1>1 DEF Win!GarbageKeys
<1>12. Remade(b, g[1]) /\ Remade(b, g[2]) /\ Remade(b, g[3]) /\ Remade(b, g[4])
       /\ Remade(b, g[5]) /\ Remade(b, g[6]) /\ Remade(b, g[7])
  BY <1>2, <1>3, <1>8, <1>9, <1>10, <1>11
<1>13. \A k \in 1..7 : Remade(b, g[k])
  <2>1. \A k \in 1..7 : k = 1 \/ k = 2 \/ k = 3 \/ k = 4 \/ k = 5 \/ k = 6 \/ k = 7
    OBVIOUS
  <2> QED
    BY <1>12, <2>1
<1> QED
  BY <1>1, <1>13

LEMMA AlikeStep ==
  ASSUME NEW b \in Brands, NEW p, NEW t, NEW i \in 1..7, NEW n
  PROVE  Alike(t, Step(t, b, i, n), b, p)
<1>1. PICK path : path = Win!GarbageKeys(b)[i]
  OBVIOUS
<1>2. Remade(b, path)
  BY <1>1, GarbageRemade
<1>3. PICK u : u = Delete(t, path)
  OBVIOUS
<1>4. /\ \A key : key # path => (key \in DOMAIN u <=> key \in DOMAIN t)
      /\ \A key : Names(u, key) = Names(t, key)
      /\ \A key, m, d : ValueOr(u, key, m, d) = ValueOr(t, key, m, d)
  BY <1>3, DeleteOne
<1>5. Alike(t, u, b, p)
  BY <1>2, <1>4 DEF Alike
<1> QED
  BY <1>1, <1>3, <1>5, AlikeSame DEF Step

LEMMA AlikeCollected ==
  ASSUME NEW b \in Brands, NEW p, NEW t, NEW n
  PROVE  Alike(t, Win!CollectedUpTo(t, b, n), b, p)
<1>1. \A u, i : i \in 1..7 /\ Alike(t, u, b, p) => Alike(t, Step(u, b, i, n), b, p)
  BY AlikeStep, AlikeAgain
<1>2. /\ 1 \in 1..7 /\ 2 \in 1..7 /\ 3 \in 1..7 /\ 4 \in 1..7
      /\ 5 \in 1..7 /\ 6 \in 1..7 /\ 7 \in 1..7
  OBVIOUS
<1> QED
  BY <1>1, <1>2, AlikeSame, CollectedInSteps

LEMMA WinOperations ==
  ASSUME OnWin, NEW p, NEW t
  PROVE  /\ \A s : ClearEvents(t, s, p) =
              WithoutKey(Created(t, Win!RegKey(s, brand)), Win!EventsKey(s, brand, p))
         /\ ClearPingTime(t, p) =
              WithoutValues(Created(t, Win!RegKey("PTimes", brand)), Win!RegKey("PTimes", brand), {p})
         /\ \A points : ClearRlzs(t, points) =
              WithoutValues(Created(t, Win!RegKey("RLZs", brand)), Win!RegKey("RLZs", brand), points)
BY Operations DEF ClearPath, EventsPath, PingPath, PingName, RlzPath, ClearRlzPath

LEMMA AlikeCleared ==
  ASSUME OnWin, NEW p, NEW t
  PROVE  /\ Alike(t, ClearEvents(t, "Events", p), brand, p)
         /\ Alike(t, AllEventsCleared(t, p), brand, p)
         /\ \A points \in SUBSET AccessPoint : Alike(t, StateCleared(t, p, points), brand, p)
<1>1. ASSUME NEW s \in EventType, NEW u PROVE Alike(u, ClearEvents(u, s, p), brand, p)
  <2>1. s \in Kept
    BY DEF EventType, Kept
  <2>2. PICK c : c = Created(u, Win!RegKey(s, brand))
    OBVIOUS
  <2>3. Alike(u, c, brand, p)
    BY <2>1, <2>2, AlikeCreated
  <2>4. Alike(c, WithoutKey(c, Win!EventsKey(s, brand, p)), brand, p)
    BY AlikeWithoutKey
  <2> QED
    BY <2>2, <2>3, <2>4, AlikeAgain, WinOperations
<1>2. ASSUME NEW u PROVE Alike(u, ClearPingTime(u, p), brand, p)
  <2>1. PICK path : path = Win!RegKey("PTimes", brand)
    OBVIOUS
  <2>2. PICK c : c = Created(u, path)
    OBVIOUS
  <2>3. Alike(u, c, brand, p)
    BY <2>1, <2>2, AlikeCreated DEF Kept
  <2>4. \A n \in {p} : Lost(brand, p, path, n)
    BY <2>1 DEF Lost
  <2>5. Alike(c, WithoutValues(c, path, {p}), brand, p)
    BY <2>4, AlikeWithoutValues
  <2> QED
    BY <2>1, <2>2, <2>3, <2>5, AlikeAgain, WinOperations
<1>3. ASSUME NEW u, NEW points \in SUBSET AccessPoint PROVE Alike(u, ClearRlzs(u, points), brand, p)
  <2>1. PICK path : path = Win!RegKey("RLZs", brand)
    OBVIOUS
  <2>2. PICK c : c = Created(u, path)
    OBVIOUS
  <2>3. Alike(u, c, brand, p)
    BY <2>1, <2>2, AlikeCreated DEF Kept
  <2>4. \A n \in points : Lost(brand, p, path, n)
    BY <2>1 DEF Lost
  <2>5. Alike(c, WithoutValues(c, path, points), brand, p)
    BY <2>4, AlikeWithoutValues
  <2> QED
    BY <2>1, <2>2, <2>3, <2>5, AlikeAgain, WinOperations
<1>4. "Events" \in EventType /\ "StatefulEvents" \in EventType
  BY DEF EventType
<1>5. Alike(t, ClearEvents(t, "Events", p), brand, p)
  BY <1>1, <1>4
<1>6. Alike(t, AllEventsCleared(t, p), brand, p)
  BY <1>1, <1>4, <1>5, AlikeAgain DEF AllEventsCleared
<1>7. Alike(t, ClearPingTime(AllEventsCleared(t, p), p), brand, p)
  BY <1>2, <1>6, AlikeAgain
<1>8. \A points \in SUBSET AccessPoint : Alike(t, StateCleared(t, p, points), brand, p)
  BY <1>3, <1>7, AlikeAgain DEF StateCleared, RlzsCleared
<1> QED
  BY <1>5, <1>6, <1>8

LEMMA AlikePartly ==
  ASSUME OnWin, brand \in Brands, NEW p, NEW t \in PartlyUninstalled(p, AccessPoint)
  PROVE  Alike(tree, t, brand, p)
<1>1. CASE t \in {ClearEvents(tree, "Events", p), AllEventsCleared(tree, p)}
  BY <1>1, AlikeCleared
<1>2. CASE \E some \in SUBSET AccessPoint : t = StateCleared(tree, p, some)
  BY <1>2, AlikeCleared
<1>3. ASSUME NEW n, t = Win!CollectedUpTo(StateCleared(tree, p, AccessPoint), brand, n)
      PROVE  Alike(tree, t, brand, p)
  <2>1. Alike(tree, StateCleared(tree, p, AccessPoint), brand, p)
    BY AlikeCleared
  <2> QED
    BY <1>3, <2>1, AlikeCollected, AlikeAgain
<1> QED
  BY <1>1, <1>2, <1>3 DEF PartlyUninstalled

\* What is created on the way does not go with the product.
LEMMA RemadeNotDoomed ==
  ASSUME NEW b \in Brands, NEW p \in Product, NEW key, Remade(b, key)
  PROVE  ~Doomed(b, p, key)
<1>1. PICK k \in Kept : key \in Above(Win!RegKey(k, b))
  BY DEF Remade
<1>2. PICK path : path = Win!RegKey(k, b)
  OBVIOUS
<1>3. k \in Fixed
  BY DEF Kept, Fixed
<1>4. path \in Seq(Part) /\ Len(path) = IF b = NoBrand THEN 4 ELSE 5
  BY <1>2, <1>3, WinRegKey DEF WinKey
<1>5. PICK m \in 1..Len(path) : key = SubSeq(path, 1, m)
  BY <1>1, <1>2 DEF Above
<1>6. key \in Seq(Part) /\ Len(key) <= Len(path)
  BY <1>4, <1>5
<1>7. ASSUME NEW s \in EventType
      PROVE  key # Win!EventsKey(s, b, p) /\ ~IsStrictPrefix(Win!EventsKey(s, b, p), key)
  <2>1. PICK d : d = Win!EventsKey(s, b, p)
    OBVIOUS
  <2>2. s \in Fixed
    BY DEF EventType, Fixed
  <2>3. d \in Seq(Part) /\ Len(d) = IF b = NoBrand THEN 5 ELSE 6
    BY <2>1, <2>2, WinEventsKey DEF WinKey
  <2>4. Len(key) < Len(d)
    BY <1>4, <1>6, <2>3
  <2>5. ~IsStrictPrefix(d, key)
    BY <1>6, <2>3, <2>4, StrictPrefixElements
  <2> QED
    BY <2>1, <2>4, <2>5
<1> QED
  BY <1>7 DEF Doomed

\* All that a cleared product leaves.
LEMMA ClearedWhole ==
  ASSUME OnWin, brand \in Brands, NEW p \in Product, NEW t,
         NEW v, v = StateCleared(t, p, AccessPoint)
  PROVE  /\ \A key : key \in DOMAIN v <=>
              ~Doomed(brand, p, key) /\ (key \in DOMAIN t \/ Remade(brand, key))
         /\ \A key, n : n \in Names(v, key) <=>
              ~Doomed(brand, p, key) /\ ~Lost(brand, p, key, n) /\ n \in Names(t, key)
         /\ \A key, n, d : ValueOr(v, key, n, d) =
              IF Doomed(brand, p, key) \/ Lost(brand, p, key, n) THEN d ELSE ValueOr(t, key, n, d)
<1> DEFINE Doom(s, key) == key = Win!EventsKey(s, brand, p)
                           \/ IsStrictPrefix(Win!EventsKey(s, brand, p), key)
           Way(k, key) == key \in Above(Win!RegKey(k, brand))
           Cut(k, names, key, n) == key = Win!RegKey(k, brand) /\ n \in names
<1>1. ASSUME NEW u, NEW s, NEW w, w = ClearEvents(u, s, p)
      PROVE  /\ \A key : key \in DOMAIN w <=> ~Doom(s, key) /\ (key \in DOMAIN u \/ Way(s, key))
             /\ \A key, n : n \in Names(w, key) <=> ~Doom(s, key) /\ n \in Names(u, key)
             /\ \A key, n, d : ValueOr(w, key, n, d) =
                                 IF Doom(s, key) THEN d ELSE ValueOr(u, key, n, d)
  <2> DEFINE path == Win!EventsKey(s, brand, p)
             above == Win!RegKey(s, brand)
             c == Created(u, above)
             x == WithoutKey(c, path)
             Gone(key) == key = path \/ IsStrictPrefix(path, key)
  <2>1. /\ DOMAIN c = DOMAIN u \cup Above(above)
        /\ \A key : Names(c, key) = Names(u, key)
        /\ \A key, n, d : ValueOr(c, key, n, d) = ValueOr(u, key, n, d)
    BY CreatedTree
  <2>2. /\ DOMAIN x = {key \in DOMAIN c : ~Gone(key)}
        /\ \A key : Names(x, key) = IF Gone(key) THEN {} ELSE Names(c, key)
        /\ \A key, n, d : ValueOr(x, key, n, d) = IF Gone(key) THEN d ELSE ValueOr(c, key, n, d)
    BY WithoutKeyTree
  <2>3. w = x
    BY <1>1, WinOperations
  <2>4. \A key : Doom(s, key) <=> Gone(key)
    OBVIOUS
  <2>5. \A key : Way(s, key) <=> key \in Above(above)
    OBVIOUS
  <2> HIDE DEF c, x, Gone, above, path, Doom, Way
  <2> QED
    BY <2>1, <2>2, <2>3, <2>4, <2>5
<1>2. ASSUME NEW u, NEW k, NEW names, NEW w,
             w = WithoutValues(Created(u, Win!RegKey(k, brand)), Win!RegKey(k, brand), names)
      PROVE  /\ \A key : key \in DOMAIN w <=> key \in DOMAIN u \/ Way(k, key)
             /\ \A key, n : n \in Names(w, key) <=> ~Cut(k, names, key, n) /\ n \in Names(u, key)
             /\ \A key, n, d : ValueOr(w, key, n, d) =
                                 IF Cut(k, names, key, n) THEN d ELSE ValueOr(u, key, n, d)
  <2> DEFINE path == Win!RegKey(k, brand)
             c == Created(u, path)
             x == WithoutValues(c, path, names)
  <2>1. /\ DOMAIN c = DOMAIN u \cup Above(path)
        /\ \A key : Names(c, key) = Names(u, key)
        /\ \A key, n, d : ValueOr(c, key, n, d) = ValueOr(u, key, n, d)
    BY CreatedTree
  <2>2. /\ DOMAIN x = DOMAIN c
        /\ \A key : Names(x, key) = Names(c, key) \ (IF key = path THEN names ELSE {})
        /\ \A key, n, d : ValueOr(x, key, n, d) =
             IF key = path /\ n \in names THEN d ELSE ValueOr(c, key, n, d)
    BY WithoutValuesTree
  <2>3. w = x
    BY <1>2
  <2>4. \A key : Way(k, key) <=> key \in Above(path)
    OBVIOUS
  <2>5. \A key, n : Cut(k, names, key, n) <=> key = path /\ n \in names
    OBVIOUS
  <2> HIDE DEF c, x, path, Way, Cut
  <2> QED
    BY <2>1, <2>2, <2>3, <2>4, <2>5
<1> HIDE DEF Doom, Way, Cut
<1>3. PICK w1 : w1 = ClearEvents(t, "Events", p)
  OBVIOUS
<1>4. PICK w2 : w2 = ClearEvents(w1, "StatefulEvents", p)
  OBVIOUS
<1>5. PICK w3 : w3 = ClearPingTime(w2, p)
  OBVIOUS
<1>6. PICK mine : mine = {p}
  OBVIOUS
<1>7. w3 = WithoutValues(Created(w2, Win!RegKey("PTimes", brand)), Win!RegKey("PTimes", brand), mine)
  BY <1>5, <1>6, WinOperations
<1>8. v = WithoutValues(Created(w3, Win!RegKey("RLZs", brand)), Win!RegKey("RLZs", brand), AccessPoint)
  <2>1. v = ClearRlzs(w3, AccessPoint)
    BY <1>3, <1>4, <1>5, LibraryAssumption DEF StateCleared, AllEventsCleared, RlzsCleared
  <2> QED
    BY <2>1, WinOperations
<1>9. \A key : Doomed(brand, p, key) <=> Doom("Events", key) \/ Doom("StatefulEvents", key)
  BY DEF Doomed, Doom, EventType
<1>10. \A key : Remade(brand, key) <=> Way("Events", key) \/ Way("StatefulEvents", key)
                                      \/ Way("PTimes", key) \/ Way("RLZs", key)
  BY DEF Remade, Way, Kept
<1>11. \A key : Remade(brand, key) => ~Doomed(brand, p, key)
  BY RemadeNotDoomed
<1>12. \A key, n : Lost(brand, p, key, n) <=>
         Cut("PTimes", mine, key, n) \/ Cut("RLZs", AccessPoint, key, n)
  BY <1>6 DEF Lost, Cut
<1>13. /\ \A key : key \in DOMAIN w1 <=> ~Doom("Events", key) /\ (key \in DOMAIN t \/ Way("Events", key))
       /\ \A key, n : n \in Names(w1, key) <=> ~Doom("Events", key) /\ n \in Names(t, key)
       /\ \A key, n, d : ValueOr(w1, key, n, d) =
                           IF Doom("Events", key) THEN d ELSE ValueOr(t, key, n, d)
  BY <1>1, <1>3
<1>14. /\ \A key : key \in DOMAIN w2 <=>
            ~Doom("StatefulEvents", key) /\ (key \in DOMAIN w1 \/ Way("StatefulEvents", key))
       /\ \A key, n : n \in Names(w2, key) <=> ~Doom("StatefulEvents", key) /\ n \in Names(w1, key)
       /\ \A key, n, d : ValueOr(w2, key, n, d) =
                           IF Doom("StatefulEvents", key) THEN d ELSE ValueOr(w1, key, n, d)
  BY <1>1, <1>4
<1>15. /\ \A key : key \in DOMAIN w3 <=> key \in DOMAIN w2 \/ Way("PTimes", key)
       /\ \A key, n : n \in Names(w3, key) <=> ~Cut("PTimes", mine, key, n) /\ n \in Names(w2, key)
       /\ \A key, n, d : ValueOr(w3, key, n, d) =
                           IF Cut("PTimes", mine, key, n) THEN d ELSE ValueOr(w2, key, n, d)
  BY <1>2, <1>7
<1>16. /\ \A key : key \in DOMAIN v <=> key \in DOMAIN w3 \/ Way("RLZs", key)
       /\ \A key, n : n \in Names(v, key) <=>
                        ~Cut("RLZs", AccessPoint, key, n) /\ n \in Names(w3, key)
       /\ \A key, n, d : ValueOr(v, key, n, d) =
                           IF Cut("RLZs", AccessPoint, key, n) THEN d ELSE ValueOr(w3, key, n, d)
  BY <1>2, <1>8
<1>17. \A key : key \in DOMAIN v <=>
         ~Doomed(brand, p, key) /\ (key \in DOMAIN t \/ Remade(brand, key))
  BY <1>9, <1>10, <1>11, <1>13, <1>14, <1>15, <1>16
<1>18. \A key, n : n \in Names(v, key) <=>
         ~Doomed(brand, p, key) /\ ~Lost(brand, p, key, n) /\ n \in Names(t, key)
  BY <1>9, <1>12, <1>13, <1>14, <1>15, <1>16
<1>19. \A key, n, d : ValueOr(v, key, n, d) =
         IF Doomed(brand, p, key) \/ Lost(brand, p, key, n) THEN d ELSE ValueOr(t, key, n, d)
  <2> SUFFICES ASSUME NEW key, NEW n, NEW d
               PROVE  ValueOr(v, key, n, d) =
                        IF Doomed(brand, p, key) \/ Lost(brand, p, key, n) THEN d
                        ELSE ValueOr(t, key, n, d)
    OBVIOUS
  <2>1. CASE Cut("RLZs", AccessPoint, key, n)
    BY <1>12, <1>16, <2>1
  <2>2. CASE Cut("PTimes", mine, key, n)
    BY <1>12, <1>15, <1>16, <2>2
  <2>3. CASE Doom("StatefulEvents", key)
    BY <1>9, <1>14, <1>15, <1>16, <2>3
  <2>4. CASE Doom("Events", key)
    BY <1>9, <1>13, <1>14, <1>15, <1>16, <2>4
  <2>5. CASE ~(\/ Cut("RLZs", AccessPoint, key, n) \/ Cut("PTimes", mine, key, n)
               \/ Doom("StatefulEvents", key) \/ Doom("Events", key))
    BY <1>9, <1>12, <1>13, <1>14, <1>15, <1>16, <2>5
  <2> QED
    BY <2>1, <2>2, <2>3, <2>4, <2>5
<1> QED
  BY <1>17, <1>18, <1>19

\* Trees that are alike are the same when the product has been cleared.
LEMMA ClearedSame ==
  ASSUME OnWin, brand \in Brands, NEW p \in Product, NEW t, NEW u, Alike(t, u, brand, p),
         IsTree(StateCleared(t, p, AccessPoint)), IsTree(StateCleared(u, p, AccessPoint))
  PROVE  StateCleared(t, p, AccessPoint) = StateCleared(u, p, AccessPoint)
<1>1. PICK v : v = StateCleared(t, p, AccessPoint)
  OBVIOUS
<1>2. PICK w : w = StateCleared(u, p, AccessPoint)
  OBVIOUS
<1>3. \A key : key \in DOMAIN v <=> key \in DOMAIN w
  <2>1. \A key : key \in DOMAIN v <=>
          ~Doomed(brand, p, key) /\ (key \in DOMAIN t \/ Remade(brand, key))
    BY <1>1, ClearedWhole
  <2>2. \A key : key \in DOMAIN w <=>
          ~Doomed(brand, p, key) /\ (key \in DOMAIN u \/ Remade(brand, key))
    BY <1>2, ClearedWhole
  <2> QED
    BY <2>1, <2>2 DEF Alike
<1>4. \A key, n : n \in Names(v, key) <=> n \in Names(w, key)
  <2>1. \A key, n : n \in Names(v, key) <=>
          ~Doomed(brand, p, key) /\ ~Lost(brand, p, key, n) /\ n \in Names(t, key)
    BY <1>1, ClearedWhole
  <2>2. \A key, n : n \in Names(w, key) <=>
          ~Doomed(brand, p, key) /\ ~Lost(brand, p, key, n) /\ n \in Names(u, key)
    BY <1>2, ClearedWhole
  <2> QED
    BY <2>1, <2>2 DEF Alike
<1>5. \A key, n, d : ValueOr(v, key, n, d) = ValueOr(w, key, n, d)
  <2>1. \A key, n, d : ValueOr(v, key, n, d) =
          IF Doomed(brand, p, key) \/ Lost(brand, p, key, n) THEN d ELSE ValueOr(t, key, n, d)
    BY <1>1, ClearedWhole
  <2>2. \A key, n, d : ValueOr(w, key, n, d) =
          IF Doomed(brand, p, key) \/ Lost(brand, p, key, n) THEN d ELSE ValueOr(u, key, n, d)
    BY <1>2, ClearedWhole
  <2> QED
    BY <2>1, <2>2 DEF Alike
<1>6. DOMAIN v = DOMAIN w
  BY <1>3
<1>7. ASSUME NEW key \in DOMAIN v
      PROVE  DOMAIN v[key] = DOMAIN w[key] /\ \A n \in DOMAIN v[key] : v[key][n] = w[key][n]
  <2>1. Names(v, key) = DOMAIN v[key] /\ Names(w, key) = DOMAIN w[key]
    BY <1>6 DEF Names
  <2>2. \A n \in DOMAIN v[key] : ValueOr(v, key, n, <<>>) = v[key][n]
    BY <2>1 DEF ValueOr
  <2>3. \A n \in DOMAIN w[key] : ValueOr(w, key, n, <<>>) = w[key][n]
    BY <2>1 DEF ValueOr
  <2>4. DOMAIN v[key] = DOMAIN w[key]
    BY <1>4, <2>1
  <2> QED
    BY <1>5, <2>2, <2>3, <2>4
<1>8. v = w
  BY <1>1, <1>2, <1>6, <1>7, SameTree
<1> QED
  BY <1>1, <1>2, <1>8

\* Wherever the process dies in ClearProductState, a second call leaves what
\* one that was not cut short would have left.
THEOREM LibraryUninstallResumes == Spec => []UninstallResumes
<1>1. IInv => UninstallResumes
  <2> SUFFICES ASSUME IInv, OnWin, NEW p \in Product,
                      NEW t \in PartlyUninstalled(p, AccessPoint)
               PROVE  Uninstalled(t, p, AccessPoint) = Uninstalled(tree, p, AccessPoint)
    BY DEF UninstallResumes
  <2>1. brand \in Brands /\ Neighbours(others) /\ Fine(tree, others)
    BY DEF IInv
  <2>2. Fine(t, others)
    <3>1. \A n : Fine(Win!CollectedUpTo(StateCleared(tree, p, AccessPoint), brand, n), others)
      BY <2>1, FineCleared, FineCollected
    <3> QED
      BY <2>1, <3>1, FineCleared DEF PartlyUninstalled
  <2>3. IsTree(StateCleared(t, p, AccessPoint)) /\ IsTree(StateCleared(tree, p, AccessPoint))
    BY <2>1, <2>2, FineCleared DEF Fine
  <2>4. Alike(tree, t, brand, p)
    BY <2>1, AlikePartly
  <2> QED
    BY <2>1, <2>3, <2>4, ClearedSame DEF Uninstalled
<1> QED
  BY <1>1, LibraryInvariant, PTL
=============================================================================
