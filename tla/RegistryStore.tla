--------------------------- MODULE RegistryStore ---------------------------
(***************************************************************************)
(* RlzValueStoreRegistry: the value store of Windows.  Every operation     *)
(* takes the tree t below HKEY_CURRENT_USER\Software and the brand b in    *)
(* force and gives the tree it leaves, or what it reads.  To open a key    *)
(* for writing creates it.                                                 *)
(***************************************************************************)
EXTENDS Rlz, KeyTree

CONSTANTS NoBrand, \* the empty brand
          NoTime   \* there is no ping time

Common == <<"Google", "Common">>
LibKey == Append(Common, "Rlz")

\* Bug: the brand is forgotten for some of the data.
AppendSomeBrand(path, b) ==
  IF b = NoBrand \/ path = Append(LibKey, "PTimes") THEN path ELSE Append(path, b)

\* "_AAAA" for the brand AAAA.
AppendBrand(path, b) == IF b = NoBrand THEN path ELSE Append(path, b)

RegKey(subkey, b) == AppendBrand(Append(LibKey, subkey), b)
EventsKey(type, b, p) == Append(RegKey(type, b), p)

----------------------------------------------------------------------------

\* RegKeyReadValue into a buffer: what is longer is an error, what is as long
\* as the buffer loses its last character to the terminator.
RegKeyReadValue(value, size) ==
  IF Len(value) > size THEN <<>> ELSE SubSeq(value, 1, Lesser(Len(value), size - 1))

WritePingTime(t, b, p, time) == WithValue(t, RegKey("PTimes", b), p, time)
ReadPingTime(t, b, p) == ValueOr(t, RegKey("PTimes", b), p, NoTime)
ClearPingTime(t, b, p) ==
  LET key == RegKey("PTimes", b) IN WithoutValue(Created(t, key), key, p)

WriteAccessPointRlz(t, b, point, rlz) == WithValue(t, RegKey("RLZs", b), point, rlz)
\* Bug: the buffer has no room for the terminator.
ReadIntoTightBuffer(t, b, point) ==
  RegKeyReadValue(ValueOr(t, RegKey("RLZs", b), point, <<>>), MaxRlzLength)

ReadAccessPointRlz(t, b, point) ==
  RegKeyReadValue(ValueOr(t, RegKey("RLZs", b), point, <<>>), MaxRlzLength + 1)
ClearAccessPointRlzs(t, b, points) ==
  LET key == RegKey("RLZs", b) IN WithoutValues(Created(t, key), key, points)

AddEvent(t, b, type, p, e) == WithValue(t, EventsKey(type, b, p), e, 1)
ReadEvents(t, b, type, p) == Names(t, EventsKey(type, b, p))

ClearProductEvent(t, b, p, e) ==
  LET key == EventsKey("Events", b, p) IN WithoutValue(Created(t, key), key, e)

\* Bug: the key of the product is taken for one without a brand.
ClearUnbrandedEventValues(t, b, type, p) ==
  WithoutKey(Created(t, RegKey(type, b)), EventsKey(type, NoBrand, p))

ClearAllProductEventValues(t, b, type, p) ==
  WithoutKey(Created(t, RegKey(type, b)), EventsKey(type, b, p))

\* Bug: values do not count.
DeleteKeyWithoutSubkeys(t, path) ==
  IF Subkeys(t, path) # {} THEN t ELSE WithoutKey(t, path)

DeleteKeyIfEmpty(t, path) ==
  IF Names(t, path) # {} \/ Subkeys(t, path) # {} THEN t ELSE WithoutKey(t, path)

\* The keys that CollectGarbage deletes, in its order.
GarbageKeys(b) ==
  <<RegKey("RLZs", b), RegKey("Events", b), RegKey("StatefulEvents", b),
    RegKey("PTimes", b), LibKey, Common, <<"Google">>>>

\* The tree when the first n of them are done.
CollectedUpTo(t, b, n) ==
  LET keys == GarbageKeys(b)
      Done(u, i) == IF i <= n THEN DeleteKeyIfEmpty(u, keys[i]) ELSE u
  IN  Done(Done(Done(Done(Done(Done(Done(t, 1), 2), 3), 4), 5), 6), 7)

\* Bug: the parents come first.
CollectTopDown(t, b) ==
  LET Done(u, i) == DeleteKeyIfEmpty(u, GarbageKeys(b)[i])
  IN  Done(Done(Done(Done(Done(Done(Done(t, 7), 6), 5), 4), 3), 2), 1)

CollectGarbage(t, b) == CollectedUpTo(t, b, 7)
=============================================================================
