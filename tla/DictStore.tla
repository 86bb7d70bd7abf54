----------------------------- MODULE DictStore -----------------------------
(***************************************************************************)
(* RlzValueStoreMac: the value store of the Mac, with the operations of    *)
(* RegistryStore over the working dictionary t.  The dictionaries of the   *)
(* brand and of the product are created by whoever looks for them, those   *)
(* that only read included (Touched).                                      *)
(***************************************************************************)
EXTENDS KeyTree

CONSTANTS NoBrand, NoTime

\* "brand_AAAA" for the brand AAAA.
WorkingDict(b) == IF b = NoBrand THEN <<>> ELSE <<b>>
ProductDict(b, p) == Append(WorkingDict(b), p)
AccessPoints(b) == Append(WorkingDict(b), "RLZs")
EventsDict(b, type, p) == Append(ProductDict(b, p), type)

\* Any operation on a product, and any on the RLZs.
Touched(t, b, p) == Created(t, ProductDict(b, p))
TouchedBrand(t, b) == Created(t, WorkingDict(b))

WritePingTime(t, b, p, time) == WithValue(t, ProductDict(b, p), "pingTime", time)
ReadPingTime(t, b, p) == ValueOr(t, ProductDict(b, p), "pingTime", NoTime)
ClearPingTime(t, b, p) == WithoutValue(Touched(t, b, p), ProductDict(b, p), "pingTime")

WriteAccessPointRlz(t, b, point, rlz) == WithValue(t, AccessPoints(b), point, rlz)
ReadAccessPointRlz(t, b, point) == ValueOr(t, AccessPoints(b), point, <<>>)
ClearAccessPointRlzs(t, b, points) ==
  WithoutValues(TouchedBrand(t, b), AccessPoints(b), points)

AddEvent(t, b, type, p, e) == WithValue(t, EventsDict(b, type, p), e, 1)
ReadEvents(t, b, type, p) == Names(t, EventsDict(b, type, p))
ClearProductEvent(t, b, p, e) ==
  WithoutValue(Touched(t, b, p), EventsDict(b, "Events", p), e)
ClearAllProductEventValues(t, b, type, p) ==
  WithoutKey(Touched(t, b, p), EventsDict(b, type, p))

\* NOTIMPLEMENTED.
CollectGarbage(t, b) == t
=============================================================================
