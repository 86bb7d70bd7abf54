------------------------------ MODULE Library ------------------------------
(***************************************************************************)
(* The calls that keep and clear what the library knows, over the value    *)
(* store of either build.  Each runs in one lock scope (MacStoreLock,      *)
(* WinStoreLock) with access to the store, and is one step here.  The      *)
(* process may die while it clears a product: on Windows every write is    *)
(* in the registry at once, on the Mac see MacStoreLock.                   *)
(***************************************************************************)
EXTENDS Rlz, KeyTree, FiniteSets

CONSTANTS Brand, NoBrand, Product, Event, Time, NoTime,
          Supported,          \* access points, see IsAccessPointSupported
          RawRlz,             \* what SetAccessPointRlz is called with
          Foreign,            \* keys that other software may have
          MaxValues, MaxEmpty \* bounds on the tree, see Small

\* "brand_AAAA" is neither a product nor "RLZs", and other software has nothing
\* below the library's key.
ASSUME LibraryAssumption ==
  /\ NoBrand \notin Brand /\ NoTime \notin Time
  /\ Brand \cap Product = {} /\ "RLZs" \notin Product
  /\ AccessPoint \cap (Product \cup Event \cup {"pingTime", "theirs"}) = {}
  /\ AccessPoint # {} /\ Supported \subseteq AccessPoint /\ Product # {}
  /\ RawRlz \subseteq Seq(Char)
  /\ Foreign \subseteq Seq(STRING) \ {<<>>}
  /\ \A key \in Foreign : ~IsPrefix(<<"Google", "Common", "Rlz">>, key)

VARIABLES build,  \* "win" or "mac"
          brand,  \* GetBrand()
          others, \* the key where other software keeps a value, if any
          tree,   \* see KeyTree
          call    \* history: the last call, with what it was given

vars == <<build, brand, others, tree, call>>

Win == INSTANCE RegistryStore
Mac == INSTANCE DictStore

Init == /\ build \in {"win", "mac"} /\ brand = NoBrand /\ call = <<>>
        /\ \/ others = {} /\ tree = <<>>
           \/ /\ build = "win"
              /\ \E key \in Foreign : /\ others = {key}
                                      /\ tree = WithValue(<<>>, key, "theirs", 1)

Brands == Brand \cup {NoBrand}

----------------------------------------------------------------------------
(* RlzValueStore, for the brand in force. *)

OnWin == build = "win"

\* What it takes to look for the data of a product, or for the RLZs.
Touched(t, p) == IF OnWin THEN t ELSE Mac!Touched(t, brand, p)
TouchedBrand(t) == IF OnWin THEN t ELSE Mac!TouchedBrand(t, brand)

AddEvent(t, type, p, e) ==
  IF OnWin THEN Win!AddEvent(t, brand, type, p, e) ELSE Mac!AddEvent(t, brand, type, p, e)
ReadEvents(t, b, type, p) ==
  IF OnWin THEN Win!ReadEvents(t, b, type, p) ELSE Mac!ReadEvents(t, b, type, p)
ClearEvents(t, type, p) ==
  IF OnWin THEN Win!ClearAllProductEventValues(t, brand, type, p)
  ELSE Mac!ClearAllProductEventValues(t, brand, type, p)
ReadPingTime(t, b, p) ==
  IF OnWin THEN Win!ReadPingTime(t, b, p) ELSE Mac!ReadPingTime(t, b, p)
ClearPingTime(t, p) ==
  IF OnWin THEN Win!ClearPingTime(t, brand, p) ELSE Mac!ClearPingTime(t, brand, p)
ReadRlz(t, b, point) ==
  IF OnWin THEN Win!ReadAccessPointRlz(t, b, point)
  ELSE Mac!ReadAccessPointRlz(t, b, point)
ClearRlzs(t, points) ==
  IF OnWin THEN Win!ClearAccessPointRlzs(t, brand, points)
  ELSE Mac!ClearAccessPointRlzs(t, brand, points)
CollectGarbage(t) ==
  IF OnWin THEN Win!CollectGarbage(t, brand) ELSE Mac!CollectGarbage(t, brand)

----------------------------------------------------------------------------
(* The calls *)

\* Bounds of the model: the tree has few values of the library and few empty
\* keys when a call other than ClearProductState is done.
Small(t) ==
  LET values == UNION {{key} \X (Names(t, key) \ {"theirs"}) : key \in DOMAIN t}
      empty == {key \in DOMAIN t : Names(t, key) = {}} \ {Front(key) : key \in DOMAIN t}
  IN  Cardinality(values) <= MaxValues /\ Cardinality(empty) <= MaxEmpty

Leaves(t) == /\ tree' = t /\ Small(t)
             /\ UNCHANGED <<build, brand, others>>

\* Bug: a stateful event is recorded like any other.
RecordAnyEvent(p, e) ==
  /\ call' = <<"RecordProductEvent", p, e>>
  /\ Leaves(AddEvent(Touched(tree, p), "Events", p, e))

RecordProductEvent(p, e) ==
  /\ call' = <<"RecordProductEvent", p, e>>
  /\ Leaves(IF e \in ReadEvents(tree, brand, "StatefulEvents", p) THEN Touched(tree, p)
            ELSE AddEvent(Touched(tree, p), "Events", p, e))

RecordStatefulEvent(p, e) ==
  /\ call' = <<"RecordStatefulEvent", p, e>>
  /\ Leaves(AddEvent(tree, "StatefulEvents", p, e))

ClearProductEvent(p, e) ==
  /\ call' = <<"ClearProductEvent", p, e>>
  /\ Leaves(IF OnWin THEN Win!ClearProductEvent(tree, brand, p, e)
            ELSE Mac!ClearProductEvent(tree, brand, p, e))

AllEventsCleared(t, p) == ClearEvents(ClearEvents(t, "Events", p), "StatefulEvents", p)
ClearAllProductEvents(p) == /\ call' = <<"ClearAllProductEvents", p>>
                            /\ Leaves(AllEventsCleared(tree, p))

\* To set an empty RLZ is to clear it.
SetAccessPointRlz(point, raw) ==
  /\ point \in Supported /\ Len(raw) <= MaxRlzLength
  /\ call' = <<"SetAccessPointRlz", point, raw>>
  /\ LET rlz == NormalizeRlz(raw)
     IN  Leaves(IF rlz = <<>> THEN ClearRlzs(tree, {point})
                ELSE IF OnWin THEN Win!WriteAccessPointRlz(tree, brand, point, rlz)
                ELSE Mac!WriteAccessPointRlz(tree, brand, point, rlz))

GetAccessPointRlz(point) == /\ point \in Supported
                            /\ call' = <<"GetAccessPointRlz", point>>
                            /\ Leaves(TouchedBrand(tree))
GetProductEventsAsCgi(p) == /\ call' = <<"GetProductEventsAsCgi", p>>
                            /\ Leaves(Touched(tree, p))

UpdateLastPingTime(p, time) ==
  /\ call' = <<"UpdateLastPingTime", p, time>>
  /\ Leaves(IF OnWin THEN Win!WritePingTime(tree, brand, p, time)
            ELSE Mac!WritePingTime(tree, brand, p, time))
ClearLastPingTime(p) == call' = <<"ClearLastPingTime", p>> /\ Leaves(ClearPingTime(tree, p))

\* The steps of ClearProductState up to the garbage, and what it comes to.
RlzsCleared(t, points) == IF points = {} THEN t ELSE ClearRlzs(t, points)

\* Bug: a product without events is taken for uninstalled.
StateClearedOnce(t, p, points) ==
  IF ClearEvents(t, "Events", p) = t THEN t
  ELSE RlzsCleared(ClearPingTime(AllEventsCleared(t, p), p), points)

StateCleared(t, p, points) ==
  RlzsCleared(ClearPingTime(AllEventsCleared(t, p), p), points)
Uninstalled(t, p, points) == CollectGarbage(StateCleared(t, p, points))
ClearProductState(p, points) == /\ call' = <<"ClearProductState", p, points>>
                                /\ tree' = Uninstalled(tree, p, points)
                                /\ UNCHANGED <<build, brand, others>>

\* What a process that dies in ClearProductState may leave behind.
PartlyUninstalled(p, points) ==
  {ClearEvents(tree, "Events", p), AllEventsCleared(tree, p)}
  \cup {StateCleared(tree, p, some) : some \in SUBSET points}
  \cup LET cleared == StateCleared(tree, p, points)
       IN  {Win!CollectedUpTo(cleared, brand, n) : n \in 1..7}

CrashInClear(p, points) ==
  /\ OnWin /\ brand' = NoBrand /\ call' = <<"CrashInClear", p, points>>
  /\ \E t \in PartlyUninstalled(p, points) : tree' = t /\ Small(t)
  /\ UNCHANGED <<build, others>>

SupplementaryBranding(b) == /\ brand = NoBrand /\ brand' = b
                            /\ call' = <<"SupplementaryBranding", b>>
                            /\ UNCHANGED <<build, others, tree>>
EndBranding == /\ brand # NoBrand /\ brand' = NoBrand
               /\ call' = <<"SupplementaryBranding", NoBrand>>
               /\ UNCHANGED <<build, others, tree>>

Next ==
  \/ \E p \in Product, e \in Event :
       RecordProductEvent(p, e) \/ RecordStatefulEvent(p, e) \/ ClearProductEvent(p, e)
  \/ \E p \in Product : \/ ClearAllProductEvents(p) \/ GetProductEventsAsCgi(p)
                        \/ ClearLastPingTime(p)
                        \/ \E time \in Time : UpdateLastPingTime(p, time)
  \/ \E point \in AccessPoint : \/ GetAccessPointRlz(point)
                                \/ \E raw \in RawRlz : SetAccessPointRlz(point, raw)
  \/ \E p \in Product, points \in SUBSET AccessPoint :
       ClearProductState(p, points) \/ CrashInClear(p, points)
  \/ \E b \in Brand : SupplementaryBranding(b)
  \/ EndBranding

Spec == Init /\ [][Next]_vars

----------------------------------------------------------------------------
(* Properties *)

\* No key is without its parent, and no RLZ is kept that is not normalised,
\* too long or empty.
TypeOK ==
  /\ build \in {"win", "mac"} /\ brand \in Brands
  /\ \A key \in DOMAIN tree : Len(key) > 1 => SubSeq(key, 1, Len(key) - 1) \in DOMAIN tree
  /\ \A key \in DOMAIN tree, point \in AccessPoint :
       point \in Names(tree, key) => tree[key][point] \in StoredRlz \ {<<>>}

Store == INSTANCE ValueStore WITH
  Value <- StoredRlz \ {<<>>}, NoRlz <- <<>>,
  rlz <- [b \in Brands |-> [point \in AccessPoint |-> ReadRlz(tree, b, point)]],
  events <- [b \in Brands |-> [p \in Product |-> ReadEvents(tree, b, "Events", p)]],
  stateful <- [b \in Brands |-> [p \in Product |-> ReadEvents(tree, b, "StatefulEvents", p)]],
  pingTime <- [b \in Brands |-> [p \in Product |-> ReadPingTime(tree, b, p)]]

\* Either store does what the library promises: brands, products and access
\* points are kept apart (rlz_lib.h:290-325), also by calls that clear.
StoreSpec == Store!Spec

\* What the last call was to do, given what it was called with.
ActsAsAsked ==
  \/ \E p \in Product, e \in Event :
       \/ /\ call' = <<"RecordProductEvent", p, e>>
          /\ IF e \in ReadEvents(tree, brand, "StatefulEvents", p)
             THEN UNCHANGED Store!vars ELSE Store!RecordEvent(p, e)
       \/ call' = <<"RecordStatefulEvent", p, e>> /\ Store!RecordStateful(p, e)
       \/ call' = <<"ClearProductEvent", p, e>> /\ Store!ClearEvent(p, e)
  \/ \E p \in Product :
       \/ call' = <<"ClearAllProductEvents", p>> /\ Store!ClearAllEvents(p)
       \/ call' = <<"GetProductEventsAsCgi", p>> /\ UNCHANGED Store!vars
       \/ call' = <<"ClearLastPingTime", p>> /\ Store!SetPingTime(p, NoTime)
       \/ \E time \in Time :
            call' = <<"UpdateLastPingTime", p, time>> /\ Store!SetPingTime(p, time)
  \/ \E point \in AccessPoint :
       \/ call' = <<"GetAccessPointRlz", point>> /\ UNCHANGED Store!vars
       \/ \E raw \in RawRlz : /\ call' = <<"SetAccessPointRlz", point, raw>>
                             /\ Store!SetRlz(point, NormalizeRlz(raw))
  \/ \E p \in Product, points \in SUBSET AccessPoint :
       \/ call' = <<"ClearProductState", p, points>> /\ Store!ClearProduct(p, points)
       \/ call' = <<"CrashInClear", p, points>> /\ Store!Dies(p, points)
  \/ \E b \in Brands : call' = <<"SupplementaryBranding", b>> /\ Store!Scope(b)

\* A call that writes does to the data what it is asked, with the product, the
\* access point and the value it is given, of which nothing is lost on the way
\* into the store and back (registry_util.cc:28).  A call that asks changes no
\* data, whatever keys it creates.
CallsActAsAsked == [][ActsAsAsked]_vars

\* Garbage collection goes up to Software\Google, but what other software has
\* there stays.
OtherSoftwareKept == \A key \in others : "theirs" \in Names(tree, key)

\* An uninstallation leaves none of the keys that CollectGarbage looks at empty
\* ("empty registry folders", rlz_value_store.h:71): those of the brand in
\* force, the library's key and its parents.  Without a brand the former are the
\* parents of the brands' keys; under a brand they are not looked at, and
\* Rlz\Events may stay empty.
UninstallCleans ==
  OnWin => \A p \in Product :
    LET t == Uninstalled(tree, p, AccessPoint)
    IN  \A key \in Range(Win!GarbageKeys(brand)) \cap DOMAIN t :
          Names(t, key) # {} \/ Subkeys(t, key) # {}

\* An uninstallation that is cut short can be repeated: it leaves what it would
\* have left at once.
UninstallResumes ==
  OnWin => \A p \in Product :
    LET whole == Uninstalled(tree, p, AccessPoint)
    IN  \A t \in PartlyUninstalled(p, AccessPoint) : Uninstalled(t, p, AccessPoint) = whole
=============================================================================
