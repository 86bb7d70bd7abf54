---------------------------- MODULE WinStoreLock ----------------------------
(***************************************************************************)
(* ScopedRlzValueStoreLock and SupplementaryBranding on Windows.  The lock *)
(* is one named kernel mutex, which a thread may take again while it has   *)
(* it; a scope waits five seconds for it.  The store is the registry:      *)
(* every write is on disk at once, under the brand that the process has    *)
(* set at that time.                                                       *)
(*                                                                         *)
(* A branding scope is a lock scope that also sets the brand of the        *)
(* process.  What happens to the events of one product stands for all that *)
(* is kept by brand.                                                       *)
(***************************************************************************)
EXTENDS Integers, Sequences, FiniteSets

CONSTANTS Process, Thread, ProcessOf,
          NoThread,
          Brand, NoBrand,  \* supplementary brands, and the empty one
          Event,
          MaxNesting,      \* bound on nested scopes of one thread
          Faults           \* "integrity", "timeout", "crash"

ASSUME WinLockAssumption ==
  /\ ProcessOf \in [Thread -> Process]
  /\ NoThread \notin Thread
  /\ NoBrand \notin Brand
  /\ MaxNesting \in Nat
  /\ Faults \subseteq {"integrity", "timeout", "crash"}

VARIABLES
  owner,      \* the thread that owns the kernel mutex, or NoThread
  count,      \* how many times it has taken it
  abandoned,  \* its last owner died with it
  inherited,  \* history: its owner took it over from one that died
  brand,      \* g_supplemental_branding of each process
  registry,   \* [brand, event] of every event stored
  pc,         \* where a thread is
  opening,    \* the scope that a thread is about to enter
  scopes      \* the live scopes of a thread, outermost first

vars == <<owner, count, abandoned, inherited, brand, registry, pc, opening, scopes>>
mutex == <<owner, count, abandoned, inherited>>

PC == {"client",   \* in code that uses the library
       "wait",     \* in the constructor of LibMutex
       "entered",  \* about to set the brand in SupplementaryBranding's constructor
       "leaving"}  \* about to delete lock_ in its destructor

\* A scope: the brand it is for (NoBrand for a plain lock scope), LibMutex's
\* acquired_, which decides whether GetStore() returns a store.
Scope == [brand : Brand \cup {NoBrand}, acquired : BOOLEAN]

P(t) == ProcessOf[t]
InScope(t) == scopes[t] # <<>>
Top(t) == scopes[t][Len(scopes[t])]
Brands(s) == s.brand # NoBrand

GoTo(t, label) == pc' = [pc EXCEPT ![t] = label]
Pushed(t, s) == scopes' = [scopes EXCEPT ![t] = Append(@, s)]
Popped(t) == scopes' = [scopes EXCEPT ![t] = SubSeq(@, 1, Len(@) - 1)]

Init == /\ owner = NoThread /\ count = 0 /\ abandoned = FALSE /\ inherited = FALSE
        /\ brand = [p \in Process |-> NoBrand]
        /\ registry = {}
        /\ pc = [t \in Thread |-> "client"]
        /\ opening = [t \in Thread |-> NoBrand]
        /\ scopes = [t \in Thread |-> <<>>]

----------------------------------------------------------------------------
(* The kernel's mutex *)

\* Threads that have a handle of it open; it is gone with the last handle.
Handles == {t \in Thread : InScope(t) \/ pc[t] = "wait"}

Take(t) == owner' = t /\ count' = IF owner = t THEN count + 1 ELSE 1

Destroyed == /\ owner' = NoThread /\ count' = 0
             /\ abandoned' = FALSE /\ inherited' = FALSE

\* ReleaseMutex by its owner.
ReleaseMutex(t) == /\ count' = count - 1
                   /\ owner' = IF count = 1 THEN NoThread ELSE owner
                   /\ UNCHANGED <<abandoned, inherited>>

----------------------------------------------------------------------------
(* The constructor of LibMutex *)

\* A caller without a store returns, except from a branding scope, which does
\* not tell its caller that the lock failed.
MayNest(t) == InScope(t) => Top(t).acquired \/ Brands(Top(t))

\* CreateMutex.  Branding scopes are not nested: that is an error of the caller
\* ("ProductBranding: existing brand is not empty").
OpenScope(t) ==
  /\ pc[t] = "client"
  /\ Len(scopes[t]) < MaxNesting
  /\ MayNest(t)
  /\ \E b \in Brand \cup {NoBrand} :
       /\ b # NoBrand => \A i \in DOMAIN scopes[t] : ~Brands(scopes[t][i])
       /\ opening' = [opening EXCEPT ![t] = b]
  /\ GoTo(t, "wait")
  /\ UNCHANGED <<mutex, brand, registry, scopes>>

Entered(t, acquired) ==
  /\ pc[t] = "wait"
  /\ Pushed(t, [brand |-> opening[t], acquired |-> acquired])
  /\ GoTo(t, IF opening[t] = NoBrand THEN "client" ELSE "entered")
  /\ UNCHANGED <<brand, registry, opening>>

\* SetObjectToLowIntegrity fails: there is no wait.
CannotSetIntegrity(t) ==
  /\ "integrity" \in Faults
  /\ Entered(t, FALSE)
  /\ UNCHANGED mutex

\* WAIT_OBJECT_0
WaitSucceeds(t) ==
  /\ (owner = NoThread /\ ~abandoned) \/ owner = t
  /\ Entered(t, TRUE)
  /\ Take(t)
  /\ UNCHANGED <<abandoned, inherited>>

\* WAIT_ABANDONED gives the mutex to the thread, which counts it as a failure
\* and will not release it.
WaitAbandoned(t) ==
  /\ owner = NoThread /\ abandoned
  /\ Entered(t, FALSE)
  /\ Take(t)
  /\ abandoned' = FALSE /\ inherited' = TRUE

\* Bug: a wait that times out counts as a success.
TimeoutSucceeds(t) ==
  /\ "timeout" \in Faults
  /\ owner \notin {NoThread, t}
  /\ Entered(t, TRUE)
  /\ UNCHANGED mutex

\* WAIT_TIMEOUT
WaitTimesOut(t) ==
  /\ "timeout" \in Faults
  /\ owner \notin {NoThread, t}
  /\ Entered(t, FALSE)
  /\ UNCHANGED mutex

----------------------------------------------------------------------------
(* SupplementaryBranding *)

\* Bug: the brand is set without a look at the lock.
SetBrandAnyway(t) ==
  /\ pc[t] = "entered"
  /\ brand' = [brand EXCEPT ![P(t)] = Top(t).brand]
  /\ GoTo(t, "client")
  /\ UNCHANGED <<mutex, registry, opening, scopes>>

\* Without the lock, or if there is a brand already, nothing is set.
SetBrand(t) ==
  /\ pc[t] = "entered"
  /\ brand' = [brand EXCEPT ![P(t)] =
                 IF Top(t).acquired /\ @ = NoBrand THEN Top(t).brand ELSE @]
  /\ GoTo(t, "client")
  /\ UNCHANGED <<mutex, registry, opening, scopes>>

\* Bug: the brand outlives the scope.
KeepBrand(t) ==
  /\ pc[t] = "client" /\ InScope(t) /\ Brands(Top(t))
  /\ GoTo(t, "leaving")
  /\ UNCHANGED <<mutex, brand, registry, opening, scopes>>

\* The destructor clears the brand, whoever has set it.
ClearBrand(t) ==
  /\ pc[t] = "client" /\ InScope(t) /\ Brands(Top(t))
  /\ brand' = [brand EXCEPT ![P(t)] = IF Top(t).acquired THEN NoBrand ELSE @]
  /\ GoTo(t, "leaving")
  /\ UNCHANGED <<mutex, registry, opening, scopes>>

----------------------------------------------------------------------------
(* The operations of the store *)

\* AppendBrandToString
CurrentBrand(t) == brand[P(t)]

UsesStore(t) == pc[t] = "client" /\ InScope(t) /\ Top(t).acquired

\* AddProductEvent, as an example of what is written under the brand.
AddProductEvent(t) ==
  /\ UsesStore(t)
  /\ \E e \in Event : registry' = registry \cup {[brand |-> CurrentBrand(t), event |-> e]}
  /\ UNCHANGED <<mutex, brand, pc, opening, scopes>>

ClearAllProductEvents(t) ==
  /\ UsesStore(t)
  /\ registry' = {r \in registry : r.brand # CurrentBrand(t)}
  /\ UNCHANGED <<mutex, brand, pc, opening, scopes>>

----------------------------------------------------------------------------
(* The destructor of LibMutex, and the end of a process *)

\* Bug: releases the mutex whether it was acquired or not.
CloseAndRelease(t) ==
  /\ \/ pc[t] = "client" /\ InScope(t) /\ ~Brands(Top(t))
     \/ pc[t] = "leaving"
  /\ IF Handles = {t} /\ Len(scopes[t]) = 1 THEN Destroyed ELSE ReleaseMutex(t)
  /\ Popped(t)
  /\ GoTo(t, "client")
  /\ UNCHANGED <<brand, registry, opening>>

\* Bug: only the outermost scope releases the mutex, as on the Mac.
CloseOutermost(t) ==
  /\ \/ pc[t] = "client" /\ InScope(t) /\ ~Brands(Top(t))
     \/ pc[t] = "leaving"
  /\ IF Handles = {t} /\ Len(scopes[t]) = 1 THEN Destroyed
     ELSE IF Top(t).acquired /\ Len(scopes[t]) = 1 THEN ReleaseMutex(t) ELSE UNCHANGED mutex
  /\ Popped(t)
  /\ GoTo(t, "client")
  /\ UNCHANGED <<brand, registry, opening>>

CloseScope(t) ==
  /\ \/ pc[t] = "client" /\ InScope(t) /\ ~Brands(Top(t))
     \/ pc[t] = "leaving"
  /\ IF Handles = {t} /\ Len(scopes[t]) = 1 THEN Destroyed
     ELSE IF Top(t).acquired THEN ReleaseMutex(t) ELSE UNCHANGED mutex
  /\ Popped(t)
  /\ GoTo(t, "client")
  /\ UNCHANGED <<brand, registry, opening>>

\* The registry stays as it is, in the middle of what was being done.
Crash(p) ==
  LET dead(t) == P(t) = p IN
  /\ "crash" \in Faults
  /\ IF \A t \in Handles : dead(t) THEN Destroyed
     ELSE IF owner # NoThread /\ dead(owner)
     THEN owner' = NoThread /\ count' = 0 /\ abandoned' = TRUE /\ inherited' = FALSE
     ELSE UNCHANGED mutex
  /\ brand' = [brand EXCEPT ![p] = NoBrand]
  /\ pc' = [t \in Thread |-> IF dead(t) THEN "client" ELSE pc[t]]
  /\ scopes' = [t \in Thread |-> IF dead(t) THEN <<>> ELSE scopes[t]]
  /\ UNCHANGED <<registry, opening>>

----------------------------------------------------------------------------

Lock(t) == \/ OpenScope(t) \/ CannotSetIntegrity(t) \/ WaitSucceeds(t)
           \/ WaitAbandoned(t) \/ WaitTimesOut(t) \/ CloseScope(t)

Next == \/ \E t \in Thread : \/ Lock(t) \/ SetBrand(t) \/ ClearBrand(t)
                             \/ AddProductEvent(t) \/ ClearAllProductEvents(t)
        \/ \E p \in Process : Crash(p)

Spec == Init /\ [][Next]_vars

----------------------------------------------------------------------------
(* Properties *)

Records == [brand : Brand \cup {NoBrand}, event : Event]

\* The mutex has an owner exactly while it is taken, and is not abandoned then.
TypeOK ==
  /\ owner \in Thread \cup {NoThread} /\ count \in Nat
  /\ owner = NoThread <=> count = 0
  /\ abandoned \in BOOLEAN /\ (abandoned => owner = NoThread)
  /\ inherited \in BOOLEAN /\ (inherited => owner # NoThread)
  /\ brand \in [Process -> Brand \cup {NoBrand}]
  /\ registry \subseteq Records
  /\ pc \in [Thread -> PC]
  /\ opening \in [Thread -> Brand \cup {NoBrand}]
  /\ scopes \in [Thread -> Seq(Scope)]

Acquired(t) == {i \in DOMAIN scopes[t] : scopes[t][i].acquired}
HasStore(t) == Acquired(t) # {}

\* "Mutex to guarantee serialization of RLZ key accesses" (lib_mutex.h:5): of
\* all threads of all processes one has stores, however many scopes it nests,
\* although waits time out and owners die.
ExclusiveStore == \A t, u \in Thread : HasStore(t) /\ HasStore(u) => t = u

\* A thread has the mutex once for each of its scopes that got it, and once
\* more if it took over from an owner that died, a wait that it counts as failed
\* and never releases (lib_mutex.cc:58, 63): that one stays until the mutex is
\* gone, or the thread.
MutexAccounted ==
  \A t \in Thread :
    LET n == Cardinality(Acquired(t))
    IN  IF owner = t THEN count = n + (IF inherited THEN 1 ELSE 0) ELSE n = 0

\* No brand is left behind: a process has one only while a thread of it that
\* has the mutex is in a branding scope, and so no other thread works under it.
BrandHasScope ==
  \A p \in Process : brand[p] # NoBrand =>
    \E t \in Thread : /\ P(t) = p /\ owner = t
                      /\ \E i \in DOMAIN scopes[t] :
                           Brands(scopes[t][i]) /\ scopes[t][i].acquired

Under(b) == {r \in registry : r.brand = b}

\* The brand of the branding scope a thread is in, of those given.
ScopeBrand(t, branding) ==
  IF branding = {} THEN NoBrand
  ELSE scopes[t][CHOOSE i \in branding : \A j \in branding : i <= j].brand

Branding(t) == {i \in DOMAIN scopes[t] : Brands(scopes[t][i])}
LockedBranding(t) == {i \in Branding(t) : scopes[t][i].acquired}

\* What is kept for a brand changes only by a thread in a scope of that brand,
\* if only scopes that got the lock count.
BrandsKeptApart ==
  [][\A b \in Brand \cup {NoBrand} : Under(b)' # Under(b) =>
       \E t \in Thread : UsesStore(t) /\ ScopeBrand(t, LockedBranding(t)) = b]_vars

\* "scope all RLZ library calls that deal with supplementary brands within the
\* lifetime of" a SupplementaryBranding (rlz_lib.h:301): what is kept for a
\* brand changes only by a thread in a scope of that brand.
BrandScopesCalls ==
  [][\A b \in Brand \cup {NoBrand} : Under(b)' # Under(b) =>
       \E t \in Thread : UsesStore(t) /\ ScopeBrand(t, Branding(t)) = b]_vars
=============================================================================
