------------------------- MODULE WinStoreLockProofs -------------------------
(***************************************************************************)
(* The mutex and the brands on Windows, for any processes, threads, brands *)
(* and depth of nesting.                                                   *)
(***************************************************************************)
EXTENDS WinStoreLock, FiniteSetTheorems, SequenceTheorems, TLAPS

\* TypeOK in two parts: the mutex, and the rest.
MutexOK == /\ owner \in Thread \cup {NoThread} /\ count \in Nat
           /\ owner = NoThread <=> count = 0
           /\ abandoned \in BOOLEAN /\ (abandoned => owner = NoThread)
           /\ inherited \in BOOLEAN /\ (inherited => owner # NoThread)
ThreadsOK == /\ brand \in [Process -> Brand \cup {NoBrand}]
             /\ registry \subseteq Records
             /\ pc \in [Thread -> PC]
             /\ opening \in [Thread -> Brand \cup {NoBrand}]
             /\ scopes \in [Thread -> Seq(Scope)]

\* A thread between two steps of a branding scope is in one, and a scope that is
\* about to give the mutex back has cleared the brand.
BrandingSteps ==
  \A t \in Thread :
    /\ pc[t] \in {"entered", "leaving"} => InScope(t) /\ Brands(Top(t))
    /\ pc[t] = "leaving" /\ Top(t).acquired => brand[P(t)] = NoBrand

IInv == MutexOK /\ ThreadsOK /\ MutexAccounted /\ BrandingSteps /\ BrandHasScope

----------------------------------------------------------------------------
(* Counting the scopes that got the mutex *)

AcquiredIn(s) == {i \in DOMAIN s : s[i].acquired}

LEMMA FiniteAcquired ==
  ASSUME NEW s \in Seq(Scope)
  PROVE  IsFiniteSet(AcquiredIn(s)) /\ Cardinality(AcquiredIn(s)) \in Nat
<1>1. IsFiniteSet(1..Len(s))
  BY FS_Interval
<1>2. AcquiredIn(s) \subseteq 1..Len(s)
  BY DEF AcquiredIn
<1> QED
  BY <1>1, <1>2, FS_Subset, FS_CardinalityType

LEMMA PushedAcquired ==
  ASSUME NEW s \in Seq(Scope), NEW x \in Scope
  PROVE  Cardinality(AcquiredIn(Append(s, x))) =
           Cardinality(AcquiredIn(s)) + (IF x.acquired THEN 1 ELSE 0)
<1>1. ASSUME x.acquired
      PROVE  AcquiredIn(Append(s, x)) = AcquiredIn(s) \cup {Len(s) + 1}
  BY <1>1 DEF AcquiredIn
<1>2. ASSUME ~x.acquired PROVE AcquiredIn(Append(s, x)) = AcquiredIn(s)
  BY <1>2 DEF AcquiredIn
<1>3. Len(s) + 1 \notin AcquiredIn(s)
  BY DEF AcquiredIn
<1> QED
  BY <1>1, <1>2, <1>3, FiniteAcquired, FS_AddElement

LEMMA PoppedAcquired ==
  ASSUME NEW s \in Seq(Scope), s # <<>>
  PROVE  LET rest == SubSeq(s, 1, Len(s) - 1) IN
         /\ rest \in Seq(Scope)
         /\ AcquiredIn(rest) = AcquiredIn(s) \ {Len(s)}
         /\ \A i \in DOMAIN s \ {Len(s)} : i \in DOMAIN rest /\ rest[i] = s[i]
         /\ Cardinality(AcquiredIn(s)) =
              Cardinality(AcquiredIn(rest)) + (IF s[Len(s)].acquired THEN 1 ELSE 0)
<1> DEFINE rest == SubSeq(s, 1, Len(s) - 1)
<1>1. /\ rest \in Seq(Scope) /\ Len(rest) = Len(s) - 1
      /\ \A i \in 1..(Len(s) - 1) : rest[i] = s[i]
  <2>1. Len(s) \in Nat /\ Len(s) # 0
    OBVIOUS
  <2> QED
    BY <2>1, SubSeqProperties
<1>2. AcquiredIn(rest) = AcquiredIn(s) \ {Len(s)}
  BY <1>1 DEF AcquiredIn
<1>3. Len(s) \in AcquiredIn(s) <=> s[Len(s)].acquired
  BY DEF AcquiredIn
<1>4. IsFiniteSet(AcquiredIn(s)) /\ Cardinality(AcquiredIn(s)) \in Nat
  BY FiniteAcquired
<1>5. CASE s[Len(s)].acquired
  <2>1. Cardinality(AcquiredIn(rest)) = Cardinality(AcquiredIn(s)) - 1
    BY <1>2, <1>3, <1>4, <1>5, FS_RemoveElement
  <2> QED
    BY <1>1, <1>2, <1>4, <1>5, <2>1
<1>6. CASE ~s[Len(s)].acquired
  <2>1. AcquiredIn(rest) = AcquiredIn(s)
    BY <1>2, <1>3, <1>6
  <2> QED
    BY <1>1, <1>2, <1>4, <1>6, <2>1
<1> QED
  BY <1>5, <1>6

\* A scope with the mutex counts.
LEMMA SomeAcquired ==
  ASSUME NEW s \in Seq(Scope), NEW i \in AcquiredIn(s)
  PROVE  Cardinality(AcquiredIn(s)) >= 1
BY FiniteAcquired, FS_EmptySet

LEMMA NoneAcquired ==
  ASSUME NEW s \in Seq(Scope), Cardinality(AcquiredIn(s)) = 0
  PROVE  AcquiredIn(s) = {}
BY FiniteAcquired, FS_EmptySet

LEMMA Accounted ==
  MutexAccounted <=>
    \A t \in Thread :
      LET n == Cardinality(AcquiredIn(scopes[t]))
      IN  IF owner = t THEN count = n + (IF inherited THEN 1 ELSE 0) ELSE n = 0
BY DEF MutexAccounted, Acquired, AcquiredIn

----------------------------------------------------------------------------
(* Steps *)

LEMMA InitIInv == Init => IInv
<1> SUFFICES ASSUME Init PROVE IInv
  OBVIOUS
<1>1. MutexOK
  BY DEF Init, MutexOK
<1>2. ThreadsOK
  <2>1. scopes \in [Thread -> Seq(Scope)]
    BY EmptySeq DEF Init
  <2> QED
    BY <2>1 DEF Init, ThreadsOK, PC
<1>3. MutexAccounted
  <2>1. ASSUME NEW t \in Thread PROVE owner # t /\ Cardinality(AcquiredIn(scopes[t])) = 0
    <3>1. AcquiredIn(scopes[t]) = {} /\ owner # t
      BY WinLockAssumption DEF Init, AcquiredIn
    <3> QED
      BY <3>1, FS_EmptySet
  <2> QED
    BY <2>1, Accounted
<1>4. BrandingSteps /\ BrandHasScope
  BY DEF Init, BrandingSteps, BrandHasScope
<1> QED
  BY <1>1, <1>2, <1>3, <1>4 DEF IInv

\* What a thread does that is about neither the mutex nor its scopes.
LEMMA QuietIInv ==
  ASSUME IInv, UNCHANGED <<mutex, scopes>>, ThreadsOK', BrandingSteps', BrandHasScope'
  PROVE  IInv'
BY DEF IInv, mutex, MutexOK, MutexAccounted, Acquired

LEMMA OpenIInv == ASSUME IInv, NEW t \in Thread, OpenScope(t) PROVE IInv'
<1> USE DEF IInv, OpenScope, GoTo
<1>1. ThreadsOK'
  BY DEF ThreadsOK, PC
<1>2. BrandingSteps'
  BY DEF BrandingSteps, InScope, Top, ThreadsOK
<1>3. BrandHasScope'
  BY DEF BrandHasScope, mutex
<1> QED
  BY <1>1, <1>2, <1>3, QuietIInv

LEMMA StoreIInv ==
  ASSUME IInv, NEW t \in Thread, AddProductEvent(t) \/ ClearAllProductEvents(t)
  PROVE  IInv'
<1>1. UNCHANGED <<mutex, brand, pc, opening, scopes>>
  BY DEF AddProductEvent, ClearAllProductEvents
<1>2. registry' \subseteq Records
  <2>1. CASE AddProductEvent(t)
    <3>1. CurrentBrand(t) \in Brand \cup {NoBrand}
      BY WinLockAssumption DEF CurrentBrand, P, IInv, ThreadsOK
    <3> QED
      BY <2>1, <3>1 DEF AddProductEvent, Records, IInv, ThreadsOK
  <2>2. CASE ClearAllProductEvents(t)
    BY <2>2 DEF ClearAllProductEvents, IInv, ThreadsOK
  <2> QED
    BY <2>1, <2>2
<1>3. ThreadsOK'
  BY <1>1, <1>2 DEF IInv, ThreadsOK
<1>4. BrandingSteps' /\ BrandHasScope'
  BY <1>1 DEF IInv, BrandingSteps, BrandHasScope, InScope, Top, mutex
<1> QED
  BY <1>1, <1>3, <1>4, QuietIInv

LEMMA SetBrandIInv == ASSUME IInv, NEW t \in Thread, SetBrand(t) PROVE IInv'
<1> USE DEF IInv
<1>1. InScope(t) /\ Brands(Top(t)) /\ scopes[t] \in Seq(Scope)
  BY DEF SetBrand, BrandingSteps, ThreadsOK
<1>2. Len(scopes[t]) \in DOMAIN scopes[t] /\ Top(t) \in Scope
  BY <1>1 DEF InScope, Top
<1>3. ThreadsOK'
  BY <1>2 DEF SetBrand, GoTo, ThreadsOK, PC, Scope, mutex
<1>4. Top(t).acquired => owner = t
  <2>1. Top(t).acquired => Len(scopes[t]) \in AcquiredIn(scopes[t])
    BY <1>2 DEF AcquiredIn, Top
  <2> QED
    BY <1>1, <2>1, SomeAcquired, Accounted
<1>5. BrandHasScope'
  <2> SUFFICES ASSUME NEW p \in Process, brand'[p] # NoBrand
               PROVE  \E u \in Thread : /\ P(u) = p /\ owner' = u
                                        /\ \E i \in DOMAIN scopes'[u] :
                                             Brands(scopes'[u][i]) /\ scopes'[u][i].acquired
    BY DEF BrandHasScope
  <2>1. CASE brand[p] # NoBrand
    BY <2>1 DEF BrandHasScope, SetBrand, mutex
  <2>2. CASE brand[p] = NoBrand
    <3>1. P(t) = p /\ Top(t).acquired
      BY <2>2 DEF SetBrand, ThreadsOK
    <3> QED
      BY <1>1, <1>2, <1>4, <3>1 DEF SetBrand, mutex, Top
  <2> QED
    BY <2>1, <2>2
<1>6. BrandingSteps'
  <2> SUFFICES ASSUME NEW u \in Thread
               PROVE  /\ pc'[u] \in {"entered", "leaving"} => InScope(u)' /\ Brands(Top(u))'
                      /\ pc'[u] = "leaving" /\ Top(u)'.acquired => brand'[P(u)] = NoBrand
    BY DEF BrandingSteps
  <2>1. CASE u = t
    BY <2>1 DEF SetBrand, GoTo, ThreadsOK
  <2>2. CASE u # t
    <3>1. pc'[u] = pc[u] /\ scopes' = scopes
      BY <2>2 DEF SetBrand, GoTo, ThreadsOK
    <3>2. pc[u] \in {"entered", "leaving"} => InScope(u)' /\ Brands(Top(u))'
      BY <3>1 DEF BrandingSteps, InScope, Top
    <3>3. ASSUME pc[u] = "leaving", Top(u).acquired
          PROVE  brand'[P(u)] = NoBrand
      <4>1. brand[P(u)] = NoBrand /\ InScope(u) /\ scopes[u] \in Seq(Scope)
        BY <3>3 DEF BrandingSteps, ThreadsOK
      <4>2. Len(scopes[u]) \in AcquiredIn(scopes[u])
        BY <3>3, <4>1 DEF AcquiredIn, Top, InScope
      <4>3. owner = u
        BY <4>1, <4>2, SomeAcquired, Accounted
      <4>4. ~Top(t).acquired
        BY <1>4, <2>2, <4>3
      <4> QED
        BY <4>1, <4>4 DEF SetBrand, ThreadsOK
    <3> QED
      BY <3>1, <3>2, <3>3 DEF Top
  <2> QED
    BY <2>1, <2>2
<1> QED
  BY <1>3, <1>5, <1>6, QuietIInv DEF SetBrand

LEMMA ClearBrandIInv == ASSUME IInv, NEW t \in Thread, ClearBrand(t) PROVE IInv'
<1> USE DEF IInv, ClearBrand
<1>1. ThreadsOK'
  BY DEF GoTo, ThreadsOK, PC
<1>2. BrandHasScope'
  BY DEF BrandHasScope, mutex, ThreadsOK
<1>3. BrandingSteps'
  <2> SUFFICES ASSUME NEW u \in Thread
               PROVE  /\ pc'[u] \in {"entered", "leaving"} => InScope(u)' /\ Brands(Top(u))'
                      /\ pc'[u] = "leaving" /\ Top(u)'.acquired => brand'[P(u)] = NoBrand
    BY DEF BrandingSteps
  <2>1. CASE u = t
    <3>1. P(t) \in Process
      BY WinLockAssumption DEF P
    <3> QED
      BY <2>1, <3>1 DEF InScope, Top, ThreadsOK
  <2>2. CASE u # t
    <3>1. P(u) \in Process
      BY WinLockAssumption DEF P
    <3> QED
      BY <2>2, <3>1 DEF GoTo, BrandingSteps, InScope, Top, ThreadsOK
  <2> QED
    BY <2>1, <2>2
<1> QED
  BY <1>1, <1>2, <1>3, QuietIInv

\* How many of the scopes of a thread got the mutex.
N(t) == Cardinality(AcquiredIn(scopes[t]))

\* MutexAccounted, for one thread.
Accounts(t) ==
  IF owner = t THEN count = N(t) + (IF inherited THEN 1 ELSE 0) ELSE N(t) = 0

LEMMA AccountsByThread == MutexAccounted <=> \A t \in Thread : Accounts(t)
BY Accounted DEF Accounts, N

\* A wait ends.  The owner changes only if there was none.
LEMMA EnteredIInv ==
  ASSUME IInv, NEW t \in Thread, NEW acquired \in BOOLEAN, Entered(t, acquired), MutexOK',
         owner' # owner => owner = NoThread /\ owner' = t,
         owner' # t => count' = count /\ inherited' = inherited,
         N(t)' = N(t) + (IF acquired THEN 1 ELSE 0) => Accounts(t)'
  PROVE  IInv'
<1> USE DEF IInv
<1> DEFINE new == [brand |-> opening[t], acquired |-> acquired]
<1>1. new \in Scope /\ scopes[t] \in Seq(Scope)
  BY DEF Scope, ThreadsOK
<1>2. /\ scopes'[t] = Append(scopes[t], new)
      /\ \A u \in Thread \ {t} : scopes'[u] = scopes[u] /\ pc'[u] = pc[u]
      /\ pc'[t] = IF opening[t] = NoBrand THEN "client" ELSE "entered"
      /\ UNCHANGED <<brand, registry, opening>>
  BY DEF Entered, Pushed, GoTo, ThreadsOK
<1>3. ThreadsOK'
  <2>1. scopes' \in [Thread -> Seq(Scope)]
    BY <1>1 DEF Entered, Pushed, ThreadsOK
  <2> QED
    BY <2>1 DEF Entered, GoTo, ThreadsOK, PC
<1>4. MutexAccounted'
  <2>1. N(t)' = N(t) + (IF acquired THEN 1 ELSE 0)
    BY <1>1, <1>2, PushedAcquired DEF N
  <2>2. ASSUME NEW u \in Thread, u # t PROVE Accounts(u)'
    <3>1. Accounts(u) /\ N(u)' = N(u)
      BY <1>2, <2>2, AccountsByThread DEF N
    <3>2. owner' = u <=> owner = u
      BY <2>2, WinLockAssumption
    <3> QED
      BY <2>2, <3>1, <3>2 DEF Accounts
  <2>3. \A u \in Thread : Accounts(u)'
    BY <2>1, <2>2
  <2> QED
    BY <2>3 DEF MutexAccounted, Accounts, N, Acquired, AcquiredIn
<1>5. BrandingSteps'
  <2> SUFFICES ASSUME NEW u \in Thread
               PROVE  /\ pc'[u] \in {"entered", "leaving"} => InScope(u)' /\ Brands(Top(u))'
                      /\ pc'[u] = "leaving" /\ Top(u)'.acquired => brand'[P(u)] = NoBrand
    BY DEF BrandingSteps
  <2>1. CASE u = t
    <3>1. InScope(t)' /\ Top(t)' = new
      BY <1>1, <1>2 DEF InScope, Top
    <3> QED
      BY <1>2, <2>1, <3>1 DEF Brands
  <2>2. CASE u # t
    BY <1>2, <2>2 DEF BrandingSteps, InScope, Top
  <2> QED
    BY <2>1, <2>2
<1>6. BrandHasScope'
  <2> SUFFICES ASSUME NEW p \in Process, brand'[p] # NoBrand
               PROVE  \E u \in Thread : /\ P(u) = p /\ owner' = u
                                        /\ \E i \in DOMAIN scopes'[u] :
                                             Brands(scopes'[u][i]) /\ scopes'[u][i].acquired
    BY DEF BrandHasScope
  <2>1. PICK u \in Thread : /\ P(u) = p /\ owner = u
                            /\ \E i \in DOMAIN scopes[u] :
                                 Brands(scopes[u][i]) /\ scopes[u][i].acquired
    BY <1>2 DEF BrandHasScope
  <2>2. owner' = u
    BY <2>1, WinLockAssumption
  <2>3. \A i \in DOMAIN scopes[u] : i \in DOMAIN scopes'[u] /\ scopes'[u][i] = scopes[u][i]
    BY <1>1, <1>2
  <2> QED
    BY <2>1, <2>2, <2>3
<1> QED
  BY <1>3, <1>4, <1>5, <1>6

LEMMA WaitIInv ==
  ASSUME IInv, NEW t \in Thread,
         CannotSetIntegrity(t) \/ WaitSucceeds(t) \/ WaitAbandoned(t) \/ WaitTimesOut(t)
  PROVE  IInv'
<1>1. N(t) \in Nat /\ Accounts(t) /\ MutexOK
  BY FiniteAcquired, AccountsByThread DEF IInv, ThreadsOK, N
<1>2. CASE CannotSetIntegrity(t) \/ WaitTimesOut(t)
  <2>1. Entered(t, FALSE) /\ UNCHANGED mutex
    BY <1>2 DEF CannotSetIntegrity, WaitTimesOut
  <2>2. MutexOK'
    BY <1>1, <2>1 DEF MutexOK, mutex
  <2>3. N(t)' = N(t) + (IF FALSE THEN 1 ELSE 0) => Accounts(t)'
    BY <1>1, <2>1 DEF Accounts, mutex
  <2>4. owner' = owner /\ count' = count /\ inherited' = inherited
    BY <2>1 DEF mutex
  <2> QED
    BY <2>1, <2>2, <2>3, <2>4, EnteredIInv
<1>3. CASE WaitSucceeds(t)
  <2>1. /\ Entered(t, TRUE) /\ owner \in {NoThread, t} /\ owner' = t
        /\ count' = (IF owner = t THEN count + 1 ELSE 1) /\ abandoned' = abandoned
        /\ inherited' = inherited
        /\ owner = NoThread => ~abandoned
    BY <1>3, WinLockAssumption DEF WaitSucceeds, Take
  <2>2. MutexOK'
    BY <1>1, <2>1, WinLockAssumption DEF MutexOK
  <2>3. N(t)' = N(t) + (IF TRUE THEN 1 ELSE 0) => Accounts(t)'
    BY <1>1, <2>1, WinLockAssumption DEF Accounts, MutexOK
  <2> QED
    BY <2>1, <2>2, <2>3, EnteredIInv
<1>4. CASE WaitAbandoned(t)
  <2>1. /\ Entered(t, FALSE) /\ owner = NoThread /\ owner' = t
        /\ count' = 1 /\ abandoned /\ abandoned' = FALSE
        /\ inherited' = TRUE
    BY <1>4, WinLockAssumption DEF WaitAbandoned, Take
  <2>2. MutexOK'
    <3>1. owner' \in Thread /\ owner' # NoThread /\ count' = 1
      BY <2>1, WinLockAssumption
    <3>2. abandoned' \in BOOLEAN /\ ~abandoned' /\ inherited' \in BOOLEAN
      BY <2>1
    <3> QED
      BY <3>1, <3>2 DEF MutexOK
  <2>3. N(t)' = N(t) + (IF FALSE THEN 1 ELSE 0) => Accounts(t)'
    BY <1>1, <2>1, WinLockAssumption DEF Accounts, MutexOK
  <2> QED
    BY <2>1, <2>2, <2>3, EnteredIInv
<1> QED
  BY <1>2, <1>3, <1>4

\* A thread without scopes has none that got the mutex.
LEMMA NoScopes == ASSUME NEW t \in Thread, scopes[t] = <<>> PROVE N(t) = 0
<1>1. AcquiredIn(scopes[t]) = {}
  BY DEF AcquiredIn
<1> QED
  BY <1>1, FS_EmptySet DEF N

LEMMA CloseIInv == ASSUME IInv, NEW t \in Thread, CloseScope(t) PROVE IInv'
<1> DEFINE s == scopes[t]
           rest == SubSeq(s, 1, Len(s) - 1)
<1>1. s \in Seq(Scope) /\ s # <<>> /\ MutexOK /\ ThreadsOK
  <2>1. InScope(t)
    BY DEF CloseScope, IInv, BrandingSteps
  <2> QED
    BY <2>1 DEF IInv, InScope, ThreadsOK
<1>2. /\ scopes'[t] = rest /\ pc'[t] = "client" /\ scopes' = [scopes EXCEPT ![t] = rest]
      /\ \A u \in Thread \ {t} : scopes'[u] = scopes[u] /\ pc'[u] = pc[u]
      /\ UNCHANGED <<brand, registry, opening>>
  BY DEF CloseScope, Popped, GoTo, IInv, ThreadsOK
<1>3. /\ rest \in Seq(Scope)
      /\ \A i \in DOMAIN s \ {Len(s)} : i \in DOMAIN rest /\ rest[i] = s[i]
      /\ N(t) = Cardinality(AcquiredIn(rest)) + (IF Top(t).acquired THEN 1 ELSE 0)
  BY <1>1, PoppedAcquired DEF N, Top
<1>4. Cardinality(AcquiredIn(rest)) \in Nat /\ N(t) \in Nat
  BY <1>1, <1>3, FiniteAcquired DEF N
<1>5. \A u \in Thread : Accounts(u)
  BY AccountsByThread DEF IInv
<1>6. /\ N(t)' = Cardinality(AcquiredIn(rest))
      /\ \A u \in Thread \ {t} : N(u)' = N(u)
  BY <1>2 DEF N
<1>7. ThreadsOK'
  BY <1>1, <1>2, <1>3 DEF CloseScope, GoTo, ThreadsOK, PC
<1>8. BrandingSteps'
  BY <1>2 DEF IInv, BrandingSteps, InScope, Top
\* The scopes that put a brand on the process are not the one that is closed.
<1>9. ASSUME brand[P(t)] # NoBrand, NEW i \in DOMAIN s, Brands(s[i]), s[i].acquired
      PROVE  i \in DOMAIN rest /\ rest[i] = s[i] /\ i \in AcquiredIn(rest)
  <2>1. i # Len(s)
    BY <1>9 DEF CloseScope, IInv, BrandingSteps, Top
  <2> QED
    BY <1>3, <1>9, <2>1 DEF AcquiredIn
\* The three ways to leave the mutex.
<1>10. CASE Handles = {t} /\ Len(s) = 1 /\ Destroyed
  <2>1. \A u \in Thread \ {t} : scopes[u] = <<>>
    BY <1>10 DEF Handles, InScope
  <2>2. rest = <<>>
    BY <1>1, <1>3, <1>10
  <2>3. \A u \in Thread : scopes'[u] = <<>>
    BY <1>2, <2>1, <2>2
  <2>4. \A u \in Thread : N(u)' = 0
    <3>1. Cardinality(AcquiredIn(<<>>)) = 0
      <4>1. AcquiredIn(<<>>) = {}
        BY DEF AcquiredIn
      <4> QED
        BY <4>1, FS_EmptySet
    <3> QED
      BY <2>3, <3>1 DEF N
  <2>5. owner' = NoThread /\ count' = 0 /\ abandoned' = FALSE /\ inherited' = FALSE
    BY <1>10 DEF Destroyed
  <2>6. \A u \in Thread : Accounts(u)'
    BY <2>4, <2>5, WinLockAssumption DEF Accounts
  <2>7. MutexOK'
    BY <2>5 DEF MutexOK
  <2>8. BrandHasScope'
    <3>1. \A p \in Process : brand[p] = NoBrand
      <4> SUFFICES ASSUME NEW p \in Process, brand[p] # NoBrand PROVE FALSE
        OBVIOUS
      <4>1. PICK u \in Thread : /\ P(u) = p
                                /\ \E i \in DOMAIN scopes[u] :
                                     Brands(scopes[u][i]) /\ scopes[u][i].acquired
        BY DEF IInv, BrandHasScope
      <4>2. u = t
        BY <2>1, <4>1
      <4>3. PICK i \in DOMAIN s : Brands(s[i]) /\ s[i].acquired
        BY <4>1, <4>2
      <4> QED
        BY <1>9, <2>2, <4>1, <4>2, <4>3
    <3> QED
      BY <1>2, <3>1 DEF BrandHasScope
  <2> QED
    BY <1>7, <1>8, <2>6, <2>7, <2>8
       DEF IInv, MutexAccounted, Accounts, N, Acquired, AcquiredIn
<1>11. CASE Top(t).acquired /\ ReleaseMutex(t)
  <2>1. N(t) >= 1 /\ N(t)' = N(t) - 1
    BY <1>3, <1>4, <1>6, <1>11
  <2>2. owner = t /\ count = N(t) + (IF inherited THEN 1 ELSE 0)
    BY <1>5, <2>1 DEF Accounts
  <2>3. count' = count - 1 /\ owner' = (IF count = 1 THEN NoThread ELSE t)
        /\ abandoned' = abandoned /\ inherited' = inherited
    BY <1>11, <2>2 DEF ReleaseMutex
  <2>4. count \in Nat /\ count >= 1
    BY <1>1, <1>4, <2>1, <2>2 DEF MutexOK
  <2>5. \A u \in Thread : Accounts(u)'
    <3>1. Accounts(t)'
      BY <1>4, <2>1, <2>2, <2>3, <2>4, WinLockAssumption DEF Accounts
    <3>2. ASSUME NEW u \in Thread, u # t PROVE Accounts(u)'
      <4>1. N(u)' = 0 /\ owner' # u
        BY <1>5, <1>6, <2>2, <2>3, <3>2, WinLockAssumption DEF Accounts
      <4> QED
        BY <4>1 DEF Accounts
    <3> QED
      BY <3>1, <3>2
  <2>6. MutexOK'
    <3>1. owner' \in Thread \cup {NoThread} /\ count' \in Nat /\ (owner' = NoThread <=> count' = 0)
      BY <2>3, <2>4, WinLockAssumption
    <3>3. inherited' => owner' # NoThread
      <4>1. inherited => count # 1
        BY <1>4, <2>1, <2>2
      <4> QED
        BY <2>3, <4>1, WinLockAssumption
    <3>2. abandoned' \in BOOLEAN /\ ~abandoned' /\ inherited' \in BOOLEAN
      BY <1>1, <2>2, <2>3, WinLockAssumption DEF MutexOK
    <3> QED
      BY <3>1, <3>2, <3>3 DEF MutexOK
  <2>7. BrandHasScope'
    <3> SUFFICES ASSUME NEW p \in Process, brand[p] # NoBrand
                 PROVE  \E u \in Thread : /\ P(u) = p /\ owner' = u
                                          /\ \E i \in DOMAIN scopes'[u] :
                                               Brands(scopes'[u][i]) /\ scopes'[u][i].acquired
      BY <1>2 DEF BrandHasScope
    <3>1. P(t) = p /\ \E i \in DOMAIN s : Brands(s[i]) /\ s[i].acquired
      BY <2>2 DEF IInv, BrandHasScope
    <3>2. PICK i \in DOMAIN s : Brands(s[i]) /\ s[i].acquired
      BY <3>1
    <3>3. i \in DOMAIN rest /\ rest[i] = s[i] /\ i \in AcquiredIn(rest)
      BY <1>9, <3>1, <3>2
    <3>4. Cardinality(AcquiredIn(rest)) >= 1
      BY <1>3, <3>3, SomeAcquired
    <3>5. owner' = t
      BY <1>4, <1>6, <2>1, <2>2, <2>3, <2>4, <3>4
    <3> QED
      BY <1>2, <3>1, <3>2, <3>3, <3>5
  <2> QED
    BY <1>7, <1>8, <2>5, <2>6, <2>7
       DEF IInv, MutexAccounted, Accounts, N, Acquired, AcquiredIn
<1>12. CASE ~Top(t).acquired /\ UNCHANGED mutex
  <2>1. owner' = owner /\ count' = count /\ abandoned' = abandoned /\ inherited' = inherited
    BY <1>12 DEF mutex
  <2>2. \A u \in Thread : N(u)' = N(u)
    BY <1>3, <1>4, <1>6, <1>12
  <2>3. \A u \in Thread : Accounts(u)'
    BY <1>5, <2>1, <2>2 DEF Accounts
  <2>4. MutexOK'
    BY <1>1, <2>1 DEF MutexOK
  <2>5. BrandHasScope'
    <3> SUFFICES ASSUME NEW p \in Process, brand[p] # NoBrand
                 PROVE  \E u \in Thread : /\ P(u) = p /\ owner' = u
                                          /\ \E i \in DOMAIN scopes'[u] :
                                               Brands(scopes'[u][i]) /\ scopes'[u][i].acquired
      BY <1>2 DEF BrandHasScope
    <3>1. PICK u \in Thread : /\ P(u) = p /\ owner = u
                              /\ \E i \in DOMAIN scopes[u] :
                                   Brands(scopes[u][i]) /\ scopes[u][i].acquired
      BY DEF IInv, BrandHasScope
    <3>2. CASE u = t
      <4>1. PICK i \in DOMAIN s : Brands(s[i]) /\ s[i].acquired
        BY <3>1, <3>2
      <4>2. i \in DOMAIN rest /\ rest[i] = s[i]
        BY <1>9, <3>1, <3>2, <4>1
      <4> QED
        BY <1>2, <2>1, <3>1, <3>2, <4>1, <4>2
    <3>3. CASE u # t
      BY <1>2, <2>1, <3>1, <3>3
    <3> QED
      BY <3>2, <3>3
  <2> QED
    BY <1>7, <1>8, <2>3, <2>4, <2>5
       DEF IInv, MutexAccounted, Accounts, N, Acquired, AcquiredIn
<1> QED
  BY <1>10, <1>11, <1>12 DEF CloseScope

LEMMA CrashIInv == ASSUME IInv, NEW p \in Process, Crash(p) PROVE IInv'
<1> DEFINE dead(t) == P(t) = p
<1>1. /\ brand' = [brand EXCEPT ![p] = NoBrand]
      /\ pc' = [t \in Thread |-> IF dead(t) THEN "client" ELSE pc[t]]
      /\ scopes' = [t \in Thread |-> IF dead(t) THEN <<>> ELSE scopes[t]]
      /\ UNCHANGED <<registry, opening>> /\ "crash" \in Faults
  BY DEF Crash
<1>2. MutexOK /\ ThreadsOK /\ \A t \in Thread : Accounts(t) /\ N(t) \in Nat
  BY AccountsByThread, FiniteAcquired DEF IInv, ThreadsOK, N
<1>3. ThreadsOK'
  <2>1. scopes' \in [Thread -> Seq(Scope)]
    BY <1>1, <1>2, EmptySeq DEF ThreadsOK
  <2> QED
    BY <1>1, <1>2, <2>1 DEF ThreadsOK, PC
<1>4. BrandingSteps'
  <2> SUFFICES ASSUME NEW t \in Thread
               PROVE  /\ pc'[t] \in {"entered", "leaving"} => InScope(t)' /\ Brands(Top(t))'
                      /\ pc'[t] = "leaving" /\ Top(t)'.acquired => brand'[P(t)] = NoBrand
    BY DEF BrandingSteps
  <2>1. CASE dead(t)
    BY <1>1, <2>1
  <2>2. CASE ~dead(t)
    <3>1. pc'[t] = pc[t] /\ scopes'[t] = scopes[t] /\ brand'[P(t)] = brand[P(t)]
      BY <1>1, <1>2, <2>2, WinLockAssumption DEF ThreadsOK, P
    <3> QED
      BY <3>1 DEF IInv, BrandingSteps, InScope, Top, Brands
  <2> QED
    BY <2>1, <2>2
<1>5. \A t \in Thread : /\ dead(t) => N(t)' = 0
                        /\ ~dead(t) => N(t)' = N(t) /\ scopes'[t] = scopes[t]
  <2>1. Cardinality(AcquiredIn(<<>>)) = 0
    <3>1. AcquiredIn(<<>>) = {}
      BY DEF AcquiredIn
    <3> QED
      BY <3>1, FS_EmptySet
  <2> QED
    BY <1>1, <2>1 DEF N
\* The owner was dead, or is what it was.
<1>6. \/ Destroyed /\ \A t \in Thread : ~dead(t) => scopes[t] = <<>>
      \/ owner \in Thread /\ dead(owner) /\ owner' = NoThread /\ count' = 0
      \/ (owner \in Thread => ~dead(owner)) /\ UNCHANGED mutex
  <2>1. CASE \A t \in Handles : dead(t)
    <3>1. ASSUME NEW t \in Thread, ~dead(t) PROVE scopes[t] = <<>>
      BY <2>1, <3>1 DEF Handles, InScope
    <3> QED
      BY <2>1, <3>1 DEF Crash
  <2>2. CASE ~\A t \in Handles : dead(t)
    <3>1. IF owner # NoThread /\ dead(owner)
          THEN owner' = NoThread /\ count' = 0 /\ abandoned' = TRUE
          ELSE UNCHANGED mutex
      BY <2>2 DEF Crash
    <3>2. owner \in Thread <=> owner # NoThread
      BY <1>2, WinLockAssumption DEF MutexOK
    <3> QED
      BY <3>1, <3>2
  <2> QED
    BY <2>1, <2>2
<1>7. MutexOK'
  <2>1. CASE Destroyed
    BY <2>1 DEF Destroyed, MutexOK
  <2>2. CASE owner' = NoThread /\ count' = 0 /\ abandoned' = TRUE /\ inherited' = FALSE
    BY <1>1, <2>2 DEF MutexOK
  <2>3. CASE UNCHANGED mutex
    BY <1>2, <2>3 DEF mutex, MutexOK
  <2> QED
    BY <2>1, <2>2, <2>3 DEF Crash
<1>8. \A t \in Thread : Accounts(t)'
  <2> SUFFICES ASSUME NEW t \in Thread PROVE Accounts(t)'
    OBVIOUS
  <2>1. CASE Destroyed /\ \A u \in Thread : ~dead(u) => scopes[u] = <<>>
    <3>1. N(t)' = 0 /\ owner' # t
      BY <1>5, <2>1, NoScopes, WinLockAssumption DEF Destroyed
    <3> QED
      BY <3>1 DEF Accounts
  <2>2. CASE owner \in Thread /\ dead(owner) /\ owner' = NoThread
    <3>1. N(t)' = 0 /\ owner' # t
      BY <1>2, <1>5, <2>2, WinLockAssumption DEF Accounts
    <3> QED
      BY <3>1 DEF Accounts
  <2>3. CASE (owner \in Thread => ~dead(owner)) /\ UNCHANGED mutex
    BY <1>2, <1>5, <2>3 DEF Accounts, mutex
  <2> QED
    BY <1>6, <2>1, <2>2, <2>3
<1>9. BrandHasScope'
  <2> SUFFICES ASSUME NEW q \in Process, brand'[q] # NoBrand
               PROVE  \E t \in Thread : /\ P(t) = q /\ owner' = t
                                        /\ \E i \in DOMAIN scopes'[t] :
                                             Brands(scopes'[t][i]) /\ scopes'[t][i].acquired
    BY DEF BrandHasScope
  <2>1. q # p /\ brand[q] # NoBrand
    BY <1>1, <1>2 DEF ThreadsOK
  <2>2. PICK t \in Thread : /\ P(t) = q /\ owner = t
                            /\ \E i \in DOMAIN scopes[t] :
                                 Brands(scopes[t][i]) /\ scopes[t][i].acquired
    BY <2>1 DEF IInv, BrandHasScope
  <2>3. ~dead(t) /\ scopes[t] # <<>> /\ scopes'[t] = scopes[t]
    BY <1>5, <2>1, <2>2
  <2>4. owner' = owner
    BY <1>6, <2>2, <2>3 DEF mutex
  <2> QED
    BY <2>2, <2>3, <2>4
<1> QED
  BY <1>3, <1>4, <1>7, <1>8, <1>9
     DEF IInv, MutexAccounted, Accounts, N, Acquired, AcquiredIn

LEMMA NextIInv == IInv /\ [Next]_vars => IInv'
<1> SUFFICES ASSUME IInv, [Next]_vars PROVE IInv'
  OBVIOUS
<1>1. ASSUME NEW t \in Thread, Lock(t) PROVE IInv'
  BY <1>1, OpenIInv, WaitIInv, CloseIInv DEF Lock
<1>2. ASSUME NEW t \in Thread, SetBrand(t) \/ ClearBrand(t) PROVE IInv'
  BY <1>2, SetBrandIInv, ClearBrandIInv
<1>3. ASSUME NEW t \in Thread, AddProductEvent(t) \/ ClearAllProductEvents(t) PROVE IInv'
  BY <1>3, StoreIInv
<1>4. ASSUME NEW p \in Process, Crash(p) PROVE IInv'
  BY <1>4, CrashIInv
<1>5. CASE UNCHANGED vars
  <2>1. UNCHANGED <<mutex, scopes, brand, registry, pc, opening>>
    BY <1>5 DEF vars, mutex
  <2>2. ThreadsOK'
    BY <2>1 DEF IInv, ThreadsOK
  <2>3. BrandingSteps'
    BY <2>1 DEF IInv, BrandingSteps, InScope, Top
  <2>4. BrandHasScope'
    BY <2>1 DEF IInv, BrandHasScope, mutex
  <2> QED
    BY <2>1, <2>2, <2>3, <2>4, QuietIInv
<1> QED
  BY <1>1, <1>2, <1>3, <1>4, <1>5 DEF Next

\* What the theorems below rest on.
THEOREM MutexInvariant == Spec => []IInv
  BY InitIInv, NextIInv, PTL DEF Spec

----------------------------------------------------------------------------

\* The mutex has an owner exactly while it is taken, and is not abandoned then.
THEOREM WinTypeOK == Spec => []TypeOK
<1>1. IInv => TypeOK
  BY DEF IInv, MutexOK, ThreadsOK, TypeOK
<1> QED
  BY <1>1, MutexInvariant, PTL

\* A thread has the mutex once for each scope that got it, and at most once more
\* for a wait that took over from a dead owner (LibMutex), however many threads
\* there are and however deep they nest.
THEOREM WinMutexAccounted == Spec => []MutexAccounted
<1>1. IInv => MutexAccounted
  BY DEF IInv
<1> QED
  BY <1>1, MutexInvariant, PTL

\* "Mutex to guarantee serialization of RLZ key accesses" (lib_mutex.h:5): no two
\* threads have stores at the same time.
THEOREM WinExclusiveStore == Spec => []ExclusiveStore
<1>1. IInv => ExclusiveStore
  <2> SUFFICES ASSUME IInv, NEW t \in Thread, HasStore(t) PROVE owner = t
    BY DEF ExclusiveStore
  <2>1. PICK i \in AcquiredIn(scopes[t]) : TRUE
    BY DEF HasStore, Acquired, AcquiredIn
  <2>2. Cardinality(AcquiredIn(scopes[t])) >= 1
    BY <2>1, SomeAcquired DEF IInv, ThreadsOK
  <2> QED
    BY <2>2, Accounted DEF IInv
<1> QED
  BY <1>1, MutexInvariant, PTL

\* SupplementaryBranding leaves no brand behind: a process has one only while a
\* thread of it that has the mutex is in a branding scope.
THEOREM WinBrandHasScope == Spec => []BrandHasScope
<1>1. IInv => BrandHasScope
  BY DEF IInv
<1> QED
  BY <1>1, MutexInvariant, PTL

----------------------------------------------------------------------------
(* Branding scopes, and what is kept for a brand. *)

\* A thread is in one branding scope at a time.
OneBranding(t) ==
  /\ \A i, j \in Branding(t) : i = j
  /\ pc[t] = "wait" /\ opening[t] # NoBrand => Branding(t) = {}

\* The brand of the process is that of the branding scope with the mutex.
BrandOfScope(t) ==
  /\ LockedBranding(t) = {} => brand[P(t)] = NoBrand
  /\ \A i \in LockedBranding(t) : brand[P(t)] = scopes[t][i].brand

\* A thread with the mutex finds that brand, and none while it enters or leaves
\* a branding scope.
BrandIsScope(t) ==
  Acquired(t) # {} =>
    IF pc[t] \in {"client", "wait"} THEN BrandOfScope(t) ELSE brand[P(t)] = NoBrand

BInv == \A t \in Thread : OneBranding(t) /\ BrandIsScope(t)

----------------------------------------------------------------------------

LEMMA InitBInv == Init => BInv
BY DEF Init, BInv, OneBranding, BrandIsScope, Branding, Acquired

\* Only the owner of the mutex has scopes that got it.
LEMMA OwnerAcquired ==
  ASSUME IInv, NEW t \in Thread, Acquired(t) # {} PROVE owner = t
<1>1. PICK i \in AcquiredIn(scopes[t]) : TRUE
  BY DEF Acquired, AcquiredIn
<1>2. Cardinality(AcquiredIn(scopes[t])) >= 1
  BY <1>1, SomeAcquired DEF IInv, ThreadsOK
<1> QED
  BY <1>2, Accounted DEF IInv

\* A thread that may take the mutex and is in no branding scope that got it
\* finds no brand.
LEMMA NoBrandWithoutScope ==
  ASSUME IInv, NEW t \in Thread, owner \in {NoThread, t}, LockedBranding(t) = {}
  PROVE  brand[P(t)] = NoBrand
<1> SUFFICES ASSUME brand[P(t)] # NoBrand PROVE FALSE
  OBVIOUS
<1>1. P(t) \in Process
  BY WinLockAssumption DEF P
<1>2. PICK u \in Thread : /\ owner = u
                          /\ \E i \in DOMAIN scopes[u] :
                               Brands(scopes[u][i]) /\ scopes[u][i].acquired
  BY <1>1 DEF IInv, BrandHasScope
<1>3. u = t
  BY <1>2, WinLockAssumption
<1> QED
  BY <1>2, <1>3 DEF LockedBranding, Branding

\* A thread that another one leaves alone, or whose brand is no matter.
LEMMA OtherThread ==
  ASSUME BInv, NEW u \in Thread,
         scopes'[u] = scopes[u], pc'[u] = pc[u], opening'[u] = opening[u],
         Acquired(u) # {} => brand'[P(u)] = brand[P(u)]
  PROVE  OneBranding(u)' /\ BrandIsScope(u)'
<1>1. /\ Branding(u)' = Branding(u) /\ LockedBranding(u)' = LockedBranding(u)
      /\ Acquired(u)' = Acquired(u)
  BY DEF Branding, LockedBranding, Acquired
<1>2. OneBranding(u)'
  BY <1>1 DEF BInv, OneBranding
<1>3. BrandIsScope(u)'
  BY <1>1 DEF BInv, BrandIsScope, BrandOfScope
<1> QED
  BY <1>2, <1>3

\* Where the branding scope of a thread lies.
LEMMA BrandingAtTop ==
  ASSUME IInv, BInv, NEW t \in Thread, InScope(t), Brands(Top(t))
  PROVE  /\ Branding(t) = {Len(scopes[t])}
         /\ LockedBranding(t) = IF Top(t).acquired THEN {Len(scopes[t])} ELSE {}
         /\ Top(t).acquired => Acquired(t) # {}
<1>1. scopes[t] \in Seq(Scope) /\ Len(scopes[t]) \in DOMAIN scopes[t]
  BY DEF IInv, ThreadsOK, InScope
<1>2. Branding(t) = {Len(scopes[t])}
  BY <1>1 DEF BInv, OneBranding, Branding, Top
<1> QED
  BY <1>1, <1>2 DEF LockedBranding, Acquired, Top

----------------------------------------------------------------------------
(* Steps *)

LEMMA OpenBInv == ASSUME IInv, BInv, NEW t \in Thread, OpenScope(t) PROVE BInv'
<1>1. PICK b \in Brand \cup {NoBrand} :
        /\ b # NoBrand => \A i \in DOMAIN scopes[t] : ~Brands(scopes[t][i])
        /\ opening' = [opening EXCEPT ![t] = b]
  BY DEF OpenScope
<1>2. /\ pc[t] = "client" /\ pc' = [pc EXCEPT ![t] = "wait"]
      /\ brand' = brand /\ scopes' = scopes
  BY DEF OpenScope, GoTo
<1>3. /\ Branding(t)' = Branding(t) /\ LockedBranding(t)' = LockedBranding(t)
      /\ Acquired(t)' = Acquired(t)
  BY <1>2 DEF Branding, LockedBranding, Acquired
<1>4. OneBranding(t)'
  <2>1. b # NoBrand => Branding(t) = {}
    BY <1>1 DEF Branding
  <2> QED
    BY <1>1, <1>3, <2>1 DEF BInv, OneBranding, IInv, ThreadsOK
<1>5. BrandIsScope(t)'
  BY <1>2, <1>3 DEF BInv, BrandIsScope, BrandOfScope, IInv, ThreadsOK
<1>6. \A u \in Thread \ {t} : OneBranding(u)' /\ BrandIsScope(u)'
  BY <1>1, <1>2, OtherThread DEF IInv, ThreadsOK
<1> QED
  BY <1>4, <1>5, <1>6 DEF BInv

LEMMA EnteredBInv ==
  ASSUME IInv, BInv, NEW t \in Thread, NEW acquired \in BOOLEAN, Entered(t, acquired),
         acquired => owner \in {NoThread, t}
  PROVE  BInv'
<1> DEFINE new == [brand |-> opening[t], acquired |-> acquired]
           n == Len(scopes[t]) + 1
<1>1. scopes[t] \in Seq(Scope) /\ new \in Scope
  BY DEF IInv, ThreadsOK, Scope
<1>2. /\ pc[t] = "wait" /\ scopes'[t] = Append(scopes[t], new)
      /\ pc'[t] = IF opening[t] = NoBrand THEN "client" ELSE "entered"
      /\ brand' = brand /\ opening' = opening
      /\ \A u \in Thread \ {t} : scopes'[u] = scopes[u] /\ pc'[u] = pc[u]
  BY DEF Entered, Pushed, GoTo, IInv, ThreadsOK
<1>3. /\ DOMAIN scopes'[t] = DOMAIN scopes[t] \cup {n} /\ n \notin DOMAIN scopes[t]
      /\ scopes'[t][n] = new
      /\ \A i \in DOMAIN scopes[t] : scopes'[t][i] = scopes[t][i]
  BY <1>1, <1>2
<1>4. /\ Branding(t)' = Branding(t) \cup (IF opening[t] # NoBrand THEN {n} ELSE {})
      /\ Acquired(t)' = Acquired(t) \cup (IF acquired THEN {n} ELSE {})
      /\ Branding(t) \subseteq DOMAIN scopes[t]
  BY <1>3 DEF Branding, Acquired, Brands
<1>5. Acquired(t)' # {} /\ LockedBranding(t) = {} => brand[P(t)] = NoBrand
  <2>1. CASE Acquired(t) # {}
    BY <1>2, <2>1 DEF BInv, BrandIsScope, BrandOfScope
  <2>2. CASE acquired
    BY <2>2, NoBrandWithoutScope
  <2> QED
    BY <1>4, <2>1, <2>2
<1>6. \A u \in Thread \ {t} : OneBranding(u)' /\ BrandIsScope(u)'
  BY <1>2, OtherThread
<1>7. CASE opening[t] = NoBrand
  <2>1. Branding(t)' = Branding(t) /\ LockedBranding(t)' = LockedBranding(t)
    BY <1>3, <1>4, <1>7 DEF LockedBranding
  <2>2. LockedBranding(t) # {} => Acquired(t) # {}
    BY <1>4 DEF LockedBranding, Acquired
  <2>3. \A i \in LockedBranding(t) : scopes'[t][i] = scopes[t][i]
    BY <1>3, <1>4 DEF LockedBranding
  <2>4. pc'[t] = "client"
    BY <1>2, <1>7
  <2>5. OneBranding(t)'
    BY <2>1, <2>4 DEF BInv, OneBranding
  <2>6. ASSUME Acquired(t)' # {} PROVE BrandOfScope(t)'
    <3>1. LockedBranding(t) = {} => brand[P(t)] = NoBrand
      BY <1>5, <2>6
    <3>2. \A i \in LockedBranding(t) : brand[P(t)] = scopes[t][i].brand
      BY <1>2, <2>2 DEF BInv, BrandIsScope, BrandOfScope
    <3> QED
      BY <1>2, <2>1, <2>3, <3>1, <3>2 DEF BrandOfScope
  <2>7. BrandIsScope(t)'
    BY <2>4, <2>6 DEF BrandIsScope
  <2> QED
    BY <1>6, <2>5, <2>7 DEF BInv
<1>8. CASE opening[t] # NoBrand
  <2>1. Branding(t) = {} /\ LockedBranding(t) = {} /\ Branding(t)' = {n}
    BY <1>2, <1>4, <1>8 DEF BInv, OneBranding, LockedBranding
  <2>2. pc'[t] = "entered"
    BY <1>2, <1>8
  <2>3. OneBranding(t)'
    BY <2>1, <2>2 DEF OneBranding
  <2>4. BrandIsScope(t)'
    BY <1>2, <1>5, <2>1, <2>2 DEF BrandIsScope
  <2> QED
    BY <1>6, <2>3, <2>4 DEF BInv
<1> QED
  BY <1>7, <1>8

LEMMA WaitBInv ==
  ASSUME IInv, BInv, NEW t \in Thread,
         CannotSetIntegrity(t) \/ WaitSucceeds(t) \/ WaitAbandoned(t) \/ WaitTimesOut(t)
  PROVE  BInv'
<1>1. CASE WaitSucceeds(t)
  <2>1. Entered(t, TRUE) /\ owner \in {NoThread, t}
    BY <1>1 DEF WaitSucceeds
  <2> QED
    BY <2>1, EnteredBInv
<1>2. CASE CannotSetIntegrity(t) \/ WaitAbandoned(t) \/ WaitTimesOut(t)
  <2>1. Entered(t, FALSE)
    BY <1>2 DEF CannotSetIntegrity, WaitAbandoned, WaitTimesOut
  <2> QED
    BY <2>1, EnteredBInv
<1> QED
  BY <1>1, <1>2

\* The brand changes for threads without the mutex only, and for the one that
\* has it.
LEMMA BrandOfOwner ==
  ASSUME IInv, BInv, NEW t \in Thread, InScope(t), Brands(Top(t)),
         brand' # brand => Top(t).acquired,
         NEW u \in Thread, u # t, Acquired(u) # {}
  PROVE  brand'[P(u)] = brand[P(u)]
<1>1. Acquired(t) = {}
  BY OwnerAcquired
<1> QED
  BY <1>1, BrandingAtTop

LEMMA SetBrandBInv == ASSUME IInv, BInv, NEW t \in Thread, SetBrand(t) PROVE BInv'
<1>1. InScope(t) /\ Brands(Top(t)) /\ pc[t] = "entered" /\ P(t) \in Process
  BY WinLockAssumption DEF SetBrand, IInv, BrandingSteps, P
<1>2. /\ scopes' = scopes /\ opening' = opening /\ pc' = [pc EXCEPT ![t] = "client"]
      /\ brand' = [brand EXCEPT ![P(t)] =
                     IF Top(t).acquired /\ @ = NoBrand THEN Top(t).brand ELSE @]
      /\ brand \in [Process -> Brand \cup {NoBrand}] /\ pc \in [Thread -> PC]
  BY DEF SetBrand, GoTo, IInv, ThreadsOK
<1>3. /\ Branding(t)' = Branding(t) /\ LockedBranding(t)' = LockedBranding(t)
      /\ Acquired(t)' = Acquired(t)
  BY <1>2 DEF Branding, LockedBranding, Acquired
<1>4. OneBranding(t)'
  BY <1>2, <1>3 DEF BInv, OneBranding
<1>5. BrandIsScope(t)'
  <2> SUFFICES ASSUME Acquired(t) # {} PROVE BrandOfScope(t)'
    BY <1>2, <1>3 DEF BrandIsScope
  <2>1. brand[P(t)] = NoBrand
    BY <1>1 DEF BInv, BrandIsScope
  <2>2. brand'[P(t)] = IF Top(t).acquired THEN Top(t).brand ELSE NoBrand
    BY <1>1, <1>2, <2>1
  <2> QED
    BY <1>1, <1>2, <1>3, <2>2, BrandingAtTop DEF BrandOfScope, Top
<1>6. brand' # brand => Top(t).acquired
  BY <1>2
<1>7. \A u \in Thread \ {t} : OneBranding(u)' /\ BrandIsScope(u)'
  <2> SUFFICES ASSUME NEW u \in Thread \ {t} PROVE OneBranding(u)' /\ BrandIsScope(u)'
    OBVIOUS
  <2>1. Acquired(u) # {} => brand'[P(u)] = brand[P(u)]
    BY <1>1, <1>6, BrandOfOwner
  <2> QED
    BY <1>2, <2>1, OtherThread
<1> QED
  BY <1>4, <1>5, <1>7 DEF BInv

LEMMA ClearBrandBInv == ASSUME IInv, BInv, NEW t \in Thread, ClearBrand(t) PROVE BInv'
<1>1. InScope(t) /\ Brands(Top(t)) /\ pc[t] = "client" /\ P(t) \in Process
  BY WinLockAssumption DEF ClearBrand, P
<1>2. /\ scopes' = scopes /\ opening' = opening /\ pc' = [pc EXCEPT ![t] = "leaving"]
      /\ brand' = [brand EXCEPT ![P(t)] = IF Top(t).acquired THEN NoBrand ELSE @]
      /\ brand \in [Process -> Brand \cup {NoBrand}] /\ pc \in [Thread -> PC]
  BY DEF ClearBrand, GoTo, IInv, ThreadsOK
<1>3. /\ Branding(t)' = Branding(t) /\ LockedBranding(t)' = LockedBranding(t)
      /\ Acquired(t)' = Acquired(t)
  BY <1>2 DEF Branding, LockedBranding, Acquired
<1>4. OneBranding(t)'
  BY <1>2, <1>3 DEF BInv, OneBranding
<1>5. BrandIsScope(t)'
  <2> SUFFICES ASSUME Acquired(t) # {} PROVE brand'[P(t)] = NoBrand
    BY <1>2, <1>3 DEF BrandIsScope
  <2>1. CASE Top(t).acquired
    BY <1>1, <1>2, <2>1
  <2>2. CASE ~Top(t).acquired
    <3>1. brand[P(t)] = NoBrand
      BY <1>1, <2>2, BrandingAtTop DEF BInv, BrandIsScope, BrandOfScope
    <3> QED
      BY <1>1, <1>2, <3>1
  <2> QED
    BY <2>1, <2>2
<1>6. brand' # brand => Top(t).acquired
  BY <1>2
<1>7. \A u \in Thread \ {t} : OneBranding(u)' /\ BrandIsScope(u)'
  <2> SUFFICES ASSUME NEW u \in Thread \ {t} PROVE OneBranding(u)' /\ BrandIsScope(u)'
    OBVIOUS
  <2>1. Acquired(u) # {} => brand'[P(u)] = brand[P(u)]
    BY <1>1, <1>6, BrandOfOwner
  <2> QED
    BY <1>2, <2>1, OtherThread
<1> QED
  BY <1>4, <1>5, <1>7 DEF BInv

LEMMA CloseBInv == ASSUME IInv, BInv, NEW t \in Thread, CloseScope(t) PROVE BInv'
<1> DEFINE s == scopes[t]
           rest == SubSeq(s, 1, Len(s) - 1)
<1>1. s \in Seq(Scope) /\ s # <<>> /\ pc[t] \in {"client", "leaving"}
  BY DEF CloseScope, IInv, BrandingSteps, InScope, ThreadsOK
<1>2. /\ scopes'[t] = rest /\ pc'[t] = "client" /\ UNCHANGED <<brand, opening>>
      /\ \A u \in Thread \ {t} : scopes'[u] = scopes[u] /\ pc'[u] = pc[u]
  BY DEF CloseScope, Popped, GoTo, IInv, ThreadsOK
<1>3. /\ DOMAIN rest = DOMAIN s \ {Len(s)}
      /\ \A i \in DOMAIN rest : rest[i] = s[i]
  <2>1. Len(s) \in Nat /\ Len(s) # 0
    BY <1>1
  <2>2. Len(rest) = Len(s) - 1 /\ \A i \in 1..(Len(s) - 1) : rest[i] = s[i]
    BY <1>1, <2>1, SubSeqProperties
  <2>3. rest \in Seq(Scope)
    BY <1>1, PoppedAcquired
  <2> QED
    BY <1>1, <2>1, <2>2, <2>3
<1>4. /\ Branding(t)' = Branding(t) \ {Len(s)}
      /\ LockedBranding(t)' = LockedBranding(t) \ {Len(s)}
      /\ Acquired(t)' \subseteq Acquired(t)
      /\ LockedBranding(t) \subseteq Branding(t)
      /\ \A i \in LockedBranding(t)' : scopes'[t][i] = s[i]
  BY <1>2, <1>3 DEF Branding, LockedBranding, Acquired
<1>5. OneBranding(t)'
  BY <1>2, <1>4 DEF BInv, OneBranding
<1>6. BrandIsScope(t)'
  <2>1. CASE pc[t] = "client"
    <3>1. Len(s) \notin Branding(t)
      BY <2>1 DEF CloseScope, Branding, Top
    <3> QED
      BY <1>2, <1>4, <2>1, <3>1 DEF BInv, BrandIsScope, BrandOfScope
  <2>2. CASE pc[t] = "leaving"
    <3>1. Branding(t) = {Len(s)}
      BY <2>2, BrandingAtTop DEF IInv, BrandingSteps
    <3>2. LockedBranding(t)' = {}
      BY <1>4, <3>1
    <3> QED
      BY <1>2, <1>4, <2>2, <3>2 DEF BInv, BrandIsScope, BrandOfScope
  <2> QED
    BY <1>1, <2>1, <2>2
<1>7. \A u \in Thread \ {t} : OneBranding(u)' /\ BrandIsScope(u)'
  BY <1>2, OtherThread
<1> QED
  BY <1>5, <1>6, <1>7 DEF BInv

LEMMA CrashBInv == ASSUME IInv, BInv, NEW p \in Process, Crash(p) PROVE BInv'
<1> SUFFICES ASSUME NEW t \in Thread PROVE OneBranding(t)' /\ BrandIsScope(t)'
  BY DEF BInv
<1>1. /\ brand' = [brand EXCEPT ![p] = NoBrand] /\ opening' = opening
      /\ pc'[t] = IF P(t) = p THEN "client" ELSE pc[t]
      /\ scopes'[t] = IF P(t) = p THEN <<>> ELSE scopes[t]
      /\ brand \in [Process -> Brand \cup {NoBrand}]
  BY DEF Crash, IInv, ThreadsOK
<1>2. CASE P(t) = p
  BY <1>1, <1>2 DEF OneBranding, BrandIsScope, Branding, Acquired
<1>3. CASE P(t) # p
  <2>1. brand'[P(t)] = brand[P(t)]
    BY <1>1, <1>3
  <2> QED
    BY <1>1, <1>3, <2>1, OtherThread
<1> QED
  BY <1>2, <1>3

LEMMA NextBInv == IInv /\ BInv /\ [Next]_vars => BInv'
<1> SUFFICES ASSUME IInv, BInv, [Next]_vars PROVE BInv'
  OBVIOUS
<1>1. ASSUME NEW t \in Thread, Lock(t) PROVE BInv'
  BY <1>1, OpenBInv, WaitBInv, CloseBInv DEF Lock
<1>2. ASSUME NEW t \in Thread, SetBrand(t) \/ ClearBrand(t) PROVE BInv'
  BY <1>2, SetBrandBInv, ClearBrandBInv
<1>3. CASE UNCHANGED <<brand, pc, opening, scopes>>
  BY <1>3, OtherThread DEF BInv
<1>4. ASSUME NEW t \in Thread, AddProductEvent(t) \/ ClearAllProductEvents(t) PROVE BInv'
  BY <1>3, <1>4 DEF AddProductEvent, ClearAllProductEvents
<1>5. ASSUME NEW p \in Process, Crash(p) PROVE BInv'
  BY <1>5, CrashBInv
<1>6. CASE UNCHANGED vars
  BY <1>3, <1>6 DEF vars
<1> QED
  BY <1>1, <1>2, <1>4, <1>5, <1>6 DEF Next

----------------------------------------------------------------------------

\* The brand of a thread that uses the store is that of its branding scope.
LEMMA CurrentBrandIsScope ==
  ASSUME IInv, BInv, NEW t \in Thread, UsesStore(t)
  PROVE  CurrentBrand(t) = ScopeBrand(t, LockedBranding(t))
<1>1. Acquired(t) # {}
  BY DEF UsesStore, InScope, Acquired, Top, IInv, ThreadsOK
<1>2. BrandOfScope(t)
  BY <1>1 DEF BInv, BrandIsScope, UsesStore
<1>3. CASE LockedBranding(t) = {}
  BY <1>2, <1>3 DEF BrandOfScope, ScopeBrand, CurrentBrand
<1>4. ASSUME NEW i \in LockedBranding(t)
      PROVE  CurrentBrand(t) = ScopeBrand(t, LockedBranding(t))
  <2>1. LockedBranding(t) = {i} /\ i \in Nat
    BY <1>4 DEF BInv, OneBranding, LockedBranding, Branding, IInv, ThreadsOK
  <2>2. (CHOOSE j \in {i} : \A k \in {i} : j <= k) = i
    BY <2>1
  <2> QED
    BY <1>2, <2>1, <2>2 DEF BrandOfScope, ScopeBrand, CurrentBrand
<1> QED
  BY <1>3, <1>4

\* What is kept for a brand changes only by a thread in a branding scope of
\* that brand that got the lock (SupplementaryBranding, AppendBrandToString),
\* for any processes, threads and brands.
THEOREM WinBrandsKeptApart == Spec => BrandsKeptApart
<1>1. ASSUME IInv, BInv, [Next]_vars, NEW b \in Brand \cup {NoBrand}, Under(b)' # Under(b)
      PROVE  \E t \in Thread : UsesStore(t) /\ ScopeBrand(t, LockedBranding(t)) = b
  <2>1. registry' # registry
    BY <1>1 DEF Under
  <2>2. PICK t \in Thread : AddProductEvent(t) \/ ClearAllProductEvents(t)
    BY <1>1, <2>1 DEF Next, vars, Lock, OpenScope, CannotSetIntegrity, WaitSucceeds,
       WaitAbandoned, WaitTimesOut, Entered, CloseScope, SetBrand, ClearBrand, Crash
  <2>3. UsesStore(t) /\ b = CurrentBrand(t)
    BY <1>1, <2>2 DEF AddProductEvent, ClearAllProductEvents, Under
  <2> QED
    BY <1>1, <2>3, CurrentBrandIsScope
<1>2. Spec => [](IInv /\ BInv)
  BY InitIInv, NextIInv, InitBInv, NextBInv, PTL DEF Spec
<1>3. IInv /\ BInv /\ [Next]_vars =>
        [\A b \in Brand \cup {NoBrand} : Under(b)' # Under(b) =>
           \E t \in Thread : UsesStore(t) /\ ScopeBrand(t, LockedBranding(t)) = b]_vars
  BY <1>1
<1> QED
  BY <1>2, <1>3, PTL DEF Spec, BrandsKeptApart
=============================================================================
