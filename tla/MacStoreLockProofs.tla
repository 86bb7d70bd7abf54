------------------------- MODULE MacStoreLockProofs -------------------------
(***************************************************************************)
(* The lock of MacStoreLock for any number of processes and threads, any   *)
(* nesting and any time-out.                                               *)
(***************************************************************************)
EXTENDS MacStoreLock, SequenceTheorems, TLAPS

(***************************************************************************)
(* The inductive invariant.  Who has the mutex and who is named by         *)
(* locking_thread_ is told by where the threads are, and everything else   *)
(* (the lock file, the depth, the store object) belongs to the thread that *)
(* locking_thread_ names.                                                  *)
(***************************************************************************)
HasMutex(t) ==
  InScope(t) \/ pc[t] \in {"locked", "reenter", "file", "opened", "release",
                           "disown", "unlock"}

IsNamed(t) ==
  InScope(t) \/ pc[t] \in {"reenter", "file", "opened", "release", "disown"}

ScopesMatchPC ==
  \A t \in Thread : /\ InScope(t) => pc[t] \in {"client", "compare", "reenter", "opened"}
                    /\ pc[t] = "reenter" => InScope(t)

MutexMatchesPC ==
  /\ \A t \in Thread : HasMutex(t) => recursiveLock[P(t)] = t
  /\ \A p \in Process : recursiveLock[p] # NoThread =>
       P(recursiveLock[p]) = p /\ HasMutex(recursiveLock[p])

NameMatchesPC ==
  /\ \A t \in Thread : IsNamed(t) => lockingThread[P(t)] = t
  /\ \A p \in Process : lockingThread[p] # NoThread =>
       P(lockingThread[p]) = p /\ IsNamed(lockingThread[p])

FileLockMatchesName ==
  \A p \in Process :
    /\ fileLock[p] <=> lockFile = p
    /\ fileLock[p] => /\ lockingThread[p] # NoThread
                      /\ pc[lockingThread[p]] \notin {"file", "disown"}

DepthMatchesScopes ==
  \A p \in Process :
    lockDepth[p] = IF lockingThread[p] = NoThread THEN 0
                   ELSE Len(scopes[lockingThread[p]])

StoreMatchesScopes ==
  /\ \A t \in Thread : \A i \in DOMAIN scopes[t] :
       scopes[t][i] = "store" <=> storeObject[P(t)] # NoDict
  /\ \A p \in Process : storeObject[p] # NoDict =>
       fileLock[p] /\ lockingThread[p] # NoThread /\ InScope(lockingThread[p])

NestingMatchesContract ==
  \A t \in Thread : pc[t] \in {"compare", "reenter", "opened"} /\ InScope(t) => MayNest(t)

ReadableStore ==
  "read" \notin Faults =>
    \A t \in Thread : InScope(t) /\ fileLock[P(t)] => storeObject[P(t)] # NoDict

IInv == /\ TypeOK
        /\ ScopesMatchPC
        /\ MutexMatchesPC
        /\ NameMatchesPC
        /\ FileLockMatchesName
        /\ DepthMatchesScopes
        /\ StoreMatchesScopes
        /\ NestingMatchesContract
        /\ ReadableStore

----------------------------------------------------------------------------
(* What opening and closing a scope does to the stack of scopes. *)

LEMMA PushedScope ==
  ASSUME NEW s \in Seq(Scope), NEW x \in Scope
  PROVE  /\ Append(s, x) \in Seq(Scope)
         /\ Append(s, x) # <<>>
         /\ Len(Append(s, x)) = Len(s) + 1
         /\ DOMAIN Append(s, x) = 1..(Len(s) + 1)
         /\ \A i \in 1..Len(s) : Append(s, x)[i] = s[i]
         /\ Append(s, x)[Len(s) + 1] = x
  OBVIOUS

LEMMA PoppedScope ==
  ASSUME NEW s \in Seq(Scope), s # <<>>
  PROVE  /\ SubSeq(s, 1, Len(s) - 1) \in Seq(Scope)
         /\ Len(SubSeq(s, 1, Len(s) - 1)) = Len(s) - 1
         /\ DOMAIN SubSeq(s, 1, Len(s) - 1) = 1..(Len(s) - 1)
         /\ \A i \in 1..(Len(s) - 1) : SubSeq(s, 1, Len(s) - 1)[i] = s[i]
         /\ Len(s) \in Nat \ {0}
         /\ Len(s) = 1 <=> SubSeq(s, 1, Len(s) - 1) = <<>>
<1> DEFINE n == Len(s) - 1
           r == SubSeq(s, 1, n)
<1>1. n \in Nat /\ n + 1 = Len(s) /\ Len(s) \in Nat \ {0}
  OBVIOUS
<1>2. \A i \in 1..n : s[i] \in Scope
  OBVIOUS
<1> HIDE DEF n
<1>3. /\ r \in Seq(Scope)
      /\ Len(r) = IF 1 <= n THEN n - 1 + 1 ELSE 0
      /\ \A i \in 1..(n - 1 + 1) : r[i] = s[1 + i - 1]
  BY <1>1, <1>2, SubSeqProperties
<1> HIDE DEF r
<1>4. Len(r) = n /\ \A i \in 1..n : r[i] = s[i]
  BY <1>1, <1>3
<1>5. DOMAIN r = 1..n /\ (r = <<>> <=> n = 0)
  BY <1>3, <1>4
<1> QED
  BY <1>1, <1>3, <1>4, <1>5 DEF n, r

LEMMA ScopeStack ==
  ASSUME NEW s \in Seq(Scope)
  PROVE  /\ s = <<>> <=> Len(s) = 0
         /\ Len(s) \in Nat
         /\ DOMAIN s = 1..Len(s)
         /\ \A i \in 1..Len(s) : s[i] \in Scope
         /\ s # <<>> => Len(s) \in DOMAIN s
  OBVIOUS

\* The same, of the stack of thread t in a step that pushes or pops.
Pushed(t, x) ==
  /\ scopes' = [scopes EXCEPT ![t] = Append(@, x)]
  /\ scopes'[t] \in Seq(Scope) /\ scopes'[t] # <<>>
  /\ Len(scopes'[t]) = Len(scopes[t]) + 1
  /\ DOMAIN scopes'[t] = 1..(Len(scopes[t]) + 1)
  /\ \A i \in 1..Len(scopes[t]) : scopes'[t][i] = scopes[t][i]
  /\ scopes'[t][Len(scopes[t]) + 1] = x
  /\ DOMAIN scopes[t] = 1..Len(scopes[t]) /\ Len(scopes[t]) \in Nat

Popped(t) ==
  /\ scopes' = [scopes EXCEPT ![t] = SubSeq(@, 1, Len(@) - 1)]
  /\ scopes'[t] \in Seq(Scope)
  /\ Len(scopes'[t]) = Len(scopes[t]) - 1
  /\ DOMAIN scopes'[t] = 1..(Len(scopes[t]) - 1)
  /\ \A i \in 1..(Len(scopes[t]) - 1) : scopes'[t][i] = scopes[t][i]
  /\ DOMAIN scopes[t] = 1..Len(scopes[t]) /\ Len(scopes[t]) \in Nat \ {0}
  /\ Len(scopes[t]) = 1 <=> scopes'[t] = <<>>

LEMMA PushFacts ==
  ASSUME TypeOK, NEW t \in Thread, NEW x \in Scope, Push(t, x)
  PROVE  Pushed(t, x)
<1>1. scopes[t] \in Seq(Scope) /\ scopes'[t] = Append(scopes[t], x)
  BY DEF TypeOK, Push
<1> QED
  BY <1>1, PushedScope, ScopeStack DEF Pushed, Push

LEMMA PopFacts ==
  ASSUME TypeOK, NEW t \in Thread, InScope(t), Pop(t)
  PROVE  Popped(t)
<1>1. scopes[t] \in Seq(Scope) /\ scopes[t] # <<>>
      /\ scopes'[t] = SubSeq(scopes[t], 1, Len(scopes[t]) - 1)
  BY DEF TypeOK, Pop, InScope
<1> QED
  BY <1>1, PoppedScope, ScopeStack DEF Popped, Pop

----------------------------------------------------------------------------
(* What the invariant says of one process, by what its threads do. *)

\* No thread of process p has anything when the mutex is free.
LEMMA FreeMutex ==
  ASSUME IInv, NEW t \in Thread, recursiveLock[P(t)] = NoThread
  PROVE  /\ ~HasMutex(t)
         /\ lockingThread[P(t)] = NoThread
<1> USE LockAssumption DEF P
<1>1. \A u \in Thread : P(u) = P(t) => ~HasMutex(u)
  BY DEF IInv, MutexMatchesPC
<1>2. lockingThread[P(t)] # NoThread => lockingThread[P(t)] \in Thread
  BY DEF IInv, TypeOK
<1>3. \A u \in Thread : IsNamed(u) => HasMutex(u)
  BY DEF IsNamed, HasMutex
<1> QED
  BY <1>1, <1>2, <1>3 DEF IInv, NameMatchesPC

\* One thread of a process has the mutex at a time.
LEMMA OneHolder ==
  ASSUME IInv, NEW t \in Thread, NEW u \in Thread, P(t) = P(u), HasMutex(t), HasMutex(u)
  PROVE  t = u
  BY DEF IInv, MutexMatchesPC

\* A thread that has the mutex and is not, or no longer, named by
\* locking_thread_ finds nothing open.
LEMMA NothingOpen ==
  ASSUME IInv, NEW t \in Thread, HasMutex(t), ~IsNamed(t)
  PROVE  /\ lockingThread[P(t)] = NoThread
         /\ ~fileLock[P(t)]
         /\ lockFile # P(t)
         /\ lockDepth[P(t)] = 0
         /\ storeObject[P(t)] = NoDict
<1> USE LockAssumption DEF P
<1>1. lockingThread[P(t)] # NoThread => lockingThread[P(t)] \in Thread
  BY DEF IInv, TypeOK
<1>2. \A u \in Thread : IsNamed(u) => HasMutex(u)
  BY DEF IsNamed, HasMutex
<1>3. lockingThread[P(t)] = NoThread
  BY <1>1, <1>2, OneHolder DEF IInv, NameMatchesPC
<1> QED
  BY <1>3 DEF IInv, FileLockMatchesName, DepthMatchesScopes, StoreMatchesScopes

\* The thread that locking_thread_ names is alone, and the depth is its own.
LEMMA Named ==
  ASSUME IInv, NEW t \in Thread, IsNamed(t)
  PROVE  /\ lockingThread[P(t)] = t
         /\ recursiveLock[P(t)] = t
         /\ HasMutex(t)
         /\ \A u \in Thread : P(u) = P(t) /\ u # t => ~HasMutex(u) /\ scopes[u] = <<>>
         /\ lockDepth[P(t)] = Len(scopes[t])
<1> USE LockAssumption DEF P
<1>1. HasMutex(t)
  BY DEF IsNamed, HasMutex
<1>2. \A u \in Thread : P(u) = P(t) /\ u # t => ~HasMutex(u)
  BY <1>1, OneHolder
<1>3. lockingThread[P(t)] = t /\ recursiveLock[P(t)] = t
  BY <1>1 DEF IInv, NameMatchesPC, MutexMatchesPC
<1>4. lockDepth[P(t)] = Len(scopes[t])
  BY <1>3 DEF IInv, DepthMatchesScopes
<1> QED
  BY <1>1, <1>2, <1>3, <1>4 DEF HasMutex, InScope

\* A thread reads its own id in locking_thread_ only if it was left there by
\* itself and not yet taken back.
LEMMA OwnName ==
  ASSUME IInv, NEW t \in Thread, lockingThread[P(t)] = t
  PROVE  IsNamed(t)
<1>1. P(t) \in Process /\ t # NoThread
  BY LockAssumption DEF P
<1> QED
  BY <1>1 DEF IInv, NameMatchesPC

\* What another process's lock says does not concern thread t.
LEMMA OtherProcess ==
  ASSUME IInv, NEW t \in Thread, NEW p \in Process, p # P(t)
  PROVE  /\ recursiveLock[p] # NoThread =>
              /\ recursiveLock[p] \in Thread \ {t}
              /\ P(recursiveLock[p]) = p
         /\ lockingThread[p] # NoThread =>
              /\ lockingThread[p] \in Thread \ {t}
              /\ P(lockingThread[p]) = p
<1>1. /\ recursiveLock[p] \in Thread \cup {NoThread}
      /\ lockingThread[p] \in Thread \cup {NoThread}
  BY DEF IInv, TypeOK
<1> QED
  BY <1>1 DEF IInv, MutexMatchesPC, NameMatchesPC

\* Every scope of the thread whose scope gives the store gives the store.
LEMMA AllScopesAlike ==
  ASSUME IInv, NEW t \in Thread, InScope(t)
  PROVE  /\ LastOf(scopes[t]) \in Scope
         /\ LastOf(scopes[t]) = "store" <=> storeObject[P(t)] # NoDict
         /\ \A i \in DOMAIN scopes[t] : scopes[t][i] = LastOf(scopes[t])
<1>1. scopes[t] \in Seq(Scope)
  BY DEF IInv, TypeOK
<1>2. Len(scopes[t]) \in DOMAIN scopes[t] /\ \A i \in DOMAIN scopes[t] : scopes[t][i] \in Scope
  BY <1>1, ScopeStack DEF InScope
<1> QED
  BY <1>2 DEF IInv, StoreMatchesScopes, LastOf, Scope

----------------------------------------------------------------------------
(* Every step of a thread keeps the invariant. *)

LEMMA TryLockFreeInv ==
  ASSUME IInv, NEW t \in Thread, TryLockFree(t)
  PROVE  IInv'
<1> USE LockAssumption
        DEF IInv, TypeOK, P, InScope, GoTo, PC, processVars, diskVars, HasMutex, IsNamed,
            TryLockFree, Constructs
<1>1. ~HasMutex(t) /\ ~InScope(t) /\ lockingThread[P(t)] = NoThread
  BY FreeMutex
<1>2. \A u \in Thread : P(u) = P(t) => ~HasMutex(u)
  BY DEF MutexMatchesPC
<1>3. \A p \in Process \ {P(t)} :
         /\ recursiveLock[p] # NoThread =>
              recursiveLock[p] \in Thread \ {t} /\ P(recursiveLock[p]) = p
         /\ lockingThread[p] # NoThread =>
              lockingThread[p] \in Thread \ {t} /\ P(lockingThread[p]) = p
  BY OtherProcess
<1>4. TypeOK'
  BY <1>1, <1>2, <1>3 DEF Scope
<1>5. ScopesMatchPC'
  BY <1>1, <1>2, <1>3 DEF ScopesMatchPC
<1>6. MutexMatchesPC'
  <2>1. ASSUME NEW u \in Thread, HasMutex(u)'
        PROVE  recursiveLock'[P(u)] = u
    <3>1. CASE u = t
      BY <3>1
    <3>2. CASE u # t
      <4>1. HasMutex(u)
        BY <2>1, <3>2
      <4> QED
        BY <1>2, <4>1 DEF MutexMatchesPC
    <3> QED
      BY <3>1, <3>2
  <2>2. ASSUME NEW p \in Process, p # P(t), recursiveLock[p] # NoThread
        PROVE  P(recursiveLock[p]) = p /\ HasMutex(recursiveLock[p])'
    BY <1>3, <2>2 DEF MutexMatchesPC
  <2>3. recursiveLock'[P(t)] = t /\ HasMutex(t)'
    OBVIOUS
  <2> QED
    BY <2>1, <2>2, <2>3 DEF MutexMatchesPC
<1>7. NameMatchesPC'
  BY <1>1, <1>2, <1>3 DEF NameMatchesPC
<1>8. FileLockMatchesName'
  BY <1>1, <1>2, <1>3 DEF FileLockMatchesName
<1>9. DepthMatchesScopes'
  BY <1>1, <1>2, <1>3 DEF DepthMatchesScopes
<1>10. StoreMatchesScopes'
  BY <1>1, <1>2, <1>3 DEF StoreMatchesScopes
<1>11. NestingMatchesContract'
  BY <1>1, <1>2, <1>3 DEF NestingMatchesContract, MayNest, LastOf
<1>12. ReadableStore'
  BY <1>1, <1>2, <1>3 DEF ReadableStore
<1> QED
  BY <1>4, <1>5, <1>6, <1>7, <1>8, <1>9, <1>10, <1>11, <1>12

LEMMA TryLockBusyInv ==
  ASSUME IInv, NEW t \in Thread, TryLockBusy(t)
  PROVE  IInv'
<1> USE LockAssumption
        DEF IInv, TypeOK, P, InScope, GoTo, PC, processVars, diskVars, HasMutex, IsNamed,
            TryLockBusy, Constructs, MayNest
<1>1. TypeOK'
  BY DEF Scope
<1>2. ScopesMatchPC'
  BY DEF ScopesMatchPC
<1>3. MutexMatchesPC'
  BY DEF MutexMatchesPC
<1>4. NameMatchesPC'
  BY DEF NameMatchesPC
<1>5. FileLockMatchesName'
  BY DEF FileLockMatchesName
<1>6. DepthMatchesScopes'
  BY DEF DepthMatchesScopes
<1>7. StoreMatchesScopes'
  BY DEF StoreMatchesScopes
<1>8. NestingMatchesContract'
  BY DEF NestingMatchesContract, MayNest, LastOf
<1>9. ReadableStore'
  BY DEF ReadableStore
<1> QED
  BY <1>1, <1>2, <1>3, <1>4, <1>5, <1>6, <1>7, <1>8, <1>9

LEMMA CompareThreadInv ==
  ASSUME IInv, NEW t \in Thread, CompareThread(t)
  PROVE  IInv'
<1> USE LockAssumption
        DEF IInv, TypeOK, P, InScope, GoTo, PC, processVars, diskVars, HasMutex, IsNamed,
            CompareThread
<1>1. InScope(t) => lockingThread[P(t)] = t
  BY DEF NameMatchesPC
<1>2. lockingThread[P(t)] = t => IsNamed(t)
  BY OwnName
<1>3. lockingThread[P(t)] = t => InScope(t)
  BY <1>2
<1>4. TypeOK'
  BY <1>1, <1>2, <1>3 DEF Scope
<1>5. ScopesMatchPC'
  BY <1>1, <1>2, <1>3 DEF ScopesMatchPC
<1>6. MutexMatchesPC'
  BY <1>1, <1>2, <1>3 DEF MutexMatchesPC
<1>7. NameMatchesPC'
  BY <1>1, <1>2, <1>3 DEF NameMatchesPC
<1>8. FileLockMatchesName'
  BY <1>1, <1>2, <1>3 DEF FileLockMatchesName
<1>9. DepthMatchesScopes'
  BY <1>1, <1>2, <1>3 DEF DepthMatchesScopes
<1>10. StoreMatchesScopes'
  BY <1>1, <1>2, <1>3 DEF StoreMatchesScopes
<1>11. NestingMatchesContract'
  BY <1>1, <1>2, <1>3 DEF NestingMatchesContract, MayNest, LastOf
<1>12. ReadableStore'
  BY <1>1, <1>2, <1>3 DEF ReadableStore
<1> QED
  BY <1>4, <1>5, <1>6, <1>7, <1>8, <1>9, <1>10, <1>11, <1>12

LEMMA LockMutexInv ==
  ASSUME IInv, NEW t \in Thread, LockMutex(t)
  PROVE  IInv'
<1> USE LockAssumption
        DEF IInv, TypeOK, P, InScope, GoTo, PC, processVars, diskVars, HasMutex, IsNamed,
            LockMutex
<1>1. ~HasMutex(t) /\ ~InScope(t) /\ lockingThread[P(t)] = NoThread
  BY FreeMutex
<1>2. \A u \in Thread : P(u) = P(t) => ~HasMutex(u)
  BY DEF MutexMatchesPC
<1>3. \A p \in Process \ {P(t)} :
         /\ recursiveLock[p] # NoThread =>
              recursiveLock[p] \in Thread \ {t} /\ P(recursiveLock[p]) = p
         /\ lockingThread[p] # NoThread =>
              lockingThread[p] \in Thread \ {t} /\ P(lockingThread[p]) = p
  BY OtherProcess
<1>4. TypeOK'
  BY <1>1, <1>2, <1>3 DEF Scope
<1>5. ScopesMatchPC'
  BY <1>1, <1>2, <1>3 DEF ScopesMatchPC
<1>6. MutexMatchesPC'
  <2>1. ASSUME NEW u \in Thread, HasMutex(u)'
        PROVE  recursiveLock'[P(u)] = u
    <3>1. CASE u = t
      BY <3>1
    <3>2. CASE u # t
      <4>1. HasMutex(u)
        BY <2>1, <3>2
      <4> QED
        BY <1>2, <4>1 DEF MutexMatchesPC
    <3> QED
      BY <3>1, <3>2
  <2>2. ASSUME NEW p \in Process, p # P(t), recursiveLock[p] # NoThread
        PROVE  P(recursiveLock[p]) = p /\ HasMutex(recursiveLock[p])'
    BY <1>3, <2>2 DEF MutexMatchesPC
  <2>3. recursiveLock'[P(t)] = t /\ HasMutex(t)'
    OBVIOUS
  <2> QED
    BY <2>1, <2>2, <2>3 DEF MutexMatchesPC
<1>7. NameMatchesPC'
  <2>1. \A u \in Thread : IsNamed(u)' <=> IsNamed(u)
    BY <1>1
  <2>2. \A p \in Process : lockingThread[p] # NoThread => lockingThread[p] \in Thread
    OBVIOUS
  <2> QED
    BY <2>1, <2>2 DEF NameMatchesPC
<1>8. FileLockMatchesName'
  BY <1>1, <1>2, <1>3 DEF FileLockMatchesName
<1>9. DepthMatchesScopes'
  BY <1>1, <1>2, <1>3 DEF DepthMatchesScopes
<1>10. StoreMatchesScopes'
  BY <1>1, <1>2, <1>3 DEF StoreMatchesScopes
<1>11. NestingMatchesContract'
  BY <1>1, <1>2, <1>3 DEF NestingMatchesContract, MayNest, LastOf
<1>12. ReadableStore'
  BY <1>1, <1>2, <1>3 DEF ReadableStore
<1> QED
  BY <1>4, <1>5, <1>6, <1>7, <1>8, <1>9, <1>10, <1>11, <1>12

LEMMA OwnMutexInv ==
  ASSUME IInv, NEW t \in Thread, OwnMutex(t)
  PROVE  IInv'
<1> USE LockAssumption
        DEF IInv, TypeOK, P, InScope, GoTo, PC, processVars, diskVars, HasMutex, IsNamed,
            OwnMutex
<1>1. HasMutex(t) /\ ~IsNamed(t)
  BY DEF ScopesMatchPC
<1>2. /\ lockingThread[P(t)] = NoThread /\ ~fileLock[P(t)] /\ lockFile # P(t)
      /\ lockDepth[P(t)] = 0 /\ storeObject[P(t)] = NoDict
  BY <1>1, NothingOpen
<1>3. \A u \in Thread : P(u) = P(t) /\ u # t => ~HasMutex(u)
  BY <1>1, OneHolder
<1>4. \A p \in Process \ {P(t)} :
         /\ recursiveLock[p] # NoThread =>
              recursiveLock[p] \in Thread \ {t} /\ P(recursiveLock[p]) = p
         /\ lockingThread[p] # NoThread =>
              lockingThread[p] \in Thread \ {t} /\ P(lockingThread[p]) = p
  BY OtherProcess
<1>5. TypeOK'
  BY <1>1, <1>2, <1>3, <1>4 DEF Scope
<1>6. ScopesMatchPC'
  BY <1>1, <1>2, <1>3, <1>4 DEF ScopesMatchPC
<1>7. MutexMatchesPC'
  BY <1>1, <1>2, <1>3, <1>4 DEF MutexMatchesPC
<1>8. NameMatchesPC'
  <2>1. ASSUME NEW u \in Thread, IsNamed(u)'
        PROVE  lockingThread'[P(u)] = u
    <3>1. CASE u = t
      BY <3>1
    <3>2. CASE u # t
      BY <1>3, <2>1, <3>2 DEF NameMatchesPC
    <3> QED
      BY <3>1, <3>2
  <2>2. ASSUME NEW p \in Process, p # P(t), lockingThread[p] # NoThread
        PROVE  P(lockingThread[p]) = p /\ IsNamed(lockingThread[p])'
    BY <1>4, <2>2 DEF NameMatchesPC
  <2>3. lockingThread'[P(t)] = t /\ IsNamed(t)'
    OBVIOUS
  <2> QED
    BY <2>1, <2>2, <2>3 DEF NameMatchesPC
<1>9. FileLockMatchesName'
  <2>1. ASSUME NEW p \in Process, p # P(t), fileLock[p]
        PROVE  /\ lockingThread'[p] # NoThread
               /\ pc'[lockingThread'[p]] \notin {"file", "disown"}
    BY <1>4, <2>1 DEF FileLockMatchesName
  <2> QED
    BY <1>2, <2>1 DEF FileLockMatchesName
<1>10. DepthMatchesScopes'
  BY <1>1, <1>2, <1>3, <1>4 DEF DepthMatchesScopes
<1>11. StoreMatchesScopes'
  BY <1>1, <1>2, <1>3, <1>4 DEF StoreMatchesScopes
<1>12. NestingMatchesContract'
  BY <1>1, <1>2, <1>3, <1>4 DEF NestingMatchesContract, MayNest, LastOf
<1>13. ReadableStore'
  BY <1>1, <1>2, <1>3, <1>4 DEF ReadableStore
<1> QED
  BY <1>5, <1>6, <1>7, <1>8, <1>9, <1>10, <1>11, <1>12, <1>13

LEMMA ReenterInv ==
  ASSUME IInv, NEW t \in Thread, Reenter(t)
  PROVE  IInv'
<1> USE LockAssumption
        DEF IInv, TypeOK, P, InScope, GoTo, PC, processVars, diskVars, HasMutex, IsNamed,
            Reenter
<1>1. lockingThread' = lockingThread
  BY DEF NameMatchesPC
<1>2. TypeOK'
  BY <1>1 DEF Scope
<1>3. ScopesMatchPC'
  BY <1>1 DEF ScopesMatchPC
<1>4. MutexMatchesPC'
  BY <1>1 DEF MutexMatchesPC
<1>5. NameMatchesPC'
  BY <1>1 DEF NameMatchesPC
<1>6. FileLockMatchesName'
  BY <1>1 DEF FileLockMatchesName
<1>7. DepthMatchesScopes'
  BY <1>1 DEF DepthMatchesScopes
<1>8. StoreMatchesScopes'
  BY <1>1 DEF StoreMatchesScopes
<1>9. NestingMatchesContract'
  BY <1>1 DEF NestingMatchesContract, MayNest, LastOf
<1>10. ReadableStore'
  BY <1>1 DEF ReadableStore
<1> QED
  BY <1>2, <1>3, <1>4, <1>5, <1>6, <1>7, <1>8, <1>9, <1>10

LEMMA GetFileLockInv ==
  ASSUME IInv, NEW t \in Thread, GetFileLock(t)
  PROVE  IInv'
<1> USE LockAssumption
        DEF IInv, TypeOK, P, InScope, GoTo, PC, processVars, diskVars, HasMutex, IsNamed,
            GetFileLock
<1>1. IsNamed(t) /\ ~InScope(t)
  BY DEF ScopesMatchPC
<1>2. lockingThread[P(t)] = t /\ \A u \in Thread : P(u) = P(t) /\ u # t => ~HasMutex(u) /\ scopes[u] = <<>>
  BY <1>1, Named
<1>3. TypeOK'
  BY <1>1, <1>2 DEF Scope
<1>4. ScopesMatchPC'
  BY <1>1, <1>2 DEF ScopesMatchPC
<1>5. MutexMatchesPC'
  BY <1>1, <1>2 DEF MutexMatchesPC
<1>6. NameMatchesPC'
  BY <1>1, <1>2 DEF NameMatchesPC
<1>7. FileLockMatchesName'
  BY <1>1, <1>2 DEF FileLockMatchesName
<1>8. DepthMatchesScopes'
  BY <1>1, <1>2 DEF DepthMatchesScopes
<1>9. StoreMatchesScopes'
  BY <1>1, <1>2 DEF StoreMatchesScopes
<1>10. NestingMatchesContract'
  BY <1>1, <1>2 DEF NestingMatchesContract, MayNest, LastOf
<1>11. ReadableStore'
  BY <1>1, <1>2 DEF ReadableStore
<1> QED
  BY <1>3, <1>4, <1>5, <1>6, <1>7, <1>8, <1>9, <1>10, <1>11

LEMMA RetryFileLockInv ==
  ASSUME IInv, NEW t \in Thread, RetryFileLock(t)
  PROVE  IInv'
<1> USE LockAssumption
        DEF IInv, TypeOK, P, InScope, GoTo, PC, processVars, diskVars, HasMutex, IsNamed,
            RetryFileLock
<1>1. TypeOK'
  BY DEF Scope
<1>2. ScopesMatchPC'
  BY DEF ScopesMatchPC
<1>3. MutexMatchesPC'
  BY DEF MutexMatchesPC
<1>4. NameMatchesPC'
  BY DEF NameMatchesPC
<1>5. FileLockMatchesName'
  BY DEF FileLockMatchesName
<1>6. DepthMatchesScopes'
  BY DEF DepthMatchesScopes
<1>7. StoreMatchesScopes'
  BY DEF StoreMatchesScopes
<1>8. NestingMatchesContract'
  BY DEF NestingMatchesContract, MayNest, LastOf
<1>9. ReadableStore'
  BY DEF ReadableStore
<1> QED
  BY <1>1, <1>2, <1>3, <1>4, <1>5, <1>6, <1>7, <1>8, <1>9

LEMMA GiveUpFileLockInv ==
  ASSUME IInv, NEW t \in Thread, GiveUpFileLock(t)
  PROVE  IInv'
<1> USE LockAssumption
        DEF IInv, TypeOK, P, InScope, GoTo, PC, processVars, diskVars, HasMutex, IsNamed,
            GiveUpFileLock
<1>1. ~InScope(t)
  BY DEF ScopesMatchPC
<1>2. TypeOK'
  BY <1>1 DEF Scope
<1>3. ScopesMatchPC'
  BY <1>1 DEF ScopesMatchPC
<1>4. MutexMatchesPC'
  BY <1>1 DEF MutexMatchesPC
<1>5. NameMatchesPC'
  BY <1>1 DEF NameMatchesPC
<1>6. FileLockMatchesName'
  BY <1>1 DEF FileLockMatchesName
<1>7. DepthMatchesScopes'
  BY <1>1 DEF DepthMatchesScopes
<1>8. StoreMatchesScopes'
  BY <1>1 DEF StoreMatchesScopes
<1>9. NestingMatchesContract'
  BY <1>1 DEF NestingMatchesContract, MayNest, LastOf
<1>10. ReadableStore'
  BY <1>1 DEF ReadableStore
<1> QED
  BY <1>2, <1>3, <1>4, <1>5, <1>6, <1>7, <1>8, <1>9, <1>10

LEMMA OpenWithoutLockInv ==
  ASSUME IInv, NEW t \in Thread, OpenWithoutLock(t)
  PROVE  IInv'
<1> USE LockAssumption
        DEF IInv, TypeOK, P, InScope, GoTo, PC, processVars, diskVars, HasMutex, IsNamed,
            OpenWithoutLock, Deeper, Pushed
<1>1. IsNamed(t) /\ HasMutex(t)
  OBVIOUS
<1>2. /\ lockingThread[P(t)] = t /\ recursiveLock[P(t)] = t
      /\ lockDepth[P(t)] = Len(scopes[t])
      /\ \A u \in Thread : P(u) = P(t) /\ u # t => ~HasMutex(u) /\ scopes[u] = <<>>
  BY <1>1, Named
<1>3. Pushed(t, "null")
  BY PushFacts DEF Scope
<1>4. \A p \in Process \ {P(t)} :
         /\ recursiveLock[p] # NoThread =>
              recursiveLock[p] \in Thread \ {t} /\ P(recursiveLock[p]) = p
         /\ lockingThread[p] # NoThread =>
              lockingThread[p] \in Thread \ {t} /\ P(lockingThread[p]) = p
  BY OtherProcess
<1>5. TypeOK'
  BY <1>1, <1>2, <1>3, <1>4 DEF Scope
<1>6. ScopesMatchPC'
  BY <1>1, <1>2, <1>3, <1>4 DEF ScopesMatchPC
<1>7. MutexMatchesPC'
  BY <1>1, <1>2, <1>3, <1>4 DEF MutexMatchesPC
<1>8. NameMatchesPC'
  BY <1>1, <1>2, <1>3, <1>4 DEF NameMatchesPC
<1>9. FileLockMatchesName'
  BY <1>1, <1>2, <1>3, <1>4 DEF FileLockMatchesName
<1>10. DepthMatchesScopes'
  <2>1. lockDepth'[P(t)] = Len(scopes'[t]) /\ lockingThread'[P(t)] = t
    BY <1>2, <1>3, <1>4
  <2>2. ASSUME NEW p \in Process, p # P(t)
        PROVE  lockDepth'[p] = IF lockingThread'[p] = NoThread THEN 0
                               ELSE Len(scopes'[lockingThread'[p]])
    BY <1>2, <1>3, <1>4, <2>2 DEF DepthMatchesScopes
  <2> QED
    BY <2>1, <2>2 DEF DepthMatchesScopes
<1>11. StoreMatchesScopes'
  BY <1>1, <1>2, <1>3 DEF StoreMatchesScopes, CheckNoStore
<1>12. NestingMatchesContract'
  BY <1>1, <1>2, <1>3, <1>4 DEF NestingMatchesContract, MayNest, LastOf
<1>13. ReadableStore'
  BY <1>1, <1>2, <1>3, <1>4 DEF ReadableStore
<1> QED
  BY <1>5, <1>6, <1>7, <1>8, <1>9, <1>10, <1>11, <1>12, <1>13

LEMMA OpenNestedInv ==
  ASSUME IInv, NEW t \in Thread, OpenNested(t)
  PROVE  IInv'
<1> USE LockAssumption
        DEF IInv, TypeOK, P, InScope, GoTo, PC, processVars, diskVars, HasMutex, IsNamed,
            OpenNested, Deeper, Pushed
<1>1. IsNamed(t) /\ HasMutex(t)
  OBVIOUS
<1>2. /\ lockingThread[P(t)] = t /\ recursiveLock[P(t)] = t
      /\ lockDepth[P(t)] = Len(scopes[t])
      /\ \A u \in Thread : P(u) = P(t) /\ u # t => ~HasMutex(u) /\ scopes[u] = <<>>
  BY <1>1, Named
<1>3. Pushed(t, "store")
  BY PushFacts DEF Scope
<1>4. \A p \in Process \ {P(t)} :
         /\ recursiveLock[p] # NoThread =>
              recursiveLock[p] \in Thread \ {t} /\ P(recursiveLock[p]) = p
         /\ lockingThread[p] # NoThread =>
              lockingThread[p] \in Thread \ {t} /\ P(lockingThread[p]) = p
  BY OtherProcess
<1>5. TypeOK'
  BY <1>1, <1>2, <1>3, <1>4 DEF Scope
<1>6. ScopesMatchPC'
  BY <1>1, <1>2, <1>3, <1>4 DEF ScopesMatchPC
<1>7. MutexMatchesPC'
  BY <1>1, <1>2, <1>3, <1>4 DEF MutexMatchesPC
<1>8. NameMatchesPC'
  BY <1>1, <1>2, <1>3, <1>4 DEF NameMatchesPC
<1>9. FileLockMatchesName'
  BY <1>1, <1>2, <1>3, <1>4 DEF FileLockMatchesName
<1>10. DepthMatchesScopes'
  <2>1. lockDepth'[P(t)] = Len(scopes'[t]) /\ lockingThread'[P(t)] = t
    BY <1>2, <1>3, <1>4
  <2>2. ASSUME NEW p \in Process, p # P(t)
        PROVE  lockDepth'[p] = IF lockingThread'[p] = NoThread THEN 0
                               ELSE Len(scopes'[lockingThread'[p]])
    BY <1>2, <1>3, <1>4, <2>2 DEF DepthMatchesScopes
  <2> QED
    BY <2>1, <2>2 DEF DepthMatchesScopes
<1>11. StoreMatchesScopes'
  BY <1>1, <1>2, <1>3 DEF StoreMatchesScopes, CheckStore
<1>12. NestingMatchesContract'
  BY <1>1, <1>2, <1>3, <1>4 DEF NestingMatchesContract, MayNest, LastOf
<1>13. ReadableStore'
  BY <1>1, <1>2, <1>3, <1>4 DEF ReadableStore
<1> QED
  BY <1>5, <1>6, <1>7, <1>8, <1>9, <1>10, <1>11, <1>12, <1>13

LEMMA OpenOutermostInv ==
  ASSUME IInv, NEW t \in Thread, OpenOutermost(t)
  PROVE  IInv'
<1> USE LockAssumption
        DEF IInv, TypeOK, P, InScope, GoTo, PC, processVars, diskVars, HasMutex, IsNamed,
            OpenOutermost, OpensOutermost, Deeper, Pushed
<1>1. IsNamed(t) /\ HasMutex(t)
  OBVIOUS
<1>2. /\ lockingThread[P(t)] = t /\ recursiveLock[P(t)] = t
      /\ lockDepth[P(t)] = Len(scopes[t])
      /\ \A u \in Thread : P(u) = P(t) /\ u # t => ~HasMutex(u) /\ scopes[u] = <<>>
  BY <1>1, Named
<1>3. Pushed(t, "store")
  BY PushFacts DEF Scope
<1>4. scopes[t] = <<>> /\ Len(scopes[t]) = 0
  BY <1>2, ScopeStack
<1>5. \A p \in Process \ {P(t)} :
         /\ recursiveLock[p] # NoThread =>
              recursiveLock[p] \in Thread \ {t} /\ P(recursiveLock[p]) = p
         /\ lockingThread[p] # NoThread =>
              lockingThread[p] \in Thread \ {t} /\ P(lockingThread[p]) = p
  BY OtherProcess
<1>6. plist' \in Dict /\ storeObject' = [storeObject EXCEPT ![P(t)] = plist'] /\ NoDict \notin Dict
  BY DEF CreatePlist
<1>7. TypeOK'
  BY <1>1, <1>2, <1>3, <1>4, <1>5, <1>6 DEF Scope
<1>8. ScopesMatchPC'
  BY <1>1, <1>2, <1>3, <1>4, <1>5, <1>6 DEF ScopesMatchPC
<1>9. MutexMatchesPC'
  BY <1>1, <1>2, <1>3, <1>4, <1>5, <1>6 DEF MutexMatchesPC
<1>10. NameMatchesPC'
  BY <1>1, <1>2, <1>3, <1>4, <1>5, <1>6 DEF NameMatchesPC
<1>11. FileLockMatchesName'
  BY <1>1, <1>2, <1>3, <1>4, <1>5, <1>6 DEF FileLockMatchesName
<1>12. DepthMatchesScopes'
  <2>1. lockDepth'[P(t)] = Len(scopes'[t]) /\ lockingThread'[P(t)] = t
    BY <1>2, <1>3, <1>4, <1>5
  <2>2. ASSUME NEW p \in Process, p # P(t)
        PROVE  lockDepth'[p] = IF lockingThread'[p] = NoThread THEN 0
                               ELSE Len(scopes'[lockingThread'[p]])
    BY <1>2, <1>3, <1>4, <1>5, <2>2 DEF DepthMatchesScopes
  <2> QED
    BY <2>1, <2>2 DEF DepthMatchesScopes
<1>13. StoreMatchesScopes'
  BY <1>1, <1>2, <1>3, <1>4, <1>5, <1>6 DEF StoreMatchesScopes
<1>14. NestingMatchesContract'
  BY <1>1, <1>2, <1>3, <1>4, <1>5, <1>6 DEF NestingMatchesContract, MayNest, LastOf
<1>15. ReadableStore'
  BY <1>1, <1>2, <1>3, <1>4, <1>5, <1>6 DEF ReadableStore
<1> QED
  BY <1>7, <1>8, <1>9, <1>10, <1>11, <1>12, <1>13, <1>14, <1>15

LEMMA OpenUnreadableInv ==
  ASSUME IInv, NEW t \in Thread, OpenUnreadable(t)
  PROVE  IInv'
<1> USE LockAssumption
        DEF IInv, TypeOK, P, InScope, GoTo, PC, processVars, diskVars, HasMutex, IsNamed,
            OpenUnreadable, OpensOutermost, Deeper, Pushed
<1>1. IsNamed(t) /\ HasMutex(t)
  OBVIOUS
<1>2. /\ lockingThread[P(t)] = t /\ recursiveLock[P(t)] = t
      /\ lockDepth[P(t)] = Len(scopes[t])
      /\ \A u \in Thread : P(u) = P(t) /\ u # t => ~HasMutex(u) /\ scopes[u] = <<>>
  BY <1>1, Named
<1>3. Pushed(t, "null")
  BY PushFacts DEF Scope
<1>4. scopes[t] = <<>> /\ Len(scopes[t]) = 0
  BY <1>2, ScopeStack
<1>5. \A p \in Process \ {P(t)} :
         /\ recursiveLock[p] # NoThread =>
              recursiveLock[p] \in Thread \ {t} /\ P(recursiveLock[p]) = p
         /\ lockingThread[p] # NoThread =>
              lockingThread[p] \in Thread \ {t} /\ P(lockingThread[p]) = p
  BY OtherProcess
<1>6. plist' \in Dict /\ storeObject[P(t)] = NoDict
  BY DEF CreatePlist, CheckNoStore
<1>7. TypeOK'
  BY <1>1, <1>2, <1>3, <1>4, <1>5, <1>6 DEF Scope
<1>8. ScopesMatchPC'
  BY <1>1, <1>2, <1>3, <1>4, <1>5, <1>6 DEF ScopesMatchPC
<1>9. MutexMatchesPC'
  BY <1>1, <1>2, <1>3, <1>4, <1>5, <1>6 DEF MutexMatchesPC
<1>10. NameMatchesPC'
  BY <1>1, <1>2, <1>3, <1>4, <1>5, <1>6 DEF NameMatchesPC
<1>11. FileLockMatchesName'
  BY <1>1, <1>2, <1>3, <1>4, <1>5, <1>6 DEF FileLockMatchesName
<1>12. DepthMatchesScopes'
  <2>1. lockDepth'[P(t)] = Len(scopes'[t]) /\ lockingThread'[P(t)] = t
    BY <1>2, <1>3, <1>4, <1>5
  <2>2. ASSUME NEW p \in Process, p # P(t)
        PROVE  lockDepth'[p] = IF lockingThread'[p] = NoThread THEN 0
                               ELSE Len(scopes'[lockingThread'[p]])
    BY <1>2, <1>3, <1>4, <1>5, <2>2 DEF DepthMatchesScopes
  <2> QED
    BY <2>1, <2>2 DEF DepthMatchesScopes
<1>13. StoreMatchesScopes'
  BY <1>1, <1>2, <1>3, <1>4, <1>5, <1>6 DEF StoreMatchesScopes
<1>14. NestingMatchesContract'
  BY <1>1, <1>2, <1>3, <1>4, <1>5, <1>6 DEF NestingMatchesContract, MayNest, LastOf
<1>15. ReadableStore'
  BY <1>1, <1>2, <1>3, <1>4, <1>5, <1>6 DEF ReadableStore
<1> QED
  BY <1>7, <1>8, <1>9, <1>10, <1>11, <1>12, <1>13, <1>14, <1>15

LEMMA UseStoreInv ==
  ASSUME IInv, NEW t \in Thread, UseStore(t)
  PROVE  IInv'
<1> USE LockAssumption
        DEF IInv, TypeOK, P, InScope, GoTo, PC, processVars, diskVars, HasMutex, IsNamed,
            UseStore
<1>1. IsNamed(t)
  OBVIOUS
<1>2. /\ lockingThread[P(t)] = t /\ recursiveLock[P(t)] = t
      /\ lockDepth[P(t)] = Len(scopes[t])
      /\ \A u \in Thread : P(u) = P(t) /\ u # t => ~HasMutex(u) /\ scopes[u] = <<>>
  BY <1>1, Named
<1>3. /\ LastOf(scopes[t]) = "store" <=> storeObject[P(t)] # NoDict
      /\ \A i \in DOMAIN scopes[t] : scopes[t][i] = LastOf(scopes[t])
  BY AllScopesAlike
<1>4. PICK d \in Dict : storeObject' = [storeObject EXCEPT ![P(t)] = d]
  OBVIOUS
<1>5. TypeOK'
  BY <1>1, <1>2, <1>3, <1>4 DEF Scope
<1>6. ScopesMatchPC'
  BY <1>1, <1>2, <1>3, <1>4 DEF ScopesMatchPC
<1>7. MutexMatchesPC'
  BY <1>1, <1>2, <1>3, <1>4 DEF MutexMatchesPC
<1>8. NameMatchesPC'
  BY <1>1, <1>2, <1>3, <1>4 DEF NameMatchesPC
<1>9. FileLockMatchesName'
  BY <1>1, <1>2, <1>3, <1>4 DEF FileLockMatchesName
<1>10. DepthMatchesScopes'
  BY <1>1, <1>2, <1>3, <1>4 DEF DepthMatchesScopes
<1>11. StoreMatchesScopes'
  BY <1>1, <1>2, <1>3, <1>4 DEF StoreMatchesScopes
<1>12. NestingMatchesContract'
  BY <1>1, <1>2, <1>3, <1>4 DEF NestingMatchesContract, MayNest, LastOf
<1>13. ReadableStore'
  BY <1>1, <1>2, <1>3, <1>4 DEF ReadableStore
<1> QED
  BY <1>5, <1>6, <1>7, <1>8, <1>9, <1>10, <1>11, <1>12, <1>13

LEMMA CloseNestedInv ==
  ASSUME IInv, NEW t \in Thread, CloseNested(t)
  PROVE  IInv'
<1> USE LockAssumption
        DEF IInv, TypeOK, P, InScope, GoTo, PC, processVars, diskVars, HasMutex, IsNamed,
            CloseNested, Shallower, Popped
<1>1. IsNamed(t) /\ HasMutex(t)
  OBVIOUS
<1>2. /\ lockingThread[P(t)] = t /\ recursiveLock[P(t)] = t
      /\ lockDepth[P(t)] = Len(scopes[t])
      /\ \A u \in Thread : P(u) = P(t) /\ u # t => ~HasMutex(u) /\ scopes[u] = <<>>
  BY <1>1, Named
<1>3. Popped(t)
  BY PopFacts
<1>4. \A p \in Process \ {P(t)} :
         /\ recursiveLock[p] # NoThread =>
              recursiveLock[p] \in Thread \ {t} /\ P(recursiveLock[p]) = p
         /\ lockingThread[p] # NoThread =>
              lockingThread[p] \in Thread \ {t} /\ P(lockingThread[p]) = p
  BY OtherProcess
<1>5. TypeOK'
  BY <1>1, <1>2, <1>3, <1>4 DEF Scope
<1>6. ScopesMatchPC'
  BY <1>1, <1>2, <1>3, <1>4 DEF ScopesMatchPC
<1>7. MutexMatchesPC'
  BY <1>1, <1>2, <1>3, <1>4 DEF MutexMatchesPC
<1>8. NameMatchesPC'
  BY <1>1, <1>2, <1>3, <1>4 DEF NameMatchesPC
<1>9. FileLockMatchesName'
  BY <1>1, <1>2, <1>3, <1>4 DEF FileLockMatchesName
<1>10. DepthMatchesScopes'
  <2>1. lockDepth'[P(t)] = Len(scopes'[t]) /\ lockingThread'[P(t)] = t
    BY <1>2, <1>3, <1>4
  <2>2. ASSUME NEW p \in Process, p # P(t)
        PROVE  lockDepth'[p] = IF lockingThread'[p] = NoThread THEN 0
                               ELSE Len(scopes'[lockingThread'[p]])
    BY <1>2, <1>3, <1>4, <2>2 DEF DepthMatchesScopes
  <2> QED
    BY <2>1, <2>2 DEF DepthMatchesScopes
<1>11. StoreMatchesScopes'
  BY <1>1, <1>2, <1>3, <1>4 DEF StoreMatchesScopes
<1>12. NestingMatchesContract'
  BY <1>1, <1>2, <1>3, <1>4 DEF NestingMatchesContract, MayNest, LastOf
<1>13. ReadableStore'
  BY <1>1, <1>2, <1>3, <1>4 DEF ReadableStore
<1> QED
  BY <1>5, <1>6, <1>7, <1>8, <1>9, <1>10, <1>11, <1>12, <1>13

LEMMA CloseWithoutStoreInv ==
  ASSUME IInv, NEW t \in Thread, CloseWithoutStore(t)
  PROVE  IInv'
<1> USE LockAssumption
        DEF IInv, TypeOK, P, InScope, GoTo, PC, processVars, diskVars, HasMutex, IsNamed,
            CloseWithoutStore, Shallower, Popped
<1>1. IsNamed(t) /\ HasMutex(t)
  OBVIOUS
<1>2. /\ lockingThread[P(t)] = t /\ recursiveLock[P(t)] = t
      /\ lockDepth[P(t)] = Len(scopes[t])
      /\ \A u \in Thread : P(u) = P(t) /\ u # t => ~HasMutex(u) /\ scopes[u] = <<>>
  BY <1>1, Named
<1>3. Popped(t)
  BY PopFacts
<1>4. /\ LastOf(scopes[t]) = "store" <=> storeObject[P(t)] # NoDict
      /\ \A i \in DOMAIN scopes[t] : scopes[t][i] = LastOf(scopes[t])
  BY AllScopesAlike
<1>5. \A p \in Process \ {P(t)} :
         /\ recursiveLock[p] # NoThread =>
              recursiveLock[p] \in Thread \ {t} /\ P(recursiveLock[p]) = p
         /\ lockingThread[p] # NoThread =>
              lockingThread[p] \in Thread \ {t} /\ P(lockingThread[p]) = p
  BY OtherProcess
<1>6. TypeOK'
  BY <1>1, <1>2, <1>3, <1>4, <1>5 DEF Scope
<1>7. ScopesMatchPC'
  BY <1>1, <1>2, <1>3, <1>4, <1>5 DEF ScopesMatchPC
<1>8. MutexMatchesPC'
  BY <1>1, <1>2, <1>3, <1>4, <1>5 DEF MutexMatchesPC
<1>9. NameMatchesPC'
  BY <1>1, <1>2, <1>3, <1>4, <1>5 DEF NameMatchesPC
<1>10. FileLockMatchesName'
  BY <1>1, <1>2, <1>3, <1>4, <1>5 DEF FileLockMatchesName
<1>11. DepthMatchesScopes'
  <2>1. lockDepth'[P(t)] = Len(scopes'[t]) /\ lockingThread'[P(t)] = t
    BY <1>2, <1>3, <1>5
  <2>2. ASSUME NEW p \in Process, p # P(t)
        PROVE  lockDepth'[p] = IF lockingThread'[p] = NoThread THEN 0
                               ELSE Len(scopes'[lockingThread'[p]])
    BY <1>2, <1>3, <1>5, <2>2 DEF DepthMatchesScopes
  <2> QED
    BY <2>1, <2>2 DEF DepthMatchesScopes
<1>12. StoreMatchesScopes'
  <2>1. \A u \in Thread : P(u) = P(t) => DOMAIN scopes'[u] = {}
    BY <1>1, <1>2, <1>3, <1>4, <1>5
  <2> QED
    BY <1>1, <1>2, <1>3, <1>4, <1>5, <2>1 DEF StoreMatchesScopes
<1>13. NestingMatchesContract'
  BY <1>1, <1>2, <1>3, <1>4, <1>5 DEF NestingMatchesContract, MayNest, LastOf
<1>14. ReadableStore'
  BY <1>1, <1>2, <1>3, <1>4, <1>5 DEF ReadableStore
<1> QED
  BY <1>6, <1>7, <1>8, <1>9, <1>10, <1>11, <1>12, <1>13, <1>14

LEMMA CloseOutermostInv ==
  ASSUME IInv, NEW t \in Thread, CloseOutermost(t)
  PROVE  IInv'
<1> USE LockAssumption
        DEF IInv, TypeOK, P, InScope, GoTo, PC, processVars, diskVars, HasMutex, IsNamed,
            CloseOutermost, Shallower, Popped
<1>1. IsNamed(t) /\ HasMutex(t)
  OBVIOUS
<1>2. /\ lockingThread[P(t)] = t /\ recursiveLock[P(t)] = t
      /\ lockDepth[P(t)] = Len(scopes[t])
      /\ \A u \in Thread : P(u) = P(t) /\ u # t => ~HasMutex(u) /\ scopes[u] = <<>>
  BY <1>1, Named
<1>3. Popped(t)
  BY PopFacts
<1>4. /\ LastOf(scopes[t]) = "store" <=> storeObject[P(t)] # NoDict
      /\ \A i \in DOMAIN scopes[t] : scopes[t][i] = LastOf(scopes[t])
  BY AllScopesAlike
<1>5. \A p \in Process \ {P(t)} :
         /\ recursiveLock[p] # NoThread =>
              recursiveLock[p] \in Thread \ {t} /\ P(recursiveLock[p]) = p
         /\ lockingThread[p] # NoThread =>
              lockingThread[p] \in Thread \ {t} /\ P(lockingThread[p]) = p
  BY OtherProcess
<1>6. TypeOK'
  BY <1>1, <1>2, <1>3, <1>4, <1>5 DEF Scope
<1>7. ScopesMatchPC'
  BY <1>1, <1>2, <1>3, <1>4, <1>5 DEF ScopesMatchPC
<1>8. MutexMatchesPC'
  BY <1>1, <1>2, <1>3, <1>4, <1>5 DEF MutexMatchesPC
<1>9. NameMatchesPC'
  BY <1>1, <1>2, <1>3, <1>4, <1>5 DEF NameMatchesPC
<1>10. FileLockMatchesName'
  BY <1>1, <1>2, <1>3, <1>4, <1>5 DEF FileLockMatchesName
<1>11. DepthMatchesScopes'
  <2>1. lockDepth'[P(t)] = Len(scopes'[t]) /\ lockingThread'[P(t)] = t
    BY <1>2, <1>3, <1>5
  <2>2. ASSUME NEW p \in Process, p # P(t)
        PROVE  lockDepth'[p] = IF lockingThread'[p] = NoThread THEN 0
                               ELSE Len(scopes'[lockingThread'[p]])
    BY <1>2, <1>3, <1>5, <2>2 DEF DepthMatchesScopes
  <2> QED
    BY <2>1, <2>2 DEF DepthMatchesScopes
<1>12. StoreMatchesScopes'
  <2>1. \A u \in Thread : P(u) = P(t) => DOMAIN scopes'[u] = {}
    BY <1>1, <1>2, <1>3, <1>4, <1>5
  <2> QED
    BY <1>1, <1>2, <1>3, <1>4, <1>5, <2>1 DEF StoreMatchesScopes
<1>13. NestingMatchesContract'
  BY <1>1, <1>2, <1>3, <1>4, <1>5 DEF NestingMatchesContract, MayNest, LastOf
<1>14. ReadableStore'
  BY <1>1, <1>2, <1>3, <1>4, <1>5 DEF ReadableStore
<1> QED
  BY <1>6, <1>7, <1>8, <1>9, <1>10, <1>11, <1>12, <1>13, <1>14

LEMMA ReleaseFileLockInv ==
  ASSUME IInv, NEW t \in Thread, ReleaseFileLock(t)
  PROVE  IInv'
<1> USE LockAssumption
        DEF IInv, TypeOK, P, InScope, GoTo, PC, processVars, diskVars, HasMutex, IsNamed,
            ReleaseFileLock
<1>1. IsNamed(t) /\ ~InScope(t)
  BY DEF ScopesMatchPC
<1>2. /\ lockingThread[P(t)] = t /\ recursiveLock[P(t)] = t
      /\ lockDepth[P(t)] = Len(scopes[t])
      /\ \A u \in Thread : P(u) = P(t) /\ u # t => ~HasMutex(u) /\ scopes[u] = <<>>
  BY <1>1, Named
<1>3. storeObject[P(t)] = NoDict
  BY <1>1, <1>2 DEF StoreMatchesScopes
<1>4. \A p \in Process \ {P(t)} :
         /\ recursiveLock[p] # NoThread =>
              recursiveLock[p] \in Thread \ {t} /\ P(recursiveLock[p]) = p
         /\ lockingThread[p] # NoThread =>
              lockingThread[p] \in Thread \ {t} /\ P(lockingThread[p]) = p
  BY OtherProcess
<1>5. TypeOK'
  BY <1>1, <1>2, <1>3, <1>4 DEF Scope
<1>6. ScopesMatchPC'
  BY <1>1, <1>2, <1>3, <1>4 DEF ScopesMatchPC
<1>7. MutexMatchesPC'
  BY <1>1, <1>2, <1>3, <1>4 DEF MutexMatchesPC
<1>8. NameMatchesPC'
  BY <1>1, <1>2, <1>3, <1>4 DEF NameMatchesPC
<1>9. FileLockMatchesName'
  <2>1. ASSUME NEW p \in Process, p # P(t), fileLock[p]
        PROVE  /\ lockingThread'[p] # NoThread
               /\ pc'[lockingThread'[p]] \notin {"file", "disown"}
    BY <1>4, <2>1 DEF FileLockMatchesName
  <2>2. \A p \in Process : fileLock'[p] <=> lockFile' = p
    BY DEF FileLockMatchesName
  <2>3. ~fileLock'[P(t)]
    OBVIOUS
  <2> QED
    BY <2>1, <2>2, <2>3 DEF FileLockMatchesName
<1>10. DepthMatchesScopes'
  BY <1>1, <1>2, <1>3, <1>4 DEF DepthMatchesScopes
<1>11. StoreMatchesScopes'
  BY <1>1, <1>2, <1>3, <1>4 DEF StoreMatchesScopes
<1>12. NestingMatchesContract'
  BY <1>1, <1>2, <1>3, <1>4 DEF NestingMatchesContract, MayNest, LastOf
<1>13. ReadableStore'
  BY <1>1, <1>2, <1>3, <1>4 DEF ReadableStore
<1> QED
  BY <1>5, <1>6, <1>7, <1>8, <1>9, <1>10, <1>11, <1>12, <1>13

LEMMA DisownMutexInv ==
  ASSUME IInv, NEW t \in Thread, DisownMutex(t)
  PROVE  IInv'
<1> USE LockAssumption
        DEF IInv, TypeOK, P, InScope, GoTo, PC, processVars, diskVars, HasMutex, IsNamed,
            DisownMutex
<1>1. IsNamed(t) /\ ~InScope(t)
  BY DEF ScopesMatchPC
<1>2. /\ lockingThread[P(t)] = t /\ recursiveLock[P(t)] = t
      /\ lockDepth[P(t)] = Len(scopes[t])
      /\ \A u \in Thread : P(u) = P(t) /\ u # t => ~HasMutex(u) /\ scopes[u] = <<>>
  BY <1>1, Named
<1>3. storeObject[P(t)] = NoDict
  BY <1>1, <1>2 DEF StoreMatchesScopes
<1>4. ~fileLock[P(t)]
  BY <1>1, <1>2 DEF FileLockMatchesName
<1>5. Len(scopes[t]) = 0
  BY <1>1, ScopeStack
<1>6. \A p \in Process \ {P(t)} :
         /\ recursiveLock[p] # NoThread =>
              recursiveLock[p] \in Thread \ {t} /\ P(recursiveLock[p]) = p
         /\ lockingThread[p] # NoThread =>
              lockingThread[p] \in Thread \ {t} /\ P(lockingThread[p]) = p
  BY OtherProcess
<1>7. TypeOK'
  BY <1>1, <1>2, <1>3, <1>4, <1>5, <1>6 DEF Scope
<1>8. ScopesMatchPC'
  BY <1>1, <1>2, <1>3, <1>4, <1>5, <1>6 DEF ScopesMatchPC
<1>9. MutexMatchesPC'
  BY <1>1, <1>2, <1>3, <1>4, <1>5, <1>6 DEF MutexMatchesPC
<1>10. NameMatchesPC'
  BY <1>1, <1>2, <1>3, <1>4, <1>5, <1>6 DEF NameMatchesPC
<1>11. FileLockMatchesName'
  BY <1>1, <1>2, <1>3, <1>4, <1>5, <1>6 DEF FileLockMatchesName
<1>12. DepthMatchesScopes'
  BY <1>1, <1>2, <1>3, <1>4, <1>5, <1>6 DEF DepthMatchesScopes
<1>13. StoreMatchesScopes'
  BY <1>1, <1>2, <1>3, <1>4, <1>5, <1>6 DEF StoreMatchesScopes
<1>14. NestingMatchesContract'
  BY <1>1, <1>2, <1>3, <1>4, <1>5, <1>6 DEF NestingMatchesContract, MayNest, LastOf
<1>15. ReadableStore'
  BY <1>1, <1>2, <1>3, <1>4, <1>5, <1>6 DEF ReadableStore
<1> QED
  BY <1>7, <1>8, <1>9, <1>10, <1>11, <1>12, <1>13, <1>14, <1>15

LEMMA UnlockMutexInv ==
  ASSUME IInv, NEW t \in Thread, UnlockMutex(t)
  PROVE  IInv'
<1> USE LockAssumption
        DEF IInv, TypeOK, P, InScope, GoTo, PC, processVars, diskVars, HasMutex, IsNamed,
            UnlockMutex
<1>1. HasMutex(t) /\ ~IsNamed(t)
  BY DEF ScopesMatchPC
<1>2. /\ lockingThread[P(t)] = NoThread /\ ~fileLock[P(t)] /\ lockFile # P(t)
      /\ lockDepth[P(t)] = 0 /\ storeObject[P(t)] = NoDict
  BY <1>1, NothingOpen
<1>3. \A u \in Thread : P(u) = P(t) /\ u # t => ~HasMutex(u)
  BY <1>1, OneHolder
<1>4. \A p \in Process \ {P(t)} :
         /\ recursiveLock[p] # NoThread =>
              recursiveLock[p] \in Thread \ {t} /\ P(recursiveLock[p]) = p
         /\ lockingThread[p] # NoThread =>
              lockingThread[p] \in Thread \ {t} /\ P(lockingThread[p]) = p
  BY OtherProcess
<1>5. TypeOK'
  BY <1>1, <1>2, <1>3, <1>4 DEF Scope
<1>6. ScopesMatchPC'
  BY <1>1, <1>2, <1>3, <1>4 DEF ScopesMatchPC
<1>7. MutexMatchesPC'
  BY <1>1, <1>2, <1>3, <1>4 DEF MutexMatchesPC
<1>8. NameMatchesPC'
  BY <1>1, <1>2, <1>3, <1>4 DEF NameMatchesPC
<1>9. FileLockMatchesName'
  BY <1>1, <1>2, <1>3, <1>4 DEF FileLockMatchesName
<1>10. DepthMatchesScopes'
  BY <1>1, <1>2, <1>3, <1>4 DEF DepthMatchesScopes
<1>11. StoreMatchesScopes'
  BY <1>1, <1>2, <1>3, <1>4 DEF StoreMatchesScopes
<1>12. NestingMatchesContract'
  BY <1>1, <1>2, <1>3, <1>4 DEF NestingMatchesContract, MayNest, LastOf
<1>13. ReadableStore'
  BY <1>1, <1>2, <1>3, <1>4 DEF ReadableStore
<1> QED
  BY <1>5, <1>6, <1>7, <1>8, <1>9, <1>10, <1>11, <1>12, <1>13

\* A crash forgets everything of one process and nothing of the others.
LEMMA CrashInv ==
  ASSUME IInv, NEW p \in Process, Crash(p)
  PROVE  IInv'
<1> USE LockAssumption
        DEF IInv, TypeOK, P, InScope, PC, HasMutex, IsNamed, Crash
<1>1. TypeOK'
  BY DEF Scope
<1>2. ScopesMatchPC'
  BY DEF ScopesMatchPC
<1>3. MutexMatchesPC'
  BY DEF MutexMatchesPC
<1>4. NameMatchesPC'
  BY DEF NameMatchesPC
<1>5. FileLockMatchesName'
  BY DEF FileLockMatchesName, NameMatchesPC
<1>6. DepthMatchesScopes'
  BY DEF DepthMatchesScopes, NameMatchesPC
<1>7. StoreMatchesScopes'
  BY DEF StoreMatchesScopes, NameMatchesPC
<1>8. NestingMatchesContract'
  BY DEF NestingMatchesContract, MayNest
<1>9. ReadableStore'
  BY DEF ReadableStore
<1> QED
  BY <1>1, <1>2, <1>3, <1>4, <1>5, <1>6, <1>7, <1>8, <1>9

LEMMA InitInv == Init => IInv
<1> SUFFICES ASSUME Init PROVE IInv
  OBVIOUS
<1> USE LockAssumption DEF Init, P, InScope, HasMutex, IsNamed
<1>1. TypeOK
  BY DEF TypeOK, PC
<1>2. ScopesMatchPC /\ MutexMatchesPC /\ NameMatchesPC
  BY DEF ScopesMatchPC, MutexMatchesPC, NameMatchesPC
<1>3. FileLockMatchesName /\ DepthMatchesScopes /\ StoreMatchesScopes
  BY DEF FileLockMatchesName, DepthMatchesScopes, StoreMatchesScopes
<1>4. NestingMatchesContract /\ ReadableStore
  BY DEF NestingMatchesContract, ReadableStore
<1> QED
  BY <1>1, <1>2, <1>3, <1>4 DEF IInv

LEMMA NextInv == IInv /\ [Next]_vars => IInv'
<1> SUFFICES ASSUME IInv, [Next]_vars PROVE IInv'
  OBVIOUS
<1>1. CASE \E t \in Thread : Acquire(t)
  BY <1>1, TryLockFreeInv, TryLockBusyInv, CompareThreadInv, LockMutexInv, OwnMutexInv,
     ReenterInv, GetFileLockInv, RetryFileLockInv, GiveUpFileLockInv
     DEF Acquire
<1>2. CASE \E t \in Thread : Construct(t) \/ UseStore(t)
  BY <1>2, OpenWithoutLockInv, OpenNestedInv, OpenOutermostInv, OpenUnreadableInv,
     UseStoreInv DEF Construct
<1>3. CASE \E t \in Thread : Destroy(t) \/ Release(t)
  BY <1>3, CloseNestedInv, CloseWithoutStoreInv, CloseOutermostInv, ReleaseFileLockInv,
     DisownMutexInv, UnlockMutexInv
     DEF Destroy, Release
<1>4. CASE \E p \in Process : Crash(p)
  BY <1>4, CrashInv
<1>5. CASE UNCHANGED vars
  <2> USE <1>5 DEF vars, IInv
  <2>1. TypeOK'
    BY DEF TypeOK
  <2>2. ScopesMatchPC' /\ MutexMatchesPC' /\ NameMatchesPC'
    BY DEF ScopesMatchPC, MutexMatchesPC, NameMatchesPC, HasMutex, IsNamed, InScope
  <2>3. FileLockMatchesName' /\ DepthMatchesScopes' /\ StoreMatchesScopes'
    BY DEF FileLockMatchesName, DepthMatchesScopes, StoreMatchesScopes, InScope
  <2>4. NestingMatchesContract' /\ ReadableStore'
    BY DEF NestingMatchesContract, ReadableStore, MayNest, InScope, LastOf
  <2> QED
    BY <2>1, <2>2, <2>3, <2>4
<1> QED
  BY <1>1, <1>2, <1>3, <1>4, <1>5 DEF Next

----------------------------------------------------------------------------
(* The theorems *)

\* The inductive invariant of the lock holds in every reachable state.
THEOREM LockInvariant == Spec => []IInv
  BY InitInv, NextInv, PTL DEF Spec

\* The variables of the lock keep their types.
THEOREM LockTypeOK == Spec => []TypeOK
<1>1. IInv => TypeOK
  BY DEF IInv
<1> QED
  BY <1>1, LockInvariant, PTL

\* At any time at most one thread of all the processes has a store to use.
THEOREM LockExclusive == Spec => []ExclusiveStore
<1>1. ASSUME IInv PROVE ExclusiveStore
  <2> SUFFICES ASSUME NEW t \in Thread, NEW u \in Thread, UsesStore(t), UsesStore(u)
               PROVE  t = u
    BY DEF ExclusiveStore
  <2>1. storeObject[P(t)] # NoDict /\ storeObject[P(u)] # NoDict
    BY <1>1, AllScopesAlike DEF UsesStore
  <2>2. P(t) \in Process /\ P(u) \in Process
    BY LockAssumption DEF P
  <2>3. lockFile = P(t) /\ lockFile = P(u)
    BY <1>1, <2>1, <2>2 DEF IInv, StoreMatchesScopes, FileLockMatchesName
  <2>4. HasMutex(t) /\ HasMutex(u)
    BY DEF UsesStore, HasMutex
  <2> QED
    BY <1>1, <2>3, <2>4, OneHolder
<1> QED
  BY <1>1, LockInvariant, PTL

\* No CHECK of the lock fails, if property lists can be read or callers do not
\* nest scopes inside one whose property list could not be read.
THEOREM LockChecksHold ==
  ASSUME "read" \notin Faults \/ "read" \notin NestAfterFailure
  PROVE  Spec => []ChecksHold
<1>1. ASSUME IInv PROVE ChecksHold
  <2> SUFFICES ASSUME NEW t \in Thread
               PROVE  /\ pc[t] = "wait" /\ recursiveLock[P(t)] = NoThread => CheckNotOwned(t)
                      /\ pc[t] = "locked" => CheckNoFileLock(t)
                      /\ pc[t] = "opened" =>
                           IF fileLock[P(t)] /\ lockDepth[P(t)] > 0 THEN CheckStore(t)
                                                                     ELSE CheckNoStore(t)
                      /\ pc[t] = "client" /\ InScope(t) => CheckDepth(t)
                      /\ pc[t] = "client" /\ InScope(t) /\ lockDepth[P(t)] = 1 =>
                           (LastOf(scopes[t]) = "store" => CheckFileLock(t))
    BY DEF ChecksHold
  <2> USE <1>1
  <2>0. P(t) \in Process
    BY LockAssumption DEF P
  <2>1. pc[t] = "wait" /\ recursiveLock[P(t)] = NoThread => CheckNotOwned(t)
    BY FreeMutex DEF CheckNotOwned
  <2>2. pc[t] = "locked" => CheckNoFileLock(t)
    BY NothingOpen DEF HasMutex, IsNamed, CheckNoFileLock, IInv, ScopesMatchPC
  <2>3. ASSUME pc[t] = "opened", fileLock[P(t)], lockDepth[P(t)] > 0 PROVE CheckStore(t)
    <3>1. lockDepth[P(t)] = Len(scopes[t])
      BY <2>3, Named DEF IsNamed
    <3>2. InScope(t)
      BY <2>3, <3>1, ScopeStack DEF InScope, IInv, TypeOK
    <3>3. MayNest(t)
      BY <2>3, <3>2 DEF IInv, NestingMatchesContract
    <3>4. LastOf(scopes[t]) = "store" \/ "read" \notin Faults
      BY <2>3, <3>3 DEF MayNest
    <3> QED
      BY <2>3, <3>2, <3>4, AllScopesAlike DEF CheckStore, IInv, ReadableStore
  <2>4. ASSUME pc[t] = "opened", ~(fileLock[P(t)] /\ lockDepth[P(t)] > 0)
        PROVE  CheckNoStore(t)
    <3>1. lockingThread[P(t)] = t /\ lockDepth[P(t)] = Len(scopes[t])
      BY <2>4, Named DEF IsNamed
    <3>2. fileLock[P(t)] => ~InScope(t)
      BY <2>4, <3>1, ScopeStack DEF InScope, IInv, TypeOK
    <3> QED
      BY <2>0, <3>1, <3>2 DEF CheckNoStore, IInv, StoreMatchesScopes
  <2>5. ASSUME InScope(t) PROVE CheckDepth(t)
    <3>1. lockDepth[P(t)] = Len(scopes[t])
      BY <2>5, Named DEF IsNamed
    <3> QED
      BY <2>5, <3>1, ScopeStack DEF CheckDepth, InScope, IInv, TypeOK
  <2>6. ASSUME InScope(t), LastOf(scopes[t]) = "store" PROVE CheckFileLock(t)
    BY <2>0, <2>6, AllScopesAlike DEF CheckFileLock, IInv, StoreMatchesScopes
  <2> QED
    BY <2>1, <2>2, <2>3, <2>4, <2>5, <2>6
<1> QED
  BY <1>1, LockInvariant, PTL

\* Nested scopes share one store object or have none.
THEOREM LockSharesStore == Spec => []NestedScopesShareStore
<1>1. ASSUME IInv PROVE NestedScopesShareStore
  <2> SUFFICES ASSUME NEW t \in Thread, NEW i \in DOMAIN scopes[t]
               PROVE  /\ scopes[t][i] = scopes[t][1]
                      /\ scopes[t][i] = "store" <=> storeObject[P(t)] # NoDict
    BY DEF NestedScopesShareStore
  <2>1. scopes[t] \in Seq(Scope) /\ InScope(t) /\ 1 \in DOMAIN scopes[t]
    BY <1>1, ScopeStack DEF IInv, TypeOK, InScope
  <2> QED
    BY <1>1, <2>1, AllScopesAlike DEF IInv, StoreMatchesScopes
<1> QED
  BY <1>1, LockInvariant, PTL

\* A process that is out of the library holds nothing.
THEOREM LockNothingLeft == Spec => []NothingLeftLocked
<1>1. ASSUME IInv PROVE NothingLeftLocked
  <2> SUFFICES ASSUME NEW p \in Process,
                      \A t \in Thread : P(t) = p => pc[t] = "client" /\ ~InScope(t)
               PROVE  /\ recursiveLock[p] = NoThread
                      /\ lockingThread[p] = NoThread
                      /\ lockFile # p /\ ~fileLock[p]
                      /\ lockDepth[p] = 0 /\ storeObject[p] = NoDict
    BY DEF NothingLeftLocked
  <2>1. \A t \in Thread : P(t) = p => ~HasMutex(t) /\ ~IsNamed(t)
    BY DEF HasMutex, IsNamed
  <2>2. recursiveLock[p] = NoThread /\ lockingThread[p] = NoThread
    BY <1>1, <2>1 DEF IInv, TypeOK, MutexMatchesPC, NameMatchesPC
  <2> QED
    BY <1>1, <2>2 DEF IInv, FileLockMatchesName, DepthMatchesScopes, StoreMatchesScopes
<1> QED
  BY <1>1, LockInvariant, PTL

----------------------------------------------------------------------------
(* The lock implements the transactional store. *)

\* A step that touches neither the disk nor a store object is invisible.
LEMMA InvisibleStep ==
  ASSUME UNCHANGED <<lockFile, plist, storeObject>>
  PROVE  UNCHANGED Abstract!vars
  BY DEF Abstract!vars, HasStore

\* The process of a thread with an open store is the owner.
LEMMA OwnerOfStore ==
  ASSUME IInv, NEW t \in Thread, storeObject[P(t)] # NoDict
  PROVE  /\ HasStore
         /\ lockFile = P(t)
         /\ P(t) \in Process
<1>1. P(t) \in Process
  BY LockAssumption DEF P
<1> QED
  BY <1>1 DEF IInv, StoreMatchesScopes, FileLockMatchesName, HasStore

\* The outermost scope begins a transaction.
LEMMA OpenBegins ==
  ASSUME IInv, NEW t \in Thread, OpenOutermost(t)
  PROVE  Abstract!Begin(P(t))
<1>1. P(t) \in Process /\ lockFile = P(t) /\ storeObject[P(t)] = NoDict
  BY LockAssumption
     DEF P, OpenOutermost, OpensOutermost, CheckNoStore, IInv, FileLockMatchesName
<1>2. plist' = (IF plist = Missing THEN EmptyDict ELSE plist) /\ plist' \in Dict
  BY LockAssumption DEF OpenOutermost, OpensOutermost, CreatePlist, IInv, TypeOK
<1>3. storeObject'[P(t)] = plist' /\ lockFile' = lockFile
  BY <1>1 DEF OpenOutermost, OpensOutermost, IInv, TypeOK
<1>4. ~HasStore /\ HasStore' /\ plist' # Missing
  BY <1>1, <1>2, <1>3, LockAssumption DEF HasStore
<1> QED
  BY <1>1, <1>2, <1>3, <1>4 DEF Abstract!Begin

\* A setter works on the owner's copy.
LEMMA UseUpdates ==
  ASSUME IInv, NEW t \in Thread, UseStore(t)
  PROVE  Abstract!Update(P(t))
<1>1. storeObject[P(t)] # NoDict
  BY AllScopesAlike DEF UseStore
<1>2. HasStore /\ lockFile = P(t) /\ P(t) \in Process
  BY <1>1, OwnerOfStore
<1>3. PICK d \in Dict : storeObject' = [storeObject EXCEPT ![P(t)] = d]
  BY DEF UseStore
<1>4. storeObject'[P(t)] = d /\ d # NoDict
  BY <1>2, <1>3, LockAssumption DEF IInv, TypeOK
<1>5. lockFile' = lockFile /\ plist' = plist
  BY DEF UseStore, diskVars
<1>6. HasStore'
  BY <1>2, <1>4, <1>5 DEF HasStore
<1> QED
  BY <1>2, <1>4, <1>5, <1>6 DEF Abstract!Update

\* The outermost scope ends it, and loses it only if the write fails.
LEMMA CloseEnds ==
  ASSUME IInv, NEW t \in Thread, CloseOutermost(t)
  PROVE  Abstract!Commit(P(t)) \/ Abstract!Lose(P(t))
<1>1. storeObject[P(t)] # NoDict
  BY AllScopesAlike DEF CloseOutermost
<1>2. HasStore /\ lockFile = P(t) /\ P(t) \in Process
  BY <1>1, OwnerOfStore
<1>3. storeObject'[P(t)] = NoDict /\ lockFile' = lockFile
  BY <1>2 DEF CloseOutermost, IInv, TypeOK
<1>4. ~HasStore'
  BY <1>2, <1>3 DEF HasStore
<1>5. Abstract!End(P(t))
  BY <1>2, <1>4 DEF Abstract!End
<1>6. storeObject[P(t)] # Missing
  BY <1>1, <1>2, LockAssumption DEF IInv, TypeOK
<1>7. CASE plist' = storeObject[P(t)]
  BY <1>2, <1>5, <1>6, <1>7 DEF Abstract!Commit
<1>8. CASE "write" \in Faults /\ UNCHANGED plist
  BY <1>5, <1>8 DEF Abstract!Lose
<1> QED
  BY <1>7, <1>8 DEF CloseOutermost

\* The lock file comes before the store and goes after it.
LEMMA FileLockSteps ==
  ASSUME IInv, NEW t \in Thread, GetFileLock(t) \/ ReleaseFileLock(t)
  PROVE  UNCHANGED Abstract!vars
<1>1. IsNamed(t) /\ scopes[t] = <<>> /\ P(t) \in Process
  BY LockAssumption DEF IInv, ScopesMatchPC, InScope, IsNamed, GetFileLock, ReleaseFileLock, P
<1>2. storeObject[P(t)] = NoDict
  BY <1>1, Named DEF IInv, StoreMatchesScopes, InScope
<1>3. storeObject' = storeObject /\ plist' = plist
  BY DEF GetFileLock, ReleaseFileLock
<1>4. lockFile' = lockFile \/ {lockFile, lockFile'} = {NoProcess, P(t)}
  BY <1>1 DEF GetFileLock, ReleaseFileLock, IInv, FileLockMatchesName
<1>5. lockFile' = lockFile \/ (~HasStore /\ ~HasStore')
  BY <1>2, <1>3, <1>4, LockAssumption DEF HasStore
<1> QED
  BY <1>3, <1>5, InvisibleStep DEF Abstract!vars

\* A property list that cannot be read may still have been created.
LEMMA UnreadableStep ==
  ASSUME IInv, NEW t \in Thread, OpenUnreadable(t)
  PROVE  UNCHANGED Abstract!vars
<1>1. /\ plist' = (IF plist = Missing THEN EmptyDict ELSE plist)
      /\ storeObject' = storeObject /\ lockFile' = lockFile
  BY DEF OpenUnreadable, OpensOutermost, CreatePlist
<1>2. EmptyDict # Missing
  BY LockAssumption
<1> QED
  BY <1>1, <1>2 DEF Abstract!vars, HasStore

\* A crash loses the working copy of the process, if it had one.
LEMMA CrashLoses ==
  ASSUME IInv, NEW p \in Process, Crash(p)
  PROVE  Abstract!Lose(p) \/ UNCHANGED Abstract!vars
<1>1. /\ storeObject' = [storeObject EXCEPT ![p] = NoDict]
      /\ lockFile' = (IF lockFile = p THEN Stale ELSE lockFile)
      /\ plist' = plist
      /\ "crash" \in Faults
  BY DEF Crash
<1>2. storeObject \in [Process -> Dict \cup {NoDict}]
  BY DEF IInv, TypeOK
<1>3. CASE lockFile = p /\ HasStore
  <2>1. ~HasStore'
    BY <1>1, <1>3, LockAssumption DEF HasStore
  <2>2. Abstract!End(p)
    BY <1>3, <2>1 DEF Abstract!End
  <2> QED
    BY <1>1, <2>2 DEF Abstract!Lose
<1>4. CASE lockFile = p /\ ~HasStore
  <2>1. ~HasStore'
    BY <1>1, <1>4, LockAssumption DEF HasStore
  <2> QED
    BY <1>1, <1>4, <2>1 DEF Abstract!vars
<1>5. CASE lockFile # p
  <2>1. lockFile' = lockFile /\ \A q \in Process \ {p} : storeObject'[q] = storeObject[q]
    BY <1>1, <1>2, <1>5
  <2>2. HasStore' <=> HasStore
    BY <1>5, <2>1 DEF HasStore
  <2>3. HasStore => storeObject'[lockFile] = storeObject[lockFile]
    BY <1>5, <2>1 DEF HasStore
  <2> QED
    BY <1>1, <2>1, <2>2, <2>3 DEF Abstract!vars
<1> QED
  BY <1>3, <1>4, <1>5

LEMMA StepRefines == IInv /\ [Next]_vars => [Abstract!Next]_(Abstract!vars)
<1> SUFFICES ASSUME IInv, [Next]_vars
             PROVE  Abstract!Next \/ UNCHANGED Abstract!vars
  OBVIOUS
<1>0. \A t \in Thread : P(t) \in Process
  BY LockAssumption DEF P
<1>1. ASSUME NEW t \in Thread, Acquire(t)
      PROVE  UNCHANGED Abstract!vars
  <2>1. CASE GetFileLock(t)
    BY <2>1, FileLockSteps
  <2>2. CASE ~GetFileLock(t)
    <3>1. UNCHANGED <<lockFile, plist, storeObject>>
      BY <1>1, <2>2
         DEF Acquire, TryLockFree, TryLockBusy, CompareThread, LockMutex, OwnMutex,
             Reenter, RetryFileLock, GiveUpFileLock, processVars, diskVars
    <3> QED
      BY <3>1, InvisibleStep
  <2> QED
    BY <2>1, <2>2
<1>2. ASSUME NEW t \in Thread, Construct(t) \/ UseStore(t)
      PROVE  Abstract!Next \/ UNCHANGED Abstract!vars
  <2>1. CASE OpenWithoutLock(t) \/ OpenNested(t)
    <3>1. UNCHANGED <<lockFile, plist, storeObject>>
      BY <2>1 DEF OpenWithoutLock, OpenNested, diskVars
    <3> QED
      BY <3>1, InvisibleStep
  <2>2. CASE OpenOutermost(t)
    BY <1>0, <2>2, OpenBegins DEF Abstract!Next
  <2>3. CASE OpenUnreadable(t)
    BY <2>3, UnreadableStep
  <2>4. CASE UseStore(t)
    BY <1>0, <2>4, UseUpdates DEF Abstract!Next
  <2> QED
    BY <1>2, <2>1, <2>2, <2>3, <2>4 DEF Construct
<1>3. ASSUME NEW t \in Thread, Destroy(t) \/ Release(t)
      PROVE  Abstract!Next \/ UNCHANGED Abstract!vars
  <2>1. CASE CloseOutermost(t)
    BY <1>0, <2>1, CloseEnds DEF Abstract!Next
  <2>2. CASE ReleaseFileLock(t)
    BY <2>2, FileLockSteps
  <2>3. CASE CloseNested(t) \/ CloseWithoutStore(t) \/ DisownMutex(t) \/ UnlockMutex(t)
    <3>1. UNCHANGED <<lockFile, plist, storeObject>>
      BY <2>3 DEF CloseNested, CloseWithoutStore, DisownMutex, UnlockMutex, diskVars
    <3> QED
      BY <3>1, InvisibleStep
  <2> QED
    BY <1>3, <2>1, <2>2, <2>3 DEF Destroy, Release
<1>4. ASSUME NEW p \in Process, Crash(p)
      PROVE  Abstract!Next \/ UNCHANGED Abstract!vars
  BY <1>4, CrashLoses DEF Abstract!Next
<1>5. CASE UNCHANGED vars
  BY <1>5, InvisibleStep DEF vars
<1> QED
  BY <1>1, <1>2, <1>3, <1>4, <1>5 DEF Next

\* Every behaviour of the lock is one of the transactional store: one owner at
\* a time, and the disk gets all of a scope or, after a fault, nothing of it.
THEOREM LockImplementsTransactions == Spec => AbstractSpec
<1>1. Init => Abstract!Init
  BY LockAssumption DEF Init, Abstract!Init, HasStore
<1> QED
  BY <1>1, StepRefines, LockInvariant, PTL DEF Spec, AbstractSpec, Abstract!Spec
=============================================================================
