---------------------------- MODULE MacStoreLock ----------------------------
(***************************************************************************)
(* ScopedRlzValueStoreLock on the Mac: a cross-process lock that one       *)
(* thread may take again while it holds it, emulated by a non-recursive    *)
(* pthread mutex, the id of the thread that holds it and a lock file.  The *)
(* data is read from the property list when the outermost scope opens and  *)
(* written back when it closes.                                            *)
(*                                                                         *)
(* Threads interleave between any two steps of the lock; a process may die *)
(* at any point; reads and writes of the property list may fail.           *)
(***************************************************************************)
EXTENDS Naturals, Sequences

CONSTANTS Process,            \* processes that link the library
          Thread,             \* threads of all of them
          ProcessOf,          \* the process of each thread
          NoProcess, NoThread,
          Stale,              \* the lock file of a process that died
          Dict,               \* contents of the property list
          EmptyDict,          \* an empty property list
          NoDict,             \* a NULL g_store_object
          Missing,            \* no property list on disk yet
          MaxTries,           \* sleeps before tryLock gives up (25 in the code)
          MaxNesting,         \* bound on nested scopes of one thread
          Faults,             \* what may go wrong: "crash", "read", "write"
          NestAfterFailure    \* failures after which callers still nest scopes

ASSUME LockAssumption ==
  /\ ProcessOf \in [Thread -> Process]
  /\ NoProcess \notin Process
  /\ Stale \notin Process \cup {NoProcess}
  /\ NoThread \notin Thread
  /\ EmptyDict \in Dict
  /\ NoDict \notin Dict
  /\ Missing \notin Dict
  /\ MaxTries \in Nat
  /\ MaxNesting \in Nat
  /\ Faults \subseteq {"crash", "read", "write"}
  /\ NestAfterFailure \subseteq {"lock", "read"}

VARIABLES
  recursiveLock,  \* recursive_lock_ of a process: the thread that holds it
  lockingThread,  \* locking_thread_
  fileLock,       \* file_lock_ is not nil
  lockFile,       \* the lock file on disk: who created it
  lockDepth,      \* g_lock_depth
  storeObject,    \* the dictionary of g_store_object, or NoDict
  plist,          \* RlzStore.plist
  pc,             \* where a thread is
  tries,          \* elapsedMS / kSleepPerTryMS in the tryLock loop
  scopes          \* the thread's live scopes, outermost first: store_ or NULL

vars == <<recursiveLock, lockingThread, fileLock, lockFile, lockDepth,
          storeObject, plist, pc, tries, scopes>>

processVars == <<recursiveLock, lockingThread, fileLock, lockDepth, storeObject>>
diskVars == <<lockFile, plist>>

PC == {"client",   \* in code that uses the library, in or out of a scope
       "compare",  \* trylock returned EBUSY
       "wait",     \* in pthread_mutex_lock
       "locked",   \* holds the mutex, about to write locking_thread_
       "reenter",  \* already held the mutex, about to write locking_thread_
       "file",     \* in the tryLock loop
       "opened",   \* TryGetCrossProcessLock returned
       "release",  \* at the top of ReleaseLock
       "disown",   \* about to zero locking_thread_
       "unlock"}   \* about to unlock the mutex

P(t) == ProcessOf[t]
InScope(t) == scopes[t] # <<>>
LastOf(s) == s[Len(s)]

GoTo(t, label) == pc' = [pc EXCEPT ![t] = label]
Push(t, s) == scopes' = [scopes EXCEPT ![t] = Append(@, s)]
Pop(t) == scopes' = [scopes EXCEPT ![t] = SubSeq(@, 1, Len(@) - 1)]

Init == /\ recursiveLock = [p \in Process |-> NoThread]
        /\ lockingThread = [p \in Process |-> NoThread]
        /\ fileLock = [p \in Process |-> FALSE]
        /\ lockFile = NoProcess
        /\ lockDepth = [p \in Process |-> 0]
        /\ storeObject = [p \in Process |-> NoDict]
        /\ plist = Missing
        /\ pc = [t \in Thread |-> "client"]
        /\ tries = [t \in Thread |-> 0]
        /\ scopes = [t \in Thread |-> <<>>]

----------------------------------------------------------------------------
(* TryGetCrossProcessLock *)

\* A caller inside a scope whose GetStore() returned NULL should return at once;
\* SupplementaryBranding does not, and its callers nest scopes all the same.
MayNest(t) ==
  \/ LastOf(scopes[t]) = "store"
  \/ ~fileLock[P(t)] /\ "lock" \in NestAfterFailure
  \/ fileLock[P(t)] /\ "read" \in NestAfterFailure

\* The program is about to construct one more scope on thread t.
Constructs(t) == /\ pc[t] = "client"
                 /\ Len(scopes[t]) < MaxNesting
                 /\ InScope(t) => MayNest(t)

\* pthread_mutex_trylock takes a free mutex.
TryLockFree(t) ==
  /\ Constructs(t)
  /\ recursiveLock[P(t)] = NoThread
  /\ recursiveLock' = [recursiveLock EXCEPT ![P(t)] = t]
  /\ GoTo(t, "locked")
  /\ UNCHANGED <<lockingThread, fileLock, lockDepth, storeObject, diskVars,
                 tries, scopes>>

\* pthread_mutex_trylock returns EBUSY.
TryLockBusy(t) ==
  /\ Constructs(t)
  /\ recursiveLock[P(t)] # NoThread
  /\ GoTo(t, "compare")
  /\ UNCHANGED <<processVars, diskVars, tries, scopes>>

\* Reads locking_thread_ without holding the mutex that its writers hold.
CompareThread(t) ==
  /\ pc[t] = "compare"
  /\ GoTo(t, IF lockingThread[P(t)] = t THEN "reenter" ELSE "wait")
  /\ UNCHANGED <<processVars, diskVars, tries, scopes>>

\* CHECK(locking_thread_ == 0), evaluated as soon as the wait is over.
CheckNotOwned(t) == lockingThread[P(t)] = NoThread

\* pthread_mutex_lock returns.
LockMutex(t) ==
  /\ pc[t] = "wait"
  /\ recursiveLock[P(t)] = NoThread
  /\ CheckNotOwned(t)
  /\ recursiveLock' = [recursiveLock EXCEPT ![P(t)] = t]
  /\ GoTo(t, "locked")
  /\ UNCHANGED <<lockingThread, fileLock, lockDepth, storeObject, diskVars,
                 tries, scopes>>

\* CHECK(!file_lock_)
CheckNoFileLock(t) == ~fileLock[P(t)]

\* locking_thread_ = pthread_self() by the thread that just got the mutex.
OwnMutex(t) ==
  /\ pc[t] = "locked"
  /\ CheckNoFileLock(t)
  /\ lockingThread' = [lockingThread EXCEPT ![P(t)] = t]
  /\ GoTo(t, "file")
  /\ tries' = [tries EXCEPT ![t] = 0]
  /\ UNCHANGED <<recursiveLock, fileLock, lockDepth, storeObject, diskVars, scopes>>

\* The same assignment in the recursive case, which takes no other lock.
Reenter(t) ==
  /\ pc[t] = "reenter"
  /\ lockingThread' = [lockingThread EXCEPT ![P(t)] = t]
  /\ GoTo(t, "opened")
  /\ UNCHANGED <<recursiveLock, fileLock, lockDepth, storeObject, diskVars,
                 tries, scopes>>

\* Bug: the result of tryLock is not looked at.
GetFileLockAnyway(t) ==
  /\ pc[t] = "file"
  /\ lockFile' = P(t)
  /\ fileLock' = [fileLock EXCEPT ![P(t)] = TRUE]
  /\ GoTo(t, "opened")
  /\ UNCHANGED <<recursiveLock, lockingThread, lockDepth, storeObject, plist,
                 tries, scopes>>

\* [file_lock_ tryLock] succeeds.
GetFileLock(t) ==
  /\ pc[t] = "file"
  /\ lockFile = NoProcess
  /\ lockFile' = P(t)
  /\ fileLock' = [fileLock EXCEPT ![P(t)] = TRUE]
  /\ GoTo(t, "opened")
  /\ UNCHANGED <<recursiveLock, lockingThread, lockDepth, storeObject, plist,
                 tries, scopes>>

\* Bug: the loop does not count the time it sleeps.
RetryForEver(t) ==
  /\ pc[t] = "file"
  /\ lockFile # NoProcess
  /\ tries[t] < MaxTries
  /\ UNCHANGED vars

\* tryLock fails and the loop sleeps.
RetryFileLock(t) ==
  /\ pc[t] = "file"
  /\ lockFile # NoProcess
  /\ tries[t] < MaxTries
  /\ tries' = [tries EXCEPT ![t] = @ + 1]
  /\ UNCHANGED <<processVars, diskVars, pc, scopes>>

\* tryLock fails after the time-out: file_lock_ is nil again, the mutex stays.
GiveUpFileLock(t) ==
  /\ pc[t] = "file"
  /\ lockFile # NoProcess
  /\ tries[t] = MaxTries
  /\ GoTo(t, "opened")
  /\ UNCHANGED <<processVars, diskVars, tries, scopes>>

----------------------------------------------------------------------------
(* The rest of the constructor, and the operations of the store *)

CheckNoStore(t) == storeObject[P(t)] = NoDict
CheckStore(t) == storeObject[P(t)] # NoDict

Deeper(t) == lockDepth' = [lockDepth EXCEPT ![P(t)] = @ + 1]

\* No cross-process lock: store_ stays NULL.
OpenWithoutLock(t) ==
  /\ pc[t] = "opened"
  /\ ~fileLock[P(t)]
  /\ CheckNoStore(t)
  /\ Deeper(t)
  /\ Push(t, "null")
  /\ GoTo(t, "client")
  /\ UNCHANGED <<recursiveLock, lockingThread, fileLock, storeObject, diskVars, tries>>

\* A nested scope shares the store object of the outermost one.
OpenNested(t) ==
  /\ pc[t] = "opened"
  /\ fileLock[P(t)]
  /\ lockDepth[P(t)] > 0
  /\ CheckStore(t)
  /\ Deeper(t)
  /\ Push(t, "store")
  /\ GoTo(t, "client")
  /\ UNCHANGED <<recursiveLock, lockingThread, fileLock, storeObject, diskVars, tries>>

\* The outermost scope creates the property list if there is none.
CreatePlist == plist' = IF plist = Missing THEN EmptyDict ELSE plist

OpensOutermost(t) ==
  /\ pc[t] = "opened"
  /\ fileLock[P(t)]
  /\ lockDepth[P(t)] = 0
  /\ CheckNoStore(t)
  /\ Deeper(t)
  /\ CreatePlist
  /\ GoTo(t, "client")
  /\ UNCHANGED <<recursiveLock, lockingThread, fileLock, lockFile, tries>>

OpenOutermost(t) ==
  /\ OpensOutermost(t)
  /\ storeObject' = [storeObject EXCEPT ![P(t)] = plist']
  /\ Push(t, "store")

\* dictionaryWithContentsOfFile returns nil: the lock is held without a store.
OpenUnreadable(t) ==
  /\ "read" \in Faults
  /\ OpensOutermost(t)
  /\ Push(t, "null")
  /\ UNCHANGED storeObject

\* Bug: a setter writes the property list at once.
UseStoreAndSave(t) ==
  /\ pc[t] = "client"
  /\ InScope(t)
  /\ LastOf(scopes[t]) = "store"
  /\ \E d \in Dict : /\ storeObject' = [storeObject EXCEPT ![P(t)] = d]
                    /\ plist' = d
  /\ UNCHANGED <<recursiveLock, lockingThread, fileLock, lockDepth, lockFile,
                 pc, tries, scopes>>

\* A setter of RlzValueStoreMac, called on a store that GetStore() returned.
UseStore(t) ==
  /\ pc[t] = "client"
  /\ InScope(t)
  /\ LastOf(scopes[t]) = "store"
  /\ \E d \in Dict : storeObject' = [storeObject EXCEPT ![P(t)] = d]
  /\ UNCHANGED <<recursiveLock, lockingThread, fileLock, lockDepth, diskVars,
                 pc, tries, scopes>>

----------------------------------------------------------------------------
(* The destructor and ReleaseLock *)

\* Bug: the nested and the outermost path both count down.
ShallowerTwice(t) == lockDepth' = [lockDepth EXCEPT ![P(t)] = @ - 2]

Shallower(t) == lockDepth' = [lockDepth EXCEPT ![P(t)] = @ - 1]

\* CHECK(g_lock_depth >= 0) after the decrement.
CheckDepth(t) == lockDepth[P(t)] > 0

\* Bug: the nested scope's scoped_ptr still owns the store and deletes it.
CloseNestedAndDelete(t) ==
  /\ pc[t] = "client"
  /\ InScope(t)
  /\ lockDepth[P(t)] > 1
  /\ Shallower(t)
  /\ Pop(t)
  /\ storeObject' = [storeObject EXCEPT ![P(t)] = NoDict]
  /\ UNCHANGED <<recursiveLock, lockingThread, fileLock, diskVars, pc, tries>>

CloseNested(t) ==
  /\ pc[t] = "client"
  /\ InScope(t)
  /\ lockDepth[P(t)] > 1
  /\ Shallower(t)
  /\ Pop(t)
  /\ UNCHANGED <<recursiveLock, lockingThread, fileLock, storeObject, diskVars,
                 pc, tries>>

\* Bug: returns before ReleaseLock when there is no store to write.
CloseWithoutRelease(t) ==
  /\ pc[t] = "client"
  /\ InScope(t)
  /\ lockDepth[P(t)] = 1
  /\ LastOf(scopes[t]) = "null"
  /\ Shallower(t)
  /\ Pop(t)
  /\ UNCHANGED <<recursiveLock, lockingThread, fileLock, storeObject, diskVars,
                 pc, tries>>

\* The outermost scope without a store: there is nothing to write.
CloseWithoutStore(t) ==
  /\ pc[t] = "client"
  /\ InScope(t)
  /\ lockDepth[P(t)] = 1
  /\ LastOf(scopes[t]) = "null"
  /\ Shallower(t)
  /\ Pop(t)
  /\ GoTo(t, "release")
  /\ UNCHANGED <<recursiveLock, lockingThread, fileLock, storeObject, diskVars, tries>>

\* CHECK(g_recursive_lock.file_lock_) when store_ is set.
CheckFileLock(t) == fileLock[P(t)]

\* The outermost scope with a store writes the whole dictionary; the result of
\* the write is only VERIFYed, which does nothing in a release build.
CloseOutermost(t) ==
  /\ pc[t] = "client"
  /\ InScope(t)
  /\ lockDepth[P(t)] = 1
  /\ LastOf(scopes[t]) = "store"
  /\ CheckFileLock(t)
  /\ Shallower(t)
  /\ Pop(t)
  /\ storeObject' = [storeObject EXCEPT ![P(t)] = NoDict]
  /\ \/ plist' = storeObject[P(t)]
     \/ "write" \in Faults /\ UNCHANGED plist
  /\ GoTo(t, "release")
  /\ UNCHANGED <<recursiveLock, lockingThread, fileLock, lockFile, tries>>

ReleaseFileLock(t) ==
  /\ pc[t] = "release"
  /\ fileLock' = [fileLock EXCEPT ![P(t)] = FALSE]
  /\ lockFile' = IF fileLock[P(t)] THEN NoProcess ELSE lockFile
  /\ GoTo(t, "disown")
  /\ UNCHANGED <<recursiveLock, lockingThread, lockDepth, storeObject, plist,
                 tries, scopes>>

\* Bug: unlocks the mutex before locking_thread_ is zeroed.
UnlockBeforeDisown(t) ==
  /\ pc[t] = "disown"
  /\ recursiveLock' = [recursiveLock EXCEPT ![P(t)] = NoThread]
  /\ GoTo(t, "unlock")
  /\ UNCHANGED <<lockingThread, fileLock, lockDepth, storeObject, diskVars,
                 tries, scopes>>

DisownMutex(t) ==
  /\ pc[t] = "disown"
  /\ lockingThread' = [lockingThread EXCEPT ![P(t)] = NoThread]
  /\ GoTo(t, "unlock")
  /\ UNCHANGED <<recursiveLock, fileLock, lockDepth, storeObject, diskVars,
                 tries, scopes>>

UnlockMutex(t) ==
  /\ pc[t] = "unlock"
  /\ recursiveLock' = [recursiveLock EXCEPT ![P(t)] = NoThread]
  /\ GoTo(t, "client")
  /\ UNCHANGED <<lockingThread, fileLock, lockDepth, storeObject, diskVars,
                 tries, scopes>>

\* A process dies and is started again.  Its memory is gone, its lock file is
\* not: nothing in the library calls breakLock.
Crash(p) ==
  /\ "crash" \in Faults
  /\ recursiveLock' = [recursiveLock EXCEPT ![p] = NoThread]
  /\ lockingThread' = [lockingThread EXCEPT ![p] = NoThread]
  /\ fileLock' = [fileLock EXCEPT ![p] = FALSE]
  /\ lockFile' = IF lockFile = p THEN Stale ELSE lockFile
  /\ lockDepth' = [lockDepth EXCEPT ![p] = 0]
  /\ storeObject' = [storeObject EXCEPT ![p] = NoDict]
  /\ pc' = [t \in Thread |-> IF P(t) = p THEN "client" ELSE pc[t]]
  /\ scopes' = [t \in Thread |-> IF P(t) = p THEN <<>> ELSE scopes[t]]
  /\ UNCHANGED <<plist, tries>>

----------------------------------------------------------------------------

Acquire(t) == \/ TryLockFree(t) \/ TryLockBusy(t) \/ CompareThread(t)
              \/ LockMutex(t) \/ OwnMutex(t) \/ Reenter(t)
              \/ GetFileLock(t) \/ RetryFileLock(t) \/ GiveUpFileLock(t)

Construct(t) == \/ OpenWithoutLock(t) \/ OpenNested(t)
                \/ OpenOutermost(t) \/ OpenUnreadable(t)

Destroy(t) == CloseNested(t) \/ CloseWithoutStore(t) \/ CloseOutermost(t)

Release(t) == ReleaseFileLock(t) \/ DisownMutex(t) \/ UnlockMutex(t)

Next == \/ \E t \in Thread :
             Acquire(t) \/ Construct(t) \/ UseStore(t) \/ Destroy(t) \/ Release(t)
        \/ \E p \in Process : Crash(p)

Spec == Init /\ [][Next]_vars

\* The steps of a thread inside the library are never put off for ever, a
\* pthread mutex that is free again and again is handed over at some time, and
\* a caller leaves every scope it enters (the scopes live on its stack).  The
\* mutex and the outermost scope may share one assumption, which is less than
\* one for each: a thread that waits for the mutex has no scope to leave.
OwnStep(t) == \/ CompareThread(t) \/ OwnMutex(t) \/ Reenter(t)
              \/ GetFileLock(t) \/ RetryFileLock(t) \/ GiveUpFileLock(t)
              \/ Construct(t) \/ Release(t)

LeaveScope(t, depth) == Len(scopes[t]) = depth /\ Destroy(t)

Fairness ==
  \A t \in Thread :
    /\ WF_vars(OwnStep(t))
    /\ SF_vars(LockMutex(t) \/ LeaveScope(t, 1))
    /\ \A depth \in 2..MaxNesting : SF_vars(LeaveScope(t, depth))

FairSpec == Spec /\ Fairness

----------------------------------------------------------------------------
(* Properties *)

Scope == {"store", "null"}

TypeOK ==
  /\ recursiveLock \in [Process -> Thread \cup {NoThread}]
  /\ lockingThread \in [Process -> Thread \cup {NoThread}]
  /\ fileLock \in [Process -> BOOLEAN]
  /\ lockFile \in Process \cup {NoProcess, Stale}
  /\ lockDepth \in [Process -> Nat]
  /\ storeObject \in [Process -> Dict \cup {NoDict}]
  /\ plist \in Dict \cup {Missing}
  /\ pc \in [Thread -> PC]
  /\ tries \in [Thread -> Nat]
  /\ scopes \in [Thread -> Seq(Scope)]

\* "All methods of RlzValueStore must stays consistent even when accessed from
\* multiple threads in multiple processes" (rlz_value_store.h:75): of all the
\* threads of all the processes, one at a time has a scope that gives a store.
UsesStore(t) == InScope(t) /\ LastOf(scopes[t]) = "store"

ExclusiveStore == \A t, u \in Thread : UsesStore(t) /\ UsesStore(u) => t = u

\* No CHECK of the lock, the constructor or the destructor aborts the program,
\* whatever the threads and the other processes do in between.
ChecksHold ==
  \A t \in Thread :
    /\ pc[t] = "wait" /\ recursiveLock[P(t)] = NoThread => CheckNotOwned(t)
    /\ pc[t] = "locked" => CheckNoFileLock(t)
    /\ pc[t] = "opened" =>
         IF fileLock[P(t)] /\ lockDepth[P(t)] > 0 THEN CheckStore(t)
                                                   ELSE CheckNoStore(t)
    /\ pc[t] = "client" /\ InScope(t) => CheckDepth(t)
    /\ pc[t] = "client" /\ InScope(t) /\ lockDepth[P(t)] = 1 =>
         (LastOf(scopes[t]) = "store" => CheckFileLock(t))

\* "if several ScopedRlzValueStoreLocks are nested, they all need to use the
\* same store object" (rlz_value_store_mac.mm:307): either every live scope of
\* a thread has the store or none has, and the store lives as long as they do.
NestedScopesShareStore ==
  \A t \in Thread : \A i \in DOMAIN scopes[t] :
    /\ scopes[t][i] = scopes[t][1]
    /\ scopes[t][i] = "store" <=> storeObject[P(t)] # NoDict

\* ReleaseLock "should always be called, even if TryGetCrossProcessLock()
\* returns false": a process none of whose threads is in the library or in a
\* scope holds no lock of either kind, after failed acquisitions too.
NothingLeftLocked ==
  \A p \in Process :
    (\A t \in Thread : P(t) = p => pc[t] = "client" /\ ~InScope(t))
    => /\ recursiveLock[p] = NoThread
       /\ lockingThread[p] = NoThread
       /\ lockFile # p /\ ~fileLock[p]
       /\ lockDepth[p] = 0 /\ storeObject[p] = NoDict

\* A property list changes only when the outermost scope of the process that
\* holds the lock file closes, and then to all of what was written in it; the
\* first scope ever creates an empty one.
HasStore == lockFile \in Process /\ storeObject[lockFile] # NoDict

Abstract == INSTANCE TransactionalStore WITH
  value <- IF plist = Missing THEN EmptyDict ELSE plist,
  owner <- IF HasStore THEN lockFile ELSE NoProcess,
  working <- IF HasStore THEN storeObject[lockFile] ELSE NoDict,
  MayLose <- Faults \cap {"crash", "write"} # {}

AbstractSpec == Abstract!Spec

\* A thread that starts to construct or to destroy a scope comes back, with a
\* store or without: neither the mutex nor a lock file left by a crash hangs it.
ConstructorReturns == \A t \in Thread : []<>(pc[t] = "client")
=============================================================================
