# RLZ in TLA+

TLA+ models of the RLZ library (`src/`): the cross-process store lock on the
Mac and on Windows, the value stores behind them and the calls that use them,
the financial ping, the parser of its answer with the machine's deal code, the
machine's id and its key in the registry. TLC checks the models on small
instances; TLAPS proves the invariants and the two refinements for all values
of the constants.

## The system

The library keeps a little data for each product (events to report, events
declared stateful, the time of the last ping) and for each access point (an
RLZ string). Any number of threads of any number of processes use it. There is
no server process and no background thread: everything happens in calls.

| Component | State | Operations | What makes it correct |
|---|---|---|---|
| Mac store lock (`mac/lib/rlz_value_store_mac.mm`) | pthread mutex, `locking_thread_`, `file_lock_`, lock file, `g_lock_depth`, `g_store_object`, property list | constructor and destructor of `ScopedRlzValueStoreLock` | one user at a time; a thread may nest; no CHECK fails; data of a scope saved as a whole; nothing left locked; constructor returns |
| Mac value store (same file) | a dictionary of dictionaries | get, set and clear by product and brand | keeps brands, products and access points apart |
| Windows store lock (`win/lib/lib_mutex.cc`) | named kernel mutex, `acquired_` | `LibMutex` and the scope over it | exclusion despite time-outs and dead owners |
| Registry value store (`win/lib/rlz_value_store_registry.cc`) | registry keys, by brand | get, set and clear; collection of empty keys; every write is on disk at once | the same; an uninstallation leaves none of the keys it looks at empty, and touches nobody else's |
| Supplementary branding (`lib/rlz_lib_clear.cc`) | `g_supplemental_branding` of the process | constructor, destructor, `GetBrand` | calls in its lifetime, and only those, use the brand |
| Events and RLZs (`lib/rlz_lib.cc`) | in the store | record, clear, list, set | stateful events are not recorded again |
| Clearing (`lib/rlz_lib_clear.cc`) | in the store | `ClearAllProductEvents`, `ClearProductState` | all that a product has goes, and nothing else; may be cut short and repeated; harmless in the middle of a ping |
| Financial ping (`lib/financial_ping.cc`, `lib/rlz_lib.cc`) | ping time in the store; request and answer as locals | form, check time, note time, ping, parse; whole or in parts | no event lost, none reported twice, rate limits, progress |
| Ping response (`lib/rlz_lib.cc`) | in the store | `IsPingResponseValid`, `ParsePingResponse` | a valid message is applied in full, another one not at all; a process that dies meanwhile does no lasting damage |
| Machine deal code (`win/lib/machine_deal.cc`) | one value in HKLM | set, clear, get, confirm from an answer | a code is replaced only by an answer that knows it |
| Machine state (`win/lib/rlz_lib_win.cc`) | the access control list of the machine's key | `HasAccess`, `CreateMachineState` | all users can write the deal code |
| Machine id (`lib/machine_id.cc`, `win`, `mac`) | the id the process has computed | `GetMachineId` | identifies the machine, with a checksum |
| CRC-8, hexadecimal strings (`lib/crc8.cc`, `lib/string_utils.cc`) | none | pure functions | the table is the polynomial's; what is written can be read |
| Names, registry helpers, process information, exports | none | tables, calls of Windows | - |

How they interact: every operation takes a store lock for its own duration. An
operation that calls another nests a scope, and all scopes of a thread share
one store object. A ping is a sequence of such operations with the lock free
between them, so other clients and the application come in between. A
supplementary branding holds the lock for its whole lifetime and lets the
calls in it nest.

The hard behaviours: threads meeting in the emulated recursive lock, scopes
nested in a scope that has no store, a process that dies with a lock, time-outs
of the lock, steps of a ping that look at a store that has changed since the
step before, a failed or unanswered ping, a clock that is set back, answers
with lines in any order, a process that dies between two writes to the
registry, a deal code compared in one lock scope and written in another.
`PROJECT.json` lists them under "hazards", each with
its line and the properties that are about it.

## The modules

### MacStoreLock

One action for every step of `TryGetCrossProcessLock`, of the constructor and
destructor of the scope, and of `ReleaseLock` that another thread or process
can see. `recursiveLock`, `lockingThread`, `fileLock`, `lockDepth` and
`storeObject` are the globals of a process; `lockFile` and `plist` are on disk;
`pc`, `tries` and `scopes` belong to a thread.

- The comparison of `locking_thread_` with the own thread (`CompareThread`)
  reads it without the mutex, in a step apart from the trylock. Threads are
  taken to read and write the variable whole, as the machines it runs on do.
- `Crash` ends a process at any step: its memory is gone, its lock file stays
  (`Stale`) and its threads start over. No code calls `breakLock`.
- `"read"` in `Faults` lets the property list be unreadable, `"write"` lets
  its write fail; the code does not act on a failed VERIFY.
- The callers: a caller nests scopes when it has a store. `NestAfterFailure`
  says after which failure it nests all the same: `"lock"` when the lock was
  not acquired, `"read"` when the property list could not be read.
  `SupplementaryBranding` does both, since it does not report the failure.
- The CHECKs are operators of their own (`CheckNotOwned`, `CheckStore`, ...),
  used as guards of the steps after them, and `ChecksHold` says that they hold
  whenever they are reached. A failed CHECK shows as a violation of it.

**TransactionalStore** is the abstract specification: a value, at most one
process that has it open, a working copy that is committed as a whole or, if
something fails, lost as a whole. `AbstractSpec` in MacStoreLock is the
refinement: the owner is the process that has created the lock file and has a
store object, the working copy is that object's dictionary.

### FinancialPing

The ping of one product by several clients. One action is one lock scope, the
request reaching the server, or the answer coming back. `SendFinancialPing` is
the way `"whole"` (form, check, note the time, ping, parse); the way `"parts"`
calls `FormFinancialPingRequest`, `PingFinancialServer` and
`ParseFinancialPingResponse`, which notes the time after the ping. The ping time
is kept as its age, now minus `last_ping`, in units of a day and no further
than `NoEventsInterval`, after which nothing changes; `Ahead` stands for a time
in the future, which a clock that was set back need not reach. A client that was refused, or whose ping failed, returns to idle
and may call again at once.

The server may acknowledge any part of the events it is sent and declare any of
those it acknowledges stateful. `ParseCutShort` is a client that dies while it
parses an answer, of which any part has been done by then, as every write is in
the registry at once on Windows. `grantAge`, `unsent`, `fresh` and `torn` are
history variables: how long ago a client was told to ping, which recorded events
the server has not had, which events of a request were recorded before it was
formed, which events such a client has left both stateful and waiting. The application may record at any time and, if `AppClears`, clear
events, the product state and the ping time.

### Response, MachineDeal, PingResponse

**Response** is an answer and `IsPingResponseValid`: a sequence of lines, one of
which may be a checksum line that knows whether it is right, and whether the
last line ends with a newline. **MachineDeal** is what an answer does to the
deal code: `Confirms` looks at the first code the answer repeats (`dcc:`),
`GetNewCode` at the first it gives that fits (`set_dcc:`); a value with a colon in it is
none, as `GetResponseValue` wants two tokens. **Rlz** has the normalisation.

**PingResponse** is the loop of `ParsePingResponse` over the lines of one
answer: one action for every kind of line, and `Finish`, which sets the deal
code on Windows. Its `Get` may fail (`got`), which counts as no code. An RLZ is a short sequence of characters, and one access point
is not supported by the build. `build` says what a `Crash` in the loop leaves
behind: on Windows all that has been written, in the middle of a list of events
too (`CrashInLine`), on the Mac nothing, since the working copy of the scope is
lost. Outside of the loop's lock scope it is the single step `ParsePingResponse`
of FinancialPing; `AppliedAtOnce` says that the loop does what that step does to
events and stateful events.

**DealCodeCalls** has the calls that applications make of `MachineDealCode`
directly, by all processes of the machine. `SetFromPingResponse` is two steps
there, `GetNewCodeFromPingResponse` and `SetNewCode`, each in a lock scope of
its own, with the calls of others in between. `DirectCallConfirms` is what the
header says of an answer, and the calls do not keep to it.

### KeyTree, RegistryStore, DictStore, ValueStore, Library

**KeyTree** is what both stores are kept in: paths to named values.
**RegistryStore** and **DictStore** are the operations of
`RlzValueStoreRegistry` and `RlzValueStoreMac` as functions of such a tree:
where each value lies for a brand, which keys or dictionaries a call creates on
its way (`Touched`: the Mac's getters create them too), `CollectGarbage` key by
key, and the buffer that `RegKeyReadValue` fills.

**Library** has the calls of `rlz_lib.cc` and `rlz_lib_clear.cc` over either
store, each in one step, since it runs in one lock scope. `CrashInClear` is a
process that dies between any two writes of an uninstallation. An uninstallation
may be given any of the access points, in any order. `Foreign` keys
belong to other software.

**ValueStore** is the abstract specification: for each brand the events,
stateful events and ping time of each product and the RLZ of each access point,
and calls that change the data of one brand, and of one product or access
point, only. `StoreSpec` in Library is the refinement: the abstract variables
are what the store's own read operations find in the tree. Library keeps the last
call and what it was given in the history variable `call`; `CallsActAsAsked` says
that the step is the action of ValueStore which that call asks for, with its
arguments.

### MachineId, Crc8, StringUtils; MachineKey

**Crc8** has the table of `crc8.cc`, number by number, next to the division it
stands for (`Xor` is written out, as that of the community modules is out of the
prover's reach), **StringUtils** the hexadecimal conversions. **MachineId** puts
together the id, and keeps what it has computed until the process ends
(`Restart`). The SID and the serial number may not be found, each on its own.
SHA-1 is an injective function to two bytes (`Digest`, `HashLength`).

**MachineKey** is `HasAccess`, the scan of an access control list, and
`CreateMachineState`. Where `SetEntriesInAcl` puts the new entry, and whether it
replaces others of the same SID, is left open. The result of the call, which is
false also when nothing had to be done, is left out: nothing here depends on it.

### WinStoreLock

`LibMutex` over the kernel's mutex (owner, count, abandoned, gone with the last
handle), the lock scope over `LibMutex`, and `SupplementaryBranding` over the
scope. `AddProductEvent` and `ClearAllProductEvents` stand for all operations
under the current brand. A wait ends with success, with a time-out while
somebody else owns the mutex, or abandoned. The last one gives the mutex to a
thread that counts it as a failure and never releases it: `WaitAbandoned` and
`CloseScope` have that, and the history variable `inherited` says whose count it
is.

`MCLibrary` checks Library, MachineId and MachineKey in one run: they share no
state, and a behaviour is one of any of them. The `MC` modules
give the constants values, the `Proofs` modules hold theorems.
Definitions marked "Bug:" are not part of any specification. Each is a
plausible mistake in the definition that follows it, and shows that the property
named with it in `PROJECT.json` ("mutants") can tell the difference.

## What the runs check

| Run | Question | Instance | Result |
|---|---|---|---|
| lock_safety | Is the Mac lock safe and a transactional store, and does a constructor always return? | 2 processes, 2 threads in one of them, 2 contents, nesting 2, one retry; crashes, failed reads and writes; nesting also after a failed acquisition | holds, 35761 states |
| lock_unreadable | ... when callers nest in a scope with an unreadable property list, as `SupplementaryBranding` does? | as lock_safety | CHECK(g_store_object) fails |
| ping_shared | Are stateful events never pending, whoever pings, but for answers that were cut short? | 2 clients, 1 event, both ways, week of 2 days, failing locks, clients that exit anywhere, clearing application | holds, 175029 states |
| ping_single | Does one client lose nothing, send stateful events once, keep the rate and report everything? | 1 client, 2 events, week of 2 days, failing network, clock set back | holds, 2780 states |
| ping_two | Do two clients keep the rate? | 2 clients, no faults | they do not |
| ping_weekly | Are pings without events a week apart, if no caller skips the time check? | 1 client, no faults | they are not |
| response_message | Is a message applied in full or not at all, also when the process dies meanwhile, and the deal code only if confirmed? | answers of up to 3 lines out of 17 that end with a checksum line or have none, those of the deal code with 4, and one that is too long, on every store of either build, crashes anywhere, codes that cannot be read | holds, 2114280 states |
| response_tail | ... when lines follow the checksum? | the same lines, in any order | they are applied too |
| win_brands | Is the Windows lock exclusive, is every acquisition accounted for, and are brands kept apart by scopes with the lock? | 2 processes, 3 threads, a brand, nesting 3, all faults | holds, 200320 states |
| win_unbranded | ... and by all branding scopes? | as before, nesting 2, time-outs | a scope that timed out does not brand |
| deal_race | Does an answer replace a deal code only if it repeats it? | 2 direct calls, answers of up to 2 lines of the deal code, no read fails | another call comes in between |
| library | Do both stores implement ValueStore, and does every call do what it is asked? Does an uninstallation clean up, spare others, and survive being cut short? Does the id identify the machine? Is the machine's key open to all users? | 1 brand, 2 products, 2 access points, 1 event; 3 SIDs, 6 serial numbers; lists of up to 3 entries | holds, 15920 states |

The six runs that end with a violation are disagreements of the code with its
comments or tests; `PROJECT.json` quotes the lines ("findings").

**Why the bounds are enough.** The Mac lock: two threads of a process race for
the mutex and a third thread in another process takes part in the race for the
file; nesting 2 has every transition of the depth (0-1, 1-2 and back), and what
happens at depth 3 is what happens at depth 2; a retry that fails and one that
is given up are both there with one retry; `ConstructorReturns` is checked on the same
instance. The theorems below have no bounds.
The ping: in ping_single, where losses and rates matter, an event that is in a
request and one that is recorded later need 2 events, and the two intervals
differ (1 and 2 days). `StatefulNotPending` is about one event at a time, and
another one could only let a ping through earlier, while time may pass at any
step anyway: ping_shared has one event and two clients. Its symmetry of the
clients is sound because it checks invariants only. The response: three lines are a
checksum line and two lines of which each kind can come first, the same access
point be set twice and an event be cleared and declared stateful. Three lines of the deal code
before the checksum repeat two codes and give a new one in any order, and repeat
one and give two. On Windows,
nesting 3 is a branding scope with an operation that calls another one. The
store: a call reads and writes the data of one product, one access point and one
brand, so that two of each (no brand is one, too) show whether it keeps to them;
`Small` leaves room for two values, which may lie under different brands,
products or keys, and one empty key besides, in all the places a call may have
left them, before an uninstallation collects garbage. `MCView` leaves out `call`,
which no step reads; TLC checks action properties on every step, also on one to a
state it has seen, so that each is held against its own call. The id: serial numbers
that are negative, that differ in one byte, and none; the damage tried on each
id is every position of six patterns of up to eight bits, the longest a CRC-8 is
certain to find. The list of entries: each way of allowing, denying and
inheriting for two SIDs, and generic rights. 
Deadlock checking is off for the two response runs only, where the call returns and the
model ends.

**Fairness.** `MacStoreLock!Fairness`: a thread in the library goes on (weak
fairness); a thread that waits in `pthread_mutex_lock` gets the mutex if it is
free again and again, and a caller leaves the scope it is in, since scopes
live on the stack (strong fairness, as other threads or crashes disable these
steps in between; one assumption for the mutex and the outermost scope
together, one for each deeper scope). Nothing is assumed of the lock file: `ConstructorReturns`
holds because the loop counts its tries. `FinancialPing!Fairness`: time
passes, except that a clock that was set back need not catch up with a ping time
in the future, a client goes on with its ping and begins a new one after it (it
"should be called daily"), a request is answered or fails (the fetch has a
time-out), and among infinitely many requests there is one that the server
acknowledges in full, whose answer arrives and is parsed. `EventReported`
assumes besides that the clock is not set back for ever. Without the last group
no program could report anything.

## What is proved

`MacStoreLockProofs`, for any processes, threads, nesting, number of tries and
faults:

- `LockInvariant`: the inductive invariant `IInv`. Exclusion is not inductive by
  itself, since it rests on the lock file, whose owner rests on the mutex. The
  invariant says where a thread stands when it has the mutex
  (`MutexMatchesPC`), when `locking_thread_` names it (`NameMatchesPC`), that
  the lock file is held by the process exactly when `file_lock_` is set and the
  named thread is past the loop (`FileLockMatchesName`), that the depth is the
  number of scopes of the named thread, and that scopes have a store exactly
  when there is a store object.
- `LockTypeOK`, `LockExclusive`, `LockSharesStore`, `LockNothingLeft` follow
  from it; `LockExclusive` goes from the stores to the lock file, which one
  process has, and from the process to the named thread, of which there is one.
- `LockChecksHold` needs an assumption, `"read" \notin Faults` or
  `"read" \notin NestAfterFailure`; lock_unreadable shows that it is needed.
- `LockImplementsTransactions`: the refinement, step by step.

`FinancialPingProofs`:

- `PingInvariant`, `PingTypeOK`, `PingStatefulNotPending`, for any number of
  clients and all faults: an answer makes stateful only what it also clears,
  and nothing stateful is recorded, both in one lock scope. The events of an
  answer that was cut short are exempt (`torn`) until they are cleared.
- `PingLosesNothing` and `PingStatefulOnce` for one client (`OneClient`) and an
  application that only records. The strengthening `InFlight` says that what is
  in a request under way has not changed its standing in the store since it was
  formed. With two clients both are false: the answer of one ping clears an
  event that was recorded again while it was under way, or declares one
  stateful that another request already holds.
- `PingNotTooOften` for one client that sends whole pings and can open the
  store (`WholePings`): between the check of the time and its note nobody else
  acts, and at all other times the stored ping time is no older than the last
  grant (`TimeIsNoted`). ping_two shows what happens without the first
  assumption. A client that pings in parts notes the time only after the
  answer, and a failed ping leaves the old time.

`WinStoreLockProofs`, for any processes, threads, brands,
nesting and faults:

- `MutexInvariant`: the inductive invariant. The kernel's count is tied to the
  steps and scopes of every thread: the owner has it once for each scope that
  got it (a sum over a stack, `AcquiredIn`), plus once for an abandoned wait
  that counts as a failure; everybody else has none. A thread that waits, or
  leaves a scope, stands where its scopes say (`BrandingSteps`).
- `WinTypeOK`, `WinMutexAccounted`, `WinExclusiveStore` and `WinBrandHasScope`
  follow from it. The count that an abandoned wait leaves behind is exactly one,
  and stays until the mutex is gone or its owner dies.
- `WinBrandsKeptApart` needs more: that a thread with the mutex finds the brand
  of the branding scope it is in, and none if it is in none (`BInv`). It is
  inductive only together with `MutexInvariant`, because the brand belongs to
  the process, and another thread of it may change it only with the mutex.

`PingResponseProofs`, for answers of any length and content:

- `ResponseInvariant`: types, and what is known of the answer and of the store
  before the loop, in it and after it (`ValidSteps`). `ResponseTypeOK`,
  `ResponseRejectedUnchanged` and `ResponseDccConfirmed` follow from it without
  further assumptions.
- `ResponseAppliedAtOnce` and `ResponseCrashRepaired` need the loop invariant
  `AInv`: nothing has changed that no line speaks of (`Progress`), and what the
  lines before `next` say has been done (`Done`), for RLZs what the last of them
  says. Both assume `NothingAfterChecksum`; response_tail shows that it is
  needed.

`KeyTreeProofs`, `LibraryProofs` and `StoreProofs`, for any brands, products,
access points and events, on either store:

- `KeyTreeProofs` has the lemmas about trees: what each of the four functions of
  KeyTree does to the keys, to the names below a key, and to a value that is
  read, and that a tree in which each key has its parent stays one. They make no
  use of where anything lies.
- Where it lies is in `LibraryProofs`. `WinKeysDiffer` and `MacDictsDiffer` say
  that the paths of two brands, products or kinds of data differ and that none
  lies below another's values; `Operations`, `OtherWrites` and `Reads` say of
  every call of either store what it does to the tree, at paths that depend on
  the build (`EventsPath`, `PingPath`, `RlzPath`). All that follows is about
  those paths, so that each argument is made once for both stores.
- `LibraryInvariant`: the inductive invariant `IInv`. That the keys of other
  software keep their value is not inductive by itself: it rests on that they
  were there, outside of the library's key, from the beginning (`Neighbours`),
  and on that a key is deleted only if it has no values and no subkeys, or is
  the library's own (`FineWithoutKey`); the latter needs that each key is there
  with its parent. `Fine` is all of that, and that every RLZ is normalised.
  `LibraryTypeOK` and `LibraryKeepsOthers` follow.
- `LibraryUninstallCleans`: a key that has been looked at is clean, in that it
  is gone or in use, and stays so, because a later one never lies below it
  (`GarbageLengths`): the order of `CollectGarbage` matters, and this is where.
  Keys that are not looked at may stay empty: the parents of a brand's keys
  (`Rlz\Events`) when the call is made under a brand, and the key of a product
  whose last event was cleared by itself.
- `LibraryUninstallResumes`: wherever the process dies, the tree it leaves and
  the one before are `Alike`: they differ in no more than the keys and values
  that go with the product, and in empty keys that calls make on their way.
  Trees that are alike are equal once the product has been cleared
  (`ClearedSame`), since clearing takes away the former and makes the latter.
- `LibraryCallsActAsAsked` and, from it, `LibraryImplementsStore`: each call is
  the action of ValueStore that it asks for, with the product, access points,
  time and RLZ it is given, one lemma for each call (`StepRecordEvent`,
  `StepRlz`, `StepClearProduct`, `StepDies`, ...), from what each write changes of what can be read (`EventAdded`,
  `RlzWritten`, `ProductGone`, ...). `CollectedSame` is the step that a test of
  the calls would hardly reach: garbage collection changes nothing that can be
  read, whatever brand it is done for.

The assumptions are those that the library's names justify: a brand is not the
name of a product or of the "RLZs" dictionary, since both are entries of the
same dictionary on the Mac; an access point is not the name of an event, a
product or the ping time; other software has its keys outside of
`Software\Google\Common\Rlz`.

`MachineProofs`:

- `KeyHasAccessSound` and `KeyIsOpen`, for lists of any length: of the entries
  that name a right the first one decides, so that the scan, which asks for all
  rights at once, finds no more than Windows grants. `KeyInvariant` says that
  the list has an entry for Everyone with all rights when `CreateMachineState`
  has set it, wherever `SetEntriesInAcl` puts it and whatever it merges.
- `IdIsOfOne`: the text gives back the bytes of the hash and of the serial
  number, a negative one too, and a hash is never all zeros, which stands for a
  SID that was not found. `Digest` has no collisions by assumption; nothing is
  assumed of the checksum.
- `DamagedIdIsFound`, for ids of any length: a remainder that has been damaged
  goes through the rest of the loop as the table takes the damage
  (`DamageAdds`), and stays damaged, because no entry but the first is 0
  (`DamageRemains`). The table is linear: each bit of an entry is a sum of bits
  of its index. Damage that lies across two bytes is not lost either, because no
  burst of at most eight bits ends as the entry of what it begins with
  (`BurstNotEntry`).
- `ChecksumIsRemainder`, for ids of any length: one entry of the table is eight
  steps of the division, bit by bit (`DivideByte`).
- `IdIsReadBack`, for ids of any length: the four digits are found behind blanks
  and a prefix and in front of a blank (`FirstNotBlank`, `FourDigits`), and a
  digit 0 does not begin a prefix, since no digit is an x. It needs an int that
  holds four digits (`WidthAssumption`).

The last three are about recursive functions over sequences. The induction they
need is done on sets of numbers, which any property that is a set comprehension
gives (`Induction`), and the functions are shown to exist (`Recursion`).

The assumptions on constants (`LockAssumption`, `PingAssumption`, ...) are types
and distinct names, evaluated by TLC in every run.

**Only model-checked:** liveness (`ConstructorReturns`, `EventReported`), which
the prover cannot handle with fairness.

## What is not modelled

- Text: names of products, access points and events, the CGI form of a request,
  what it holds besides events. Events and access points are values.
  `EventsAsCgi` is the set itself: all names there are fit in the buffer of a
  ping. A caller of `GetProductEventsAsCgi` with a shorter buffer gets a cut
  list or an error, which no state depends on.
- How often an event was recorded: the stores keep that it has happened, so that
  recording it again while a request with it is under way leaves no trace, and the
  answer clears it. No document promises a count.
- `HasAccess` of the stores and `HasUserKeyAccess`: an operation that has the
  store but not the right returns as one without a store, which the `"lock"`
  fault of FinancialPing covers.
- Writes to and deletions from the registry that fail one by one.
- The CRC-32 (zlib's): a checksum line is right or wrong.
- The copying of security descriptors, the queries of Windows for tokens, SIDs
  and serial numbers, and of the Mac's IOKit: what they may find is a choice.
- `SetURLRequestContext` only stores a pointer that the network code uses.
- Branding scopes nested in each other, which the constructor reports as a
  mistake of the caller.
- Exports forward calls, and assertions report.

## What is left

- A refinement of FinancialPing's parsing step by PingResponse: the two agree by
  `AppliedAtOnce` and are not composed.
