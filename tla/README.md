# Redtamarin: TLA+ models and proofs

Redtamarin is a distribution of the Tamarin ActionScript 3 virtual machine:
an interpreter and JIT, the MMgc garbage collector, a shell, and native
libraries. Two parts of it cannot be understood by reading one function at a
time. One runs several workers (isolates, each with its own thread, core and
heap) in one process: how they are stopped for a global task, interrupted,
blocked, woken, terminated and shut down, and how they pass data. The other is
the memory manager, whose work is spread over slices, barriers, callbacks and
destructors between and inside which the program runs. This project models
both.

Paths below are relative to the repository root (`src/...` in
`PROJECT.json` is that root followed by the repository's own `src/`).

## 1. Inventory

| part | code | state | operations | hard behaviour |
|---|---|---|---|---|
| Safepoints | `vmbase/Safepoint*.{h,cpp}` | per manager: list of records, request mutex, requester; per record: status, link to the enclosing one | enter, leave, safepoint gates, polls, `requestSafepointTask` | gates that close while a requester scans; nesting; back-off for a terminating thread; busy-wait |
| Interrupt word | `core/AvmCore.cpp` `raiseInterrupt`, `handleInterruptToplevel` | `interrupted`, `pending_interrupt` | raise, poll, clear, CAS by a requester | three writers without a lock |
| Interruptible waits | `core/Isolate.cpp` `InterruptibleState`, `Enter` | FIFO list of wait records, waiter and signal counters, monitor, the isolate's active state | enter, wait, notify, notifyAll, signal, leave | signal cycles that overlap with notifications, timeouts and other terminations |
| Worker mutex and condition | `core/ConcurrencyGlue.{h,cpp}` | OS mutex, owner, recursion count | lock, tryLock, unlock, wait, notify, notifyAll, release by a dying worker | FIFO promise on top of an unordered condition variable; recursion |
| Channel | `core/Channels.{h,cpp}` `MostlyNonBlockingChannel` | ring, head, tail, fallback index, overflow buffer, eof, try counters | put, get, available, close | lock-free fast path against a monitor-protected slow path; growth; close at any time |
| Isolates, aggregate | `core/Isolate*.{h,cpp}` | state, interrupted flag, core pointer, isolate map, thread map, active count, shutdown flag | new, start, run, state transitions, terminate, exit, wait for all | checks outside the lock acted on later; deletion of the core; failing thread creation |
| Shell isolates | `shell/avmshell.cpp`, `shell/ShellCore.cpp` | code blobs, grace period, the timer of the process | doRun, evalCodeBlobs, interrupt, uncaught exceptions | script that catches the interrupt; isolates that replace each other's timer |
| VM threads | `vmbase/VMThread.{h,cpp}` | state, joiner count, join monitor | start, run, join, destruction | join by several threads racing with the destructor and with the native thread |
| BlockingChannel, PromiseChannel | `core/Channels.h`, `core/PromiseChannelGlue` | queue under a monitor; serialised values | put, get | conventional monitor code |
| Marker | `MMgc/GC.cpp`, `MMgc/GCStack.cpp`, `MMgc/WriteBarrier*.h` | mark and queued bits, mark stack, barrier stack, overflow flag, protected large objects, sentinels of roots, weak references | start, slices, write barrier, final marking, overflow recovery, presweep, sweep; delete of objects and roots | the program writes between slices; stacks have no room; objects vanish while they are half traced |
| Small-object allocator | `MMgc/GCAlloc.{h,cpp}` | blocks and their lists, free items, quick list and its budget, finalize state | alloc, free, flush, finalize, lazy sweep, abort of a collection | destructors and callbacks allocate and delete inside a sweep; marks outlive the collection |
| Reference counts | `MMgc/ZCT.{h,cpp}`, `MMgc/GCObject.h` | counts and flags of objects, zero count table, pin list, budget | store, new, delete, pin, reap, sweep | a reap in the middle of a store; destructors that feed the table being emptied |
| Large-object and fixed-size allocators | `MMgc/GCLargeAlloc.cpp`, `MMgc/FixedAlloc.cpp` | lists of blocks | alloc, free, finalize | as the small-object allocator |
| Page heap | `MMgc/GCHeap.cpp` | page blocks, regions, free lists, counters | alloc, split, coalesce, decommit, expand, limits | boundary arithmetic, accounting |
| Policy | `MMgc/GCPolicyManager.cpp` | budgets and statistics | when to start, continue and finish a collection | heuristics |
| Interpreter, verifier, JIT, halfmoon, eval, AOT | `core/`, `nanojit/`, `halfmoon/`, `eval/`, `aot/` | the language semantics | execute, compile | sequential |
| VMPI, AVMPI, API | `VMPI/`, `avmglue`, `api/` | none of its own | wrap system calls | none |

How they interact. A worker's script calls the glue classes, which block in
`InterruptibleState` or in a channel's monitor, always inside a *safepoint gate*,
so that a blocked worker counts as stopped for a safepoint task. The collector
of shared data and shared-property code stop the world through the
`SafepointManager` of the aggregate, which asks running workers to poll through
the interrupt word of their cores. `Worker.terminate()` sets the isolate's
interrupted flag under the aggregate's lock, raises the interrupt word of its
core, and signals the `InterruptibleState` it is blocked in. The end of the
primordial isolate terminates everybody and waits for the active count. Each
isolate's thread is a `VMThread`.

Inside one isolate the program and MMgc share the thread. A store goes through
the write barrier (marker) or through a counted field (reference counts), or
both. An allocation may do a slice of marking, or sweep a block lazily. The
zero count table frees objects between collections without the marker; the final
marking, the presweep callbacks, the destructors and the sweep are one call,
inside which the program only runs as a callback.

What makes each part correct:

* safepoints: a task runs alone; the list it walks does not change; a requester is eventually served and everybody is released afterwards;
* interrupt word: a request to poll is lost neither to the handlers that clear the word nor to scripts that catch an interrupt;
* mutex: at most one owner, fully released after as many unlocks as locks; a free mutex goes to the first in the queue; a terminated worker gets out of any wait;
* channel: what is received is a prefix of what was sent; nobody sleeps when there is something to do;
* isolates: counted out exactly once; a terminated one stops; a shutdown ends, and no worker runs code after it;
* VM threads: `join()` returns, after `run()`; nobody uses the object after its destructor;
* MMgc: nothing the program can reach is freed or destroyed, garbage is, destructors run once, and every collection and reap ends.

The list of hazards, each at the line where it bites, is in `PROJECT.json`.

## 2. Modules

| module | role |
|---|---|
| `Safepoint` | the protocol of `SafepointManager`, for any threads, managers and nesting depth |
| `StopTheWorld` | the abstract service: who runs in which context, and who runs a task on it |
| `SafepointProofs` | theorems about `Safepoint` and its refinement of `StopTheWorld` |
| `InterruptWord` | one core's interrupt word, one access per step |
| `InterruptWordProofs` | theorems about `InterruptWord` |
| `WorkerMutex` | `MutexObject`, `ConditionObject` and `InterruptibleState` together: the three are one protocol |
| `WorkerMutexProofs` | theorems about `WorkerMutex` |
| `Channel` | `MostlyNonBlockingChannel`, one access to shared state per step |
| `FifoChannel` | the abstract channel: what went in, what is in it, what came out |
| `ChannelProofs` | theorems about `Channel` and its refinement of `FifoChannel` |
| `IsolateLifecycle` | `Aggregate`, `Isolate::run` and the shell's `doRun` |
| `IsolateLifecycleProofs` | theorems about `IsolateLifecycle` |
| `VMThread` | one `VMThread` object with its native thread, its owner and any number of joiners |
| `VMThreadProofs` | theorems about `VMThread` |
| `Collector` | what a collector promises to the program: it may take away what cannot be reached, nothing else |
| `GCMark` | incremental marking with its barrier and bounded stacks; implements `Collector` |
| `GCMarkProofs` | theorems about `GCMark` and its refinement of `Collector` |
| `GCAlloc` | one size class of the small-object allocator over whole collections |
| `ZCT` | deferred reference counting; implements `Collector` |
| `ZCTProofs` | theorems about `ZCT` and its refinement of `Collector` |

Definitions whose names begin with an action's name and are introduced by the
comment *Mutant of ...* are wrong variants of the definition that follows them.
No specification uses them; substituting one for the original must break the
property `PROJECT.json` lists with it, which shows that the property depends on
that piece of code.

### Correspondence with the code

*Safepoint.* `pc` is where a thread is in `enter`, `leave`, a gate or
`requestSafepointTask`; `manager[t][d]` and `status[t][d]` are `m_manager` and
`m_status` of the record that thread `t` has at nesting depth `d` on its stack;
`owner` is the holder of `m_requestMutex`, `requester` is `m_requester`, `todo`
the part of the list the requester's loop has still to see. The linked list is a
set: it is used only under the mutex and its order never matters. The step
`Visit` is one iteration of a loop over the list: it sends a poll
(`InterruptRecord`), backs off (`BackOff`) or goes past a safe record in the
busy-wait (`SpinPast`); `StartSpin`, `StartTask` and `FinishTask` are the rest of
the function. A gate is `GateOpen`/`GateClose`, and `GateClose` needs the request
mutex, as the gate's destructor does. A critical section whose writes nobody reads without
the mutex is one step.

*InterruptWord.* `word`, `pending`, and the program positions of the core, a
requester, and two raisers: another isolate and the timer. Every read, write and
compare-and-swap is one step. The two terminating reasons are one value.
`Interrupt` is `ShellCore::interrupt`: the first time (`grace`) it sets the timer and
throws an error that the script may catch, and then runs on, unsafe, with an empty
word; later it ends the code blob, after which the thread takes the next blob
(`NextBlob`) or leaves the manager. `late` and `lost` are ghosts: the raises that
looked at the word before the poll was installed and have yet to write, and
whether one of them has overwritten it.

*WorkerMutex.* `os` is the recursive VMPI mutex (external), `ownerID` and
`recursion` the fields of `MutexObject::State`; `list`, `waiterCount`, `sigCount`,
`monitor` the fields of the two `InterruptibleState` objects, of the mutex and of
the condition; `signaled` the wait record; `again` is the local `continueWait`,
which lives across rounds of the loop. `hold` is a ghost: what the script
believes it holds. Loops that poll with `wait(0)` are guards.

*Channel.* The shared fields under their own names; `putPc`, `getPc` and the local
indices `putAt`, `getAt`, `out`. Items are numbers in the order of `put`, so a
lost, duplicated or reordered item shows. The sections under the
monitor are one step except for the compare-and-swap in them, which the other
side races without the monitor.

*IsolateLifecycle.* The fields of `Isolate` and `Aggregate`, `raised` for the
interrupt word, `grace` for `ShellCore::gracePeriod` and `timer` for the isolate that
the timer of the process is set for: `SetTimer` replaces whoever had it, as
`setTimer` of the Unix and Mac platforms does (Windows starts one timer per call).
A section under `m_globals.m_lock` is one step. `core` has a third value, `deleted`,
for the time between `delete core` and the reset of `m_core`. The joins at the end
of the process are outside the lock, one step each: `unjoined` is what the iterator
over the map of threads has still to meet, and `Spawn`, which asks for no shutdown,
may insert behind it or in front of it. A set-up that fails (`SetupFails`) ends
the process. `lost` and `again` are ghosts: a reason or grace period that was lost,
and exceptions of isolates that had died of one before.

*VMThread.* `state` and `joinerQty` are the fields; `native` is where the native
thread is in `startInternal`, `pc` where each client is in `start`, `join` or the
destructor. A critical section of `m_joinMonitor` is one step, except that of
`start()`, in the middle of which the native thread already exists.

*GCMark.* Objects and roots have one pointer, or two parts with one each if they
are large enough to be split. `bits` is kQueued and kMark; `work` and `barrier`
are the two mark stacks as sequences of work items (object, tail of a split
object, protector, chunk of a root, stack memory, dead item); `scan` is the
collector's place in a loop over roots and blocks. `stack` are the
objects native code holds, which are marked conservatively. The program acts in
phases `idle` and `mark`; all others are the insides of `FinishIncrementalMark`
and of `Sweep`, where only presweep callbacks act. A work item is traced in one
step, because the program does not run inside a slice.

*GCAlloc.* The marker is reduced to what it does to the bits: when a sweep begins
every item in use is marked. `blocks`, `avail` and `dirty` are the three lists that
go through a block, `quick`, `budget` and `obtained` the quick list with its budget.
`cur`, `next` and `putOnFreeList` are locals of `FinalizationPass`, which runs
destructors between its steps. `live` and `undestroyed` are ghosts: what the
program uses, and what was constructed and not destroyed. The page heap gives a
block as long as there is one (`NBlocks`).

*ZCT.* Every object has one counted field. An operation that fills the table
reaps in the middle of itself; `adding` and `after` are the rest of the
interrupted operation. A reap calls the prereap callbacks and destructors, which
are steps of their own (`running`, with what they point to in `locals`): they may
allocate, load and store, and do not start a second reap. `zct` and `pins` are the table and the pin list as sequences of
entries, cut into blocks of `SegCap`; `idx` is the index an object has in its
flags. During a sweep (`collect`) the condemned objects are destroyed in any order.
`missed` is a ghost: objects with count zero that the table refused.

### Switches that are not in the code

`Interruptible`, `Terminable`, `ReentrantTry`, `UseTryLock`, `SpuriousWakes`,
`CloseAllowed`, `Interrupts`, `NonInterruptible`, `OwnTasks`, `Weaklings`, `Deletable`,
`Stickable`, `Builders`, `Careful`, `SegAllocFails` and `FinalizersMoveBlocks` say what the *environment* (scripts,
destructors, the page heap, the operating system) does. They never change what
the code does with it. Bounds are `MaxDepth`, `MaxRaises`, `MaxRecursion`,
`MaxItems`, `NumBlobs`, `StackCap`, `NBlocks` and the sizes of the sets; `MarkCap`,
`BarrierCap`, `SegmentsKept`, `SegCap`, `MaxSegs`, `StickyAt`, `Tries`, `InitLength` and
`ItemsPerBlock` are constants of the code, made small.

## 3. Runs

The modules are instantiated directly by the `.cfg` files.

### Passing

| run | instance | shows |
|---|---|---|
| `Safepoint_nested` | 2 threads, 2 managers, depth 2, both threads may be told to unwind; 102,700 states | `TaskExclusion`, `RecordsConsistent`, `MembershipFrozen`, the refinement `StopsTheWorld`; `SpinEnds` and `GateReopens` under fairness |
| `InterruptWord_poll` | 3 raises by other isolates, time limits, methods that must not be unwound, own tasks, any number of code blobs; 17,049 states | `TypeOK`; `RequestServed`: a request for a task is served, whether or not the script catches what is raised, unless a raise that looked at the word earlier overwrites the poll |
| `WorkerMutex_safety` | 3 workers, recursion 2, tryLock, condition, spurious wake-ups, one worker terminable at any moment; 5.4 million states | `MutexExact`, `FullyReleased`, `CountsExact`, `HeadNotStranded` |
| `WorkerMutex_live` | 2 workers, both terminable; 49,838 states | `LockReturns` as long as nobody is terminated, `TerminationUnblocks`, overlapping signal cycles included |
| `Channel_fifo` | ring of 3, 2 tries, 8 items, close at any step, spurious wake-ups of the sender: the ring overflows, is replaced by a longer one, and overflows again; 110,049 states | `BuffersConsistent`, refinement `IsFifo`, `GetServed` (by an item or by `close()`), `PutReturns` |
| `IsolateLifecycle_shutdown` | Main and 2 workers, 2 code blobs each, terminate, exceptions, failing threads and set-ups, one timer, a shutdown at any moment, scripts that need not end and may catch one error; 660,964 states | `Accounted`, `NoCodeOutlives`, `ShutdownEnds` if scripts end, `TerminatedStops` |
| `GCMark_collect` | 2 objects, one of them split, a split root, one weak reference, one object that is deleted, mark stack of 3, barrier stack of 1; 985,055 states | `MarkerConsistent`, `NoBlackToWhite`, refinement `IsCollector` |
| `GCMark_live` | 3 objects, mark stack of 1, barrier stack of 2; 226,953 states | `FinishEnds`, `GarbageFreed` |
| `GCAlloc_sweep` | 2 blocks of 2 items over any number of collections; 438,432 states | `LiveKept`, `ListsExact`, `SweepClean`, `DestroyedOnce` |
| `VMThread_join` | an owner and 3 joiners, spurious wake-ups; 1,360 states | `FreedUnused`, `JoinedEnded`, `JoinReturns`, `UnjoinedDtorReturns` |
| `ZCT_reap` | 2 objects, one of whose destructors allocates, loads and stores, as prereap callbacks do; blocks of 2 entries, at most 3 blocks, sticky at 3, page heap that may refuse; 293,270 states | `CountExact`, `ZeroListed`, `TableExact`, refinement `IsCollector`, `ReapEnds` |

Invariants that belong together are checked as one conjunction of named parts
(`RecordsConsistent`, `MutexExact`, `BuffersConsistent`, `Accounted`,
`MarkerConsistent`, `ListsExact`, `SweepClean`, `TableExact`), the type invariant
among them; each part has its own comment in the module.

Why the bounds are enough to be interesting. In the safepoint protocol two
threads are a requester and a thread that moves while it is scanned, and two
managers with depth 2 give every order of nesting; more threads are the
business of the proofs, which hold for any number (section 5). In the mutex the third
worker is the one that barges in between the release of the OS mutex and the
notification, and the bystander of a signal cycle. A channel's ring of two
slots holds one item, so it is full and empty at the same distance from every
state, and the ring of three shows wrap-around; eight items are two growths.
Two workers allow a worker to create, start and terminate another and both to
meet a shutdown; two code blobs are what a worker gets that was started without
byte code when the shell was given two files (`copyByteCode`). In the marker two objects and a root are a black and a white
object and a place to hide the only pointer to the white one; a mark stack of
three overflows in the middle of a split root, and one of one item overflows on
nearly every push. Two blocks of two items are a block that is emptied and one
that is not, with a garbage item next to a live one in each. Two counted
objects are the destructor that releases and the object that it releases, and
with blocks of two entries the table grows, is full, and refuses. None of the
bounds is a proof; the safety properties of all modules but `GCAlloc` are also
proved without them.

### Disagreements between the code and what it says

One run is expected to end in a counterexample. The property states what the
comments say; `PROJECT.json` quotes them.

`GCAlloc_grow` (3 blocks of 1 item, `FinalizersMoveBlocks`) violates `LiveKept`.
A destructor allocates, the allocator that is being finalized has no free item
and creates a block. `CreateChunk` gives the block the state of a finalized one,
so the new item starts unmarked, although new items must start marked while
`collecting`; the block is last in the list that `FinalizationPass` walks, so the
pass comes to it, finds an unmarked item, destroys it and frees its block. The
destructor may have stored the item in a root.

### Where a claim stops

Some properties carry a condition, because the code does not give more. The
models contain the behaviour that makes the condition necessary.

Safepoints and interrupts:

* A requester that backs off waits for the exit of a thread that was told to
  unwind; in a method that is not interruptible that thread stays, and only an
  unrelated entry or exit wakes the requester. `SpinEnds` is about a requester
  past that point.
* `raiseInterrupt` tests and stores in two steps, and may so overwrite a poll that
  was installed in between. If the script then catches the interrupt
  (`ShellCore::interrupt` throws an ordinary error the first time), or the method must
  not be unwound, the core runs on with an empty word, and the requester busy-waits
  until the core polls for another reason or leaves. `RequestServed` excepts this case
  (`lost`), and only this one.
* A requester that finds a terminating reason in the word waits for the core to leave
  the manager (`Notified`), which a script that catches the interrupt does not do
  before it ends; `RequestServed` is about a requester past that point.
* A terminating reason raised between the read and the clearing of the interrupt
  word in `handleInterruptToplevel` is overwritten.

Mutex and condition:

* `FullyReleased` is about scripts whose owner does not call `tryLock`
  (`ReentrantTry` FALSE): that takes the recursive OS mutex again, and `unlock` gives
  it back only once.
* `HeadNotStranded` and `LockReturns` are claimed as long as nobody has been
  terminated. After a signal meant for another isolate the local `continueWait`
  stays true and the worker sleeps through later notifications; and a terminated
  head of the queue that had been notified leaves without waking the next.
  `LockReturns` is also without `tryLock`, which may overtake the queue for ever.
* A worker woken by `Condition.notify()` that is not first in the condition's list
  polls until the ones before it have left.

Channel:

* A `put()` that passed its test of `eof` may sleep after `close()` has notified
  everybody; `PutReturns` is about an open channel.
* A `put()` that notices `close()` after faking an empty buffer leaves a fallback
  without an overflow buffer, and the receiver's assertion fails (action `GetNull`);
  `GetServed` allows for that end.
* `get()` does not notice a spurious wake-up and may take a blank slot for an item;
  everything is claimed for spurious wake-ups of the sender only.

Isolates:

* A terminate between the test of `m_interrupted` in `Isolate::run` and STARTING finds
  no core and is lost; `TerminatedStops` is about a worker with a core, and about its
  first code blob, because a worker goes on to the next one after a termination.
* A termination is also lost if the isolate runs a safepoint task of its own, before
  which it clears its word whatever is in it (`Safepoint.cpp:130`); and a grace period
  runs out only if no other isolate sets the timer of the process meanwhile, for its
  own grace period or the time limit of a code blob. `TerminatedStops` excepts both
  (`lost`).
* A worker with two blobs may die of two exceptions and be counted out twice;
  `CountExact` subtracts them (`again`). A shutdown may count a CANSTART isolate out,
  whose thread does so again; `CountExact` is about the time before a shutdown.
* "Any threads that are still active will be joined and cleaned up"
  (`Isolate.cpp:964`) is not claimed. If a worker has died of an exception in its first blob
  and starts a child from its second, the count may be zero, Main past its wait, and
  the iterator past the place of the new thread. Such a thread belongs to a
  worker that the shutdown has marked, so that it returns without running code:
  that is `NoCodeOutlives`.
* Between `delete core` and the reset of `m_core` a shutdown interrupts a deleted
  core; the model has that state (`core = "deleted"`) and makes no claim about it.

VM threads:

* `join()` leaves without a notification, so a destructor that waits for the last
  joiner is woken by nobody. `UnjoinedDtorReturns` is about the other case;
  `FreedUnused` holds in both.

Marker:

* A split object that is traced again before its tail was (a recovery after an
  overflow does that) has two tails and two protectors on the mark stack, but one
  kProtected bit, which is cleared with the upper protector. A delete then
  frees it with the lower tail still on the stack, although the comment on
  `HandleLargeItem` (`GC.cpp:2295-2316`) promises protection until the sentinel is
  popped. `StackedAlive` is therefore about tails and protectors of objects whose bit
  stands, and about whatever is on a stack as a whole.
* If the protector of a split root does not fit but, with a segment allocated in
  between, a chunk of it does, the chunk is unprotected. In the model a stack that
  has no room for the first has none for the second.

Allocator:

* `GCAlloc_sweep` lets destructors allocate only where this changes no list under
  `FinalizationPass`. Otherwise a new block is finalized (`GCAlloc_grow`), or
  `CoalesceQuickList` frees the block that the pass has saved as its next one.
  `GCLargeAlloc::Finalize` walks its list in the same way.

Reference counts:

* Callbacks and destructors that a reap calls are *careful* (`Careful`): they store
  neither to the field whose own store waits for the reap nor a pointer to an object that
  the reap has moved to the pin list or is yet to add, and leave nothing on the
  stack of an outer frame. Without the condition TLC shows what happens, in a few steps: a
  prereap callback allocates and returns its object, which nothing pins because the
  stack was scanned before, and the reap destroys it (`IsCollector` fails; this is what
  `GCObject.h:573-575` warns of); a store into the waiting field drops its reference
  a second time (`CountExact` fails); a reference to an object that waits to be listed
  does not keep it from being listed (`ListedUnreferenced` fails); a reference to a
  moved object makes `Remove()` (`ZCT-inlines.h:55-69`) clear somebody else's entry
  (`ZctExact` fails). In this tree the default callbacks are empty (`GC.cpp:34-40`) and nothing
  overrides `prereap`.
* `postreap` callbacks, deletes and sticking inside a reap, and a destructor that
  stores a pointer to the object being destroyed, are not modelled; nor does a
  destructor make an object whose destructor makes another, without end.
* Every block of the pin list wastes a slot, and `GrowPinningMemory` does not ask
  `CanGrow()` as the table does: a table that is full to the last block with
  everything pinned would need more blocks than `ZCT_CAPACITY` allows. `TableExact`
  is about heaps whose pin list would fit (`PinListFits`, true of the run's
  constants); the other properties need no such condition.
* "Unmarked objects are gonna get swept anyways" (`ZCT.cpp`) is not claimed: on a
  page whose marks were cleared a live object also looks unmarked, is not listed,
  and waits for the next collection. `ZeroListed` excepts such objects (`missed`).
* An abort in the middle of a reap (`SignalImminentAbort`) is not modelled.

### Deadlock

Deadlock is checked in `Safepoint_nested`, `WorkerMutex_safety`, both runs of
`GCMark`, `GCAlloc_sweep` and `ZCT_reap`. It is not checked where the system may
really stop: a channel whose users make no more calls (`MaxItems` reached or
closed), a core that has left, workers that have all been terminated, a
thread object that was deleted, a process that has ended or whose script of Main
computes on without calls.

## 4. Fairness

* *Safepoint*: weak fairness of the requester's loop and task and of polls
  (compiled code reads the interrupt word at loop back-edges and method entries);
  strong fairness for getting a mutex that is free again and again, which is what
  the operating system's mutexes give. Nothing makes a thread enter, leave, or
  request. The interrupt word is accessed atomically here; `InterruptWord` shows
  what is left without this assumption.
* *InterruptWord*: strong fairness of the core's handler, which reads the word
  again and again, weak fairness of the requester and of a raise under way. None of
  the timer, which another core may have set for itself.
* *WorkerMutex*: a call under way continues, a monitor or mutex free again and
  again is obtained, a timed wait runs out, a termination is carried through,
  an owner's script unlocks. A condition variable never has to return on its own.
* *Channel*: calls under way continue; `ReadingSpec` adds that the receiver calls
  `get()` again.
* *IsolateLifecycle*: threads continue, a running script polls, and the timer of the
  process fires if nobody sets it again. That scripts end is not assumed; it is a
  condition inside `ShutdownEnds`.
* *VMThread*: threads that can run do run, and `run()` returns. Nobody has to call
  `join()` or delete, and no wake-up comes by itself.
* *GCMark*: the collector's single call goes on, and the policy begins and finishes
  collections. The program does what it likes.
* *ZCT*: a reap runs on the thread that began it until it is done, and the callbacks
  and destructors it calls return.

## 5. Proofs

`SafepointProofs` proves, for every set of threads and managers and every nesting
depth, from the single assumption `SafepointAssumption` (a positive depth,
`Interruptible` among the threads, the null values distinct from real ones):

* `Invariance`: `Spec => []IndInv`;
* `TaskExclusionHolds`: while a manager's task runs every record on its list is
  safe and no other thread executes in its context;
* `RecordsConsistentHolds`: types, the assertion of `~SafepointRecord`, buried and
  visited records stay safe, the requester holds the mutex;
* `MembershipFrozenHolds`: no record is linked or unlinked while a request is
  announced (an action property);
* `Refinement`: `Spec => StopsTheWorld`.

The argument. `TaskExclusion` is not inductive: the step into the task has seen the
records one by one, at different times. `IndInv` adds what makes a scan of
moving threads meaningful:

* `TypeOK`, and `ControlShape`: which program positions go with which depth and target;
* `RequesterHoldsMutex`: the announced requester is the owner of the request
  mutex (a back-off gives up both), so there is one scan at a time and the list
  is fixed during it;
* `BuriedSafe`: a record that is not the thread's current one is safe, so nested
  contexts do not hold up an outer manager's task;
* `SeenStaysSafe`: a record that the busy-wait has already left behind is still
  safe, because a gate cannot close while somebody else owns the request mutex;
* `RecordsReset`: the linked records are exactly those of the thread's stack, and
  an unlinked one is back to the status it is created with;
* `TaskSafe`: while the task runs every linked record is safe.

Each action is one lemma that shows that it preserves `IndInv`; the lemma splits on
the conjuncts the action disturbs. The refinement maps "runs in the context of m" to a running thread
whose current record belongs to m, and the thread of the task to the owner of the
mutex once it has reached the task; each step maps to a step of `StopTheWorld` or
a stutter.

`VMThreadProofs` proves, for any finite set of joiners (`VMThreadAssumption`),
`TypesHold`, `FreedUnusedHolds` and `JoinedEndedHolds`. The destructor decides by
`m_joinerQty` and `m_state`, so the invariant has to say what they mean:
`joinerQty = Cardinality(Waiters)`, the clients inside `wait()`, and `StateInv`, which
ties `m_state` to the place of the native thread. Steps into and out of a wait
add or remove one element of a finite set; the rest leave `Waiters` alone.

`InterruptWordProofs` proves, for any number of raises and code blobs and whether or
not methods may be unwound, `TypesHold` (`TypeOK`, with the addition that a reason acted
on is one that somebody wrote) and `PollKeptHolds`: a requester in its busy-wait finds the core
safe, or its poll in the word, or in the hands of the handler that read it, unless
a late raise has overwritten it. It is the safety half of `RequestServed`, whose
liveness stays with TLC. `PollKept` is not inductive; `PollInv` adds that a raise which
is going to write over a poll looked at the word before the poll was there, and that a
handler which has read a terminating reason clears nothing else.

`WorkerMutexProofs` proves, for any set of workers, any depth of recursion and any
terminations (`WorkerMutexAssumption`), `MutexExactHolds`, `CountsExactHolds`,
`HeadNotStrandedHolds` and, under `~ReentrantTry`, `FullyReleasedHolds`. The
properties speak of the moments when a monitor is free; the invariant has to say
what is true while it is held:

* `LockInv`: OS mutex, `m_ownerThreadID` and count together; without re-entrant
  `tryLock` the OS mutex is taken at most once;
* `ListInv`: a record is in a list exactly if its worker is at one of the places
  inside `Enter`, and the holder of a monitor is at one of the places that hold it;
* `CountInv`: `m_waiterCount` lags the list by the record of the monitor's holder, and
  a marked record belongs to a worker that has been woken;
* `CalmInv`: without a termination no record is marked and `continueWait` is false,
  which is what makes a woken head of the queue try again;
* `HeadInv`: `HeadNotStranded`, extended over the time the monitor is held.

The lists are sequences; lemmas about `Append`, `Tail`, `RemoveAt` and `Range` of an
injective sequence (`RemoveAtFacts`, `RangeFacts`, `AppendFacts`, ...) do the work.

`ChannelProofs` proves, for every initial length of at least two, every number of
tries and items (`ChannelAssumption`), `BuffersConsistentHolds` and the refinement
`FifoHolds`. Two sides race without a lock, each on what it has read; what it knows
then is the invariant: `PutInv` and `GetInv` (the head or tail read is still
current, unless the other side has *faked* a full or an empty buffer), `FakeInv`
(what a faked state hides: a buffer that looks empty was full and its items are in
the overflow buffer; one that looks full is empty and its receiver sleeps; with the
exceptions that `close()` makes), `MonitorInv` for the time between the two accesses
of a swap, and `SizeInv`. The refinement maps the queue to `Contents`: the overflow
buffer where there is one, the ring from tail to head otherwise, or what a faked
state hides. A `put` counts from the publication of its item, though it may sleep
afterwards, and a `get` from the removal. Growth, wrap-around and exchange of the
buffers are lemmas about the sequence that a ring from tail to head denotes.

`IsolateLifecycleProofs` proves, for any finite set of workers and any number of code
blobs (`IsolateAssumption`), `NoCodeOutlivesHolds` and `AccountedHolds`. The invariant
holds until the process is gone (`IndInv \/ Gone`). `CountExact` rests on every decrement being
that of an isolate which was counted in, but for those that `again` counts.
`StateInv` says what the state of an isolate says about its thread, `StartInv`
that a start under way belongs to one script, finds no thread and is overtaken only
by a shutdown, `LiveInv` that a script which has not ended is counted in or is one of an
isolate that died of an exception, `MainInv` that nothing but a shutdown stops Main, and
`ThreadInv` that a thread the iterator of the cleanup will not meet is done, or has yet
to read a mark that is there already.

`ZCTProofs` proves, for any finite set of objects, any size and number of the table's
blocks and any limit of the count (`ZCTAssumption`), `CountExactHolds`,
`ZeroListedHolds`, the refinement `RefinesCollector` and, under `PinListFits`,
`TableExactHolds` with the bound it needs, `BoundHolds`; all of them for `Careful` code
inside a reap. The hard case is a reap in the middle of a store or a delete, whose
callbacks and destructors allocate objects and change counts, fields and table
before the interrupted operation goes on:

* `CountsAre(rc, alive \ sticky, Counted)`: counts are exact with respect to the
  fields as they will be when the interrupted operation has finished;
* `TabInv`: a non-zero index leads to the object's only entry, in the table or in the
  pin list and never in both, of a living object with count zero; the length of
  the table ends in its last block;
* `PinInv`: during a reap whatever the stack or the interrupted operation holds is
  pinned or moved already, so the reaper frees nothing the program is using; after
  it no pin flag is left;
* `ZeroKnown`: objects with count zero are listed or among the refused ones;
* `HeapInv`, `AfterInv`, `AddInv`: what the interrupted operation may still rely on;
* `FrameInv`: the object whose destructor runs has no entry and nothing points to it,
  and what the code inside the reap holds is alive.

That a freed object is unreachable follows from `CountsAre` and `PinInv`: no field and
no stack slot points to it, so no path of `Collector` leads to it. `PinListFits`
says that the objects of the heap, all pinned, fit `MaxSegs` blocks of which each
spends an entry on its link; why it is needed is in section 3.

`GCMarkProofs` proves, for any number of objects and roots, any choice of large, leaf,
weak and deletable ones and any capacity of the two stacks (`GCMarkAssumption`),
`MarkerConsistentHolds`, `NoBlackToWhiteHolds` and the refinement `RefinesCollector`.
`NoBlackToWhite` speaks of the time between overflows; the sweep is right because of
what holds during them, and of what the marker still knows about a holder it has
traced only in part:

* `Tri`: if a live root or a marked object points to a white object, then the
  overflow flag is up, or the pointer is in the part whose tail or chunk is still on
  the mark stack, or the holder is `Excused`: a root before its second marking, or
  a place that a recovery (`HandleMarkStackOverflow`) has not reached yet. When a
  recovery begins the flag goes down and every holder is excused; the scan takes the
  excuses back one by one, and a new overflow puts the flag up again;
* `StackTri`: the same for the native stack while its item is on the mark stack;
* `Queue` and `Exact`: what is queued is on one of the two stacks, and until the sweep
  only that, and only once, so that popping an item settles the object's debt;
* `RootItems`: the sentinel of a root is the place of its protector, and its only
  chunk is above it. `SetMarkStackSentinelPointer` wipes by position; this is what
  makes the wiped items those of the root that is destroyed or marked again;
* `AliveItems`, `HeapInv`: no object that is on a stack as a whole was freed, and no
  living holder points to a freed object; `Free` leaves queued and protected objects
  allocated for that;
* `Forgotten` (theorem `ForgottenHolds`, on top of the others): a freed object is white,
  and the stack has no tail or protector of it while its bit stands. A push of
  a tail puts the bit up, a pop of a protector takes it down with at most a lower pair
  left behind, and `Free` refuses while it is up;
* `PhaseInv`: nothing is marked when a collection begins, and from the last flush
  on the barrier stack is empty unless the mark stack overflowed.

The relation `Grows(m, n, d)` carries most of it: the marker goes from `m` to `n` without
forgetting more than the items `d` and without blackening any object that has
pointers. Pushing and tracing are steps of it (`PushFacts`, `TraceFacts`), it composes
(`GrowsTrans`), and it preserves `Tri` (`GrowsTri`) if the holders of the items `d` are
excused. At the sweep both stacks are empty, the flag is down and nothing is
excused, so the marked objects are closed under pointers and contain the stack
and the targets of roots; `Collector`'s reachable set is the least such set
(`SweepMarked`).

In all these modules each action, or group of actions with the same effect, is one
lemma that it preserves the invariant, and the theorems only combine these lemmas.
Assumptions on constants are types, finiteness where a count is a cardinality, and
null values distinct from real ones.

Only model-checked:

* everything about liveness: fairness and `ENABLED` are outside the prover's reach;
* `GCAlloc`: free lists and sweeps are folds over sequences of blocks, and what such
  a fold computes for every input needs induction over data.

## 6. Not modelled, and why

* The page heap (`GCHeap`): planned. The allocator and the table take blocks from
  an unspecified heap that may refuse. Two things in it that a model would have to
  decide are listed as hazards: the count of decommitted pages where parts of a
  recommitted block were committed before, and the dirty flag of a block that is
  coalesced into its predecessor.
* `GCLargeAlloc` but for its rules of deletion under the marker (in `GCMark`), and
  `FixedAlloc`: the walk of the list and the free lists are those of `GCAlloc`.
* The policy: the models let a collection begin, go on and end whenever it may.
* Of the marker: exact tracers' own control (`MarkItem` recursion), conservatively
  traced large objects, out-of-memory aborts by `longjmp`.
* `BlockingChannel` and multi-item buffers: a template used by no native class of
  this tree.
* Interpreter, verifier, JIT, halfmoon, eval, AOT: sequential, and their state is
  the language semantics or generated code.
* VMPI, AVMPI, the Redtamarin API: wrappers of system calls; the mutexes and
  condition variables the models need are marked external.
* Of the isolates: shared properties, descriptor numbers, `listWorkers`, destruction
  by reference count (`cleanupIsolate`), a failing script of Main (which ends the
  process), a grace timer that fires after its core is gone.
* Of the channel: registration of the buffers as GC roots.

These sequential parts are most of the repository's lines, which is why the map
covers a small share of them.

## 7. Plan

1. Composition of `Safepoint` with the life of a core: the record of a shell
   isolate points into the interrupt word of a core that is deleted first.
2. The page heap: block list, split and coalesce, accounting.
3. Destruction of isolates by reference count; descriptor numbers on a small width.
