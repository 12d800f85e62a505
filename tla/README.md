# A TLA+ model of the macOS port of the NVIDIA open kernel modules

The repository is a porting kit (`src/macos_porting_kit/`): a DriverKit driver
for an NVIDIA GPU, a user client through which programs talk to it, a test
program, a shim in front of NVIDIA's operating-system independent code, and a
set of headers that give that code the Linux kernel's interfaces on top of
DriverKit. The modules in this directory model the parts of it that have state;
TLC checks them on small instances and TLAPS proves the main safety results for
every instance. `PROJECT.json` has, for each definition, the source lines that it
models, and the lists of runs, mutations, hazards, findings and theorems.

To repeat the checks:

    tlc -workers 2 -config DriverStack.cfg DriverStack     # a run: module, cfg
    tlapm DriverStackProofs.tla                            # a proof module

## 1. The system

### Components

| Component | Source | State it keeps | Operations |
|---|---|---|---|
| Driver | `NVIDIADriver.cpp` | ivars `pciDevice`, `nvDevice`; the object's reference count | `init`, `Start` with the labels `fail_after_alloc`, `fail_after_open`, `fail`, `Stop`, `free` |
| User client | `NVIDIADriverUserClient.cpp/.h` | `m_driver`, one object per connection | `init`, `Start`, `Stop`, `free` |
| Test client | `test_client.cpp` | a service handle, a connection, `kr` | `main` |
| nvKms shim | `nvkms_macos_shim.cpp/.h` | library initialised or not; the heap object `NvKmsKapiDevice` | `init`, `teardown`, `allocate_device`, `free_device`, `grab_ownership`, `release_ownership`, and two calls without effect |
| Work queue | `linux/workqueue.h` | `gSystemWorkQueue`, one per translation unit | `schedule_work`, `flush_scheduled_work` |
| Wait queue | `linux/wait.h` | an `IOLock` and the sleepers on an event | `init_waitqueue_head`, `wait_event_interruptible`, `wake_up_interruptible`, `wait_queue_destroy` |
| Reference counts, atomics | `linux/kref.h`, `linux/atomic.h`, `asm/barrier.h` | a signed `int` | `kref_init`, `kref_get`, `kref_put`; set, read, add, subtract, with and without a test; the barriers |
| Lists | `linux/list.h` | `next`, `prev` of each element | initialise, add, add at the tail, delete, empty, first entry, the loops |
| Locks | `linux/mutex.h`, `linux/spinlock.h`, `core/locks.h` | a pointer to a DriverKit lock | initialise, acquire, release, destroy |
| Timers | `linux/timer.h` | a dispatch source per timer, a queue for all | `init_timer`, `add_timer`, `del_timer_sync`, `destroy_timer`, the callback |
| PCI compatibility | `linux/pci.h` | none of its own | wrappers of `IOPCIDevice` |
| Conversions | `linux/err.h`, `errno.h`, `delay.h`, `kernel.h`, `port_mem.h` | none | error pointers, delays, `DIV_ROUND_UP`, the bounded copy |
| Small headers | `slab.h`, `vmalloc.h`, `uaccess.h`, `io.h`, `printk.h`, `sched.h`, types and constants | none | memory, logging, declarations |

### Interactions

    test_client --IOServiceOpen/Close--> (DriverKit) --Start/Stop--> user client
                                             |                            | retain / release
                                             +------ Start/Stop ----> driver ----> PCI device
                                                                          |
                                                                          +------> nvKms shim
    OS-independent code ----> list, kref, mutex, spinlock, workqueue, wait, timer ----> DriverKit

The driver and each user client run their handlers on dispatch queues of their own; the driver
calls the shim and the PCI device synchronously; user clients share with the driver only its
reference count. No file of the repository calls the compatibility headers yet (they include
only one another): they are interfaces for the code that is being ported, and are modelled with
the callers that these interfaces allow.

### What is hard, and what makes each component correct

* **Driver.** `Start` acquires shim, PCI session, device and ownership and has
  three clean-up labels. Correct: what was acquired, and only that, is given back
  in reverse order on every path, nothing is used after it was freed, and what user
  space can find is ready for use.
* **User clients.** `RegisterService` publishes the driver before `Start` has
  returned; connections come, fail and go while the driver is terminated.
  Correct: the driver lives while a user client has a pointer to it, also at the end
  of its `Stop`, and not for ever.
* **Test client.** It may be killed anywhere. Correct: handles and connections
  end.
* **Work queue.** The queue is created lazily, with no lock, in a static variable
  of a header. Correct: each accepted item runs once, in order; a flush is a
  barrier; work gets done.
* **Wait queue.** Correct: a sleeper whose condition has come true and who is
  woken goes on.
* **kref.** Gets and puts of many threads, whose stores to the object may linger. Correct: the
  object is released once, only when no reference is out, and no store to it comes later.
* **Lists.** Loops interleave with what their bodies do to the list. Correct: links
  agree, no loop leaves the list, misses a node or repeats one.
* **Locks.** Allocation may fail silently. Correct: one thread in a section.
* **Timers.** The queue is created lazily, as the work queue is, and the owner's calls race with
  the callback. Correct: what is added fires, once; callbacks exclude one another; a deleted
  timer's callback does not run. (The first and the last do not hold of a timer that has been
  deleted: section 5.)
* **Conversions.** Overflow and boundary values. Correct: an error is told from a pointer, delays
  are as long as asked (`msleep` is not: section 5), copies stay inside.

## 2. The modules

### The driver stack

`NvKmsShim`, `NVIDIADriver`, `NVIDIADriverUserClient`, `TestClient` and
`DriverStack` extend one another in this order, one module per component;
`DriverStack` composes them and states the properties.

* `NvKmsShim`: `shimInits` counts successful `nvkms_shim_init` less
  `nvkms_shim_teardown`; `device` is the single heap object the driver allocates,
  with `life = "corrupt"` once it is used when not live. `ShimFaults` says which
  calls can fail. The simulated shim fails only in `malloc`, i.e. `{"allocate"}`;
  the full set stands for any library with the prototypes in the header, which is
  what the driver's branches are written for.
* `NVIDIADriver`: `pc` is where `Start` or `Stop` is. Each call that the
  driver makes to the shim, the PCI device or the framework is one action
  (`StartOpen`, `StartAllocate`, ..., `FailAfterAlloc`, ..., `StopTeardown`), with
  failure as a disjunct, so that user clients can run between any two. Pointers in
  the ivars are NULL or not; a configuration read is 0, all ones or an id, which
  is all that `Start` distinguishes.
* `NVIDIADriverUserClient`: `uc[c]` and `m_driver[c]` per connection. The
  retain in `Start` and the release in `Stop` work on the driver's `retainCount`,
  and the release that reaches zero runs the driver's `free`. `Stop` is two steps: the
  release (`UcStop`), and the call of the superclass's `Stop` with the provider
  (`UcStopSuper`), a use of the driver after its reference has been given back.
* `TestClient`: `main` statement by statement, `TcKilled` at any of them, and
  `TcReap`, the kernel's closing of what a dead process left.
* `DriverService` is the abstract specification: a service that is published
  at most once, admits clients only while it is published, and is gone after, and
  only after, the last client has left. `DriverStack!ImplementsService` is the
  refinement: `phase` is read off `object`, `Published` and `pc`; `pending` are the
  user clients in their `Start`; `sessions` those that keep `m_driver` or are in their `Stop`.

DriverKit is not in the repository. What is assumed of it is in the actions named
`Service...`, `Uc...`: an object is created with one reference; `Stop` is
called once, and only on an object whose `Start` succeeded; the provider of a
user client, an argument of its `Start` and `Stop`, is held from before each of them is
called until it has returned, and at no other time. In between only the retain in `Start`
keeps the driver (the mutation without it fails), and at the end of `Stop`, line 74, only the
framework does: `m_driver` has been released by then. A termination
unpublishes at once; `Stop` of the driver and of its user clients are not ordered.

### The work queue

`WorkQueue`: a caller, a thread or a work function running on a queue, goes
through `schedule_work` in the steps check, create, validate, dispatch, and through
`flush_scheduled_work` in the steps check, dispatch, wait. The variable is read and
written without a lock, which is a data race: the compiler may read it anew at
each use or go on with the value that it read or stored before, so a use chooses
between the two (`Views`). A NULL that is used ends the caller in `"crashed"`. `failed`
is a history variable: some creation has returned NULL.
The dispatch queues (`Begin`, `FinishWork`, `FinishBarrier`) are DriverKit's: serial,
first in first out, `dispatchSync` a block that wakes its caller. A work function may
call `schedule_work`, but not `flush_scheduled_work`, where it would wait for itself, as in
Linux. A call with a NULL argument or function is `validWork = FALSE`.

`SerialWorkqueue` is the abstract queue: items are finished in the order of their
submission, one at a time, and a flush ends when what was submitted before it has
finished. `ImplementsSerialWorkqueue` maps to it.

### The other compatibility headers

* `WaitQueue`: the two addresses that may be used as an event are distinct
  values; `wait_event_interruptible` is the macro's loop step by step. The lock's allocation may
  fail, and the queue is destroyed when nobody is in a call.
* `Atomic`: the counter is an integer of range `-IntMax-1 .. IntMax` that wraps; each operation
  of `atomic.h` is one operator, and one step. `pending` is the set of threads whose earlier
  stores other threads may not see yet: the `__sync` built-ins that add and subtract are full
  barriers and empty it of the caller, `__sync_lock_test_and_set` in `atomic_set` is an acquire
  barrier only and leaves it alone.
* `KRef` over `Atomic`: a thread that holds a reference may store to the object (`Store`), and a
  store reaches the memory at some time (`Settle`) or with a barrier. A `kref_put` that reaches
  zero is followed by the call of the release function as a step of its own.
* `List`: operations are single steps, since callers hold a lock; the loops have
  a step per round, and between rounds the body does any number of operations.
  A body may delete what it stands on in `list_for_each_safe`, delete other nodes
  except the one the loop goes on from, add nodes and move nodes to other lists.
  It may not put a node it has visited back on the list of the loop.
  `list_for_each_entry` is `list_for_each` with its test on the head.
* `Locks`: the three interfaces over the same steps; `MayBeNull` says
  for which of them callers can meet a NULL pointer, after a failed allocation or a
  destruction. Destruction is done only when no thread is in a call.
* `Timer`: `init_timer` in the steps call, test, creation of the queue, creation of the source,
  with the data race on the static `gTimerQueue` as in `WorkQueue`; `add_timer`,
  `del_timer_sync` and `destroy_timer` are a step each, and a callback may call them too. A
  timer's owner does not call two functions on it at once. A source is `armed` or not and runs
  on the queue it was created with; `cancelled` is set by `del_timer_sync`, and reset only by a
  new source from `init_timer`. `pending` is what the owner thinks: an `add_timer` that
  no callback has answered and no deletion has taken back. Of DriverKit it is assumed that
  `cancel()` keeps the block from starting and does not wait for it (waiting takes its
  completion handler); that `cancel()` is final, so that `setTimeout` on a cancelled source arms
  nothing; that the `release()` in `destroy_timer` drops the only reference to the source, and
  a source that is freed does not fire; that a source fires once for each arming; and that
  there is no source without a queue. `overlapped` and `failed` are history variables, for
  `SerialUnlessRaced` and `InitGivesSource`.
* `Conversions` and `Pci` have no state: operators for any width of `long` and `unsigned int`
  (`LongMax`, `UintMax`), with the wrapping that C prescribes, about which there are theorems.
  A delay is the time that DriverKit waits, in microseconds: `IODelay` takes microseconds,
  `IOSleep` milliseconds.
  A wrapper of `pci.h` yields whether it calls `IOPCIDevice` and what it returns.

## 3. The runs

All bounds are constants in the `.cfg` files. `CHECK_DEADLOCK FALSE` is said
everywhere: a freed driver, a drained queue or a released object has nothing more to
do, and a system with all items done stops.

| Run | Result | Shows |
|---|---|---|
| `driver_stack` | pass | two clients, all faults. Below. |
| `shim_leak` | violation of `ShimUnloaded` | a `Start` that fails after `nvkms_shim_init` never calls `nvkms_shim_teardown` |
| `workqueue_warm` | pass | one queue that exists: `InOrder`, `FlushBarrier`, `FlushReturns`, and the refinement of `SerialWorkqueue` |
| `workqueue_cold` | pass | two threads that race to create the queue, with failures: `ItemsConserved`, `CrashNeedsFailure`, `FlushSkipsNothing`, `FlushClearsQueue`, `WorkGetsDone` |
| `workqueue_flush` | violation of `FlushBarrier` | a flush in one translation unit does not wait for work of another |
| `workqueue_once` | violation of `InitializedOnce` | two first callers create two queues |
| `waitqueue_wakeup` | violation of `WakesUp` | `wake_up_interruptible` wakes an event on which nobody sleeps |
| `kref` | pass | `ReleasedOnce`, `CounterCounts`, `StoresPrecedeRelease`, `FinallyReleased` |
| `list` | pass | links, effects of the operations, and the loops |
| `locks` | pass | any of the three locks, which may be missing: `OwnedIfLocked`, `CallsReturn` |
| `timers` | pass | two timers that race: `InitGivesSource`, `SerialUnlessRaced`, `FiresOncePerAdd`, `QuietAfterDelete`, `AddedFires` |
| `timer_sync` | violation of `DeletedIsDone` | `del_timer_sync` returns while the callback runs |

**`driver_stack`** has two clients: one suffices for a client against the
driver, the second for a client against another's reference (the last to leave frees the
driver, whichever it is). A driver object lives once per process, so the whole life of the stack
is explored. `NestedResources`, `NoMisuse` and `NothingLeftBehind` are about the
labels; `PublishedIsReady` about `RegisterService` before the end of `Start`;
`RefsAccounted` and `ClientPinsDriver` about the reference count and about every use that a
user client makes of the driver, the one at the end of `Stop` included;
`HandlesBalanced` about the test client; `DriverFreed` and `ConnectionsEnd`
say that all of it ends. `StackInv` is the inductive invariant of the proofs, checked
before it was proved.

**`workqueue_warm`** has two threads, one queue, which is itself a caller in work functions, and
three items: a flush can begin after the first, overtake the second and wait while a
work function schedules the third. **`workqueue_cold`** has as many queues as
threads that can race to create one, so the overwritten queue and the one that replaces
it are both there, and a failed creation that overwrites a good queue with NULL.
`WorkGetsDone` says "or crashed": when a creation that failed stores NULL between
another caller's test and use, that caller dereferences NULL. `CrashNeedsFailure` says that the
race of the first calls alone does not lead there. `FlushBarrier` and `InOrder` fail
in this run, since the overwritten queue runs its items apart (`workqueue_once`). What is left
of the barrier is `FlushClearsQueue`, a flush that waits clears the queue that it was dispatched
to of everything accepted before the call, and, for a flush that finds no queue and returns at
once, `FlushSkipsNothing`: it passes over accepted work only after a creation has failed. The
run has one unit; with two a flush that finds no queue may pass over the other unit's work.

**`kref`**: four threads, up to three references at once, `IntMax = 3`: the counter
reaches the end of its range, and no more references are handed out than fit. With more,
it would wrap; that boundary is where `CounterCounts` would fail. `StoresPrecedeRelease` needs a
store of one thread to linger past its own put and another thread's, so its mutation drops the
barrier from the decrement.

**`list`**: two heads, three nodes: empty, one-element and longer lists, moves between
two lists, and loops with nodes before, at and after the position. **`locks`** has
four threads, so that several wait for a lock while one is in the section.
`OwnedIfLocked` names the only way into a section without the lock, a mutex or a spinlock that
is NULL.

**`timers`**: two timers, two queues, two `add_timer` calls for each. Two timers are what a
race to create the queue takes, and with a queue for each, the one that was overwritten and the
one that replaced it both run callbacks. A second `add_timer` comes while the first one's
callback is running or is due, or when the source has been cancelled, and then arms nothing;
destruction and initialisation come in between without bound. `AddedFires` therefore excepts
the cancelled source by name: what is added to it never fires, as `QuietAfterDelete` says.
`SerialUnlessRaced` says that this race (or a creation that failed and was retried) is all that
can break the "single global queue" of the comment; `QuietAfterDelete` is what remains of the promise of `del_timer_sync` that `timer_sync` refutes: no callback
*begins* afterwards.

### Fairness

* Handlers of the driver, of user clients and the statements of `main` are taken to go on (weak
  fairness): they have no loops and their calls return. Nobody has to terminate the
  service or kill a client.
* Dispatch queues run what they hold, calls that have begun go on. `FinishWork` has strong
  fairness: a work function may make any finite number of calls before it returns, and
  each of them disables its return for a while.
* A lock is granted to a thread that waits for it infinitely often while it is free (strong
  fairness on `Granted`), and sections are left.
* A thread whose `kref_put` has brought the count to zero goes on to call release; nobody has
  to put a reference.
* The body of a loop comes to an end.
* A timer's callback returns (weak fairness), and a source that is due again and again while
  its queue is free is served (strong fairness on `Fire`: other timers of the queue may come
  first). Nobody has to add, delete or destroy a timer.
* The properties that are violated speak of states and of steps, for which fairness is of no
  consequence.

### Mutations

Each property of a passing run has a mutated definition in `PROJECT.json`, kept in the module
before the definition it replaces and marked "Mutation of": a dropped retain, a clean-up label
that is jumped past, an item dispatched at the head, a loop that reads its successor too late.
TLC finds the property violated under each.

## 4. The proofs

All are for arbitrary constants under the named `ASSUME`s of the modules: finite
sets of clients, threads and nodes, disjoint heads and nodes, fault sets within those
named.

* **`DriverStackProofs`.** The invariants of the stack are not inductive: that `NoMisuse` holds
  of the next `free_device` depends on where `Start` is and which pointers it has left.
  `StackInv` says it: which resource is held is a function of `pc` (`ResourceInv`), which
  phases can have been published or terminated (`PhaseInv`), who accounts for each reference
  (`RefsInv`), and what `uc`, `m_driver` and `tc` say of one another (`UcInv`, `TcInv`).
  `Invariance` proves it inductive, with one step per action; the reference count needs lemmas
  on the cardinality of `InHandler` and `Connected` when a client enters or leaves.
  `TypeCorrect`, `ResourcesNested`, `NothingMisused`, `PublishedReady`, `ReferencesAccounted`,
  `DriverPinned`, `CleanEnd` and `HandlesGivenBack` follow. `StackImplementsService`: initial
  states map to initial states of `DriverService` and, under `StackInv`, each step maps to a
  step or a stutter.
* **`KRefProofs`.** `ReleaseOnce` and `CounterExact`, for any `IntMax` and any number of
  threads: the counter is the number of references out, and wraps under none of them.
  `NoLateStore`: a thread with a store that lingers holds a reference (`KRefInv`), since each
  put is a full barrier, so none is left when the count is zero. `TestsExact`, `SubUndoesAdd`
  and `AdditionsCommute` are about the operations of `atomic.h` that `kref.h` does not use:
  they hold although the counter wraps.
* **`WorkQueueProofs`**, in four parts. In general, for any number of threads, units and queues,
  with racing and failing creations: `TypeCorrect`, `NoItemLost` (`ItemsConserved`) and
  `FlushClears` (`FlushClearsQueue`). A
  cardinality of one is not inductive; `ItemsInv` says instead that each accepted item is
  somewhere, and in no two of: two positions of queues, two queues' hands, `done`. `RoomInv`
  keeps the numbers below the bound: a call that has begun has room for its item. `LineInv`: in
  each queue the items that run and wait come in the order of their numbers; `BarrierInv`: a
  barrier is its caller's only one, the caller waits for it, and the items behind it were
  accepted after the call of `flush_scheduled_work`. So a barrier that has run leaves nothing of
  before the call in its queue. Next the races with no creation that failed: a caller that is
  past its test has a queue and so has its unit (`FoundInv`), and where there is work there is
  a queue (`WorkInv`), hence `NoCrash` (`CrashNeedsFailure`) and, in a single unit, `FlushSkips`
  (`FlushSkipsNothing`). Then for units whose queues exist (`Initialized`), any number of
  them: `WarmInv` says that what a caller has seen of the variable is its unit's queue, hence
  `QueuesKept` (only first calls race) and `FlushClearsOwnUnit`, which is what a caller has of
  the barrier that `workqueue_flush` refutes: a flush covers its own unit. Last, for one
  such unit (`OneUnit`): no other queue has blocks (`SysInv`) and an item that has left is done
  after all before it (`DoneInv`), hence `RunsInOrder` (`InOrder`), `FlushWaitsForAll`
  (`FlushBarrier`) and `ImplementsQueue`, the safety part of the refinement of `SerialWorkqueue`.
* **`TimerProofs`.** `InitCompletes`, `CallbacksSerial`, `OneShot`, `NoLateCallback` and
  `LostAdditions` (what is added and not yet answered is lost exactly if the source is
  cancelled), for
  any number of timers and queues, from `TimerInv`: unless a creation failed, a timer that is
  past its test has seen a queue and the variable keeps one; unless calls overlapped, all
  sources are on that one; an armed source has an `add_timer` that has had no callback, and a
  source is armed exactly while such an addition is pending and it has not been cancelled.
* **`ConversionsProofs`**, for any widths: `ErrorsExactly` and `ErrnoRoundTrip` (`IS_ERR` holds
  of what `ERR_PTR` makes of an errno and of nothing else), `PciResults` (a wrapper calls
  `IOPCIDevice` exactly when it is given a device, returns 0 exactly when it called and the call
  succeeded, and its errors are error values), `DelaysExact` and
  `DivRoundUpExact` (for which arguments the product and the sum overflow, and that the result
  is then too small), `SleepsTooLong` (`msleep` sleeps 1000 times what it is asked, or, when its
  product overflows, less than that), `CopyStaysInside` (`portMemCopy` writes inside the stated size or not at
  all).
* **`ListProofs`**, for lists of any length and any number of them. The links alone say nothing
  of what is on a list: `ListInv` adds to `WellLinked` that every list *holds* a sequence
  (`Rings`, with `Holds` as in `OperationsKeepContents`), and where in that sequence a loop
  stands (`LoopInv`, `Stands`): the next position, with what is due from there on and nothing
  visited. Contents are unique and disjoint between heads, and a change at one position leaves
  the others as they were; such facts about all positions would be inductions along the list
  and are shown by the smallest position at which they fail. The operations become insertions
  into and removals from sequences, and with that `ContentsKept` (`OperationsKeepContents`),
  `WalksVisitAll` (`WalkComplete`), `WalksVisitOnce` (`VisitsOnce`), `LinksAgree` (`WellLinked`)
  and `WalksStayOnList` (`NoNullWalk`) follow. `RoundsRunOut` is what `WalkEnds` rests on: each
  round that runs the body leaves fewer nodes for which it can run.
* **`LocksProofs`.** `OwnedWhileLocked` (`OwnedIfLocked`), whichever interfaces may meet a
  missing lock: the section of a mutex or spinlock that is NULL is open to everybody, and that
  is the only case.
* **`WaitQueueProofs`.** `SleepersStay`: the lost wake-up that `waitqueue_wakeup` shows is not
  one unlucky behaviour, since no step of any behaviour resumes a sleeper. `LockNeverHeld`: the
  lock that the macro has `IOLockSleep` release is never held by anyone, so that every call of
  it is undefined. Both from `LostInv`: sleepers are on the one event that nobody signals.

Only model-checked is what speaks of fairness and progress, which the prover cannot do:
`DriverFreed`, `ConnectionsEnd`, the `WF` parts of `ImplementsService` and
`ImplementsSerialWorkqueue`, `FinallyReleased`, `CallsReturn`, `WalkEnds`, `WorkGetsDone`,
`FlushReturns`, `AddedFires`. Every invariant and every action property of a passing run is a
theorem.

## 5. Disagreements between the code and its comments

Each is a run, an entry under "findings" and a counterexample of a few steps.

1. `NVIDIADriver.cpp:149` calls the superclass's `Stop`, so the shim is not torn down when
   `Start` fails.
2. `workqueue.h:32`: the "global" queue is one per translation unit.
3. `workqueue.h:36`: "once" is a check and a store without a lock.
4. `wait.h:47,63`: sleepers and wakers use different addresses.
5. `timer.h:79`: deletion does not wait for the callback.

Observations without a run:

* `mutex.h:38`, `spinlock.h:36`: a lock that could not be allocated is not taken, and nobody is
  told; `rmGpuLockAcquire` (`core/locks.h:62`) reports it.
* `timer.h:56,66,79`: `add_timer` "starts or modifies a timer", but on a timer that
  `del_timer_sync` has deleted it starts nothing: `cancel()` is final, and the cancelled source
  stays in the timer. In Linux a deleted timer can be added again; here only
  `destroy_timer` and `init_timer` make it fit for that (`LostAdditions`).
* `timer.h:80`: "Return 1 if the timer was pending", but 1 is returned whether it was or not.
* `timer.h:39`: the "single global queue" is one per translation unit, and a race makes two in
  one unit (`SerialUnlessRaced` excepts it).
* `timer.h:64`: `add_timer` on a timer whose source could not be created does nothing, and
  nobody is told.
* `delay.h:38-39`: `msleep` converts to microseconds since "IOSleep takes microseconds", but
  `IOSleep` takes milliseconds: every sleep is 1000 times too long. The product, in `unsigned
  int`, wraps from 4294968 ms on (`SleepsTooLong`).
* `NVIDIADriverUserClient.cpp:70,74`: `Stop` uses the provider after it has given back the
  reference that kept it. Only the framework's own hold on the arguments of `Stop` makes this
  safe (section 2).
* `wait.h:62`: the macro never takes the lock that its `IOLockSleep` releases
  (`LockNeverHeld`).
* `workqueue.h:66`: a creation that failed in one thread can replace another's queue by NULL
  between its test and its use, which crashes it, or over a queue that holds work, which the
  next flush then passes over.
* `test_client.cpp:27` speaks of waiting for the service; the look-up that follows does not wait.

## 6. Not modelled

* `pci.h`: the session that `pci_enable_device` opens and `pci_disable_device` closes. They
  pass NULL as the owner, which the comment at line 49 calls provisional; what `IOPCIDevice`
  does with it is not in the repository, and no code calls them while the driver has its own
  session.
* `kernel.h`: `min`, `max`, `container_of` (`list_entry` is modelled, where it matters, as the
  element itself).
* `slab.h`, `vmalloc.h`, `uaccess.h`, and `port_mem.h` but for `portMemCopy`: each function is
  a call of the allocator, of `memcpy` or of `memset`, and decides nothing.
* `io.h`: single accesses; `ioremap` is a stub.
* `sched.h`: `current` points to one static `task_struct` that every call fills with the same
  values; `schedule` is empty.
* `printk.h`, `linux_stubs.h`, types, constants, empty macros, build files: no state.
* `nvkms_shim_get_device_resources_info`, `nvkms_shim_declare_event_interest`: no effect and no
  caller.
* A timer's `function` field, and a work function's use of what lies around its copied
  `work_struct`.
* A work function that flushes its own queue, and a lock destroyed while threads use it:
  callers' errors in the original interfaces too.

## 7. What could follow

The driver stack, its abstract service and its proofs came first, then the work queue, and then
the other headers in the order of what they share among threads. Every part of the repository
whose state several actors share is now modelled, but for what section 6 names. What is left
depends on code that is not here yet: callers of the compatibility headers (then their
assumptions, listed in section 2, become models of that code), an owner for `pci_enable_device`
(then `Pci` composes with `NVIDIADriver`: is the session balanced?), and methods of the user
client that use the device (then what `Stop` leaves to clients that still hold the driver
matters).
