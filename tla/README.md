# A verification development for camlbench

camlbench is a benchmark workspace for the OCaml compiler: `packages/` holds the
Jane Street libraries (base, core, core_kernel, core_unix, bin_prot, the ppx
rewriters) and a few others, after preprocessing. There is no one program. Two
parts are worth modelling most: where these libraries keep state that several
threads, processes or callbacks change, the concurrent part of `core_unix` and
`core_kernel`; and the JavaScript that `core` runs on in a browser, whose
largest piece is a whole implementation of dates, times and time zones
(`core/core/src/temporal-polyfill`), from which `core` loads the tables of its
time zones. This directory holds TLA+ models of those components, the TLC
configurations that check them on small instances, and TLAPS proofs of what
holds on every instance. Paths below are relative to `src/packages/`.

## 1. The system

| component | state | operations | what is hard |
|---|---|---|---|
| `core_unix/nano_mutex` | per mutex: holder, number of users of the blocker, blocker; one global pool of blockers | `lock`, `try_lock`, `unlock`, `critical_section` | threads interleave at every allocation; races to install and to detach the blocker; lost wake-ups; recycling |
| `core_kernel/bus` | state, array of subscribers with their indices, put-off unsubscriptions, last value | `subscribe_exn`, `unsubscribe`, `close`, `write` | re-entrancy: callbacks and on_close functions that call the bus or raise |
| `core_unix/squeue` | queue, mutex, two conditions | `push*`, `pop*`, `transfer*`, `clear`, `length`, `wait_not_empty` | cascades of signals, barging, unlocked reads |
| `core_kernel/thread_safe_queue` | linked list, pool of unused elements | `enqueue`, `dequeue_exn`, `length`, `clear_internal_pool` | the only switch point is an allocation inside `enqueue` |
| `core/core/src/timezone_js_loader` | the switch for testing; while it runs, the zone, the instant reached and the table so far | `load`, `For_testing.disable`, `enable` | a chain of searches that must end and leave nothing out |
| `temporal-polyfill.js`: transitions | the window of a walk and of a bisection | `getNextTransition`, `getPreviousTransition` | the host answers for single instants only; changes that are crowded, cancel, or lie past the horizon |
| `temporal-polyfill.js`: dates, times, zones, durations | none: the objects of its eight classes are immutable | `add`, `subtract`, `until`, `since`, `round`, `with`, `from`, `compare`, `total`, conversions | months and days of unequal length, gaps and overlaps of wall clocks, signs, the ends of the range |
| `core_kernel/timing_wheel` | levels of slots, cached minimum, clock, pool | `add`, `remove`, `advance_clock`, `reschedule`, `clear` | caches that must follow every operation; boundaries of levels |
| `core_kernel/tuple_pool` | array, free list, tuple identifiers | `new`, `free`, `get`, `grow` | stale pointers; identifiers that wrap |
| `core_kernel/weak_hashtbl` | table of weak pointers, queue of dead keys | `find_or_add`, `replace`, `reclaim_space...` | finalisers run at any allocation |
| `core_unix/lock_file_blocking` | files | `create`, `blocking_create`, `Nfs.*`, `Flock.*` | processes race and crash; stale locks; time limits |
| `core_kernel/limiter` | hopper, bucket, in flight, time | `try_take`, `try_return`, `try_reconfigure` | conservation of tokens; infinite quantities |
| `core_unix/daemon` | processes, a pipe | `daemonize`, `daemonize_wait` | the order of exit, write and poll |
| containers, codecs, parsers, command line, diff, ppx, system bindings | see `PROJECT.json` | | sequential or pure |

How they interact. `Nano_mutex` keeps its pool of blockers in a
`Thread_safe_queue`, and a blocker is an `Error_checking_mutex` with a
condition. `Squeue` is built on an `Error_checking_mutex` and two conditions directly.
`Weak_hashtbl` hands keys from finalisers to the main program through a
`Thread_safe_queue`. `Timing_wheel` allocates its alarms in a `Tuple_pool`.
`Bus` keeps its subscribers in `Option_array`s and calls client code. The lock
files and `Daemon` talk to other processes through the file system, pipes and
signals. Under js_of_ocaml, `Zone` calls `Timezone_js_loader.load`, which asks
`Temporal.TimeZone` for one transition after the other through stubs written in
JavaScript; the classes of `Temporal` share the arithmetic of dates, zones and
durations, and ask the host (`Intl.DateTimeFormat`, `Date`) for the rest.

What makes each correct:

* Nano_mutex: exclusion; a blocker is used by one mutex at a time and neither
  lost nor shared; a thread asleep on a free mutex will be woken; a free mutex
  does not stay free while somebody is inside `lock`.
* Bus: a write calls exactly the subscribers there when it began, once each;
  subscriptions and unsubscriptions made during a write take effect after it;
  `close` tells every remaining subscriber once; no exception leaves the bus
  unusable; the unchecked array accesses of the write loop are in bounds.
* Squeue: a bounded first-in first-out queue; nobody sleeps for ever on a
  condition that holds.
* Thread_safe_queue: each operation is an atomic operation of a queue.
* Transitions: an instant that is reported is a transition, and the nearest; the
  table of a zone gives the host's offset at every second it is meant for, in
  increasing order; every search and every load ends.
* Temporal: `x.add(x.until(y))` is `y`; balancing and comparing a duration agree
  with where it leads; rounding picks the grid point its mode names; a wall-clock
  time finds exactly the instants at which the zone shows it; the objects it
  returns are ones their classes accept.
* Timing_wheel: an alarm fires at the first advance past its time, never
  before; the cached minimum is the minimum.
* Tuple_pool: a freed pointer is refused until its identifier comes round.
* Weak_hashtbl: what was set in the entry of a key is found as long as it is alive;
  a key whose data is dead is found and removed.
* Lock files: at most one process has the lock; a dead one's lock can be taken;
  the file never says it is another's.
* Limiter: the tokens of hopper, bucket and in flight add up to a constant.
* Daemon: the shell is told 0 only if the daemon has released or ended well, is
  told something else only if something went wrong, and is told in the end.

## 2. What is modelled

### Nano_mutex: `NanoMutex.tla`, `MutexSpec.tla`

The runtime lock of OCaml 4 makes a stretch of code without allocation and
without blocking call atomic; `nano_mutex.ml` is written around that rule and
its comments mark the stretches. An action is one such stretch. A thread
inside a call is at one of thirteen points (`pc`), each a place where another
thread may run: the allocation of the closure that `lock` passes to
`with_blocker`, the return of `Blocker.create`, `Blocker.save_unused`, the
lock, wait and unlock of the blocker's mutex, and the retry.

| state | code |
|---|---|
| `holder[m]`, `num_using[m]`, `blocker[m]` | the three mutable fields of `t` |
| `pool` | `Blocker.unused` |
| `blk[t]`, `fresh[t]` | the locals `blocker` and `new_blocker` of `with_blocker` |
| `at[t]`, `purpose[t]` | the argument of the call the thread is in, and which call |
| `created`, `owns` | history: blockers allocated; mutexes each thread was told it has |

| action | code |
|---|---|
| `LockFree`, `LockHeld`, `RetryFree`, `RetryHeld` | `lock`, by the answer of its first test; the recursive call |
| `NotAcquired`, `RefuseLock`, `RefuseUnlock` | the answers that change nothing |
| `UnlockQuiet`, `UnlockContested`, `Signal` | `unlock`, and its `f` |
| `UseInstalled`, `ReuseBlocker`, `NewBlocker`, `InstallBlocker`, `LoseInstallRace`, `SaveSpare` | `with_blocker` up to its critical section, `with_blocker0` |
| `EnterBlocker`, `DecideToWait`, `DecideToRetry`, `Park`, `SpuriousWake`, `Reacquire`, `LeaveBlocker` | the critical section on the blocker and `Condition.wait` |
| `StopUsing`, `DetachBlocker`, `SaveBlocker` | the `finally` of `with_blocker` |

`Condition.wait` joins the waiters in the step that gives the mutex up, takes
the mutex back before it returns, and may return without a signal. A signal
wakes any one waiter.

`MutexSpec` is what a caller may rely on: an owner per mutex, blocked threads,
granting in any order, and that a free mutex somebody is blocked on is
eventually granted. It promises nothing to an individual thread, because the
code lets a newcomer barge in.

### Bus: `Bus.tla`, `BusSpec.tla`

One thread; the call stack is the state. A frame is client code (a callback, a
callback run with the last value by `subscribe_exn`, an `on_close`) or one of
the bus's own loops (the write, the put-off removals of `finish_write`,
`unsubscribe_all`). Whenever client code is innermost it may make any call of
the interface, return, or raise. `callbacks` mirrors `subscribers` in the code
at every step and is represented by it; the captured array of a write is kept
in its frame. The arguments of a write are one value, numbered in order. The model tries the
three policies for subscriptions after the first write. Every subscriber has an `on_close`. What a callback
raises goes to the subscriber's or the bus's handler; the model keeps the two
outcomes, that the handler copes or that it raises. What the clients of a
behaviour do is fixed at its start (`manners`, from `Manners`): which of callbacks,
handlers and `on_close` functions may raise, and how often an unsubscribe may be
repeated within a write.

| state | code |
|---|---|
| `state`, `write_ever_called`, `num_subscribers`, `subscribers`, `unsubscribes_during_write`, `last_value`, `policy` | fields of `t` of the same name (`policy` is `on_subscription_after_first_write`) |
| `subscribers_index[s]` | the mutable field of a subscriber |
| `stack` | the calls in progress |
| `known`, `handles`, `writes` | the client's side |
| `got`, `told`, `at_close` | histories: the value each callback was called with last, how often each was told of the close, and those who were subscribed when the bus was closed, which leaves out whoever a write has still to remove |

`BusSpec` is bus.mli with sets: the members the next write is for, those the
current write has still to call, and how often each was told of the close.

### Squeue: `Squeue.tla`, `BoundedQueueSpec.tla`

Every operation is `wrap`: lock, body, `finally`. A thread is outside, wants
the mutex, runs its body, sleeps on a condition, has been woken and wants the
mutex back, or is in `finally`. Bodies are atomic for the others, who need the
mutex to see the queue, save for `transfer_queue_nowait`, whose first look is
a step of its own before it locks.

| state | code |
|---|---|
| `ev_q`, `maxsize` | fields of `t` |
| `mutex` | who has `t.mutex` |
| `pc`, `call` | where each thread is, and in which operation with which elements |

| action | code |
|---|---|
| `BeginPut`, `BeginOther`, `Lock` | the call and the lock of `wrap` |
| `Wait`, `SpuriousWake`, `Reacquire` | the loops of `wait_not_full` and `wait_not_empty` |
| `Push`, `PushUncond`, `PushOrDrop`, `Pop`, `TransferQueue`, `TakeWhatIsThere`, `WaitNotEmpty`, `Length` | the bodies; `lpop` is `Pop`, `clear` and `transfer_queue_nowait` are `TakeWhatIsThere`, the `transfer_queue_in` forms go with the pushes |
| `Finally` | `finally`: one signal per condition that holds, and the unlock |

`BoundedQueueSpec` is a queue with those who ask for room or for an element: a
turn is given only when it is there, and somebody gets a turn while it stays.

### Thread_safe_queue: `ThreadSafeQueue.tla`, `QueueSpec.tla`

The heap is the state: `value` and `next` of every element, the record's
`front`, `back`, `length` and `unused_elts`, and for each thread the value it
is enqueuing while its allocation lets others run. `EnqueueFromPool` and
`Dequeue` are one stretch; an enqueue with an empty pool is `Allocate` and
`EnqueueNew`. An allocation returns any element that cannot be reached, which
is what a collector does, also after `clear_internal_pool`. A finaliser or a
signal handler that runs inside an allocation is another thread that happens
to finish first. `QueueSpec` is a queue with atomic operations; the pool of
blockers of `NanoMutex` is a sequence because of this refinement.

### Time zone tables: `TransitionSearch.tla`, `TimezoneLoader.tla`

An instant is an integer and a zone a function from instants to offsets, the
constant `Offset`: what the host answers. The code knows nothing else about a
zone. It walks in windows of two weeks until the offsets at the two ends
differ, then bisects. Each turn of each loop is an action, so that the ends of
the window and their labels are state.

| action | code (`temporal-polyfill.js`, `timezone_js_loader*`) |
|---|---|
| `NextFixed`, `PreviousFixed` | the answers for "UTC" and for offsets |
| `NextStart`, `NextWindow`, `NextOutOfTime`, `NextNone` | `GetNamedTimeZoneNextTransition` |
| `PreviousStart`, `PreviousWindow`, `PreviousOutOfTime`, `PreviousFromHorizon`, `PreviousNone` | `GetNamedTimeZonePreviousTransition`, its two recursive calls included (`LastAsked`, `WalkBack`) |
| `WindowFound`, `BisectLeft`, `BisectRight`, `BisectInvalid`, `BisectDone` | `bisect`, with the exception it throws |
| `Load`, `LoadDisabled`, `LoadUnknown` | `load` up to `build_transitions` |
| `BuildAsk`, `BuildFar`, `BuildEnd`, `BuildAdd`, `BuildFailed`, `Deliver` | `build_transitions`, the stubs, and what `load` returns |
| `Disable`, `Enable`, `Query`, `QueryReturn` | `For_testing`, and other users of the zones |

`TimezoneLoader` extends `TransitionSearch`: a table is built by searches that
run to their end one by one, because JavaScript runs one computation at a time.
The conversion to seconds is modelled, with its rounding (`EpochSeconds` rounds
down, `OffsetSeconds` up). The "now" of one load is a constant.

### Temporal: `JsNumbers`, `IsoCalendar`, `IsoTime`, `TimeZones`, `Durations`, `TemporalObjects`, `Temporal`

The bottom modules are operators, one per function of the source: `JsNumbers`
has the truncating division of JavaScript; `IsoCalendar` dates; `IsoTime` times
of day, rounding, date-times and instants; `TimeZones` offsets and the instants
of wall-clock times; `Durations` balancing, differences, rounding and
comparison, with a starting point that is nothing, a date or a zoned date-time.
`TemporalObjects` has the methods of the eight classes. Most functions of the
source return a value or throw. Here they return a set: of that one value, or
empty when the code throws. Loops are recursive functions of numbers, so that they can
be reasoned about.

`Temporal` is a program that holds an object and calls any method, with
arguments from small sets: `object`, `call`, `answer`, and how many answers it
has gone on with. The properties look at a call and its answer, most of them
through a second computation that does not use the code of the first: the
reverse operation, a search over all instants, or the host's own calendar.

A day here is short: `Radix` says how many minutes an hour has, and so on, and
`MaxDays`, `MinYear`, `MaxYear` where the representable range ends. The code's
formulas are written in these numbers. The calendar keeps its months and leap
years. The text of an offset is a record of its sign, hours, minutes and, when they
are not zero, seconds and fraction (`FormatTimeZoneOffsetString`). Text is not modelled otherwise.

### Lock files: `LockFileNfs.tla`

`Nfs`, the part of the module that recovers locks of dead processes. Every system
call is an action, and a process may be killed before any of them.
A process runs one call at a time. Files are inodes: a name stands for one, an
open fd stays with it when the name is gone, and a new file is an inode without
name and fd.

`FileExists`, `OfFile`, `Decide`, `Unlink` and
`UnlinkLock` are `unlock_safely_exn`, which `create_exn`, `unlock_exn` and the
handler of `at_exit` share (`call`); `Openfile`, `Link`, `Ftruncate`, `Fprintf`,
`Undo` and `UndoLock` are the rest of `create_exn`; `Error` is a system call that
fails for a reason of its own. A file holds nothing or the host, pid and start
time of a process; part of a line cannot be read and counts as nothing. A
restarted process has any pid that is free on its machine, its old one included.
`HasSysinfo` says whether start times can be compared; when they can, two lives
with one pid are told apart, so the pid is not used again within the second that
the code allows for. A pid that none of the processes has may belong to any other
program, so without start times the answer of `can_send_to` for it is open. It
also answers no for a process of another user; the interface asks for one shared
user, and the model has one. Handlers that several calls of `create_exn` register
run one after the other and do what one does.

### Weak_hashtbl: `WeakHashtbl.tla`

`entry_by_key` gives each key its entry, `weak` what the entry points to. The
collector is an actor: `Collect` empties all pointers to a block the program does
not refer to (`held`) and makes its cleanups due (`pending`); `Cleanup` and
`RunWhenUnusedData` run them, between any two steps of the program. A cleanup
goes with the block, so a block under two keys has two, and one under no key any
more still queues its key. `FindOrAdd` leaves a frame on `defaults` until
`DefaultReturns` or `DefaultRaises`; in between the program may call anything,
the reclaim included. The reclaim is a step for each key it takes (`TakeUnused`) and one for
its entry (`RemoveUnused`), so cleanups come in between. `stored` is history: the data
set last in the entry that a key has in the table, for as long as it has that entry
and the data is not collected. What `find_or_add` sets in an entry that the table lost
while its default ran is not `stored`, because the code has stored it nowhere; that a
caller is given such data is what `AddedIsFound` is about.
`given_up` has the keys whose default raised.

### Daemon: `Daemon.tla`

`daemonize_wait` forks twice. The process that was started waits for its child;
that child, the watcher, looks at the daemon's status and at a pipe in turn; the
daemon runs the program, which calls `release` when it is up. A step is a system
call, and each process may be killed before any of them.

| action | code (`daemon.ml`) |
|---|---|
| `ForkWatcher`, `Waitpid` | the process that was started |
| `MakePipe`, `ForkDaemon`, `CloseWrite`, `WaitNohang`, `Select`, `Read` | the watcher: the pipe, the fork and `loop` |
| `Setup`, `Release`, `Redirect`, `IgnoreSigpipe`, `Write`, `RestoreSigpipe`, `Close` | the daemon up to the return of `daemonize_wait`, and `release` |
| `StartChild`, `ChildEnds`, `ExitProgram`, `KillProcess` | the program and the outside |

A status is an exit code modulo 256 or a signal, in OCaml's numbers, which are
negative for the signals it has a name for: `process_status_to_exit_code` passes
them to `exit`. Only a signal whose number is a multiple of 256 would read as
success, and there is none (`DaemonAssumption`). `release` may fail at a file that
cannot be opened and be called again. When fork fails, `handle_unix_error` ends the
process with 2, where the interface speaks of `Failure`.

### Timing_wheel: `TimingWheel.tla`, `AlarmSetSpec.tla`

One thread. A key is the number of an interval of time; `levels` holds, for each
level, its range of keys and the list of each slot, and a list names cells of the
pool (`elt`, `free`). `config` is drawn from `Configs` and stays. Keys and times
have `Width` bits and clamp as in the code. The lengths the code counts are
derived from the lists, and each list is a sequence where the code has a circle.

| action | code (`timing_wheel.ml`) |
|---|---|
| `Add`, `Remove1`, `Reschedule` | `add`, `remove`, `reschedule` down to `add_elt` and `internal_remove` |
| `MinElt` | `min_elt_`, which caches what it finds, on behalf of all questions about the next alarm |
| `AdvanceClock`, `AdvanceClockStopAtNextAlarm` | the two advances; `IncreaseLevel` empties the slots of a level, puts alarms back and fires the others |
| `FirePastAlarms`, `Clear` | the functions of that name |

On an empty wheel `advance_clock_stop_at_next_alarm` is `AdvanceClock`. A pointer
to a cell stays what it is when the cell is freed and given to another alarm;
`min_elt` says whether its cell is still the one it was made for. What a free cell
holds can be read only through such a pointer and is blanked otherwise
(`Contents`). Levels follow each other without a gap, but a higher one keeps what it
has of an interval that the levels below it have moved up to, so that an interval may
have alarms in two levels. `MinAlarmTime` therefore looks at one list, as the code does.
`ClearsCached` says whether a client calls `clear` while a minimum is cached. `AlarmSetSpec` is the interface: times of alarms and a clock.

## 3. What is checked

| run | instance | shows |
|---|---|---|
| `nano_mutex` | 3 threads, 2 mutexes, 3 blockers | exclusion, one place per blocker, no lost wake-up; `NanoMutex` implements `MutexSpec`, its liveness included |
| `bus` | 3 subscribers, 3 writes, four kinds of clients | the arrays, the captured slots, whoever was subscribed at a close is told once, values come one after the other, and the refinement of `BusSpec` |
| `bus_repeated_unsubscribe` | the same, nothing raises | violation: see below |
| `squeue` | 3 threads, 2 elements, sizes 0, 1 and 2 | no wake-up of either condition is lost; `Squeue` implements `BoundedQueueSpec`, its liveness included |
| `thread_safe_queue` | 3 threads, 2 values, 5 elements | the invariant of the linked list and of the pool; `ThreadSafeQueue` implements `QueueSpec` |
| `timezone_loader` | 10 zones, 29 instants, windows of 3 | the searches and the tables; every load ends |
| `temporal` | objects of every class, 7 durations, 4 zones, 7 units, days of 96 nanoseconds | differences, rounding of objects and of differences, wall clocks, durations and dates |
| `lock_file_nfs` | 2 machines with a program each, 1 pid, 3 files, 1 death, 1 error | the lock is never taken twice, the locked file never names another, and a dead program's lock is removed when the program runs again |
| `weak_hashtbl` | 2 keys, 2 blocks (one outside the heap), 2 entries, defaults one deep | live data set in the entry a key has is found; no key without data is forgotten; every key whose data is gone is removed |
| `daemon` | exit codes 0 and 1, SIGKILL and an unnamed signal | the shell is told the truth and in the end; `release` is harmless |
| `timing_wheel` | 3 alarms, 8 times, 4 configurations of 2 and 3 levels | the levels and the cached minimum are right after every operation; `TimingWheel` implements `AlarmSetSpec` |
| `timing_wheel_clear` | 2 alarms | violation: see below |

Each module has a type invariant. Section 4 proves them, and runs check some as the
first part of `ArraysConsistent`, `EltsConsistent` or `WheelConsistent`; that of
`Temporal` is `ObjectsValid`.

Bounds. Three threads are what the races of Nano_mutex take: one installs, one
loses, a third holds or unlocks; four threads on one mutex were tried once and
show nothing else. Two mutexes let a blocker travel from one to the other.
Three blockers are as many as these threads ever allocate: a fourth adds no state, so the
bound hides nothing. Threads that have one mutex do not wait for the other in this run
(`LockOrder` is empty); two mutexes taken in order, with four blockers, were
checked once for safety, and the proofs assume nothing about `LockOrder`. Three
subscribers are needed for a removal that moves a third one into the hole, and
take the array through its sizes 0, 1, 2, 4 and back; three writes let a value
be sent, repeated and followed. The four kinds of clients are those whose handlers
cope with what callbacks raise, and three whose handlers, or `on_close` functions as
well, raise too; two of these repeat an unsubscribe.

Three threads on a Squeue let two sleep while the third feeds the queue, which
is what a cascade of signals takes; a batch of two elements passes the sizes 0
and 1. A third element and a fourth thread were tried once each for safety alone
and show nothing else. An
element goes back to the clients when it is taken out; that there are finitely
many bounds the queue. Five elements of a Thread_safe_queue hold four values,
so three allocations can be in progress over a list that moves.

The zones of `timezone_loader` are chosen by what their changes do to a window
of three instants: none, one, one at each end, two that cancel, several with
three offsets, recurring ones on both sides of the horizon, one past it, and
changes at the first rule and the last instant. Each is searched from each
instant in both directions. The year, the day, the horizon and the cap keep the
order they have in the code (a day is shorter than a window, a window than a
year).

The objects of `temporal` sit where the arithmetic turns: the last days of
months, 29 February, the weeks around a new year, both ends of the range, and
both sides of a change to summer time, of the change back, and of a day a zone
skips. Every pair of one class meets in `until` and `since` with every largest
unit and, rounded, with every smallest unit; every mode is tried where single
objects are rounded. An hour has three minutes, an odd number, so that the parity
`halfEven` goes by depends on where it is counted from. The range is six years, so that the walk over years in
`BalanceISODate` takes more than one turn either way. A program goes on with
an answer at most once: the objects of the instance already are what longer
chains lead to, and more of them would repeat calls.

Three files of `lock_file_nfs` are one under each name and one that a program has
open besides; one death lets a program come back to its own lock, and one pid makes
that restart meet its old pid, which start times tell apart (`HasSysinfo`). Four
files and two deaths were checked once for safety; the proof removes all of these
bounds, and holds without start times. In `weak_hashtbl` a block can be under both
keys or under one twice (`MaxCleanups`), and two cleanups can be queued when new
data is set (`MaxQueue`). Two entries are one for each key, or one for a key and one
that a `find_or_add` still holds after the key has lost it; three were checked once.

`daemon` is small enough to need no bounds beyond its codes and signals.

Eight times take a `timing_wheel` of slots of one and two bits from the first key
to the last through every alignment of its levels. One configuration cannot hold
all times, so that the limit moves with the clock; the others reach the end, where
bounds clamp. In one an interval has two times. Three alarms are what a slot takes
in which one is fired, one put back and one is there already.

Symmetry is used only in the runs without liveness and with interchangeable
elements: `thread_safe_queue`, `timing_wheel` and the violation of Bus.

Fairness. `WF(Step(t))` per thread: the runtime hands its lock round, and OS
mutexes are eventually given to a thread that waits for one that is free for
good. It does not ask that a thread gets a blocker's mutex that is taken again
and again. `WF(Unlock(t))`: callers release what they hold, which
`critical_section` does for them even when they raise. Nothing obliges a
thread to call `lock`, and a spurious wake-up is never owed. Squeue needs more:
`SF(Lock(t) \/ Reacquire(t))`, that the OS mutex is not denied for ever to a
thread that waits for it while it becomes free again and again. A thread that
calls `length` in a loop would otherwise keep a woken one out, and TLC shows
that behaviour when the assumption is dropped: the code relies on the mutex
for it, since neither condition nor queue orders the threads. `LoadEnds` needs
`WF(Search)` and `WF(Build)`: straight-line code of the single JavaScript thread
runs on until it returns. `StaleReclaimed`: a call that has begun goes on, a
program that was killed is started again and calls `create_exn` again
(`blocking_create`); a program that never comes back leaves its lock, as the
interface says. `UnusedKeysReclaimed`: the runtime runs the cleanups that are due,
and the program makes the reclaim that `thread_safe_run_when_unused_data` asked for,
which is what that function is for; nothing is assumed of the collector.
`VerdictReached`: the first two processes go on. Nothing obliges the program to
release, to exit or to end its children.

`DifferencesExact`, about the answers of `until` and `since`, has two parts:
`DifferenceAddsUp` for those that are not rounded, `DifferencesRounded` for the others.

What the properties of Temporal except, each found by TLC in an instance and
followed up in the code:

* `DifferenceAddsUp` leaves out months counted with a time of day from the 29th
  to the 31st (`MonthsFromLateDay`): the day that is borrowed for the time makes
  the code count months from another day than the one it adds them to. It also
  leaves out going back from the last year-month of the range, which throws:
  `subtract` looks for the last day of the month through the first day of the
  next.
* `BalanceKeepsEnd` and `SpansComparedByEnds` leave out two or more months from
  such a day (`MonthsOneByOne`): the code turns months into days one by one, and
  each step may be clamped, where `add` moves all months at once.
* `SpansComparedByEnds` leaves out days that lead into a gap (`LeadsIntoGap`):
  `CalculateOffsetShift` takes the offset after the gap.
* `DifferencesRounded` speaks of `until` and `since` with units of fixed length, and,
  between zoned date-times, of days rounded down or to the nearer one by the lengths the
  days have. Two days in one moment, one of which the zone skipped, count as one.
  A day that begins in a gap is left out: the code measures the next one from behind the
  gap, and may then round to the farther day.
* `RoundedToGrid` leaves out `ZonedDateTime.round`. That compares the time the clock
  shows with the length of the day, so that on a day with a change it is not the nearer
  midnight that is taken. `ObjectsValid` says only that the answer is an instant of the zone.
* `DayCountExact` speaks of calls that have an answer. In a zone that skipped a day the
  loop may not end (below), and then there is none.
* `SearchExact` (`NextIsFirst`, `PreviousIsLast`, `NeverInvalid`) and `TableExact`
  speak of zones whose changes are at least a window apart (`Spaced`); `FoundIsTransition` and
  `LoadEnds` of any zone.

Where the code disagrees with its documentation or its own assertions, as a run
shows:

* `bus.mli:251` says `unsubscribe` never raises and is idempotent. Called twice
  for one subscriber from callbacks of one write, it is queued twice, the
  second removal works with index -1 and raises out of `write`, and the bus
  stays in `Write_in_progress` (`bus_repeated_unsubscribe`).
* `timing_wheel_intf.ml:502` says `min_alarm_interval_num` is the least interval of
  all alarms, and `timing_wheel.ml:666` that an internal pointer is null or valid.
  `clear` leaves the cached minimum as it is. When an alarm is added whose key is not
  below the old one, the minimum is read from an alarm that was freed
  (`timing_wheel_clear`).

The passing run `timing_wheel` calls `clear` only when no minimum is cached
(`ClearsCached = FALSE`). In `bus`, `NeverStuckWriting` speaks of clients that do not
repeat an unsubscribe within a write.

Two more are stated as properties that fail, with a configuration that shows how; they
are not among the runs of `PROJECT.json`, which check what holds instead:

* `timing_wheel_intf.ml:434` says that `advance_clock_stop_at_next_alarm` advances to
  `to_` or to the next alarm, whichever is earlier (`StopsAtNextAlarm`). An interval may
  have alarms in two levels. `min_elt_` answers with one of the later level (`<=` at
  `timing_wheel.ml:2065`), and the earliest time is looked for in its list alone: the
  clock passes an earlier alarm of the interval in the other level. With levels of one
  bit: add at 5, advance to 2, add at 4, stop at the next alarm up to 5
  (`TimingWheelNextAlarm.cfg` with `MCTimingWheel`). What holds is
  `StopsInFirstInterval`: nothing fires on the way, and the clock goes no further than
  to an alarm of the first interval, the earliest of its slot.
  `min_alarm_time_in_min_interval` reads the same list.
* What `find_or_add` returns should be in the table (`AddedIsFound`; `hashtbl_intf.ml:182`
  says so of `Hashtbl`, and by `weak_hashtbl.mli:5` only finalized data is absent).
  When the default removes the key, or runs a reclaim that takes its empty entry,
  `find_or_add` sets the data in an entry that is in no table and returns it: `find`
  gives nothing, and the next `find_or_add` makes another
  (`WeakHashtblFindOrAdd.cfg` with `MCWeakHashtbl`). What holds is `StoredDataFound`,
  about entries that are in the table.

Other places where it does, which the properties except:

* `bus.mli:128` says the bus is closed when `on_callback_raise` raises. The
  state becomes `Closed`, but the exception skips `finish_write`: no
  `on_close` is called, then or later. `OnCloseCalled` speaks of clients whose
  handlers and `on_close` functions do not raise and that do not repeat an unsubscribe:
  each one subscribed at the close is told exactly once, everybody else never.
  `ImplementsBusSpec` speaks of all clients: nobody is told twice.
* `bus.mli:148` says a write from a callback on the same bus raises. A callback
  that `subscribe_exn` runs with the last value can write, and does in the model.
* `temporal-polyfill.js:2526` asserts that less than a day is left when the days
  between two zoned date-times have been counted. In a zone that skipped a day,
  as Pacific/Apia did on 30 December 2011, the step back into the skipped day
  leads to where it started: the day has length 0 and the loop at line 2516 never
  ends. The model ends the loop there, with the length 0, and the call has no
  answer.

## 4. What is proved

### Nano_mutex

`NanoMutexProofs` proves, from `NanoMutexAssumption` alone (finitely many threads;
the three "none" values are not threads, mutexes or blockers; nothing is assumed
of `Blockers` or of `LockOrder`), for any number of threads, mutexes and blockers:

| theorem | states |
|---|---|
| `TypeCorrect` | `Spec => []TypeOK` |
| `UsersShareBlockerHolds` | `Spec => []UsersShareBlocker` |
| `MutualExclusionHolds` | `Spec => []MutualExclusion` |
| `BlockerInOnePlaceHolds` | `Spec => []BlockerInOnePlace` |
| `NoLostWakeupHolds` | `Spec => []NoLostWakeup` |
| `NanoMutexImplementsMutexSpec` | `Spec => Abstract!SafeSpec` |

The invariant `IInv` is built in layers, each inductive given the ones below.

1. `UseInv`: types, what the locals are at each point (`LocalsOK`), the count of
   the users of each blocker (`Counted`) and that users of a mutex have the
   installed blocker (`Shared`). It is inductive alone; the work is in the
   cardinality of `Using(m)`, which an action joins, leaves or keeps (lemmas
   `Joins`, `Leaves`, `Stays`).
2. `MutualExclusion`, which needs the types only.
3. `Places`: no blocker is in two places (`NotTwice`) and every created one is
   in some (`NotLost`). Cardinalities are awkward to step, so places are
   stated by elements, and six lemmas say how one move (from the pool to a
   hand, from a hand to a mutex, ...) keeps them. `BlockerInOnePlace` follows.
4. `BlockerExclusion`: one thread has a blocker's mutex. It is needed for the
   wake-ups: a thread that is about to sleep has the mutex, so no unlocker is
   between reading the waiters and leaving.
5. `NoLostWakeup`. The signal reaches a sleeper of the right mutex because two
   mutexes never share a blocker (layer 3), and an unlocker that finds no
   waiter leaves no sleeper behind because of layer 4.

For the refinement, each action is shown to be a step of `MutexSpec` or to
change neither owners nor blocked threads.

### Bus

`BusProofs` proves, from `BusAssumption` alone, for any finite set of
subscribers, any number of writes and any depth of re-entrant calls:

| theorem | states |
|---|---|
| `BusTypeCorrect` | `Spec => []TypeOK` |
| `BusArraysConsistent` | `Spec => []ArraysConsistent` |
| `BusCapturedSlotsStable` | `Spec => []CapturedSlotsStable` |
| `BusNeverStuckWriting` | `Spec => []NeverStuckWriting` |
| `BusOnCloseCalled` | `Spec => []OnCloseCalled` |
| `BusNoGapNoRepetition` | `Spec => NoGapNoRepetition`, the action property |
| `BusImplementsBusSpec` | `Spec => ImplementsBusSpec` |

None of these is inductive, for what a step finds in the array depends on the
loops below it on the stack. `BusInv` therefore says first what a stack looks
like (`Shape`): at most one frame is a loop of the bus, and each call of client
code lies on the loop that makes it. Then, for each state of the bus, which
loop can be running (`StateOK`), how the array and the indices of the
subscribers agree (`ArrayOK`) and when the array has no holes (`FullOK`), and
for each loop how the array has changed since it started (`LoopOK`): under a
write, not at all below the number of callbacks it captured, since a
subscription goes behind them and an unsubscribe is put off; under the deferred
unsubscribes, only by the ones that are done; under `close`, by the slots
`on_close` has emptied, with the client that is being told still in its slot.
That a callback can write, subscribe, unsubscribe and close again is covered by
pushing any of its frames on any such stack.

Two more layers stand on it. `MannersInv` has what clients can break: as long as
nobody repeats an unsubscribe, each one that was put off is of a subscriber still
in the array, once, so the loop over them ends and the bus leaves
`Write_in_progress` (`OnceOK`); as long as handlers do not raise either, a closed
bus is being emptied or is empty (`ClosedOK`). `ValuesInv` says which values each
subscriber has seen (`GotOK`): whoever the write has still to reach, nothing or all
but the last; the others nothing or all.
For `ImplementsBusSpec` each action is shown to be a step of `BusSpec` or to
change nothing there, with the callbacks that a write has captured and not yet
called as what is pending (`StepImplements`).

`OnCloseCalled` and `NoGapNoRepetition` are about what callbacks are called with and are
told, and take a history each to state. `ToldOK` says that a closed bus has told exactly
those of `at_close` that are no longer members; with `ClosedOK` none is left when the
outermost call returns, so it follows from the refinement that each was told once
(`AbstractSteps`). What `at_close` takes down
when the bus closes is who is a member then (`MembersAtClose`), although removals
may be put off at that moment. For the values, a step that calls
a callback either reaches a slot of the write, whose subscriber has seen all but
the last value, or sends the last value to one that has seen nothing (`Called`, `GotOK`);
no other step calls anybody (`PushHead`, `LoopCallsNobody`). TLC
checked the invariants on the states of the run `Bus` before they were
proved.

### Squeue

`SqueueProofs` proves, from `SqueueAssumption` alone (`NoThread` is no thread,
batches are non-empty sequences of elements, sizes are naturals):

| theorem | states |
|---|---|
| `TypeCorrect` | `Spec => []TypeOK` |
| `NoLostWakeupHolds` | `Spec => []NoLostWakeup` |
| `SqueueImplementsBoundedQueueSpec` | `Spec => Abstract!SafeSpec` |

`NoLostWakeup` is inductive on top of the types. The duty to wake is handed on:
a body that makes a condition true leaves its thread in `finally`; `finally`
hands it to the sleeper it wakes, if there is one; that one finds the
condition false, and then nothing is owed, or runs its own body. A thread that
waits for room is no rescuer of those who wait for an element: it may go to
sleep without a signal. The refinement needs one more invariant, `NoStaleCall`.

### Thread_safe_queue

`WeakTableAndQueueProofs` proves, from `ThreadSafeQueueAssumption` alone, for any
finite set of elements and any threads and values:

| theorem | states |
|---|---|
| `QueueTypeCorrect` | `Spec => []TypeOK` |
| `QueueEltsConsistent` | `Spec => []EltsConsistent` |
| `QueueImplementsQueueSpec` | `Spec => ImplementsQueueSpec` |

`EltsConsistent` and the contents in the refinement mapping follow `next` by a
recursive function, `From`, of which nothing can be proved by stepping it.
`QueueInv` states the same layout without recursion: there are a path from the
front to the back, over elements that have values, and one through the pool to
its end, over elements that have none; neither visits an element twice and they
have none in common. Nothing is said of where the back points: an
element that comes from the pool keeps the `next` it had there. Each action makes two such paths
from the two there were: an enqueue lengthens the first, with an element off
the head of the second or with a fresh one, a dequeue moves the head of the
first to the head of the second, `clear_internal_pool` leaves the second empty.
A fresh element is on neither path, because the collector takes only what
neither reaches. That `From` then visits exactly these paths is an induction
over the steps of the walk, made as below by taking the least step at which it
leaves the path (`LeastElement`); the function it is defined by exists by the
same argument (`WalkExists`). The values along the first path are the contents
of the abstract queue.

### Transitions and tables

`TimezoneLoaderProofs` proves, from the assumptions of `TransitionSearch` and
`TimezoneLoader` (the order of the constants; each zone gives every instant an
integer; a zone that is a fixed offset never changes), for any zones, any range
of instants and any lengths of window, year and day:

| theorem | states |
|---|---|
| `SearchTypeCorrect` | `SearchSpec => []SearchTypeOK` |
| `FoundCorrect` | `SearchSpec => []FoundIsTransition` |
| `SearchExactCorrect` | `SearchSpec => []SearchExact`: the nearest transition both ways, and no exception |
| `LoaderTypeCorrect` | `Spec => []LoaderTypeOK` |
| `LoaderSearchesCorrect` | `Spec => []` of the five properties of a search |
| `TableIncreasingCorrect` | `Spec => []TableIncreasing` |
| `TableExactCorrect` | `Spec => []TableExact` |

`IInv` adds to the types what a walk has behind it: between the instant asked
about and the near end of the window there is no change (for `Spaced` zones),
the window is at most `Step` long, its far end is past the near one, and its
ends have the offsets they are labelled with. A window of a `Spaced` zone holds
one change at most, so equal labels mean no change in it and different labels
exactly one: the bisection keeps it inside and meets no third offset. The walk
that starts again at the horizon gives up its claim on what lies between, which
is the exception in `PreviousIsLast`. That offsets agree where no change lies
between (lemma `BetweenChanges`) is an induction over instants, made by taking
the least instant whose offset differs: the lemma `LeastElement` derives its
existence from the well-foundedness of the naturals.

The loader uses the searches as they are: its steps leave their variables alone,
ask, or return. `TableInv` adds what the table is at each of its steps: its last
entry is the transition of the instant the next search starts from (`LastOK`),
no entry starts after that (`EntriesBelow`), and up to that instant the table
gives the host's offsets (`ExactSoFar`, for zones that are spaced, known and on
whole seconds). An entry that is added is the first change after the last one,
so the offsets between the two are those of the last. When a search finds
nothing, the first later change would be either before the horizon or within a
year of the one before, and the search looks past both: there is none left, and
the last entry is right to the end. `AnswerOK` ties the search that answers to the
one the loader asked for.

### Lock files

`CoreUnixProofs` proves, from `LockFileAssumption` alone, for any processes,
machines, pids, files, deaths and errors:

| theorem | states |
|---|---|
| `TypeCorrect` | `Spec => []TypeOK` |
| `ExclusionHolds` | `ASSUME OneProgram PROVE Spec => []Exclusion` |
| `LockStaysOurs` | `ASSUME OneProgram PROVE Spec => []LockIsOurs` |

`OneProgram` says that no two processes are on one machine. The interface asks
for it and knows what happens otherwise: a process that has found a dead lock may
remove a live one. The argument is why it cannot with one: only a process of the
machine in the file removes a lock, and there is one. So what that process has
read is still what the lock file says (`ReadIsCurrent`), and when it begins to
remove, nobody has the lock (`RemovesStale`). The other half is that a holder's
file never names another, which would let that other one remove it: a file at
path that is not the lock has nothing in it (`FreshPath`), so what is linked is
empty; path, once unlinked, does not come back as the lock (`PathGone`); and a
late write goes to the lock or to a file that has lost its name (`WritesLock`).
`CallOK` says which calls a process with a lock can be in.

### Weak_hashtbl

`WeakTableAndQueueProofs` also proves, from `WeakAssumption` alone, for any keys, blocks,
entries and depth of defaults:

| theorem | states |
|---|---|
| `WeakTypeCorrect` | `TableSpec => []TableTypeOK`, which says that keys do not share entries |
| `StoredDataKept` | `TableSpec => []StoredDataFound` |
| `UnusedKeysStayKnown` | `TableSpec => []UnusedKeysKnown` |

The names of this model's specification begin with `Table` so that one module can
hold the proofs about a table and about the queue it is built on. `TableInv` adds two
facts. `FramesOwn`: the entry a `find_or_add` holds on to is in the
table under its own key or not at all, so what a default returns never lands under
another key. `Attached`: data in the heap that a key points to has a cleanup for
that key, so a key that loses its data is queued. `UnusedKeysKnown` is not
inductive without the second, nor `StoredDataFound` without the first.

### Daemon

`CoreUnixProofs` also proves, from `DaemonAssumption` alone, for any exit codes and
signals, `DaemonSpec => []` of `DaemonTypeOK` (`DaemonTypeCorrect`), `VerdictJustified`
(`ShellIsToldTheTruth`), `DetachedWhenTold` (`ShellGoesOnDetached`) and
`ReleaseHarmless` (`ReleaseNeverKills`). The names of this model's specification begin
with `Daemon` so that one module can hold the proofs about both parts of core_unix.
The invariant adds the order of the forks
(`Order`), what has been done when a message is or was in the pipe (`Messages`), and
that the watcher's own status is true of the daemon (`WatcherTruthful`), which the
first process then passes on.

### Timing_wheel

`TimingWheelProofs` proves, from `WheelAssumption` and for any width of keys, any
precision, number and widths of levels and any cells:

| theorem | states |
|---|---|
| `AlwaysConsistent` | `~ ClearsCached => (Spec => []WheelConsistent)` |
| `AlwaysMinFound` | `~ ClearsCached => (Spec => []MinFound)` |
| `AlwaysStopsInFirstInterval` | `~ ClearsCached => (Spec => StopsInFirstInterval)`, the action property |
| `TimingWheelImplementsAlarmSet` | `~ ClearsCached => (Spec => ImplementsAlarmSet)` |

`StopsAtNextAlarm`, which is what the interface says, is false (`TimingWheelNextAlarm.cfg`).
`~ ClearsCached` says that clients do not call `clear` while a minimum is cached. Without
it `MinFound` is false, which the run `timing_wheel_clear` shows. Both values of the
constant are instances of a run.

`IInv` (theorem `Inductive`) is `WheelConsistent` said of the lists as sets, with one
part more: no slot that holds an alarm begins before its level does (`Filed`). A level
may be empty at its lower end, and the last key is odd, so that a level that was clamped
could hold it in a slot that begins earlier. With this part an alarm of the current
interval is in the first level, which `fire_past_alarms` takes for granted.
`PoolInv` says that the free cells are those in no slot, each once.

The argument has four layers.

1. Arithmetic of a configuration: the slots of level `i` hold `Per(c, i)` keys each, the
   level covers `Cover(c, i)` keys, which is one slot of the level above (`Geometry`), and
   two keys of one level that have a slot in common have the same first key
   (`ScanFacts`). Everything about powers of two is here.
2. Lists. Cells are never in two lists; a cell that is taken from its slot or put back
   keeps every other one where it is (`Apart`, lemmas on `Only`, `AddElt`, `Unlinked`).
3. The search. Walking slot by slot from the lower bound, the first slot that is not
   empty has the least keys of its level, since keys of later slots are larger
   (`SearchLevelFacts`); the levels below an answer can only improve on it.
4. The advance. `Raised` says what holds when the first `i` levels have moved: they
   are chained and hold only what the new minimum allows, the others are as they were,
   and what was taken out fires exactly when its key is below the new minimum. A level
   that does not move ends the loop, because then none above it would
   (`NextMin` and the lemmas on `Increases`).

The recursive functions of the model (over the levels, and over a list) are unfolded
with `Follows`: a function that satisfies the equations for `n` steps exists by
induction on `n`, made as in Thread_safe_queue with the least counterexample.

### Temporal

`TemporalProofs` proves, from the assumptions that the modules state, for any
starting objects, arguments, zones and increments, any lengths of hours, minutes and
the units below, and any range of dates and instants:

| theorem | states |
|---|---|
| `RoundsToGrid` | `Spec => []RoundedToGrid` |
| `DatesAgree` | `Spec => []DatesAgreeWithHost` |

Both speak of objects that a program came to by a chain of calls, and hold only
because no call returns an object with slots its class would not construct. That is
the invariant, `ObjectsFine` (`SpecFine`): the object the program holds, and what a
call has returned, has dates that there are and lie in the range, times with each
field below its radix, instants within the limits and zones that there are. It has a
lemma for each method, and under them one for each function of the calendar, the
times and the zones. Whether each answer is one a constructor takes, and that there
is one at most (`ObjectsValid`), is not proved: durations, and the wall-clock times of
zoned date-times near the ends of the range, are left to TLC.

1. Loops. Those of the code are recursive functions of the integers. A function that
   satisfies their equations exists (`Loop`): its value at `x` is where a walk from
   `x` ends, when there is one. So each may be unfolded (`YearsBackStep`, ...), and
   a fact that every round keeps and that some number orders follows by the least
   counterexample (`Induction`, made of a fact about sets, not of the library's theorem).
2. Days. `BalanceISODate` takes off cycles of 400 years, then years, then months;
   each loop keeps the day that a date stands for and ends inside the range the next
   one relies on (`YearsBackKeepsDay`, `BalancedDate`). The host's count of
   days (`HostDays`) is the same sum, from March to March (`MonthStartNext`).
3. Times. `BalanceTime` carries from the nanoseconds to the hours, `RoundTime`
   replaces the fields from one on; both are sums over the six fields (`Value`, `From`).
   A field of the time that is rounded to its increment, counted in the unit above, is
   rounded as the whole time (`RoundFieldIs`), since the fields above stay as they are.
4. Weekdays. Zeller's rule and the host's count differ by a multiple of seven at the
   first day of each month (`DayOfWeekIs`); the week of the year is counted from
   its Thursday, which is in the year before, in this one or in the next (`WeekOfYearIs`),
   and that the host's `HostDate` inverts its count takes the four digits of a day in
   its cycle: centuries, leap years, years and days (`InCycle`).

A proof attempt corrected the property: `RoundedToGrid` once counted the even
multiples of `halfEven` from midnight. `RoundTime` rounds the field within the unit
above, so the parity starts anew in each (of the three increments of 20 minutes that
an hour has, the even ones are not those of the day). With days of even lengths only,
as the run had, TLC could not tell the two apart; an hour now has three minutes there.

### Only model-checked

Liveness (`LoadEnds`, `StaleReclaimed`, `UnusedKeysReclaimed`, `VerdictReached`;
`ImplementsMutexSpec` and `ImplementsBoundedQueueSpec` include the fairness of their
abstract modules, and the prover does not reason about fairness). Of `Temporal`:
`ObjectsValid`, as said above; `WallClocksExact`, `DayCountExact` and
`SpansComparedByEnds`, which depend on how far apart the changes of a zone are, a
constant of which only instances have been tried; `DifferencesExact` and
`BalanceKeepsEnd`, whose loops (`WholeDays`, `SpendUnits`, `GatherUnits`, ...) run over
calendar units that differ in length, with exceptions that TLC found. What a recursive definition computes for every input is an
induction over data, for which the library's theorems cannot be instantiated; where one
number orders the argument, as in Thread_safe_queue, in the searches, in Timing_wheel
and in the calendar, the least counterexample replaces it.

## 5. What is not modelled

Signal handlers and asynchronous exceptions inside Nano_mutex; `invariant` and
the s-expression converters; `Bus.Last_value` for several arities, the local
and global variants of the writes (they are copies of one loop), the error
messages.

Of the lock files: `create`, `is_locked` and `Flock`, a few system calls around
flock and lockf, which the operating system drops with the process, so that there is
nothing to recover (two things there are worth a model: `is_locked` looks by
locking, and a process that asks about its own lock closes an fd and so loses its
lockf; `unlink_on_exit` may unlink a file that another process has opened to lock);
`Mkdir` and `Symlink`, which are single system calls; the clock of the retries, so that no property
speaks of time limits; what an NFS client caches, so that all processes see the
same names at once; two programs on one machine, for which `Nfs` promises
nothing. An empty lock file, left by a process that died between the link and the
write or that wrote to a file without a name, stays for ever; the interface says so, and `StaleReclaimed` does
not speak of it. Of Weak_hashtbl: what happens when the function given to
`set_run_when_unused_data` raises, which ends the program. Of Daemon: `daemonize`,
which forks and redirects in a row with nobody waiting for it, `check_threads`, the
kinds of redirection, and what a second `release` closes. Of Timing_wheel: handlers
that raise or use the wheel while it advances, of which the interface says nothing;
the growth of the pool; and what `advance_clock_stop_at_next_alarm` does with a stale
minimum, where it would follow links of freed cells.

Of `temporal-polyfill.js`: the calendars other than the ISO one, which find
dates by guessing and asking the host's tables; the grammars of dates and
durations and all formatting; time zones and calendars that a program defines
itself, and the checks of the types of arguments; `Now`, and the text of `Intl.DateTimeFormat`
that `GetNamedTimeZoneDateTimeParts` takes apart. Calls that read
options in a certain order with side effects are calls without side effects
here. The declaration of `should_use_timezone_js_loader` as `const` matters only
to the compiler. The JavaScript runtimes of base, bin_prot, core and time_now
are stateless stubs and `strftime.js` is a formatter; neither keeps state.

The components listed as not modelled in `PROJECT.json` are left for
later (next section) or are pure functions, codecs, generated code or bindings.

## 6. Plan

Done: `MutexSpec`, `NanoMutex`, their proofs and refinement; `BusSpec`, `Bus`,
`BoundedQueueSpec`, `Squeue`, `QueueSpec`, `ThreadSafeQueue` and their proofs;
`TransitionSearch`, `TimezoneLoader` and their proofs; the modules of `Temporal` and proofs about them;
`LockFileNfs`, `WeakHashtbl`, `Daemon` and their proofs;
`AlarmSetSpec`, `TimingWheel` and their proofs.
Left, in this order:

1. `TuplePool`: stale pointers, identifiers modulo a small width.
2. `Limiter`: conservation of tokens; a proof of it over all quantities.
3. Lock files with flock and lockf: `create`, `is_locked`, `Flock`.
