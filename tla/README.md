# A TLA+ verification of ddg

ddg (`src/ddg`) is a C++ server framework on Linux: coroutines ("fibers") on
`ucontext`, a scheduler that runs them on a pool of threads, an `IOManager` that
adds epoll to the scheduler, the locks they use, and a logging and a
configuration library.  This directory holds TLA+ models of all of these, the
TLC configurations that check them, and TLAPS proofs.

- [The system](#the-system)
- [Modules and what they stand for](#modules-and-what-they-stand-for)
- [Runs](#runs)
- [Where code and its own statements disagree](#where-code-and-its-own-statements-disagree)
- [Bounds](#bounds) and [fairness](#fairness)
- [Proofs](#proofs)
- [Not modelled](#not-modelled) and [what could come next](#what-could-come-next)

`tlc -config X.cfg M` checks a run, `tlapm M.tla` a proof; `PROJECT.json` lists
all of them, the source lines every definition stands for, one deliberately
broken variant per checked property, and the hazards the properties are for.

## The system

| Component | State | Operations | Talks to |
|---|---|---|---|
| `Scheduler` (`scheduler.{h,cc}`) | list `m_fibers` under `m_mutex`; `m_activeThreadCount`, `m_stopping`, `m_autoStop`, read without lock; `m_threads`; the root fiber | `schedule`, `start`, `stop`, `isStoped`, `run` on every thread | swaps fibers in; creates and joins threads; `tickle` and `idle` are virtual |
| `Fiber` (`fiber.{h,cc}`) | `m_state`, a context and a stack; static id set and count | `swapIn`, `swapOut`, `call`, `back`, `YieldToReady`, `YieldToHold`, `MainFunc`, `reset` | its state is read and written by the scheduler with no lock |
| `Mutex`, `SpinLock`, `CASLock`, `RWMutex`, `Semphore` and the scoped guards (`mutex.{h,cc}`) | the lock; the guard's `m_islocked` | lock and unlock, in constructor, destructor and by call | everybody |
| `Thread` (`thread.{h,cc}`) | `m_thread`, `m_id`, name | constructor waits on a semaphore, `join`, `detach` | `Scheduler::start`, `stop` |
| `IOManager` (`iomanager.{h,cc}`) | `m_fdContext` under an `RWMutex`; per descriptor `events` and two contexts under a mutex; `m_pendingEventCount`; the epoll set; a pipe | `addEvent`, `delEvent`, `cancelEvent`, `cancelAll`, `idle`, `tickle`, `isStoped` | schedules what waits for an event; timers |
| `Config` (`config.{h,cc}`) | a table of variables under an `RWMutex`; each has a value, listeners and an `RWMutex` | `Lookup`, `setValue`, `addListener`, `LoadFromYaml` | YAML, listeners |
| `Log` (`log.{h,cc}`) | loggers with appenders, level and formatter under an `RWMutex` each; the manager's table under another | `log`, `setFormatter`, `addAppender`, `getLogger`, `delLogger`, `toYamlString` | a `Config` listener on "logs" rebuilds loggers |

`ddg/timer.h` and `ddg/hook.h` are included by the sources but are not in the
repository.

What is hard in it:

- **Fiber state without a lock.**  A fiber's `m_state` decides whether `run()`
  takes it, reschedules it, or forgets it.  It is written by the fiber, by the
  thread carrying it and by any thread scanning the list, and a yield writes it
  before the context is saved.
- **Shutdown.**  `stop()` decides with `isStoped()`, which reads a list and a
  counter without their lock while tasks move from the list to a thread and
  back.
- **Check, then lock.**  `cancelEvent`, `cancelAll` and `delEvent` read `events`
  before, or without, taking the descriptor's mutex; epoll's reports are handled
  after the registration may have changed.
- **Guards.**  `WriteScopedLockImpl` forgets that it has locked, and `RWMutex`
  ignores errors, so that a thread goes on after `EDEADLK`.  `Config` and `Log` are
  built on these guards: what excludes there is partly the leak.
- **Sleeping.**  `tickle()` writes to its pipe only if some thread counts as idle,
  and `isStoped()` reads timers, two counters and a list one after the other
  while other threads change them.
- **Listeners.**  `setValue` calls listeners before it assigns; the one on "logs"
  changes loggers in many steps while others log, and an exception leaves it
  half done.

What makes each part correct, as the properties below state it: a task is in one
place and on one thread; it is not lost by the shutdown; the counters count;
a waiter is not forgotten; epoll and the table agree; writers exclude;
`stop()` returns and scheduled work is done; a name has one variable and one
logger; listeners know the value; a logger is as configured and never used half
configured; a pattern is cut into the tokens it means.  Several of these hold in
part of the situations the code gets into only; each property says in which.

## Modules and what they stand for

### Scheduler

`Scheduler.tla` has one action per step that another thread can see.  A thread
in `run()` goes through these places:

```
lock -> scan -> count -> ready -> swapIn -> exec -> swapOut -> swapped -> check -> lock
          |                                                                |-> resched -> lock
          `-> idle -> lock | exited                                        `-> hold -> lock
```

`Lock` takes `m_mutex`; `ScanSkip`, `ScanMarkReady`, `ScanErase`, `ScanTake` and
`ScanNothing` are the branches of the loop over `m_fibers` (the list iterator is
the index `it`, and the double increment after `erase` is `AfterErase`);
`CountActive` increments the counter and unlocks; `SetReady`, `SwapIn`, `Yield`,
`MainFuncEnds`, `SwapOut` are the fiber's life on the thread; `CountInactive`,
`CheckState`, `Reschedule`, `SetHold` come after it.  `Idle` is the base class's
idle fiber, which ends when it is first run, and `ReturnFromRun` is the end of
`run()`.  The main thread has `Start`, the five steps of `stop()`, `Join` and
`Destroy`, and is one of the threads in `run()` while the root fiber executes.
A failed assertion ends the process (`pc[Main] = "aborted"`), as `assert` does.
That of `~Fiber`, which `~Scheduler` runs for the root fiber, has an end of its own
(`"rootAborted"`): `stop()` marks the root fiber EXEC and does not call it if the
workers finish in between, and then the assertion does fail.  `start()` is not called
while there are workers, which it asserts.

Tasks are model values.  A callback is a task without a fiber (`UNINIT`) until
`run()` wraps it; `UserFibers` are fibers the application made.  The constant
`WakeRunning` says whether the application may schedule a fiber that some thread
still carries.  `IOManager` does that (an event may fire before the fiber that
waits for it has left its thread), the scheduler's own test does not.

`TaskPool.tla` is what the scheduler promises: a task is out, queued or running;
it becomes queued only by being submitted or requeued; it ends while running
and is then never taken again.  `ImplementsTaskPool` maps the list to "queued"
and what a thread carries to "running".

### Locks

`RWLock.tla` is `RWMutex` with both guards: opening, `lock()`, `unlock()` and
closing in every order, on a lock with glibc's behaviour (`EDEADLK` for the
writer that asks again; unlock by the writer gives up the write lock, by anybody
else it counts one reader less).  A thread has a guard for each of `Slots`, so
scopes nest and overlap, as `ListAllMember` (`config.cc:37`) and `Logger::log` with
`getName` (`log.cc:127`, `438`, `112`) make them.  The history variable `overlaid` is
set when a thread locks, inside the scope of one of its guards, what it already has for
writing: both guards then believe in one lock, and the first to end releases it
under the other.
`MutexTest.tla` is the program of `tests/test_mutex.cc` on it (its two reading
threads only log and are left out).  `CASLock.tla` is the spin lock with
`compare_exchange_weak`, which may fail spuriously, through `ScopedLockImpl`.
`MCLocks.tla` checks both: a behaviour is one of an `RWMutex` or of a `CASLock`
(`part`), as they share no state.

### IOManager's event table

`FdEvents.tla` has the four operations and the dispatch part of `idle()`.  Each
operation is split where another thread may come between: the test of `events`,
taking the mutex, `epoll_ctl`, the update of the table, each `triggerEvent`;
`delEvent`, which takes no lock, is split into its single writes.  epoll is
external: a set of registrations with their interest and whether they are
edge-triggered (`level`), conditions that hold of a descriptor, and the part of
them not reported yet (`edge`).  `m_pendingEventCount` is unsigned with
`CountBits` bits.

`delEvent` computes the new events before `epoll_ctl`, and then writes the count, the
events and the context one by one.  Whoever writes the same entry while it is between
its test and the write of `events` is undone by it, or counted off twice; the history
variable `raced` (`Deleting`, `Write`) records that this has happened, and `DeleteInStep`
says that count, events and contexts come apart in no other way.  Steps a thread
takes under the descriptor's mutex between two calls of `epoll_ctl` are one action;
a `delEvent` that falls inside one of these blocks, say between reading and writing
`events`, is a race of the same kind and has no step of its own.

### IOManager's threads

`IOIdle.tla` is the life of the threads of an `IOManager`: `start()` with the
hand-shake of the `Thread` constructor (`Create`, `Born`, `Constructed`), the loop
of `run()` for tasks that are callbacks (`Take` to `TaskEnds`, `ScanNothing`), the
idle fiber (`IdleIn` to `IdleOut`), and `stop()` (`StopEnter` to `Join`).  `isStoped()`
is four steps, one per read.  `idle()` is `EpollWait`, `ListExpired`,
`ScheduleExpired`, `DrainPipe`, `Trigger`, `Uncount` and `SwapOut`.  The timeout is
compared with `MAX_TIMEOUT` as an `int`, so a next timer of 2^31 to 2^32-1 ms gives
a negative one, and `epoll_wait` has no limit: a thread with timers none of which is due
waits at "wait" or at "sleep", from where only something to report takes it on.
`tickle()` is a step of its own after every push, since the counter it reads may change in
between.  main and running tasks schedule tasks, register them for events or
give them to timers; the world makes descriptors ready and lets timers expire.
Fibers that yield are left to `Scheduler`, masks and races on a descriptor to
`FdEvents`; here a task has a descriptor of its own, which epoll may report to a
second thread while the first has yet to handle it (`Stale` is the `continue` of
the thread that comes late).

`Callbacks.tla` is what all of this promises about one callback: it waits for its
event or its time if it was given one, is ready after that, goes to the list once,
is run by one thread, and ends.  `PlaceOf` maps the variables of `IOIdle`, the
local variables of `idle()` included, to these places; `ImplementsCallbacks` says
that no step takes a callback any other way.

### Config

`Config.tla` has the table of variables and the variables.  The lock of the
table is glibc's with its reader count as a number: `ListAllMember` nests a
`ReadLock` per level of the document and `LoadFromYaml` another around each
`LookupBase`, and in a thread that has leaked the write lock those guards all
unlock, the first one its own lock and the others whatever is there.  `setValue`
is `Notify` (compare, call the listeners, one of which may throw) and `Assign`.
The calls of the listeners are one step.  A listener that asks for the name or the
listeners of its own variable would release the variable's lock before `Assign`,
with the `ReadLock` of `getName` or `getListener`; such listeners are not modelled.
A document is the list of its nodes in preorder; whether a text converts is
part of the document.  Writing the loaded value, logging inside `Lookup`
and `getValue` change no state here.

### Log

`Loggers.tla` has the logger objects, the manager's table, and the listener on
"logs" step by step: `getLogger`, `setLevel`, `clearAppender`, one `addAppender` per
appender, then removal of what is gone.  Messages go through `getRoot`,
`getLevel` and `log()` as in the macros, which take and release the locks one
after the other; so do the message of the listener about an appender of unknown type
(`InvalidType`) and that of `fromString`.  The text of the former asks the logger that
is being configured for its name, and the end of that `ReadLock` releases the write lock
the listener has leaked (`getName`), before the null appender is used.  The
`getName` that a format item calls inside `log()` (`log.cc:438`) nests in `log()`'s own
`ReadLock`; no write lock of that thread is left there, because `getLevel` has released
it.  What a formatter or a file contains is reduced to what the
control depends on (a pattern is missing, good or bad).  The locks of appenders
only add waiting (a dump by another thread may wait for the configuring one)
and are left out.

`LogPattern.tla` is `initPattern`, one action per branch of its two loops, and
next to it a definition of what a pattern means that does not follow the loops: a
pattern is readable if it can be cut into pieces, each a character or a
whole specifier (`Piece`, `Readable`), and the tokens in `vec` must spell it
(`Spelled`).  Building `m_items` from the tokens, where the code drops the format of a
specifier, is not part of the model.  A '%'
in front of another '%' is a character and the second one starts a specifier;
nothing in the repository says so, but it is what the code reads.

`MCScheduler.tla`, `MCConfig.tla` and `MCLog.tla` give constants their values.
`MCLog` puts `Loggers` and `LogPattern` side by side: a behaviour is one of the loggers
or the construction of one formatter, as the two share no state.

## Runs

| Run | Question | Distinct states |
|---|---|---|
| `sched_callbacks` | two workers, the caller and two callbacks: does the shutdown lose none, is nobody left in `run()`; does `stop()` return and every callback run? | 57,820 |
| `sched_fibers` | a callback and an application fiber that yield, the fiber scheduled again after it held or ended, possibly pinned to the caller: is every task in one place and on one stack, which assertions can fail, does the scheduler implement `TaskPool`? | 261,869 |
| `sched_races` | a fiber scheduled while a thread still carries it, with `start()` and `stop()` called twice: does the counter survive? | 24,479 |
| `locks` | three threads with two guards each of an `RWMutex` in any order, or with one of a `CASLock`: do scopes exclude, do guards unlock only what is held, and until when; does somebody get the `CASLock`? | 471,634 |
| `fd_read` | READ events of a descriptor with hang-ups, two callers against two threads in `idle()`: counter, waiters, epoll interest, assertions; is a READ on a readable descriptor triggered? | 39,865 |
| `fd_delete` | both events, `delEvent` and duplicate `addEvent`: what makes count, events and contexts come apart? | 197,136 |
| `io_idle` | a worker, the caller and two tasks that come by `schedule`, event or timer: are the counters right, is the list drained and are main's events served when `stop()` returns, are thread ids recorded, does every callback take the way of `Callbacks`, does `stop()` return and every scheduled task run, unless threads sleep without a timeout? | 198,509 |
| `config` | two threads, two variables, up to four listeners with keys chosen by hand or searched, a document with an invalid name: one variable per name, listeners in step with the value, a free key for each listener, exclusion on the table and what upsets it | 1,961,843 |
| `log` | a thread that loads seven documents and one that logs, with up to three loggers: one logger per name, none written through half configured or removed, all as configured, and when null pointers are followed; and all 55,987 patterns of up to six characters from six classes: does `initPattern` throw exactly on those that cannot be read, do its tokens spell the rest, and do its loops go on? | 1,384,476 |

What the passing runs show.

- With the base class's idle, no task is ever in two places or on two threads, as
  long as fibers are scheduled only when no thread carries them, and callbacks all
  run and are not lost by the shutdown.  (Application fibers can be left in the list,
  see below.)  `m_activeThreadCount` is right in every case, the racing ones included.
- A leaked write lock costs progress first: others wait until its thread reads.  It
  costs exclusion as soon as that thread locks again inside a scope, which is what
  `ListAllMember` does: `Exclusion` and `NoStrayUnlock` hold up to that point, and
  `TableExclusive` says when it comes for the lock of the table, namely when a thread that
  has called `Lookup` with a default value loads a document before it has read the
  table.
- Without `delEvent`, whoever cancels or dispatches an event, each waiter is in one
  context or was scheduled once, and the counter agrees with the table.  With it, both
  can go wrong, but only after somebody has written the entry inside `delEvent`'s
  window: `DeleteInStep` without `~raced` is violated.
- A missed wake-up costs at most the timeout of `epoll_wait` if it has one (the mutant
  without a timeout loses tasks, and so does the code when every thread in `run()`
  sleeps with a negative one).  A thread that was told to stop by stale reads never
  strands a task, since whoever pushed it looks at the list again.
- The leaked write lock makes the configuration of a logger atomic for other threads:
  `NoHalfConfigured` breaks when the guard is released as it should be (its mutant),
  so repairing the guard alone would open that window.  The message about an appender
  of unknown type opens it in the code as it is, right before the null pointer.

Properties left out of a run because they do not hold there: `NothingLost`
for application fibers, `NoThreadLeft` and `AssertionsHold` after a restart,
`PendingAccurate` and `NoWaiterLost` with `delEvent`,
`SingleRunner` when fibers are woken early, `InterestMatches` and
`AssertionsHold` for descriptors with both events.  `EventsKept` is about events
that main registers with `use_caller`: an event that a task registers during the
shutdown, or a timer that main adds right before `stop()`, may be dropped.
`Applied` exempts loggers that a failed load has touched, and compares with the
code's `operator==`, which ignores the file.
`AssertionsHold` of `Scheduler` exempts `~Fiber` for a root fiber that never ran.
`TypeOK` is checked for `Scheduler` and `FdEvents`, where counters can go below
zero; in `IOIdle` that is part of `CountersAccurate`, and there as in `Config` and
`Loggers` `TypeOK` only documents the variables.

## Where code and its own statements disagree

Three runs check a statement of the repository that the code does not keep; the
`findings` in `PROJECT.json` quote them.

| Run | Statement | What happens |
|---|---|---|
| `sched_early_wake` | assertions of `swapIn`, `YieldToReady`, `YieldToHold` | a fiber scheduled early is resumed or marked while still on its thread |
| `mutex_test` | the test's "passed" | the first `WriteLock` is never released |
| `fd_cancel_race` | assertion of `triggerEvent` | `cancelEvent` does not look again under the mutex |

More are reachable in the same models and have no run of their own; the
hazards in `PROJECT.json` describe them:

- README line 56, "the thread it names is not the current one": the condition of
  `scheduler.cc:151` has `==`, so the named thread is the one that skips the task
  (`PinSkips`).
- `tests/test_config.cc:54`: `addListener(1, ...)` on a fresh variable throws, because
  no key is smaller than twice 0 (`funcIdGrowthValid`), and nobody catches it.
- README lines 57-59, "removed and executed": a fiber found in HOLD is marked READY
  and passed over, and all threads may leave `run()` before one comes back to it
  (`ScanMarkReady`, then `ReturnFromRun`; why `NothingLost` is stated of callbacks).
- `fiber.cc:117`, assertion of `~Fiber`: `stop()` may leave the root fiber in EXEC
  without having called it, and `~Scheduler` ends the process (`Destroy`,
  `"rootAborted"`).
- `iomanager.cc:268`, `MAX_TIMEOUT`: a next timer of 2^31 ms or more can make
  `epoll_wait` wait without a limit (`isStopedTimer`, "sleep").
- `log.cc:701`: the message about an unknown type of appender releases the lock of the
  logger that is being configured (`getName`).
- `fiber.cc:283`, "never reach": a second `stop()` calls the root fiber after its end
  (`MaxStops = 2`; the hypothesis of `AssertionsHoldCorrect`).
- `iomanager.cc:100`, assertion of `addEvent`: a duplicate is logged and added
  (`Duplicates`).
- `iomanager.cc:361`, assertion of `triggerEvent`: a hang-up triggers READ when only
  WRITE waits (`RealEvents`).

## Bounds

`MaxWakes`, `MaxYields`, `MaxStarts` and `MaxStops` bound how often fibers are
scheduled, tasks yield, and the scheduler is started and stopped; `Waiters`
bounds the calls of `addEvent`, `Rounds` is the 500 of the mutex test.  Two
threads besides the one that stops are enough for every pair of steps to meet
on one task; two tasks are needed for the double increment, one yield for a
task to come back to the list, three wakes for a fiber that ended to be
scheduled and erased while the other waits, two starts and stops (`sched_races`)
for every path through `stop()`.  In `FdEvents` two callers and two dispatchers (one where
`delEvent` is called) meet in every order on one descriptor, which shares nothing
but the counter with others; a second waiter lets an event be registered again
after it was triggered or cancelled, a third once more while a report of the
first is still unhandled.  4 bits make the counter wrap with two events.  In
`fd_delete` two waiters and one dispatcher are enough for a deletion to meet an addition,
a second deletion, a cancellation and a dispatch of either event.  `RWLock`: two guards
for each thread lay one over the other and leave one to end later, and with
`MaxStray` = 0 no guard asks for the lock while the reader count is below zero.

`IOIdle` has one worker beside the caller's thread, which is enough for a sleeper
and a waker in either role, and two tasks, so that one may hand over the other
while it runs.  `Config`: `MaxVars` = 2 for a variable and its double of another
type; `Used` = {1}, since what happens to the listeners of one variable does not
depend on another's, leaves room for `MaxKeys` = 4 listeners on it; with `Threshold` = 3
(256 in the code) keys above `s_func_id` are accepted by both branches of
`funcIdGrowthValid`, key 3 with the counter at 2 and key 5 with it at 3;
`MaxStray` = 0: the reader count goes below zero
inside an operation, and no further reading operation begins then.  `Loggers`:
`MaxLoggers` = 3 are the root, a logger, and the one made after it was removed;
the documents are those that take each path through conversion and listener.
`MaxLen` = 6 is room for a specifier with a format and a character on either side
of its parts, and for two specifiers; one letter that names an item, one that
does not and one other character are enough because the branches tell no more
apart.

Symmetry is used in `config` (threads, types), which checks no liveness.
Deadlock is not checked in `config`, `mutex_test`, the part of `locks` about the
`RWMutex` and that of `log` about the loggers (which may stutter in `LocksNext` and
`LogNext`): threads do wait for ever on leaked write
locks, and a process that crashed is at its end.

## Fairness

`Scheduler`: every thread in `run()` and the steps of `stop()` are weakly fair:
the operating system runs every thread.  `RunStep` includes the end of a
fiber's body but no yield or `schedule()`, so it is assumed that task bodies
end, and `StopEnter` that the application calls `stop()`.  Critical sections are
left in any case, so waiting for `m_mutex` needs no more.  `CASLock`: threads
run, scopes end, and not every exchange fails spuriously for ever (strong
fairness of *some* thread's `Acquire`); nothing is claimed of a single thread,
which may starve.  `FdEvents`: a thread inside an operation and a thread in
`idle()` go on.  `IOIdle`: threads run, tasks end, main starts the manager and
goes on inside `stop()` but need not call it (a server may run for good, and
`ScheduledRuns` must not depend on it), descriptors become ready, timers expire, and
`epoll_wait` returns when its timeout is over, if it has one.  It has none for a next
timer of 2^31 to 2^32-1 ms, and nothing is assumed of a thread that sleeps then:
`ScheduledRuns` promises nothing if from some time on all threads in `run()` do
(`Overslept`), `StopReturns` nothing if one of them does for good.  `MutexTest`: threads that can run do.

## Proofs

All theorems hold for every value of the constants that satisfies the named
assumptions of the modules (`ConstantsAssumption`, `ThreadsAssumption`,
`IOIdleAssumption`, `ConfigAssumption`, `LoggersAssumption`, `PatternAssumption`) and
what is written here.
Every inductive invariant was an invariant of a run of TLC before it was proved.

`Scheduler_proofs.tla`:

- `TypeCorrect` and `ActiveAccurateCorrect`.  The type of `m_activeThreadCount` (it
  never goes below zero) needs `ActiveAccurate`, so both are proved together as
  `TypeInv`, with `HasEntry`: a thread between taking a task and dealing with it
  holds an entry.  `RemoveAtProperties` says what `erase` does to the list,
  `BusyFinite` lets cardinalities be counted.
- `NoThreadLeftCorrect`, for `MaxStops` = 1 (after a restart it is false), from
  `Joined`: from the moment `stop()` has joined the workers, all of them have left.

The same module, for `~WakeRunning` (no fiber is scheduled while a thread carries
it; without it the theorems are false, that is `sched_early_wake`):

- `UniquePlaceCorrect`, `SingleRunnerCorrect`, `FinishedStaysFinishedCorrect` (no
  run checks the last one, which `ImplementsTaskPool` covers but for the difference
  between TERM and EXCEPT), and for `MaxStops` = 1 also `AssertionsHoldCorrect`.  The inductive invariant `SafeInv`
  adds to `TypeInv` where tasks are (`PlaceInv`: no task twice in the list, none
  in the list and with a thread, none with two threads, only submitted ones
  anywhere), what `m_state` is while a thread carries the fiber (`CarriedState`)
  and that ended contexts are finished (`EndedFinished`).  The places are needed
  because `m_state` has no lock: only if nobody else has the fiber is its state
  what the thread left there.  `RootOnce` adds that the root fiber runs once.
- `ImplementsTaskPoolCorrect`: `Scheduler` implements `TaskPool`.  `PlaceValue` reads
  from `SafeInv` what `PlaceOf` chooses for a task: listed, with a thread, or gone.
  Then every step of a thread (`PoolThread`) and of the caller (`PoolMain`) moves one
  task as `TaskPool` allows (`PoolMove`) or none (`PoolStutter`).
- `NothingLostCorrect`, for the shutdown that the class promises to survive:
  callbacks only, not pinned, the caller's thread used as well, one `stop()`
  (`CallbacksOnly`).  `LostInv` adds to `SafeInv` and `Joined` that any thread takes the
  first entry it meets (`Takeable`: nothing in the list is pinned or running), that
  every submitted callback is in the list, with a thread or done (`Accounted`), and
  that a list that is not empty has somebody who will scan it before it leaves
  (`Watched`).  The last is where a missed `isStoped()` would show.

`CASLock_proofs.tla`: `MutualExclusionCorrect`, from `FlagInv`: the flag is set while
the lock is held, and nobody enters the exchange expecting it set.

`MCLocks_proofs.tla`:

- `ExclusionCorrect` and `NoStrayUnlockCorrect` of `RWLock`, for any threads, slots and
  bound, from `LockInv`: until guards are laid over each other (`overlaid`), the lock is
  `InOrder`.  Whoever is inside a scope holds it for writing or has a reader of its own
  (`InsideHolds`), a guard that believes it is locked is inside (`LockedInside`), the
  writer is inside one scope at most (`WriterOnce`) and alone (`WriterAlone`), and the
  readers are counted (`Counted`).  A write lock without a scope is in order: that is
  the leak.
- `LocksMutualExclusion`, of the `CASLock` in the run `locks`: a step of the composition is
  a step of one lock and leaves the other alone, so `FlagInv` carries over.

`FdEvents_proofs.tla`:

- `TypeCorrect`, with `delEvent` and repeated `addEvent` included.
- `DeleteInStepCorrect`, with both included as well, if the counter has room for all
  registrations (`Countable`, below).  `CountInStep` and `ContextInStep` are its two parts;
  they need `Deletions`, that until the entry has been `raced` for, the event a
  `delEvent` is about is still registered, its `new_events` are what is left without it, and
  no two are about to reset one context.
- `NoWaiterLostCorrect`, without `delEvent`, from `WaitersOnce` (a waiter is in one place
  of the table at most, and has not fired while it is there) and `Matched`: an event is registered
  exactly if its context holds a waiter, and every waiter that was used is in the
  table or has fired.
- `PendingAccurateCorrect`, without `delEvent` and if the counter has room for all
  registrations there can be (`Countable`: finitely many descriptors, and fewer than
  `2^CountBits` pairs of descriptor and event).  The counter wraps around in the
  model as in the code; that it never has to is part of the proof.
- `InterestMatchesCorrect` and `AssertionsHoldCorrect`, when only READ is used, without
  `delEvent` and repeated `addEvent` (`Reading`; with both events the runs show
  violations), from `ReadOnly`: table, epoll and waiter agree whenever nobody holds
  the descriptor's mutex, and for each point inside a critical section what is
  already changed there.
- The prover knows nothing of powers: that `2^CountBits` is a positive number is in
  `ConstantsAssumption`, which TLC evaluates.

`IOIdle_proofs.tla`, with no assumption beyond the module's: `CountersAccurateCorrect`,
`QueueDrainedCorrect`, `EventsKeptCorrect`, `IdsRecordedCorrect`, `TypeCorrect`,
`ImplementsCallbacksCorrect`.  One invariant `Inv` carries all of them: each counter is the size of the set it stands
for, since each step adds one element to that set and one to the counter, or takes
one from each (`IdleSteps`, `ActiveSteps`, `PendingSteps`); the main thread is where its
calls of `start` and `stop` put it (`Outside`, `Started`); and while tasks wait,
some thread has yet to look at the list (`Watched`), which is how `QueueDrained`
follows although threads decide to leave from values read one after another.

That `IOIdle` implements `Callbacks` needs to know that a callback is in one place:
no two of list, threads, events, timers, and the local `cbs` of the threads share
one, the list has none twice, and no two threads hold one (`OnePlace`).  This is
inductive only with `Pockets`, that a thread carries `cbs` and `evs` nowhere but
between taking and handling them, so that `epoll_wait` and `listExpiredCallback`
overwrite nothing, and with `Remembered`, that a report left over is never about a
callback that is yet to be registered.  Most steps move nothing (`QuietSteps`); for
each of the eleven others one lemma says how the sets of callbacks change
(`SchedulePlaces` to `TriggerPlaces`), and `StepsKeepPromise` reads off the step of
`Callbacks`.  `TriggerPlaces` is where the test of line 322 is needed: without it
the second thread that is told of a descriptor schedules its callback again.

`Config_proofs.tla`, with no assumption beyond the module's: `SameVariableCorrect`,
`ListenersInformedCorrect`, `ListenerKeptCorrect`, `TableExclusiveCorrect`,
`TypeCorrect`.  `Keys`: no key is above the counter, so that the search for a free one
finds one (`Least` is about such searches); `Told`: between the calls of the listeners
and the assignment a thread has the variable's lock, and what the listeners were told
is what it will assign.  `Exclusive` needs to know which locks a thread *really* has,
as guards leak: `Held` numbers the read guards of the table's lock, and their number
is its reader count, as long as nothing has upset the lock.

`Loggers_proofs.tla`, with no assumption beyond the module's: `SameLoggerCorrect`,
`NoHalfConfiguredCorrect`, `RemovedSilentCorrect`, `AppliedCorrect`,
`CrashOnlyOnBadDocCorrect`, `TypeCorrect`.  All six follow from one invariant `Inv`:

- `Filed`: the manager's table and the loggers agree, so that no two loggers that are
  not removed have one name; `Making`, that whoever makes a logger has the manager's
  write lock and found the name free, keeps it.
- `Calls` and `Job`: only `Loader` runs the listener, and at each of its stages (`Stage`,
  also while it is inside a call) the define or name at hand is one that is not done.
  `Hands`: the logger the listener got is still the table's for that name.
- `Holding`: between its steps the listener has the write lock of that logger, which
  the guard in `setLevel` leaked, and a thread that writes has that logger's lock too,
  and a level that passes.  `NoHalfConfigured` follows because the lock excludes, and
  holds only thanks to the leak.
- `Removal`: a logger is off exactly if it is removed or about to be; nothing switches
  it on again, because the table no longer leads to it.  With `Holding` nobody writes
  through it.
- `Prefix`: the logger at hand has the level and a prefix of the appenders of its
  define.  `RootSounds`: the root has an appender unless the document was dangerous,
  the root is off, or it is being configured; `Configured`: every define of the value
  is applied, or at hand, or was touched by a listener that threw.

`NoHalfConfigured` ends with `getName`, which gives the lock of `Holding` back; behind it
there is only the null pointer.  The steps are grouped by what they can change (`Quiet`,
`Setting`, `Elsewhere`,
`MakeLogger`, `delLogger`; `Steps` says there are no others).

`LogPattern_proofs.tla`, for patterns of any length and with no assumption beyond the
module's: `ThrowsIfUnreadableCorrect`, `NothingDroppedCorrect`, `LoopsAdvanceCorrect`,
`TypeCorrect`.  What a pattern means is stated with a set of positions where it is cut
rather than by recursion, so that no induction over the pattern is needed: the loop
itself is the induction.

- `Reading`, `Scanned` and `Found` say what the inner loop has read behind the '%' it
  started from: the name of a specifier, the brace and what follows it.
- `Judged`: as long as nothing read makes `initPattern` throw, what lies before the
  outer loop's index is cut into pieces (`CutAt`), one more in each round; once
  something does, the pattern cannot be cut in any way.
- `Collected`: the tokens, with the characters not yet flushed, spell what lies before
  that index.
- `LoopsAdvance`, that each step leaves a stage or moves an index forward, is the
  argument for the end of both loops, as the indices are bounded by the pattern; that
  there always is a next step is left to TLC (`log` reports a deadlock of `initPattern`).

Only model-checked:

- liveness (`StopReturns`, `CallbacksRun`, `ScheduledRuns`, `LockIsTaken`,
  `ReadableIsTriggered`): fairness and `ENABLED` are outside what the
  prover does.  Every other property a run checks is proved, some of them for the
  parameters named above.

## Not modelled

- `contextResize()` and the table of descriptors growing or shrinking under
  `addEvent`: it needs descriptors beyond the table, and a failure there is an
  access outside a vector rather than a state.
- `Fiber::reset` (nothing in the library calls it), `safeFiberIdIncr` and the fiber
  count (ids are only logged), the stack allocator.
- `Thread::detach`, thread names, and operating-system calls that fail.
- `LexicalCast` of containers, the format items, `LogEvent`, `FileLogAppender::reopen`,
  `Utils`, `Env`, `Singleton`, `Macro`: formatting, clocks, backtraces and single calls
  without state.
- Assertions other than those of `swapIn`, the yields, `MainFunc` and `CallerMainFunc`,
  `~Fiber` for the root fiber (all in `Scheduler`), and those of `addEvent` about an unused
  context, `triggerEvent` and `cancelAll` (in `FdEvents`).  The rest say that a system
  call succeeded, on which thread a constructor or `stop()` is called, that `start()` finds
  no threads, or that a fiber that waits for an event is the current one; the model
  takes them to hold.
- `delAppender`, `setPattern`, the locks of appenders and formatters; `dealListener`,
  which does not compile when it is used.
- Timers and hooks, which are not in the repository: `TimerManager` is external to
  `IOIdle`, hooks are not used by the code there is.
- Listeners that change or ask for the listeners of their own variable, or ask for its
  name, and the order in which static objects of different files are initialised.

## What could come next

Abstract specifications of a lock that the `CASLock` and, up to the leak, the `RWMutex`
implement, of the table of events and of `Config`, with proofs of the refinements; the
action properties that would come with them.
