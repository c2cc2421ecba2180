------------------------------ MODULE Scheduler ------------------------------
(***************************************************************************)
(* The coroutine scheduler of ddg/scheduler.{h,cc} and the fibers of       *)
(* ddg/fiber.{h,cc} it runs.                                               *)
(*                                                                         *)
(* A pool of worker threads, and the constructing thread itself when       *)
(* use_caller is set, execute Scheduler::run: take an entry of m_fibers    *)
(* under m_mutex, swap its fiber in, and look at the fiber's m_state when  *)
(* it swaps back.  m_state is shared by all threads and protected by no    *)
(* lock, so every read and write of it is a step of its own.               *)
(*                                                                         *)
(* tickle() and idle() are virtual.  This module has the base class's:     *)
(* both only log, so tickle() changes nothing and the idle fiber           *)
(* terminates the first time it is swapped in.                             *)
(***************************************************************************)
EXTENDS Integers, SequencesExt

CONSTANTS
  Workers,      \* the threads start() creates; m_threadCount of them
  Main,         \* the thread that constructs, starts and stops the scheduler
  UseCaller,    \* the use_caller argument of the constructor
  Callbacks,    \* tasks scheduled as a std::function, one element per call
  UserFibers,   \* fibers the application made with new Fiber(cb)
  RootFiber,    \* m_rootFiber
  NoThread,     \* the 0 of FiberAndThread::thread, and nobody owning m_mutex
  NoEntry,      \* a null FiberAndThread::ptr
  PinTargets,   \* thread arguments the application passes to schedule()
  WakeRunning,  \* may a fiber be scheduled before it has left its thread?
  MaxWakes,     \* bound: how often fibers (not callbacks) are scheduled
  MaxYields,    \* bound: how often one task yields before it ends
  MaxStarts,    \* bound: calls of start()
  MaxStops      \* bound: calls of stop()

Threads == Workers \cup {Main}
Fibers  == Callbacks \cup UserFibers
Entry   == [fiber : Fibers, thread : PinTargets \cup {NoThread}]

ASSUME ConstantsAssumption ==
  /\ IsFiniteSet(Workers) /\ Main \notin Workers
  /\ NoThread \notin Threads
  /\ NoEntry \notin Entry
  /\ RootFiber \notin Fibers
  /\ Callbacks \cap UserFibers = {}
  /\ PinTargets \subseteq Threads
  /\ UseCaller \in BOOLEAN /\ WakeRunning \in BOOLEAN
  /\ UseCaller \/ Workers # {}            \* DDG_ASSERT(threads > 0)
  /\ MaxWakes \in Nat /\ MaxYields \in Nat
  /\ MaxStarts \in Nat /\ MaxStops \in Nat \ {0}

VARIABLES
  m_fibers,             \* std::list of FiberAndThread
  m_mutex,              \* the thread that holds Scheduler::m_mutex
  m_activeThreadCount,  \* std::atomic<size_t>
  m_stopping,
  m_autoStop,
  m_state,              \* Fiber::m_state of every fiber
  pc,                   \* where each thread is
  it,                   \* the list iterator of the thread that holds m_mutex
  ft,                   \* the local FiberAndThread::ptr of each thread in run()
  idle_ft,              \* does the thread still have its idle fiber?
  ended,                \* the fibers whose context is past its last swap out
  yields,               \* bound: yields left to each task
  wakes, starts, stops, \* bounds: calls made so far
  submitted             \* history: the tasks handed to schedule()

queueVars == <<m_fibers, m_mutex, it>>
flagVars  == <<m_stopping, m_autoStop, ended>>
localVars == <<ft, idle_ft>>
fiberVars == <<m_state, yields>>
boundVars == <<wakes, starts, stops>>
vars == <<queueVars, flagVars, localVars, fiberVars, boundVars,
          m_activeThreadCount, pc, submitted>>

FiberState == {"UNINIT", "INIT", "HOLD", "EXEC", "TERM", "READY", "EXCEPT"}
Finished   == {"TERM", "EXCEPT"}

(* Control points of Scheduler::run at which `ft' holds an entry. *)
Carrying == {"count", "ready", "swapIn", "exec", "swapOut", "swapped", "check",
             "resched", "hold"}
RunPoints == Carrying \cup {"lock", "scan", "idle"}
MainPoints == {"user", "stopCheck", "stopRootTerm", "stopFlag", "stopRoot",
               "join", "returned", "destroyed", "rootAborted", "aborted"}

(* The end of ~Scheduler, which may be a failed assertion of ~Fiber.       *)
Destroyed == {"destroyed", "rootAborted"}

Goto(t, l) == pc' = [pc EXCEPT ![t] = l]

Queued(f)     == \E i \in DOMAIN m_fibers : m_fibers[i].fiber = f
Carries(t, f) == pc[t] \in Carrying /\ ft[t].fiber = f

(* The threads whose stack pointer is on the stack of fiber f: from        *)
(* swapIn()'s swapcontext until swapOut()'s swapcontext has saved it.      *)
Runners(f) == {t \in Threads : pc[t] \in {"exec", "swapOut"} /\ ft[t].fiber = f}

(* Two threads on one fiber's stack is undefined behaviour; what follows   *)
(* is not described.                                                       *)
Corrupted == \E f \in Fibers : \E t, u \in Runners(f) : t # u

(* The process is gone, or what it does is undefined.                      *)
Over == pc[Main] \in Destroyed \cup {"aborted"} \/ Corrupted

At(t, l) == ~Over /\ pc[t] = l

-----------------------------------------------------------------------------
(* Scheduler::Scheduler: with use_caller the root fiber is made at once.   *)
Init ==
  /\ m_fibers = <<>> /\ m_mutex = NoThread /\ it = 1
  /\ m_activeThreadCount = 0
  /\ m_stopping = TRUE /\ m_autoStop = FALSE /\ ended = {}
  /\ m_state = [f \in Fibers \cup {RootFiber} |->
                  IF f \in UserFibers \/ (f = RootFiber /\ UseCaller)
                  THEN "INIT" ELSE "UNINIT"]
  /\ pc = [t \in Threads |-> IF t = Main THEN "user" ELSE "unborn"]
  /\ ft = [t \in Threads |-> NoEntry]
  /\ idle_ft = [t \in Threads |-> FALSE]
  /\ yields = [f \in Fibers |-> MaxYields]
  /\ wakes = 0 /\ starts = 0 /\ stops = 0
  /\ submitted = {}

-----------------------------------------------------------------------------
(* Scheduler::schedule(fc, thread): push under m_mutex, then tickle().     *)

(* Faulty variant: the task is not put into the list.                      *)
Push_Lost(entry) == m_fibers

(* scheduleNoLock: push_back.                                              *)
Push(entry) == Append(m_fibers, entry)

(* A callback is a new task: it has no fiber (UNINIT) until run() wraps it.*)
FreshCallback(f) ==
  /\ f \in Callbacks /\ m_state[f] = "UNINIT" /\ f \notin submitted

(* An existing fiber that is not in the list.  Unless WakeRunning, the     *)
(* application only schedules fibers that no thread carries; a fiber that  *)
(* registers an event and then holds is scheduled by whoever sees the      *)
(* event, possibly before it has left its thread.                          *)
WakeableFiber(f) ==
  /\ m_state[f] # "UNINIT" /\ wakes < MaxWakes
  /\ ~Queued(f)
  /\ \A t \in Threads :
       Carries(t, f) => WakeRunning /\ pc[t] \notin {"count", "ready", "swapIn"}

schedule(f, thread) ==
  /\ m_mutex = NoThread
  /\ \/ FreshCallback(f) /\ UNCHANGED wakes
     \/ WakeableFiber(f) /\ wakes' = wakes + 1
  /\ m_fibers' = Push([fiber |-> f, thread |-> thread])
  /\ submitted' = submitted \cup {f}
  /\ UNCHANGED <<m_mutex, it, flagVars, localVars, fiberVars, starts, stops,
                 m_activeThreadCount, pc>>

(* schedule() called by the application's main thread, or by the body of   *)
(* the fiber that thread t is running.                                     *)
Schedule(t) ==
  /\ At(t, "exec") \/ (t = Main /\ At(t, "user"))
  /\ \E f \in Fibers, thread \in PinTargets \cup {NoThread} : schedule(f, thread)

-----------------------------------------------------------------------------
(* Scheduler::run                                                          *)

Lock(t) ==
  /\ At(t, "lock") /\ m_mutex = NoThread
  /\ m_mutex' = t /\ it' = 1
  /\ Goto(t, "scan")
  /\ UNCHANGED <<m_fibers, flagVars, localVars, fiberVars, boundVars,
                 m_activeThreadCount, submitted>>

Scanning(t) == At(t, "scan") /\ it <= Len(m_fibers)

(* Line 151: the condition compares with ==, so it is the tasks pinned to  *)
(* the scanning thread itself that are passed over.                        *)
PinSkips(t) == m_fibers[it].thread # NoThread /\ m_fibers[it].thread = t

StateAtIt == m_state[m_fibers[it].fiber]

Skippable(t) == PinSkips(t) \/ StateAtIt = "EXEC"

ScanSkip(t) ==
  /\ Scanning(t) /\ Skippable(t)
  /\ it' = it + 1
  /\ UNCHANGED <<m_fibers, m_mutex, flagVars, localVars, fiberVars, boundVars,
                 m_activeThreadCount, pc, submitted>>

(* INIT and HOLD become READY and are passed over until the next scan.     *)
ScanMarkReady(t) ==
  /\ Scanning(t) /\ ~PinSkips(t) /\ StateAtIt \in {"INIT", "HOLD"}
  /\ m_state' = [m_state EXCEPT ![m_fibers[it].fiber] = "READY"]
  /\ it' = it + 1
  /\ UNCHANGED <<m_fibers, m_mutex, flagVars, localVars, yields, boundVars,
                 m_activeThreadCount, pc, submitted>>

(* Faulty variant: the entry stays in the list while a thread runs it.     *)
Erase_Forgotten(i) == m_fibers

Erase(i) == RemoveAt(m_fibers, i)

(* A finished fiber is erased with erase(it++) and the loop increments the *)
(* iterator again: the element after it is not looked at.  Incrementing    *)
(* end() wraps around to begin() in the list of libstdc++.                 *)
AfterErase(i, n) == IF i = n THEN 1 ELSE i + 1

ScanErase(t) ==
  /\ Scanning(t) /\ ~PinSkips(t) /\ StateAtIt \in Finished
  /\ m_fibers' = Erase(it)
  /\ it' = AfterErase(it, Len(m_fibers))
  /\ UNCHANGED <<m_mutex, flagVars, localVars, fiberVars, boundVars,
                 m_activeThreadCount, pc, submitted>>

(* A callback, or a READY fiber, is taken out of the list.                 *)
ScanTake(t) ==
  /\ Scanning(t) /\ ~PinSkips(t) /\ StateAtIt \in {"UNINIT", "READY"}
  /\ ft' = [ft EXCEPT ![t] = m_fibers[it]]
  /\ m_fibers' = Erase(it)
  /\ Goto(t, "count")
  /\ UNCHANGED <<m_mutex, it, flagVars, idle_ft, fiberVars, boundVars,
                 m_activeThreadCount, submitted>>

(* Faulty variant: the thread is not counted.                              *)
Activate_Missing == UNCHANGED m_activeThreadCount

Activate == m_activeThreadCount' = m_activeThreadCount + 1

(* m_activeThreadCount++ before m_mutex is released; isStoped() reads the  *)
(* counter and the list without m_mutex.                                   *)
CountActive(t) ==
  /\ At(t, "count")
  /\ Activate
  /\ m_mutex' = NoThread
  /\ Goto(t, "ready")
  /\ UNCHANGED <<m_fibers, it, flagVars, localVars, fiberVars, boundVars,
                 submitted>>

ScanNothing(t) ==
  /\ At(t, "scan") /\ it > Len(m_fibers)
  /\ m_mutex' = NoThread
  /\ Goto(t, "idle")
  /\ UNCHANGED <<m_fibers, it, flagVars, localVars, fiberVars, boundVars,
                 m_activeThreadCount, submitted>>

(* A callback gets its fiber, and the fiber is set to READY.               *)
SetReady(t) ==
  /\ At(t, "ready")
  /\ m_state' = [m_state EXCEPT ![ft[t].fiber] = "READY"]
  /\ Goto(t, "swapIn")
  /\ UNCHANGED <<queueVars, flagVars, localVars, yields, boundVars,
                 m_activeThreadCount, submitted>>

(* A failed assertion, or a context resumed after its end, ends the        *)
(* process: nothing of the scheduler runs any more.                        *)
Abort ==
  /\ Goto(Main, "aborted")
  /\ UNCHANGED <<queueVars, flagVars, localVars, fiberVars, boundVars,
                 m_activeThreadCount, submitted>>

(* Fiber::swapIn asserts that the fiber is not EXEC; a fiber that has      *)
(* ended would resume behind MainFunc's last swapOut ("never reach").      *)
CanSwapIn(f) == m_state[f] # "EXEC" /\ f \notin ended

SwapIn(t) ==
  /\ At(t, "swapIn")
  /\ \/ /\ CanSwapIn(ft[t].fiber)
        /\ m_state' = [m_state EXCEPT ![ft[t].fiber] = "EXEC"]
        /\ Goto(t, "exec")
        /\ UNCHANGED <<queueVars, flagVars, localVars, yields, boundVars,
                       m_activeThreadCount, submitted>>
     \/ ~CanSwapIn(ft[t].fiber) /\ Abort

(* The fiber's body leaves the thread with swapOut().  m_state is written  *)
(* before the context is saved.                                            *)
Leave(t, state) ==
  /\ m_state' = [m_state EXCEPT ![ft[t].fiber] = state]
  /\ Goto(t, "swapOut")
  /\ UNCHANGED <<queueVars, m_stopping, m_autoStop, localVars, boundVars,
                 m_activeThreadCount, submitted>>

(* Fiber::YieldToReady and YieldToHold assert EXEC; swapOut() itself is    *)
(* public and leaves m_state alone.                                        *)
Yield(t) ==
  LET f == ft[t].fiber IN
  /\ At(t, "exec") /\ yields[f] > 0
  /\ \/ /\ \/ m_state[f] = "EXEC" /\ \E state \in {"READY", "HOLD"} : Leave(t, state)
           \/ Leave(t, m_state[f])
        /\ yields' = [yields EXCEPT ![f] = @ - 1]
        /\ UNCHANGED ended
     \/ m_state[f] # "EXEC" /\ Abort

(* Fiber::MainFunc: the callback returns, or throws.                       *)
MainFuncEnds(t) ==
  /\ At(t, "exec")
  /\ \E state \in Finished : Leave(t, state)
  /\ ended' = ended \cup {ft[t].fiber}
  /\ UNCHANGED yields

(* swapcontext in Fiber::swapOut: the thread is back in run().             *)
SwapOut(t) ==
  /\ At(t, "swapOut")
  /\ Goto(t, "swapped")
  /\ UNCHANGED <<queueVars, flagVars, localVars, fiberVars, boundVars,
                 m_activeThreadCount, submitted>>

(* Faulty variant: the thread stays counted.                               *)
Deactivate_Missing == UNCHANGED m_activeThreadCount

Deactivate == m_activeThreadCount' = m_activeThreadCount - 1

CountInactive(t) ==
  /\ At(t, "swapped")
  /\ Deactivate
  /\ Goto(t, "check")
  /\ UNCHANGED <<queueVars, flagVars, localVars, fiberVars, boundVars, submitted>>

(* Faulty variant: EXCEPT is taken for a fiber that waits.                 *)
HasEnded_TermOnly(state) == state = "TERM"

HasEnded(state) == state \in Finished

(* Line 209: read m_state and choose; ft is reset once it is dealt with.   *)
CheckState(t) ==
  LET state == m_state[ft[t].fiber] IN
  /\ At(t, "check")
  /\ \/ state = "READY" /\ Goto(t, "resched") /\ UNCHANGED ft
     \/ HasEnded(state) /\ Goto(t, "lock") /\ ft' = [ft EXCEPT ![t] = NoEntry]
     \/ state # "READY" /\ ~HasEnded(state) /\ Goto(t, "hold") /\ UNCHANGED ft
  /\ UNCHANGED <<queueVars, flagVars, idle_ft, fiberVars, boundVars,
                 m_activeThreadCount, submitted>>

Reschedule(t) ==
  /\ At(t, "resched") /\ m_mutex = NoThread
  /\ m_fibers' = Push(ft[t])
  /\ ft' = [ft EXCEPT ![t] = NoEntry]
  /\ Goto(t, "lock")
  /\ UNCHANGED <<m_mutex, it, flagVars, idle_ft, fiberVars, boundVars,
                 m_activeThreadCount, submitted>>

SetHold(t) ==
  /\ At(t, "hold")
  /\ m_state' = [m_state EXCEPT ![ft[t].fiber] = "HOLD"]
  /\ ft' = [ft EXCEPT ![t] = NoEntry]
  /\ Goto(t, "lock")
  /\ UNCHANGED <<queueVars, flagVars, idle_ft, yields, boundVars,
                 m_activeThreadCount, submitted>>

(* Faulty variant: an idle fiber that never ends.                          *)
Idle_Forever(t) ==
  /\ At(t, "idle")
  /\ Goto(t, "lock")
  /\ UNCHANGED <<queueVars, flagVars, localVars, fiberVars, boundVars,
                 m_activeThreadCount, submitted>>

(* Scheduler::idle only logs: the idle fiber ends and idle_ft is reset.    *)
Idle(t) ==
  /\ At(t, "idle") /\ idle_ft[t]
  /\ idle_ft' = [idle_ft EXCEPT ![t] = FALSE]
  /\ Goto(t, "lock")
  /\ UNCHANGED <<queueVars, flagVars, ft, fiberVars, boundVars,
                 m_activeThreadCount, submitted>>

(* No idle fiber is left: run() returns.  A worker's thread function ends; *)
(* on the caller's thread the root fiber terminates and swaps back to      *)
(* stop(), which goes on to join the workers.                              *)
ReturnFromRun(t) ==
  /\ At(t, "idle") /\ ~idle_ft[t]
  /\ IF t = Main
     THEN /\ m_state' = [m_state EXCEPT ![RootFiber] = "TERM"]
          /\ ended' = ended \cup {RootFiber}
          /\ Goto(t, "join")
     ELSE Goto(t, "exited") /\ UNCHANGED <<m_state, ended>>
  /\ UNCHANGED <<queueVars, m_stopping, m_autoStop, localVars, yields,
                 boundVars, m_activeThreadCount, submitted>>

-----------------------------------------------------------------------------
(* The application's main thread: start(), stop(), destruction.            *)

Start ==
  /\ At(Main, "user") \/ At(Main, "returned")
  /\ starts < MaxStarts /\ stops < MaxStops
  /\ m_mutex = NoThread
  /\ \A w \in Workers : pc[w] = "unborn"      \* DDG_ASSERT(m_threads.empty())
  /\ m_stopping' = FALSE
  /\ pc' = [t \in Threads |-> IF t = Main THEN "user" ELSE "lock"]
  /\ idle_ft' = [t \in Threads |-> IF t = Main THEN idle_ft[t] ELSE TRUE]
  /\ starts' = starts + 1
  /\ UNCHANGED <<queueVars, m_autoStop, ended, ft, fiberVars, wakes, stops,
                 m_activeThreadCount, submitted>>

(* Faulty variant: the list is not looked at.                              *)
IsStoped_IgnoresList == m_autoStop /\ m_stopping /\ m_activeThreadCount = 0

(* Scheduler::isStoped; it takes no lock. *)
IsStoped ==
  m_autoStop /\ m_stopping /\ m_fibers = <<>> /\ m_activeThreadCount = 0

StopEnter ==
  /\ (At(Main, "user") \/ At(Main, "returned")) /\ stops < MaxStops
  /\ m_autoStop' = TRUE
  /\ stops' = stops + 1
  /\ Goto(Main, "stopCheck")
  /\ UNCHANGED <<queueVars, m_stopping, ended, localVars, fiberVars,
                 wakes, starts, m_activeThreadCount, submitted>>

StopCheck ==
  /\ At(Main, "stopCheck")
  /\ Goto(Main, IF IsStoped THEN "returned" ELSE "stopRootTerm")
  /\ UNCHANGED <<queueVars, flagVars, localVars, fiberVars, boundVars,
                 m_activeThreadCount, submitted>>

(* Lines 71-78: the root fiber ran before, m_stopping is set early and     *)
(* isStoped() asked again.                                                 *)
StopRootTerm ==
  LET rootTerm == UseCaller /\ m_state[RootFiber] \in Finished IN
  /\ At(Main, "stopRootTerm")
  /\ m_stopping' = (m_stopping \/ rootTerm)
  /\ Goto(Main, IF rootTerm /\ m_fibers = <<>> /\ m_activeThreadCount = 0
                THEN "returned" ELSE "stopFlag")
  /\ UNCHANGED <<queueVars, m_autoStop, ended, localVars, fiberVars,
                 boundVars, m_activeThreadCount, submitted>>

StopFlag ==
  /\ At(Main, "stopFlag")
  /\ m_stopping' = TRUE
  /\ Goto(Main, IF UseCaller THEN "stopRoot" ELSE "join")
  /\ UNCHANGED <<queueVars, m_autoStop, ended, localVars, fiberVars,
                 boundVars, m_activeThreadCount, submitted>>

(* Lines 96-103: m_rootFiber->setState(EXEC), and call() unless stopped.   *)
(* The first call() enters run(); a call() of a root fiber that has ended  *)
(* resumes CallerMainFunc after back() and fails its "never reach"         *)
(* assertion.                                                              *)
StopRoot ==
  /\ At(Main, "stopRoot")
  /\ m_state' = [m_state EXCEPT ![RootFiber] = "EXEC"]
  /\ \/ IsStoped /\ Goto(Main, "join") /\ UNCHANGED idle_ft
     \/ /\ ~IsStoped /\ RootFiber \notin ended
        /\ Goto(Main, "lock")
        /\ idle_ft' = [idle_ft EXCEPT ![Main] = TRUE]
     \/ ~IsStoped /\ RootFiber \in ended /\ Goto(Main, "aborted") /\ UNCHANGED idle_ft
  /\ UNCHANGED <<queueVars, flagVars, ft, yields, boundVars,
                 m_activeThreadCount, submitted>>

(* Faulty variant: nobody is waited for.                                   *)
AllExited_Assumed == TRUE

AllExited == \A w \in Workers : pc[w] \in {"exited", "unborn"}

(* Lines 105-113: take m_threads under m_mutex and join them all.          *)
Join ==
  /\ At(Main, "join") /\ m_mutex = NoThread
  /\ AllExited
  /\ pc' = [t \in Threads |-> CASE t = Main -> "returned"
                               [] pc[t] = "exited" -> "unborn"
                               [] OTHER -> pc[t]]
  /\ UNCHANGED <<queueVars, flagVars, localVars, fiberVars, boundVars,
                 m_activeThreadCount, submitted>>

(* Scheduler::~Scheduler, once stop() has returned, releases m_rootFiber;  *)
(* ~Fiber asserts that the fiber has ended or was never started.  stop()   *)
(* leaves it EXEC when the workers finish everything between line 97 and   *)
(* the isStoped() of line 99.  (A fiber that was started and has not ended *)
(* is not released: a pointer to it is on its own stack.  The application  *)
(* is taken to keep its pointers to fibers that were not started.)         *)
Destroy ==
  /\ At(Main, "returned")
  /\ Goto(Main, IF UseCaller /\ m_state[RootFiber] \notin Finished \cup {"INIT"}
                THEN "rootAborted" ELSE "destroyed")
  /\ UNCHANGED <<queueVars, flagVars, localVars, fiberVars, boundVars,
                 m_activeThreadCount, submitted>>

-----------------------------------------------------------------------------
RunStep(t) ==
  \/ Lock(t) \/ ScanSkip(t) \/ ScanMarkReady(t) \/ ScanErase(t) \/ ScanTake(t)
  \/ CountActive(t) \/ ScanNothing(t) \/ SetReady(t) \/ SwapIn(t)
  \/ MainFuncEnds(t) \/ SwapOut(t) \/ CountInactive(t)
  \/ CheckState(t) \/ Reschedule(t) \/ SetHold(t) \/ Idle(t) \/ ReturnFromRun(t)

StopStep ==
  StopCheck \/ StopRootTerm \/ StopFlag \/ StopRoot \/ Join \/ Destroy

Next ==
  \/ \E t \in Threads : RunStep(t) \/ Yield(t) \/ Schedule(t)
  \/ Start \/ StopEnter \/ StopStep
  \/ Over /\ UNCHANGED vars

Spec == Init /\ [][Next]_vars

(* The operating system runs every thread that can run; task bodies end,   *)
(* and the application calls stop() in the end.                            *)
Fairness ==
  /\ \A t \in Threads : WF_vars(RunStep(t))
  /\ WF_vars(StopEnter) /\ WF_vars(StopStep)

FairSpec == Spec /\ Fairness

-----------------------------------------------------------------------------
(* Properties                                                              *)

TypeOK ==
  /\ m_fibers \in Seq(Entry)
  /\ m_mutex \in Threads \cup {NoThread}
  /\ m_activeThreadCount \in Nat
  /\ m_stopping \in BOOLEAN /\ m_autoStop \in BOOLEAN
  /\ m_state \in [Fibers \cup {RootFiber} -> FiberState]
  /\ pc \in [Threads -> RunPoints \cup MainPoints \cup {"unborn", "exited"}]
  /\ it \in Nat \ {0}
  /\ ft \in [Threads -> Entry \cup {NoEntry}]
  /\ idle_ft \in [Threads -> BOOLEAN]
  /\ ended \subseteq Fibers \cup {RootFiber}
  /\ yields \in [Fibers -> Nat]
  /\ wakes \in Nat /\ starts \in Nat /\ stops \in Nat
  /\ submitted \subseteq Fibers

(* No fiber is on the stack of two threads: swapIn() never resumes a       *)
(* context that another thread has not saved in swapOut() yet.             *)
SingleRunner == ~Corrupted

(* Every task is in one place: in m_fibers once, or carried by one thread  *)
(* in run().                                                               *)
UniquePlace ==
  /\ \A i, j \in DOMAIN m_fibers : m_fibers[i].fiber = m_fibers[j].fiber => i = j
  /\ \A t \in Threads : pc[t] \in Carrying =>
       /\ ~Queued(ft[t].fiber)
       /\ \A u \in Threads : Carries(u, ft[t].fiber) => u = t

(* None of the assertions of swapIn(), YieldToReady(), YieldToHold(),      *)
(* MainFunc() and CallerMainFunc() fails, and that of ~Fiber fails for the *)
(* root fiber only if stop() has marked it EXEC and then not called it.    *)
AssertionsHold ==
  /\ pc[Main] # "aborted"
  /\ pc[Main] = "rootAborted" => RootFiber \notin ended

(* The threads that are between the two changes of m_activeThreadCount.    *)
Busy == {t \in Threads : pc[t] \in {"ready", "swapIn", "exec", "swapOut", "swapped"}}

(* m_activeThreadCount, incremented under m_mutex and decremented without  *)
(* it, is the number of threads between the two: isStoped() relies on it.  *)
ActiveAccurate == pc[Main] # "aborted" => m_activeThreadCount = Cardinality(Busy)

(* A task that was handed to schedule() is not dropped by the shutdown:    *)
(* when the scheduler is destroyed it has ended, or gave up the thread     *)
(* and waits for somebody to schedule it again (HOLD).                     *)
NothingLost ==
  pc[Main] \in Destroyed =>
    /\ m_fibers = <<>>
    /\ \A f \in submitted : m_state[f] \in Finished \cup {"HOLD"}

(* No thread is in run() any more when the scheduler is destroyed.         *)
NoThreadLeft ==
  pc[Main] \in Destroyed => \A w \in Workers : pc[w] \in {"unborn", "exited"}

(* A fiber that ended is never given another state; only then may run()    *)
(* drop it from m_fibers and forget it.                                    *)
FinishedStaysFinished ==
  [][\A f \in Fibers : m_state[f] \in Finished => m_state'[f] = m_state[f]]_vars

(* The scheduler implements the abstract pool of tasks.  The fibers in     *)
(* the list are queued, those a thread carries are running.                *)
PlaceOf(f) ==
  CASE Queued(f) -> "queued"
    [] \E t \in Threads : Carries(t, f) -> "running"
    [] OTHER -> "out"

Pool == INSTANCE TaskPool WITH
  Tasks <- Fibers,
  place <- [f \in Fibers |-> PlaceOf(f)],
  done  <- {f \in Fibers : m_state[f] \in Finished}

ImplementsTaskPool == Pool!Spec

(* stop() returns: every thread finds its way out of run() and is joined.  *)
StopReturns == pc[Main] = "stopCheck" ~> pc[Main] \in {"returned"} \cup Destroyed

(* Every callback handed to schedule() is executed, until it ends or holds.*)
CallbacksRun ==
  \A f \in Callbacks : f \in submitted ~> m_state[f] \in Finished \cup {"HOLD"}

=============================================================================
