-------------------------------- MODULE IOIdle --------------------------------
(***************************************************************************)
(* How the threads of an IOManager (ddg/iomanager.cc on ddg/scheduler.cc   *)
(* and ddg/thread.cc) start, wait, are woken and stop.                     *)
(*                                                                         *)
(* A thread that finds m_fibers empty swaps in its idle fiber, which asks  *)
(* isStoped(), waits in epoll_wait, schedules the callbacks of expired     *)
(* timers and of events, and swaps out again.  isStoped() reads a timer    *)
(* set, two counters and the list one after the other and takes no lock,   *)
(* so each read is a step of its own.                                      *)
(*                                                                         *)
(* Tasks are callbacks that run once; while one runs it may hand over      *)
(* others: schedule them, or register them for an event or with a timer.   *)
(* Fibers that yield are in Scheduler, the table of events is in FdEvents. *)
(***************************************************************************)
EXTENDS Integers, SequencesExt

CONSTANTS
  Workers,    \* the threads start() creates
  Main,       \* the thread that constructs, starts and stops the IOManager
  UseCaller,  \* the use_caller argument of the constructor
  Tasks,      \* the callbacks of one execution
  NoTask,     \* a null FiberAndThread::ptr
  Tickle      \* what epoll reports for m_tickle_fds[0]

Threads == Workers \cup {Main}

ASSUME IOIdleAssumption ==
  /\ IsFiniteSet(Workers) /\ IsFiniteSet(Tasks)
  /\ Main \notin Workers /\ NoTask \notin Tasks /\ Tickle \notin Tasks
  /\ UseCaller \in BOOLEAN /\ (UseCaller \/ Workers # {})

VARIABLES
  m_fibers,             \* the tasks that are scheduled
  m_activeThreadCount, m_idleThreadCount, m_pendingEventCount,
  m_stopping, m_autoStop,
  m_id,                 \* Thread::m_id has been set by the new thread
  m_sem,                \* Thread::m_sem
  m_threadIds,          \* the workers whose id start() has recorded
  waiting,              \* the tasks that wait for an event of a descriptor
  fired,                \* those of them whose descriptor epoll has to report
  timers,               \* the tasks TimerManager holds
  due,                  \* those of them whose time has come
  pipe,                 \* there are bytes in the tickle pipe ...
  edge,                 \* ... and epoll has not reported the last write
  pc, ret,              \* where each thread is, and where tickle() returns to
  ft,                   \* the local FiberAndThread::ptr of run()
  idle_ft,              \* the thread still has its idle fiber
  tickles,              \* calls of tickle() left in the loop of stop()
  cbs, evs,             \* idle()'s locals: expired callbacks, epoll's report
  done,                 \* the tasks that have been executed
  promised              \* history: the tasks main registered for an event

poolVars  == <<m_fibers, m_activeThreadCount, done>>
flagVars  == <<m_stopping, m_autoStop, tickles>>
startVars == <<m_id, m_sem, m_threadIds>>
eventVars == <<waiting, fired, m_pendingEventCount, promised>>
timerVars == <<timers, due>>
pipeVars  == <<pipe, edge>>
idleVars  == <<m_idleThreadCount, idle_ft, cbs, evs>>
ctlVars   == <<flagVars, startVars>>
ioVars    == <<eventVars, timerVars, pipeVars>>
vars == <<poolVars, ctlVars, ioVars, idleVars, pc, ret, ft>>

Goto(t, l) == pc' = [pc EXCEPT ![t] = l]

(* A step that only moves t to l.                                          *)
Move(t, l) == Goto(t, l) /\ UNCHANGED <<poolVars, ctlVars, ioVars, idleVars,
                                        ret, ft>>

(* Call tickle() and go on at l.                                           *)
ThenTickle(t, l) == Goto(t, "tickle") /\ ret' = [ret EXCEPT ![t] = l]

(* m_mutex is held from the beginning to the end of start(), and by a      *)
(* thread between taking a task and counting itself.                       *)
Locked ==
  \/ pc[Main] \in {"create", "ctor"}
  \/ \E t \in Threads : pc[t] = "count"

(* IOManager::IOManager; nothing is registered but the pipe.               *)
Init ==
  /\ m_fibers = <<>> /\ m_activeThreadCount = 0 /\ m_idleThreadCount = 0
  /\ m_pendingEventCount = 0 /\ m_stopping = TRUE /\ m_autoStop = FALSE
  /\ tickles = 0
  /\ m_id = {} /\ m_sem = {} /\ m_threadIds = {}
  /\ waiting = {} /\ fired = {} /\ timers = {} /\ due = {}
  /\ pipe = FALSE /\ edge = FALSE
  /\ pc = [t \in Threads |-> IF t = Main THEN "user" ELSE "unborn"]
  /\ ret = [t \in Threads |-> "user"]
  /\ ft = [t \in Threads |-> NoTask]
  /\ idle_ft = [t \in Threads |-> FALSE]
  /\ cbs = [t \in Threads |-> {}] /\ evs = [t \in Threads |-> {}]
  /\ done = {} /\ promised = {}

-----------------------------------------------------------------------------
(* IOManager::tickle: a byte into the pipe if some thread counts as idle.  *)
tickle(t) ==
  /\ pc[t] = "tickle"
  /\ pipe' = (pipe \/ m_idleThreadCount > 0)
  /\ edge' = (edge \/ m_idleThreadCount > 0)
  /\ Goto(t, ret[t])
  /\ UNCHANGED <<poolVars, ctlVars, eventVars, timerVars, idleVars, ret, ft>>

-----------------------------------------------------------------------------
(* What the application does, in main or in the body of a task.            *)

Given == done \cup waiting \cup timers \cup Range(m_fibers) \cup {ft[t] : t \in Threads}
              \cup UNION {cbs[t] : t \in Threads}
NewTasks == Tasks \ Given

InUserCode(t) == pc[t] = "exec" \/ (t = Main /\ pc[t] = "user")

(* Scheduler::schedule(cb): push under m_mutex, then tickle().             *)
Schedule(t, k) ==
  /\ InUserCode(t) /\ ~Locked /\ k \in NewTasks
  /\ m_fibers' = Append(m_fibers, k)
  /\ ThenTickle(t, pc[t])
  /\ UNCHANGED <<m_activeThreadCount, done, ctlVars, ioVars, idleVars, ft>>

(* IOManager::addEvent(fd, event, cb), one event of a descriptor per task. *)
AddEvent(t, k) ==
  /\ InUserCode(t) /\ k \in NewTasks
  /\ waiting' = waiting \cup {k}
  /\ m_pendingEventCount' = m_pendingEventCount + 1
  /\ promised' = IF pc[t] = "user" THEN promised \cup {k} ELSE promised
  /\ UNCHANGED <<poolVars, ctlVars, fired, timerVars, pipeVars, idleVars, pc,
                 ret, ft>>

(* TimerManager::addTimer, external: calls onTimerInsertedAtFront(), which *)
(* is tickle(), if the new timer is the first to expire.                   *)
AddTimer(t, k) ==
  /\ InUserCode(t) /\ k \in NewTasks
  /\ timers' = timers \cup {k}
  /\ ThenTickle(t, pc[t]) \/ UNCHANGED <<pc, ret>>
  /\ UNCHANGED <<poolVars, ctlVars, eventVars, due, pipeVars, idleVars, ft>>

(* The world: a descriptor becomes ready, perhaps once more while a thread *)
(* has yet to handle what epoll has reported of it; time passes.           *)
Fire(k) ==
  /\ k \in waiting \ fired
  /\ fired' = fired \cup {k}
  /\ UNCHANGED <<poolVars, ctlVars, waiting, m_pendingEventCount, promised,
                 timerVars, pipeVars, idleVars, pc, ret, ft>>

Expire(k) ==
  /\ k \in timers \ due
  /\ due' = due \cup {k}
  /\ UNCHANGED <<poolVars, ctlVars, eventVars, timers, pipeVars, idleVars, pc,
                 ret, ft>>

-----------------------------------------------------------------------------
(* Scheduler::run                                                          *)

Take(t) ==
  /\ pc[t] = "scan" /\ ~Locked /\ m_fibers # <<>>
  /\ ft' = [ft EXCEPT ![t] = Head(m_fibers)]
  /\ m_fibers' = Tail(m_fibers)
  /\ Goto(t, "count")
  /\ UNCHANGED <<m_activeThreadCount, done, ctlVars, ioVars, idleVars, ret>>

(* m_activeThreadCount++, unlock, and tickle() because tickle_me is set.   *)
CountActive(t) ==
  /\ pc[t] = "count"
  /\ m_activeThreadCount' = m_activeThreadCount + 1
  /\ ThenTickle(t, "exec")
  /\ UNCHANGED <<m_fibers, done, ctlVars, ioVars, idleVars, ft>>

(* The callback returns; its fiber is TERM and ft is reset.                *)
TaskEnds(t) ==
  /\ pc[t] = "exec"
  /\ done' = done \cup {ft[t]}
  /\ ft' = [ft EXCEPT ![t] = NoTask]
  /\ m_activeThreadCount' = m_activeThreadCount - 1
  /\ Goto(t, "scan")
  /\ UNCHANGED <<m_fibers, ctlVars, ioVars, idleVars, ret>>

ScanNothing(t) ==
  /\ pc[t] = "scan" /\ ~Locked /\ m_fibers = <<>>
  /\ Move(t, "idle")

(* Faulty variant: the thread is not counted as idle.                      *)
IdleIn_Uncounted(t) ==
  /\ pc[t] = "idle" /\ idle_ft[t]
  /\ Move(t, "isStopedTimer")

(* Swap the idle fiber in.                                                 *)
IdleIn(t) ==
  /\ pc[t] = "idle" /\ idle_ft[t]
  /\ m_idleThreadCount' = m_idleThreadCount + 1
  /\ Goto(t, "isStopedTimer")
  /\ UNCHANGED <<poolVars, ctlVars, ioVars, idle_ft, cbs, evs, ret, ft>>

(* The idle fiber has swapped out or ended.                                *)
IdleOut(t) ==
  /\ pc[t] = "idleOut"
  /\ m_idleThreadCount' = m_idleThreadCount - 1
  /\ Goto(t, "scan")
  /\ UNCHANGED <<poolVars, ctlVars, ioVars, idle_ft, cbs, evs, ret, ft>>

(* The idle fiber is gone: run() returns.                                  *)
ReturnFromRun(t) ==
  /\ pc[t] = "idle" /\ ~idle_ft[t]
  /\ Move(t, IF t = Main THEN "join" ELSE "exited")

-----------------------------------------------------------------------------
(* IOManager::isStoped, read by read.  idle() asks the timers first; the   *)
(* caller is stop() if the thread has no idle fiber.                       *)

NotStoped(t) == IF idle_ft[t] THEN "wait" ELSE "call"

(* With a timer idle() goes to epoll_wait, for the time to the next timer  *)
(* and at most MAX_TIMEOUT.  Both are compared as int: a next timer of     *)
(* 2^31 to 2^32-1 ms (25 to 50 days) is negative, is not cut down, and     *)
(* epoll_wait takes it for no limit at all.  How far a timer is, is left   *)
(* open here; one that is due is not that far.                             *)
isStopedTimer(t) ==
  /\ pc[t] = "isStopedTimer"
  /\ \/ timers = {} /\ Move(t, "isStopedPending")
     \/ timers # {} /\ Move(t, NotStoped(t))
     \/ timers # {} /\ due = {} /\ Move(t, "sleep")

(* Faulty variant: the base class's isStoped, without the events.          *)
isStopedPending_Base(t) ==
  /\ pc[t] = "isStopedPending"
  /\ Move(t, "isStopedList")

isStopedPending(t) ==
  /\ pc[t] = "isStopedPending"
  /\ Move(t, IF m_pendingEventCount = 0 THEN "isStopedList" ELSE NotStoped(t))

(* m_autoStop && m_stopping && m_fibers.empty()                            *)
isStopedList(t) ==
  /\ pc[t] = "isStopedList"
  /\ Move(t, IF m_autoStop /\ m_stopping /\ m_fibers = <<>>
             THEN "isStopedActive" ELSE NotStoped(t))

(* Faulty variant: idle_ft is not reset when idle() has ended.             *)
isStopedActive_Kept(t) ==
  /\ pc[t] = "isStopedActive"
  /\ Move(t, IF m_activeThreadCount # 0 THEN NotStoped(t)
             ELSE IF idle_ft[t] THEN "idleOut" ELSE "join")

(* The last read; if isStoped() is true, idle() ends and run() resets      *)
(* idle_ft, or stop() goes on to join the workers.                         *)
isStopedActive(t) ==
  /\ pc[t] = "isStopedActive"
  /\ \/ m_activeThreadCount # 0 /\ Goto(t, NotStoped(t)) /\ UNCHANGED idle_ft
     \/ /\ m_activeThreadCount = 0
        /\ Goto(t, IF idle_ft[t] THEN "idleOut" ELSE "join")
        /\ idle_ft' = [idle_ft EXCEPT ![t] = FALSE]
  /\ UNCHANGED <<poolVars, ctlVars, ioVars, m_idleThreadCount, cbs, evs, ret,
                 ft>>

-----------------------------------------------------------------------------
(* IOManager::idle                                                         *)

Reportable == fired \cup (IF edge /\ pipe THEN {Tickle} ELSE {})

(* Faulty variant: no MAX_TIMEOUT, a thread sleeps until there is an event *)
(* or a timer.                                                             *)
EpollWait_NoTimeout(t) ==
  \/ pc[t] = "wait" /\ Reportable \cup due = {} /\ UNCHANGED vars
  \/ /\ \/ pc[t] = "wait" /\ Reportable \cup due # {}
        \/ pc[t] = "sleep" /\ Reportable # {}
     /\ evs' = [evs EXCEPT ![t] = Reportable]
     /\ fired' = {} /\ edge' = FALSE
     /\ Goto(t, "expired")
     /\ UNCHANGED <<poolVars, ctlVars, waiting, m_pendingEventCount, promised,
                    timerVars, pipe, m_idleThreadCount, idle_ft, cbs, ret, ft>>

(* epoll_wait returns what there is to report, or nothing when its timeout *)
(* is over, if it has one; EINTR only repeats the call.                    *)
EpollWait(t) ==
  /\ pc[t] = "wait" \/ (pc[t] = "sleep" /\ Reportable # {})
  /\ evs' = [evs EXCEPT ![t] = Reportable]
  /\ fired' = {} /\ edge' = FALSE
  /\ Goto(t, "expired")
  /\ UNCHANGED <<poolVars, ctlVars, waiting, m_pendingEventCount, promised,
                 timerVars, pipe, m_idleThreadCount, idle_ft, cbs, ret, ft>>

(* listExpiredCallback(cbs): the timers whose time has come leave the set. *)
ListExpired(t) ==
  /\ pc[t] = "expired"
  /\ cbs' = [cbs EXCEPT ![t] = due]
  /\ timers' = timers \ due /\ due' = {}
  /\ Goto(t, IF due = {} THEN "dispatch" ELSE "scheduleExpired")
  /\ UNCHANGED <<poolVars, ctlVars, eventVars, pipeVars, m_idleThreadCount,
                 idle_ft, evs, ret, ft>>

(* schedule(cbs.begin(), cbs.end()); cbs.clear()                           *)
ScheduleExpired(t) ==
  /\ pc[t] = "scheduleExpired" /\ ~Locked
  /\ m_fibers' = m_fibers \o SetToSeq(cbs[t])
  /\ cbs' = [cbs EXCEPT ![t] = {}]
  /\ ThenTickle(t, "dispatch")
  /\ UNCHANGED <<m_activeThreadCount, done, ctlVars, ioVars, m_idleThreadCount,
                 idle_ft, evs, ft>>

(* The tickle pipe is read until it is empty.                              *)
DrainPipe(t) ==
  /\ pc[t] = "dispatch" /\ Tickle \in evs[t]
  /\ pipe' = FALSE
  /\ evs' = [evs EXCEPT ![t] = @ \ {Tickle}]
  /\ UNCHANGED <<poolVars, ctlVars, eventVars, timerVars, edge,
                 m_idleThreadCount, idle_ft, cbs, pc, ret, ft>>

(* Faulty variant: the event is triggered whoever else has done so.        *)
Trigger_Unchecked(t, k) ==
  /\ pc[t] = "dispatch" /\ k \in evs[t] \cap Tasks /\ ~Locked
  /\ waiting' = waiting \ {k} /\ fired' = fired \ {k}
  /\ evs' = [evs EXCEPT ![t] = @ \ {k}]
  /\ m_fibers' = Append(m_fibers, k)
  /\ ThenTickle(t, "uncount")
  /\ UNCHANGED <<m_activeThreadCount, done, ctlVars, promised,
                 m_pendingEventCount, timerVars, pipeVars, m_idleThreadCount,
                 idle_ft, cbs, ft>>

(* EPOLL_CTL_DEL and triggerEvent: the registration is gone and the        *)
(* callback is scheduled.                                                  *)
Trigger(t, k) ==
  /\ pc[t] = "dispatch" /\ k \in evs[t] \cap waiting /\ ~Locked
  /\ waiting' = waiting \ {k} /\ fired' = fired \ {k}
  /\ evs' = [evs EXCEPT ![t] = @ \ {k}]
  /\ m_fibers' = Append(m_fibers, k)
  /\ ThenTickle(t, "uncount")
  /\ UNCHANGED <<m_activeThreadCount, done, ctlVars, promised,
                 m_pendingEventCount, timerVars, pipeVars, m_idleThreadCount,
                 idle_ft, cbs, ft>>

(* Another thread has triggered it in between: continue.                   *)
Stale(t, k) ==
  /\ pc[t] = "dispatch" /\ k \in (evs[t] \cap Tasks) \ waiting
  /\ evs' = [evs EXCEPT ![t] = @ \ {k}]
  /\ UNCHANGED <<poolVars, ctlVars, ioVars, m_idleThreadCount, idle_ft, cbs, pc,
                 ret, ft>>

(* ... and only then is it no longer pending.                              *)
Uncount(t) ==
  /\ pc[t] = "uncount"
  /\ m_pendingEventCount' = m_pendingEventCount - 1
  /\ Goto(t, "dispatch")
  /\ UNCHANGED <<poolVars, ctlVars, waiting, fired, promised, timerVars,
                 pipeVars, idleVars, ret, ft>>

(* Everything is dispatched: the idle fiber swaps out.                     *)
SwapOut(t) ==
  /\ pc[t] = "dispatch" /\ evs[t] = {}
  /\ Move(t, "idleOut")

-----------------------------------------------------------------------------
(* Scheduler::start under m_mutex, and the constructor of Thread.          *)

StartEnter ==
  /\ pc[Main] = "user" /\ ~Locked /\ m_stopping
  /\ m_stopping' = FALSE
  /\ Goto(Main, IF Workers = {} THEN "user" ELSE "create")
  /\ UNCHANGED <<poolVars, m_autoStop, tickles, startVars, ioVars, idleVars,
                 ret, ft>>

(* pthread_create.                                                         *)
Create(w) ==
  /\ pc[Main] = "create" /\ pc[w] = "unborn"
  /\ pc' = [pc EXCEPT ![Main] = "ctor", ![w] = "born"]
  /\ UNCHANGED <<poolVars, ctlVars, ioVars, idleVars, ret, ft>>

(* Thread::run: set m_id, post m_sem ...                                   *)
Born(w) ==
  /\ pc[w] = "born"
  /\ m_id' = m_id \cup {w} /\ m_sem' = m_sem \cup {w}
  /\ idle_ft' = [idle_ft EXCEPT ![w] = TRUE]
  /\ Goto(w, "scan")
  /\ UNCHANGED <<poolVars, flagVars, m_threadIds, ioVars, m_idleThreadCount,
                 cbs, evs, ret, ft>>

(* Faulty variant: sem_wait returns although nothing was posted.           *)
Constructed_NoWait(w) ==
  /\ pc[Main] = "ctor" /\ pc[w] # "unborn" /\ w \notin m_threadIds
  /\ m_sem' = m_sem \ {w}
  /\ m_threadIds' = m_threadIds \cup (m_id \cap {w})
  /\ Goto(Main, IF \E u \in Workers : pc[u] = "unborn" THEN "create" ELSE "user")
  /\ UNCHANGED <<poolVars, flagVars, m_id, ioVars, idleVars, ret, ft>>

(* ... for which the constructor waits; start() then records getId().      *)
Constructed(w) ==
  /\ pc[Main] = "ctor" /\ w \in m_sem /\ w \notin m_threadIds
  /\ m_sem' = m_sem \ {w}
  /\ m_threadIds' = m_threadIds \cup (m_id \cap {w})
  /\ Goto(Main, IF \E u \in Workers : pc[u] = "unborn" THEN "create" ELSE "user")
  /\ UNCHANGED <<poolVars, flagVars, m_id, ioVars, idleVars, ret, ft>>

(* Scheduler::stop of a manager that was started: the isStoped() of line   *)
(* 67 is false because m_stopping is.                                      *)
StopEnter ==
  /\ pc[Main] = "user" /\ ~m_stopping
  /\ m_autoStop' = TRUE /\ m_stopping' = TRUE
  /\ tickles' = Cardinality(Workers) + (IF UseCaller THEN 1 ELSE 0)
  /\ Goto(Main, "stopTickle")
  /\ UNCHANGED <<poolVars, startVars, ioVars, idleVars, ret, ft>>

StopTickle ==
  /\ pc[Main] = "stopTickle"
  /\ \/ tickles > 0 /\ tickles' = tickles - 1 /\ ThenTickle(Main, "stopTickle")
     \/ /\ tickles = 0 /\ UNCHANGED <<tickles, ret>>
        /\ Goto(Main, IF UseCaller THEN "isStopedPending" ELSE "join")
  /\ UNCHANGED <<poolVars, m_stopping, m_autoStop, startVars, ioVars, idleVars,
                 ft>>

(* m_rootFiber->call(): the caller's thread is in run().                   *)
CallRoot ==
  /\ pc[Main] = "call"
  /\ idle_ft' = [idle_ft EXCEPT ![Main] = TRUE]
  /\ Goto(Main, "scan")
  /\ UNCHANGED <<poolVars, ctlVars, ioVars, m_idleThreadCount, cbs, evs, ret,
                 ft>>

(* Faulty variant: the workers are not joined.                             *)
Join_NoWait ==
  /\ pc[Main] = "join" /\ ~Locked
  /\ Move(Main, "returned")

(* Join the workers and return; ~IOManager closes epoll and the pipe.      *)
Join ==
  /\ pc[Main] = "join" /\ ~Locked
  /\ \A w \in Workers : pc[w] = "exited"
  /\ Move(Main, "returned")

-----------------------------------------------------------------------------
RunStep(t) ==
  \/ tickle(t) \/ Take(t) \/ CountActive(t) \/ TaskEnds(t) \/ ScanNothing(t)
  \/ IdleIn(t) \/ IdleOut(t) \/ ReturnFromRun(t)
  \/ isStopedTimer(t) \/ isStopedPending(t) \/ isStopedList(t) \/ isStopedActive(t)
  \/ EpollWait(t) \/ ListExpired(t) \/ ScheduleExpired(t) \/ DrainPipe(t)
  \/ (\E k \in Tasks : Trigger(t, k) \/ Stale(t, k)) \/ Uncount(t) \/ SwapOut(t)

MainStep ==
  \/ StartEnter \/ (\E w \in Workers : Create(w) \/ Constructed(w))
  \/ StopTickle \/ CallRoot \/ Join

Application(t) ==
  \E k \in Tasks : Schedule(t, k) \/ AddEvent(t, k) \/ AddTimer(t, k)

(* The threads that are in run(), or will be: not main outside of it.      *)
Running == {t \in Threads : pc[t] \notin {"unborn", "exited", "user", "create", "ctor",
                                          "stopTickle", "call", "join", "returned"}}

(* Every thread in run() waits in epoll_wait with no limit; the expiry of a*)
(* timer does not wake them.                                               *)
Overslept == Running # {} /\ \A t \in Running : pc[t] = "sleep"

Next ==
  \/ \E t \in Threads : RunStep(t) \/ Application(t)
  \/ \E w \in Workers : Born(w)
  \/ MainStep \/ StopEnter
  \/ \E k \in Tasks : Fire(k) \/ Expire(k)
  \/ (pc[Main] = "returned" \/ Overslept) /\ UNCHANGED vars

Spec == Init /\ [][Next]_vars

(* The operating system runs every thread, tasks end, the application      *)
(* starts the manager but need not stop it; descriptors become ready, time *)
(* passes.                                                                 *)
Fairness ==
  /\ \A t \in Threads : WF_vars(RunStep(t))
  /\ \A w \in Workers : WF_vars(Born(w))
  /\ WF_vars(MainStep)
  /\ \A k \in Tasks : WF_vars(Fire(k)) /\ WF_vars(Expire(k))

FairSpec == Spec /\ Fairness

-----------------------------------------------------------------------------
(* The places of a thread.                                                 *)
Points ==
  {"user", "unborn", "born", "create", "ctor", "scan", "count", "exec", "tickle",
   "idle", "idleOut", "isStopedTimer", "isStopedPending", "isStopedList",
   "isStopedActive", "wait", "sleep", "expired", "scheduleExpired", "dispatch", "uncount",
   "stopTickle", "call", "join", "exited", "returned"}

TypeOK ==
  /\ m_fibers \in Seq(Tasks) /\ done \subseteq Tasks /\ promised \subseteq Tasks
  /\ {m_activeThreadCount, m_idleThreadCount, m_pendingEventCount, tickles} \subseteq Nat
  /\ {m_stopping, m_autoStop, pipe, edge} \subseteq BOOLEAN
  /\ m_id \cup m_sem \cup m_threadIds \subseteq Workers
  /\ fired \subseteq waiting /\ waiting \subseteq Tasks
  /\ due \subseteq timers /\ timers \subseteq Tasks
  /\ ft \in [Threads -> Tasks \cup {NoTask}]
  /\ idle_ft \in [Threads -> BOOLEAN]
  /\ cbs \in [Threads -> SUBSET Tasks]
  /\ evs \in [Threads -> SUBSET (Tasks \cup {Tickle})]
  /\ {pc, ret} \subseteq [Threads -> Points]

(* The place of a thread, seen through a call of tickle().                 *)
At(t) == IF pc[t] = "tickle" THEN ret[t] ELSE pc[t]

IsStopedPoints == {"isStopedTimer", "isStopedPending", "isStopedList", "isStopedActive"}
IdlePoints == {"wait", "sleep", "expired", "scheduleExpired", "dispatch", "uncount", "idleOut"}

(* The three counters, changed without a lock by different threads, count  *)
(* what tickle() and isStoped() take them for: the threads in their idle   *)
(* fiber, the threads running a task, the events not yet dispatched.       *)
CountersAccurate ==
  /\ m_idleThreadCount =
       Cardinality({t \in Threads : At(t) \in IdlePoints \/
                                    (At(t) \in IsStopedPoints /\ idle_ft[t])})
  /\ m_activeThreadCount = Cardinality({t \in Threads : At(t) = "exec"})
  /\ m_pendingEventCount =
       Cardinality(waiting) + Cardinality({t \in Threads : At(t) = "uncount"})

(* A thread may give up because isStoped() told it so from reads that no   *)
(* longer agree; yet when stop() returns no task is left in m_fibers or in *)
(* the hands of a thread: whoever pushed it looks at the list once more.   *)
QueueDrained == pc[Main] = "returned" => m_fibers = <<>> /\ {ft[t] : t \in Threads} = {NoTask}

(* With use_caller, a callback main registered for an event before stop()  *)
(* has run when stop() returns: the caller's thread sees its own count and *)
(* stays until the event is dispatched, whatever the workers concluded.    *)
EventsKept == UseCaller /\ pc[Main] = "returned" => promised \subseteq done

(* start() returns with the id of every worker: each Thread constructor    *)
(* has waited until its thread had set m_id.                               *)
IdsRecorded == pc[Main] \in {"user", "stopTickle"} /\ ~m_stopping => m_threadIds = Workers

(* Its descriptor or its timer has been reported, or soon will be.         *)
Ready(k) ==
  \/ k \in fired \cup due \/ \E t \in Threads : k \in cbs[t]
  \/ k \in waiting /\ \E t \in Threads : k \in evs[t]

(* Where a callback is, for whoever handed it over.                        *)
PlaceOf(k) ==
  CASE \E t \in Threads : ft[t] = k -> "thread"
    [] k \in Range(m_fibers) -> "list"
    [] Ready(k) -> "ready"
    [] k \in waiting /\ ~Ready(k) -> "event"
    [] k \in timers /\ ~Ready(k) -> "timer"
    [] k \in done -> "ended"
    [] OTHER -> "out"

(* No callback runs twice, runs before its event or its time, or gets lost *)
(* on its way, however many threads take expired timers and are reported   *)
(* the same descriptor at once.                                            *)
Promise == INSTANCE Callbacks WITH place <- [k \in Tasks |-> PlaceOf(k)]
ImplementsCallbacks == Promise!Spec

(* stop() returns once the events have fired and the timers have expired,  *)
(* unless some thread waits for good, its timeout being beyond an int.     *)
StopReturns ==
  m_autoStop ~> (pc[Main] = "returned" \/ \E t \in Threads : [](pc[t] = "sleep"))

(* A scheduled task is executed, though tickle() may find no idle thread   *)
(* to wake while one is about to fall asleep, and nobody may ever call     *)
(* stop(), which would look at the list again; unless all the threads in   *)
(* run() wait for good.                                                    *)
ScheduledRuns ==
  \A k \in Tasks : k \in Range(m_fibers) ~> (k \in done \/ []Overslept)

=============================================================================
