------------------------------- MODULE FdEvents -------------------------------
(***************************************************************************)
(* The event table of ddg/iomanager.{h,cc}: addEvent, delEvent,            *)
(* cancelEvent, cancelAll, and the part of idle() that takes what          *)
(* epoll_wait reports and triggers the waiting callbacks or fibers.        *)
(*                                                                         *)
(* Every descriptor has an FdContext with a mutex; delEvent does not take  *)
(* it, and cancelEvent and cancelAll look at `events' before they do.  The *)
(* vector m_fdContext is large enough for all descriptors here.            *)
(*                                                                         *)
(* epoll and the descriptors are external: epoll reports a condition once  *)
(* with EPOLLET and as long as it holds without, looks at the conditions   *)
(* again when a registration is added or modified, and reports EPOLLHUP    *)
(* whether asked for or not.  addEvent and delEvent register with EPOLLET, *)
(* cancelEvent and idle() modify without it.                               *)
(***************************************************************************)
EXTENDS Integers, FiniteSets

CONSTANTS
  Fds,
  Callers,      \* threads that call the four operations
  Dispatchers,  \* threads in idle()
  Waiters,      \* callbacks or fibers, one for each addEvent; a bound on them
  NoThread,     \* an FdContext::mutex nobody holds
  NoWaiter,     \* an EventContext with null scheduler, fiber and cb
  Events,       \* the events the application uses, of READ and WRITE
  Conditions,   \* what can happen to a descriptor, of IN, OUT and HUP
  Duplicates,   \* may an event be added that is registered already?
  Deletes,      \* does the application call delEvent?
  CountBits     \* the width of m_pendingEventCount, a size_t

Threads == Callers \cup Dispatchers

ASSUME ConstantsAssumption ==
  /\ Callers \cap Dispatchers = {} /\ NoThread \notin Threads
  /\ NoWaiter \notin Waiters
  /\ Events \subseteq {"READ", "WRITE"}
  /\ Conditions \subseteq {"IN", "OUT", "HUP"}
  /\ Duplicates \in BOOLEAN /\ Deletes \in BOOLEAN
  /\ Fds # {}
  /\ CountBits \in Nat \ {0} /\ 2^CountBits \in Nat \ {0}

VARIABLES
  events,       \* FdContext::events
  context,      \* FdContext::read and write: who waits for the event
  mutex,        \* FdContext::mutex
  m_pendingEventCount,
  interest,     \* epoll: the conditions each registered descriptor is watched for
  registered,   \* epoll: the descriptors that are registered
  level,        \* epoll: the descriptors registered without EPOLLET
  condition,    \* what holds of the descriptor
  edge,         \* epoll: the part of it that was not reported yet
  pc,           \* where each thread is
  arg,          \* the descriptor and the event each thread works on
  local,        \* new_events of a caller; real_events of a dispatcher
  evs,          \* idle(): reported conditions a dispatcher has still to handle
  fired,        \* how often each waiter was scheduled
  used,         \* history: the waiters that were passed to addEvent
  raced         \* history: the table of some descriptor was written while another
                \* thread was between delEvent's test of it and its write

epollVars  == <<interest, registered, level, condition, edge>>
tableVars  == <<events, context, m_pendingEventCount, fired, used, raced>>
threadVars == <<arg, local, evs>>
vars == <<tableVars, epollVars, threadVars, mutex, pc>>

Kinds == {"READ", "WRITE"}
MaskOf(es) == {IF e = "READ" THEN "IN" ELSE "OUT" : e \in es}

Points == {"user", "addCtl", "addSet", "delCtl", "delCount", "delStore", "delReset",
           "cancelLock", "allLock", "trigger", "triggerAll", "wait", "dispatch",
           "aborted"}

Aborted == \E t \in Threads : pc[t] = "aborted"
At(t, l) == ~Aborted /\ pc[t] = l
Goto(t, l) == pc' = [pc EXCEPT ![t] = l]
Fd(t) == arg[t].fd
Ev(t) == arg[t].event

Init ==
  /\ events = [fd \in Fds |-> {}]
  /\ context = [fd \in Fds |-> [e \in Kinds |-> NoWaiter]]
  /\ mutex = [fd \in Fds |-> NoThread]
  /\ m_pendingEventCount = 0
  /\ interest = [fd \in Fds |-> {}] /\ registered = {} /\ level = {}
  /\ condition = [fd \in Fds |-> {}] /\ edge = [fd \in Fds |-> {}]
  /\ pc = [t \in Threads |-> IF t \in Callers THEN "user" ELSE "wait"]
  /\ arg = [t \in Threads |-> [fd |-> CHOOSE fd \in Fds : TRUE, event |-> "READ"]]
  /\ local = [t \in Threads |-> {}]
  /\ evs = [t \in Threads |-> [fd \in Fds |-> {}]]
  /\ fired = [w \in Waiters |-> 0]
  /\ used = {} /\ raced = FALSE

-----------------------------------------------------------------------------
(* The environment and epoll_ctl.                                          *)

Happens(fd, c) ==
  /\ ~Aborted /\ c \notin condition[fd]
  /\ condition' = [condition EXCEPT ![fd] = @ \cup {c}]
  /\ edge' = [edge EXCEPT ![fd] = @ \cup {c}]
  /\ UNCHANGED <<tableVars, threadVars, interest, registered, level, mutex, pc>>

(* The application reads or writes until the condition no longer holds.    *)
Drained(fd, c) ==
  /\ ~Aborted /\ c \in condition[fd] \ {"HUP"}
  /\ condition' = [condition EXCEPT ![fd] = @ \ {c}]
  /\ edge' = [edge EXCEPT ![fd] = @ \ {c}]
  /\ UNCHANGED <<tableVars, threadVars, interest, registered, level, mutex, pc>>

CtlSucceeds(op, fd) == (op = "ADD") <=> (fd \notin registered)

epoll_ctl(op, fd, mask, et) ==
  /\ registered' = IF op = "DEL" THEN registered \ {fd} ELSE registered \cup {fd}
  /\ level' = IF op = "DEL" \/ et THEN level \ {fd} ELSE level \cup {fd}
  /\ interest' = [interest EXCEPT ![fd] = IF op = "DEL" THEN {} ELSE mask]
  /\ edge' = [edge EXCEPT ![fd] = condition[fd]]
  /\ UNCHANGED condition

(* Faulty variant: a registration is never removed.                        *)
ModOrDel_NeverDel(left) == "MOD"

ModOrDel(left) == IF left = {} THEN "DEL" ELSE "MOD"

-----------------------------------------------------------------------------
(* FdContext                                                               *)

Acquire(t, fd) == mutex[fd] = NoThread /\ mutex' = [mutex EXCEPT ![fd] = t]
Release(fd) == mutex' = [mutex EXCEPT ![fd] = NoThread]

(* triggerEvent asserts that the event is registered, and calls schedule   *)
(* through the context's scheduler pointer.                                *)
CanTrigger(fd, e) == e \in events[fd] /\ context[fd][e] # NoWaiter

(* Faulty variant: the event stays registered.                             *)
triggerEvent_Stays(fd, e) ==
  /\ fired' = [fired EXCEPT ![context[fd][e]] = @ + 1]
  /\ UNCHANGED <<events, context>>

triggerEvent(fd, e) ==
  /\ events' = [events EXCEPT ![fd] = @ \ {e}]
  /\ fired' = [fired EXCEPT ![context[fd][e]] = @ + 1]
  /\ context' = [context EXCEPT ![fd][e] = NoWaiter]

(* t writes events or the count, for history: was another thread deleting  *)
(* from its descriptor, with new_events computed and not yet stored?       *)
Deleting(t) == pc[t] \in {"delCtl", "delCount", "delStore"}

Write(t) ==
  raced' = (raced \/ \E u \in Threads \ {t} : Deleting(u) /\ Fd(u) = Fd(t))

(* Faulty variants: the count is left alone; it goes below zero.           *)
CountDown_Missing == UNCHANGED m_pendingEventCount
CountDown_Signed == m_pendingEventCount' = m_pendingEventCount - 1

CountDown == m_pendingEventCount' = (m_pendingEventCount - 1) % 2^CountBits

Abort(t) ==
  /\ Goto(t, "aborted")
  /\ UNCHANGED <<tableVars, epollVars, threadVars, mutex>>

-----------------------------------------------------------------------------
(* addEvent                                                                *)

AddLock(t) ==
  /\ At(t, "user") /\ used # Waiters
  /\ \E fd \in Fds, e \in Events :
       /\ Duplicates \/ e \notin events[fd]
       /\ Acquire(t, fd)
       /\ arg' = [arg EXCEPT ![t] = [fd |-> fd, event |-> e]]
  /\ Goto(t, "addCtl")
  /\ UNCHANGED <<tableVars, epollVars, local, evs>>

(* Lines 72-95; a registered event is only logged.                         *)
AddCtl(t) ==
  LET fd == Fd(t)
      op == IF events[fd] = {} THEN "ADD" ELSE "MOD" IN
  /\ At(t, "addCtl")
  /\ \/ /\ CtlSucceeds(op, fd)
        /\ epoll_ctl(op, fd, MaskOf(events[fd] \cup {Ev(t)}), TRUE)
        /\ Goto(t, "addSet") /\ UNCHANGED mutex
     \/ /\ ~CtlSucceeds(op, fd)
        /\ Release(fd) /\ Goto(t, "user") /\ UNCHANGED epollVars
  /\ UNCHANGED <<tableVars, threadVars>>

(* Faulty variant: a context in use is overwritten.                        *)
Unused_Unchecked(fd, e) == TRUE

Unused(fd, e) == context[fd][e] = NoWaiter

(* Lines 97-109: the context must be unused.                               *)
AddSet(t) ==
  LET fd == Fd(t) IN
  /\ At(t, "addSet")
  /\ \/ /\ Unused(fd, Ev(t)) /\ Write(t)
        /\ m_pendingEventCount' = (m_pendingEventCount + 1) % 2^CountBits
        /\ events' = [events EXCEPT ![fd] = @ \cup {Ev(t)}]
        /\ \E w \in Waiters \ used :
             /\ context' = [context EXCEPT ![fd][Ev(t)] = w]
             /\ used' = used \cup {w}
        /\ Release(fd) /\ Goto(t, "user")
        /\ UNCHANGED <<epollVars, threadVars, fired>>
     \/ ~Unused(fd, Ev(t)) /\ Abort(t)

-----------------------------------------------------------------------------
(* delEvent: holds m_mutex for reading, which excludes nobody, and not the *)
(* descriptor's mutex; new_events is computed before epoll_ctl.            *)

DelCheck(t) ==
  /\ At(t, "user") /\ Deletes
  /\ \E fd \in Fds : \E e \in events[fd] :
       /\ arg' = [arg EXCEPT ![t] = [fd |-> fd, event |-> e]]
       /\ local' = [local EXCEPT ![t] = events[fd] \ {e}]
  /\ Goto(t, "delCtl")
  /\ UNCHANGED <<tableVars, epollVars, evs, mutex>>

DelCtl(t) ==
  LET op == ModOrDel(local[t]) IN
  /\ At(t, "delCtl")
  /\ \/ /\ CtlSucceeds(op, Fd(t))
        /\ epoll_ctl(op, Fd(t), MaskOf(local[t]), TRUE)
        /\ Goto(t, "delCount")
     \/ ~CtlSucceeds(op, Fd(t)) /\ Goto(t, "user") /\ UNCHANGED epollVars
  /\ UNCHANGED <<tableVars, threadVars, mutex>>

(* Lines 140, 141 and 144: three writes, with no lock.                     *)
DelCount(t) ==
  /\ At(t, "delCount")
  /\ CountDown /\ Write(t)
  /\ Goto(t, "delStore")
  /\ UNCHANGED <<events, context, fired, used, epollVars, threadVars, mutex>>

DelStore(t) ==
  /\ At(t, "delStore")
  /\ events' = [events EXCEPT ![Fd(t)] = local[t]] /\ Write(t)
  /\ Goto(t, "delReset")
  /\ UNCHANGED <<context, m_pendingEventCount, fired, used, epollVars, threadVars,
                 mutex>>

DelReset(t) ==
  /\ At(t, "delReset")
  /\ context' = [context EXCEPT ![Fd(t)][Ev(t)] = NoWaiter]
  /\ Goto(t, "user")
  /\ UNCHANGED <<events, m_pendingEventCount, fired, used, raced, epollVars,
                 threadVars, mutex>>

-----------------------------------------------------------------------------
(* cancelEvent and cancelAll: the test of `events' is not repeated once    *)
(* the mutex is held.                                                      *)

CancelCheck(t) ==
  /\ At(t, "user")
  /\ \E fd \in Fds : \E e \in events[fd] :
       arg' = [arg EXCEPT ![t] = [fd |-> fd, event |-> e]]
  /\ \/ Goto(t, "cancelLock")
     \/ Goto(t, "allLock")
  /\ UNCHANGED <<tableVars, epollVars, local, evs, mutex>>

(* Takes the mutex; local becomes the events to trigger after epoll_ctl.   *)
(* cancelEvent passes the op code as event mask: EPOLL_CTL_MOD is 3, which *)
(* is EPOLLIN | EPOLLPRI.                                                  *)
CancelCtl(t) ==
  LET fd  == Fd(t)
      all == pc[t] = "allLock"
      op  == IF all THEN "DEL" ELSE ModOrDel(events[fd] \ {Ev(t)}) IN
  /\ At(t, "cancelLock") \/ At(t, "allLock")
  /\ \/ /\ CtlSucceeds(op, fd) /\ Acquire(t, fd)
        /\ epoll_ctl(op, fd, {"IN"}, FALSE)
        /\ local' = [local EXCEPT ![t] = IF all THEN Kinds ELSE {Ev(t)}]
        /\ Goto(t, IF all THEN "triggerAll" ELSE "trigger")
     \/ /\ ~CtlSucceeds(op, fd) /\ mutex[fd] = NoThread
        /\ Goto(t, "user") /\ UNCHANGED <<epollVars, local, mutex>>
  /\ UNCHANGED <<tableVars, arg, evs>>

(* The triggerEvent calls at the end of cancelEvent, cancelAll and of      *)
(* idle()'s loop: READ first, each followed by m_pendingEventCount--.      *)
(* Only cancelAll tests `events' before each call.                         *)
Trigger(t) ==
  LET fd    == Fd(t)
      e     == IF "READ" \in local[t] THEN "READ" ELSE "WRITE"
      calls == pc[t] = "trigger" \/ e \in events[fd] IN
  /\ At(t, "trigger") \/ At(t, "triggerAll")
  /\ local[t] # {}
  /\ \/ /\ calls /\ CanTrigger(fd, e) /\ triggerEvent(fd, e)
        /\ CountDown /\ Write(t)
        /\ local' = [local EXCEPT ![t] = @ \ {e}]
        /\ UNCHANGED <<epollVars, arg, evs, mutex, used, pc>>
     \/ calls /\ ~CanTrigger(fd, e) /\ Abort(t)
     \/ /\ ~calls
        /\ local' = [local EXCEPT ![t] = @ \ {e}]
        /\ UNCHANGED <<tableVars, epollVars, arg, evs, mutex, pc>>

(* cancelAll asserts that no event is left.                                *)
TriggerDone(t) ==
  /\ At(t, "trigger") \/ At(t, "triggerAll")
  /\ local[t] = {}
  /\ \/ /\ pc[t] = "triggerAll" => events[Fd(t)] = {}
        /\ Release(Fd(t))
        /\ Goto(t, IF t \in Callers THEN "user" ELSE "wait")
        /\ UNCHANGED <<tableVars, epollVars, threadVars>>
     \/ pc[t] = "triggerAll" /\ events[Fd(t)] # {} /\ Abort(t)

-----------------------------------------------------------------------------
(* idle                                                                    *)

Reported(fd) ==
  IF fd \in registered THEN edge[fd] \cap (interest[fd] \cup {"HUP"}) ELSE {}

epoll_wait(d) ==
  /\ At(d, "wait") /\ d \in Dispatchers
  /\ \A fd \in Fds : evs[d][fd] = {}
  /\ \E fd \in Fds : Reported(fd) # {}
  /\ evs' = [evs EXCEPT ![d] = [fd \in Fds |-> Reported(fd)]]
  /\ edge' = [fd \in Fds |-> IF fd \in level THEN edge[fd] ELSE edge[fd] \ Reported(fd)]
  /\ UNCHANGED <<tableVars, arg, local, interest, registered, level, condition, mutex, pc>>

DispatchLock(d) ==
  /\ At(d, "wait")
  /\ \E fd \in Fds :
       /\ evs[d][fd] # {} /\ Acquire(d, fd)
       /\ arg' = [arg EXCEPT ![d].fd = fd]
  /\ Goto(d, "dispatch")
  /\ UNCHANGED <<tableVars, epollVars, local, evs>>

(* Faulty variant: only a closed descriptor counts as readable.            *)
RealEvents_HupOnly(reported) ==
  (IF "HUP" \in reported THEN {"READ"} ELSE {})
    \cup (IF "OUT" \in reported THEN {"WRITE"} ELSE {})

RealEvents(reported) ==
  (IF reported \cap {"IN", "HUP"} # {} THEN {"READ"} ELSE {})
    \cup (IF "OUT" \in reported THEN {"WRITE"} ELSE {})

(* Lines 309-336.  The mask for EPOLL_CTL_MOD is the one that was reported,*)
(* not the events that are left.                                           *)
Dispatch(d) ==
  LET fd   == Fd(d)
      real == RealEvents(evs[d][fd])
      op   == ModOrDel(events[fd] \ real)
      mask == (evs[d][fd] \ {"HUP"})
                \cup (IF "READ" \in real /\ "READ" \in events[fd] THEN {"IN"} ELSE {})
      ok   == events[fd] \cap real # {} /\ CtlSucceeds(op, fd) IN
  /\ At(d, "dispatch")
  /\ evs' = [evs EXCEPT ![d][fd] = {}]
  /\ \/ /\ ok /\ epoll_ctl(op, fd, mask, FALSE)
        /\ local' = [local EXCEPT ![d] = real]
        /\ Goto(d, "trigger") /\ UNCHANGED mutex
     \/ /\ ~ok /\ Release(fd) /\ Goto(d, "wait")
        /\ UNCHANGED <<epollVars, local>>
  /\ UNCHANGED <<tableVars, arg>>

-----------------------------------------------------------------------------
CallerStep(t) ==
  \/ AddCtl(t) \/ AddSet(t) \/ DelCtl(t) \/ DelCount(t) \/ DelStore(t)
  \/ DelReset(t) \/ CancelCtl(t) \/ Trigger(t) \/ TriggerDone(t)

DispatcherStep(d) ==
  epoll_wait(d) \/ DispatchLock(d) \/ Dispatch(d) \/ Trigger(d) \/ TriggerDone(d)

Next ==
  \/ \E fd \in Fds, c \in Conditions : Happens(fd, c) \/ Drained(fd, c)
  \/ \E t \in Callers : AddLock(t) \/ DelCheck(t) \/ CancelCheck(t) \/ CallerStep(t)
  \/ \E d \in Dispatchers : DispatcherStep(d)
  \/ Aborted /\ UNCHANGED vars

Spec == Init /\ [][Next]_vars

(* A thread inside an operation, and a thread in idle(), goes on.          *)
Fairness ==
  /\ \A t \in Callers : WF_vars(CallerStep(t))
  /\ \A d \in Dispatchers : WF_vars(DispatcherStep(d))

FairSpec == Spec /\ Fairness

-----------------------------------------------------------------------------
(* Properties                                                              *)

TypeOK ==
  /\ events \in [Fds -> SUBSET Kinds]
  /\ context \in [Fds -> [Kinds -> Waiters \cup {NoWaiter}]]
  /\ mutex \in [Fds -> Threads \cup {NoThread}]
  /\ m_pendingEventCount \in 0 .. 2^CountBits - 1
  /\ interest \in [Fds -> SUBSET {"IN", "OUT"}]
  /\ registered \subseteq Fds /\ level \subseteq registered
  /\ condition \in [Fds -> SUBSET Conditions] /\ edge \in [Fds -> SUBSET Conditions]
  /\ pc \in [Threads -> Points]
  /\ arg \in [Threads -> [fd : Fds, event : Kinds]]
  /\ local \in [Threads -> SUBSET Kinds]
  /\ evs \in [Threads -> [Fds -> SUBSET Conditions]]
  /\ fired \in [Waiters -> Nat] /\ used \subseteq Waiters /\ raced \in BOOLEAN

(* m_pendingEventCount is the number of registered events: isStoped()      *)
(* needs it to reach 0, and it is unsigned, so one decrement too many      *)
(* keeps the IOManager from ever stopping.                                 *)
PendingAccurate ==
  m_pendingEventCount = Cardinality({p \in Fds \X Kinds : p[2] \in events[p[1]]})

(* A callback or fiber handed to addEvent waits in one context, or was     *)
(* scheduled exactly once: whoever cancels and whoever dispatches the same *)
(* event, it is neither lost nor run twice.                                *)
NoWaiterLost ==
  \A w \in used :
    fired[w] + Cardinality({p \in Fds \X Kinds : context[p[1]][p[2]] = w}) = 1

(* delEvent takes no mutex. The count still goes off by one, and a bit of  *)
(* events still parts from its context, only by a write to the descriptor's*)
(* entry between a delEvent's test and its own write: callers that wait for*)
(* the mutex with an old test, reports taken before the delEvent, events   *)
(* added twice and whatever comes between its last two writes do no harm   *)
(* (the assertions may still fail).                                        *)
DeleteInStep ==
  ~raced =>
    LET deleting(p, l) == \E t \in Threads : pc[t] = l /\ Fd(t) = p[1] /\ Ev(t) = p[2] IN
    /\ m_pendingEventCount =
         Cardinality({p \in Fds \X Kinds : p[2] \in events[p[1]] /\ ~deleting(p, "delStore")})
    /\ \A p \in Fds \X Kinds :
         context[p[1]][p[2]] # NoWaiter <=> p[2] \in events[p[1]] \/ deleting(p, "delReset")

(* Whenever nobody is changing it, a descriptor is watched for exactly the *)
(* events that are registered for it.                                      *)
InterestMatches ==
  \A fd \in Fds : mutex[fd] = NoThread =>
    /\ interest[fd] = MaskOf(events[fd])
    /\ fd \in registered <=> events[fd] # {}

(* None of the assertions of addEvent, triggerEvent and cancelAll fails,   *)
(* and triggerEvent never calls through a null scheduler.                  *)
AssertionsHold == ~Aborted

(* A READ whose descriptor is and stays readable is triggered: the edge    *)
(* that epoll reports only once is not used up by an older registration.   *)
ReadableIsTriggered ==
  \A fd \in Fds :
    "READ" \in events[fd] /\ "IN" \in condition[fd]
      ~> "READ" \notin events[fd] \/ "IN" \notin condition[fd]

=============================================================================
