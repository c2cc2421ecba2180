-------------------------- MODULE FdEvents_proofs ---------------------------
(***************************************************************************)
(* Theorems about FdEvents, for any number of descriptors, callers,        *)
(* dispatchers and waiters.                                                *)
(***************************************************************************)
EXTENDS FdEvents, TLAPS, FiniteSetTheorems

(* TypeOK without the control points; few proofs need both halves.         *)
DataOK ==
  /\ events \in [Fds -> SUBSET Kinds]
  /\ context \in [Fds -> [Kinds -> Waiters \cup {NoWaiter}]]
  /\ mutex \in [Fds -> Threads \cup {NoThread}]
  /\ m_pendingEventCount \in 0 .. 2^CountBits - 1
  /\ interest \in [Fds -> SUBSET {"IN", "OUT"}]
  /\ registered \subseteq Fds /\ level \subseteq registered
  /\ condition \in [Fds -> SUBSET Conditions] /\ edge \in [Fds -> SUBSET Conditions]
  /\ arg \in [Threads -> [fd : Fds, event : Kinds]]
  /\ local \in [Threads -> SUBSET Kinds]
  /\ evs \in [Threads -> [Fds -> SUBSET Conditions]]
  /\ fired \in [Waiters -> Nat] /\ used \subseteq Waiters /\ raced \in BOOLEAN

(* The IOManager is constructed with an empty table.                       *)
LEMMA InitDataOK == Init => DataOK
<1> SUFFICES ASSUME Init PROVE DataOK
  OBVIOUS
<1>1. (CHOOSE fd \in Fds : TRUE) \in Fds
  BY ConstantsAssumption
<1>2. arg \in [Threads -> [fd : Fds, event : Kinds]]
  BY <1>1 DEF Init, Kinds
<1>3. m_pendingEventCount \in 0 .. 2^CountBits - 1
  BY ConstantsAssumption DEF Init
<1> QED
  BY <1>2, <1>3, ConstantsAssumption DEF Init, DataOK, Threads

(* epoll_ctl keeps the types of what it changes, whatever the operation.   *)
LEMMA CtlDataOK ==
  ASSUME DataOK, NEW op, NEW fd \in Fds, NEW mask \in SUBSET {"IN", "OUT"},
         NEW et \in BOOLEAN, epoll_ctl(op, fd, mask, et)
  PROVE  /\ interest' \in [Fds -> SUBSET {"IN", "OUT"}]
         /\ registered' \subseteq Fds /\ level' \subseteq registered'
         /\ condition' \in [Fds -> SUBSET Conditions]
         /\ edge' \in [Fds -> SUBSET Conditions]
<1>1. interest' \in [Fds -> SUBSET {"IN", "OUT"}]
  BY DEF DataOK, epoll_ctl
<1>2. registered' \subseteq Fds /\ level' \subseteq registered'
  BY DEF DataOK, epoll_ctl
<1>3. condition' \in [Fds -> SUBSET Conditions] /\ edge' \in [Fds -> SUBSET Conditions]
  BY DEF DataOK, epoll_ctl
<1> QED
  BY <1>1, <1>2, <1>3

(* A mask computed from events has no EPOLLHUP.                            *)
LEMMA MaskType == \A es \in SUBSET Kinds : MaskOf(es) \in SUBSET {"IN", "OUT"}
  BY DEF MaskOf, Kinds

(* m_pendingEventCount wraps around and so stays a size_t.                 *)
LEMMA CountType ==
  ASSUME DataOK
  PROVE  /\ (m_pendingEventCount + 1) % 2^CountBits \in 0 .. 2^CountBits - 1
         /\ (m_pendingEventCount - 1) % 2^CountBits \in 0 .. 2^CountBits - 1
<1> DEFINE M == 2^CountBits
<1>1. M \in Nat /\ M > 0 /\ m_pendingEventCount \in 0 .. M - 1
  BY ConstantsAssumption DEF DataOK
<1> HIDE DEF M
<1>2. /\ (m_pendingEventCount + 1) % M \in 0 .. M - 1
      /\ (m_pendingEventCount - 1) % M \in 0 .. M - 1
  BY <1>1
<1> QED
  BY <1>2 DEF M

(* triggerEvent and the loop around it keep the types.                     *)
LEMMA TriggerDataOK ==
  ASSUME DataOK, NEW t \in Threads, Trigger(t) \/ TriggerDone(t)
  PROVE  DataOK'
<1>0. Fd(t) \in Fds /\ "READ" \in Kinds /\ "WRITE" \in Kinds
  BY DEF DataOK, Fd, Kinds
<1> USE ConstantsAssumption
        DEF DataOK, tableVars, epollVars, threadVars
<1>1. CASE Abort(t)
  BY <1>1 DEF Abort
<1>2. ASSUME NEW e \in Kinds, CanTrigger(Fd(t), e), triggerEvent(Fd(t), e), CountDown,
             local' = [local EXCEPT ![t] = @ \ {e}],
             UNCHANGED <<epollVars, arg, evs, mutex, used>>, raced' \in BOOLEAN
      PROVE  DataOK'
  <2>1. context[Fd(t)][e] \in Waiters
    BY <1>0, <1>2 DEF CanTrigger
  <2>2. fired' \in [Waiters -> Nat]
    BY <1>2, <2>1 DEF triggerEvent
  <2>3. events' \in [Fds -> SUBSET Kinds]
    BY <1>0, <1>2 DEF triggerEvent
  <2>4. context' \in [Fds -> [Kinds -> Waiters \cup {NoWaiter}]]
    BY <1>0, <1>2 DEF triggerEvent
  <2>5. m_pendingEventCount' \in 0 .. 2^CountBits - 1
    BY <1>2, CountType DEF CountDown
  <2> QED
    BY <1>2, <2>2, <2>3, <2>4, <2>5
<1>3. ASSUME NEW e \in Kinds, local' = [local EXCEPT ![t] = @ \ {e}],
             UNCHANGED <<tableVars, epollVars, arg, evs, mutex>>
      PROVE  DataOK'
  BY <1>3
<1>4. CASE Trigger(t)
  BY <1>0, <1>1, <1>2, <1>3, <1>4 DEF Trigger, Write
<1>5. CASE TriggerDone(t)
  <2>1. CASE Release(Fd(t)) /\ UNCHANGED <<tableVars, epollVars, threadVars>>
    BY <1>0, <2>1 DEF Release
  <2> QED
    BY <1>1, <1>5, <2>1 DEF TriggerDone
<1> QED
  BY <1>4, <1>5

(* addEvent, delEvent, cancelEvent and cancelAll keep the types.           *)
LEMMA CallerDataOK ==
  ASSUME DataOK, NEW t \in Callers,
         AddLock(t) \/ DelCheck(t) \/ CancelCheck(t) \/ CallerStep(t)
  PROVE  DataOK'
<1>0. t \in Threads /\ Fd(t) \in Fds /\ Ev(t) \in Kinds /\ local[t] \in SUBSET Kinds
      /\ events[Fd(t)] \in SUBSET Kinds
  BY DEF Threads, DataOK, Fd, Ev
<1> USE ConstantsAssumption
        DEF DataOK, tableVars, epollVars, threadVars, Acquire, Release
<1>1. CASE AddLock(t)
  <2>1. PICK fd \in Fds, e \in Events :
          Acquire(t, fd) /\ arg' = [arg EXCEPT ![t] = [fd |-> fd, event |-> e]]
    BY <1>1 DEF AddLock
  <2>2. UNCHANGED <<tableVars, epollVars, local, evs>> /\ e \in Kinds
    BY <1>1 DEF AddLock, Kinds
  <2> QED
    BY <1>0, <2>1, <2>2
<1>2. CASE AddCtl(t)
  <2> DEFINE op == IF events[Fd(t)] = {} THEN "ADD" ELSE "MOD"
  <2>1. CASE epoll_ctl(op, Fd(t), MaskOf(events[Fd(t)] \cup {Ev(t)}), TRUE)
             /\ UNCHANGED <<tableVars, threadVars, mutex>>
    <3>1. MaskOf(events[Fd(t)] \cup {Ev(t)}) \in SUBSET {"IN", "OUT"}
      <4>1. events[Fd(t)] \cup {Ev(t)} \in SUBSET Kinds
        BY <1>0
      <4> QED
        BY <4>1, MaskType
    <3> HIDE DEF op
    <3> QED
      BY <1>0, <2>1, <3>1, CtlDataOK
  <2>2. CASE Release(Fd(t)) /\ UNCHANGED <<tableVars, threadVars, epollVars>>
    BY <1>0, <2>2
  <2> QED
    BY <1>2, <2>1, <2>2 DEF AddCtl
<1>3. CASE AddSet(t)
  <2>1. CASE Abort(t)
    BY <2>1 DEF Abort
  <2>2. ASSUME NEW w \in Waiters \ used,
               m_pendingEventCount' = (m_pendingEventCount + 1) % 2^CountBits,
               events' = [events EXCEPT ![Fd(t)] = @ \cup {Ev(t)}],
               context' = [context EXCEPT ![Fd(t)][Ev(t)] = w],
               used' = used \cup {w}, Release(Fd(t)),
               UNCHANGED <<epollVars, threadVars, fired>>, raced' \in BOOLEAN
        PROVE  DataOK'
    BY <1>0, <2>2, CountType
  <2> QED
    BY <1>3, <2>1, <2>2 DEF AddSet, Write
<1>4. CASE DelCheck(t)
  BY <1>0, <1>4 DEF DelCheck
<1>5. CASE DelCtl(t)
  <2>1. MaskOf(local[t]) \in SUBSET {"IN", "OUT"}
    BY <1>0, MaskType
  <2>2. CASE UNCHANGED epollVars
    BY <1>5, <2>2 DEF DelCtl
  <2>3. CASE epoll_ctl(ModOrDel(local[t]), Fd(t), MaskOf(local[t]), TRUE)
    BY <1>0, <1>5, <2>1, <2>3, CtlDataOK DEF DelCtl
  <2> QED
    BY <1>5, <2>2, <2>3 DEF DelCtl
<1>6. CASE DelCount(t)
  BY <1>6, CountType DEF DelCount, CountDown, Write
<1>7. CASE DelStore(t)
  BY <1>0, <1>7 DEF DelStore, Write
<1>8. CASE DelReset(t)
  BY <1>0, <1>8 DEF DelReset
<1>9. CASE CancelCheck(t)
  BY <1>0, <1>9 DEF CancelCheck
<1>10. CASE CancelCtl(t)
  <2> DEFINE op == IF pc[t] = "allLock" THEN "DEL" ELSE ModOrDel(events[Fd(t)] \ {Ev(t)})
  <2>1. CASE UNCHANGED <<epollVars, local, mutex>>
    BY <1>10, <2>1 DEF CancelCtl
  <2>2. CASE /\ epoll_ctl(op, Fd(t), {"IN"}, FALSE) /\ Acquire(t, Fd(t))
             /\ local' = [local EXCEPT ![t] = IF pc[t] = "allLock" THEN Kinds ELSE {Ev(t)}]
    <3>1. UNCHANGED <<tableVars, arg, evs>>
      BY <1>10 DEF CancelCtl
    <3>2. {"IN"} \in SUBSET {"IN", "OUT"} /\ FALSE \in BOOLEAN
      OBVIOUS
    <3>3. /\ interest' \in [Fds -> SUBSET {"IN", "OUT"}]
          /\ registered' \subseteq Fds /\ level' \subseteq registered'
          /\ condition' \in [Fds -> SUBSET Conditions]
          /\ edge' \in [Fds -> SUBSET Conditions]
      BY <1>0, <2>2, <3>2, CtlDataOK
    <3>4. local' \in [Threads -> SUBSET Kinds]
      BY <1>0, <2>2
    <3> QED
      BY <1>0, <2>2, <3>1, <3>3, <3>4
  <2> QED
    BY <1>10, <2>1, <2>2 DEF CancelCtl
<1>11. CASE Trigger(t) \/ TriggerDone(t)
  BY <1>0, <1>11, TriggerDataOK
<1> QED
  BY <1>1, <1>2, <1>3, <1>4, <1>5, <1>6, <1>7, <1>8, <1>9, <1>10, <1>11 DEF CallerStep

(* What happens to a descriptor keeps the types.                           *)
LEMMA EnvDataOK ==
  ASSUME DataOK, NEW fd \in Fds, NEW c \in Conditions, Happens(fd, c) \/ Drained(fd, c)
  PROVE  DataOK'
<1> USE DEF DataOK, tableVars, threadVars
<1>1. CASE Happens(fd, c)
  BY <1>1 DEF Happens
<1>2. CASE Drained(fd, c)
  BY <1>2 DEF Drained
<1> QED
  BY <1>1, <1>2

(* idle() keeps the types.                                                 *)
LEMMA DispatcherDataOK ==
  ASSUME DataOK, NEW d \in Dispatchers, DispatcherStep(d)
  PROVE  DataOK'
<1>0. d \in Threads /\ Fd(d) \in Fds
  BY DEF Threads, DataOK, Fd
<1> USE ConstantsAssumption
        DEF DataOK, tableVars, epollVars, threadVars, Acquire, Release
<1>1. CASE epoll_wait(d)
  <2>1. \A fd \in Fds : Reported(fd) \in SUBSET Conditions
    BY DEF Reported
  <2>2. evs' \in [Threads -> [Fds -> SUBSET Conditions]]
    BY <1>0, <1>1, <2>1 DEF epoll_wait
  <2>3. edge' \in [Fds -> SUBSET Conditions]
    BY <1>1, <2>1 DEF epoll_wait
  <2> QED
    BY <1>1, <2>2, <2>3 DEF epoll_wait
<1>2. CASE DispatchLock(d)
  <2>1. PICK fd \in Fds : Acquire(d, fd) /\ arg' = [arg EXCEPT ![d].fd = fd]
    BY <1>2 DEF DispatchLock
  <2>2. UNCHANGED <<tableVars, epollVars, local, evs>>
    BY <1>2 DEF DispatchLock
  <2>3. arg' \in [Threads -> [fd : Fds, event : Kinds]]
    BY <1>0, <2>1, ZenonT(60)
  <2>4. mutex' \in [Fds -> Threads \cup {NoThread}]
    BY <1>0, <2>1
  <2> QED
    BY <2>2, <2>3, <2>4
<1>3. CASE Dispatch(d)
  <2> DEFINE real == RealEvents(evs[d][Fd(d)])
             op == ModOrDel(events[Fd(d)] \ real)
             mask == (evs[d][Fd(d)] \ {"HUP"})
                \cup (IF "READ" \in real /\ "READ" \in events[Fd(d)] THEN {"IN"} ELSE {})
  <2>1. evs' \in [Threads -> [Fds -> SUBSET Conditions]]
    BY <1>0, <1>3 DEF Dispatch
  <2>2. real \in SUBSET Kinds
    BY DEF RealEvents, Kinds
  <2>3. UNCHANGED <<tableVars, arg>>
    BY <1>3 DEF Dispatch
  <2>4. CASE Release(Fd(d)) /\ UNCHANGED <<epollVars, local>>
    BY <1>0, <2>1, <2>3, <2>4
  <2>5. CASE /\ epoll_ctl(op, Fd(d), mask, FALSE)
             /\ local' = [local EXCEPT ![d] = real] /\ UNCHANGED mutex
    <3>1. mask \in SUBSET {"IN", "OUT"} /\ FALSE \in BOOLEAN
      <4>1. evs[d][Fd(d)] \in SUBSET Conditions
        BY <1>0
      <4> HIDE DEF real
      <4> QED
        BY <4>1
    <3> HIDE DEF real, op, mask
    <3>2. /\ interest' \in [Fds -> SUBSET {"IN", "OUT"}]
          /\ registered' \subseteq Fds /\ level' \subseteq registered'
          /\ condition' \in [Fds -> SUBSET Conditions]
          /\ edge' \in [Fds -> SUBSET Conditions]
      BY <1>0, <2>5, <3>1, CtlDataOK
    <3> QED
      BY <1>0, <2>1, <2>2, <2>3, <2>5, <3>2
  <2> QED
    BY <1>3, <2>4, <2>5 DEF Dispatch
<1>4. CASE Trigger(d) \/ TriggerDone(d)
  BY <1>0, <1>4, TriggerDataOK
<1> QED
  BY <1>1, <1>2, <1>3, <1>4 DEF DispatcherStep

(* Every thread stays at a control point of its operation.                 *)
LEMMA PointsOK ==
  ASSUME pc \in [Threads -> Points], [Next]_vars PROVE pc' \in [Threads -> Points]
<1> USE DEF Points, Goto
<1>1. ASSUME NEW t \in Threads,
             \/ AddLock(t) \/ AddCtl(t) \/ AddSet(t) \/ CancelCheck(t) \/ CancelCtl(t)
             \/ Trigger(t) \/ TriggerDone(t)
      PROVE  pc' \in [Threads -> Points]
  BY <1>1 DEF AddLock, AddCtl, AddSet, CancelCheck, CancelCtl, Trigger, TriggerDone, Abort
<1>2. ASSUME NEW t \in Threads,
             \/ DelCheck(t) \/ DelCtl(t) \/ DelCount(t) \/ DelStore(t) \/ DelReset(t)
             \/ epoll_wait(t) \/ DispatchLock(t) \/ Dispatch(t)
      PROVE  pc' \in [Threads -> Points]
  BY <1>2 DEF DelCheck, DelCtl, DelCount, DelStore, DelReset, epoll_wait, DispatchLock,
              Dispatch
<1> QED
  BY <1>1, <1>2 DEF Next, CallerStep, DispatcherStep, Threads, Happens, Drained, vars

(* TypeOK is its two halves.                                               *)
LEMMA TypeParts == TypeOK <=> DataOK /\ pc \in [Threads -> Points]
  BY DEF TypeOK, DataOK

(* Every step keeps the types.                                             *)
LEMMA NextTypeOK == ASSUME TypeOK, [Next]_vars PROVE TypeOK'
<1>1. DataOK' /\ pc' \in [Threads -> Points]
  <2>1. DataOK /\ pc \in [Threads -> Points]
    BY TypeParts
  <2>2. CASE UNCHANGED vars
    BY <2>1, <2>2 DEF DataOK, vars, tableVars, epollVars, threadVars
  <2> QED
    BY <2>1, <2>2, PointsOK, EnvDataOK, CallerDataOK, DispatcherDataOK DEF Next
<1> QED
  BY <1>1 DEF TypeOK, DataOK

(* The types hold initially.                                               *)
LEMMA InitTypeOK == Init => TypeOK
<1>1. Init => pc \in [Threads -> Points]
  BY DEF Init, Points
<1> QED
  BY <1>1, InitDataOK, TypeParts

(* Every variable keeps its type, with delEvent and duplicate addEvents;   *)
(* m_pendingEventCount stays a size_t because it wraps around.             *)
THEOREM TypeCorrect == Spec => []TypeOK
<1>1. TypeOK /\ [Next]_vars => TypeOK'
  BY NextTypeOK
<1> QED
  BY InitTypeOK, <1>1, PTL DEF Spec

-----------------------------------------------------------------------------
(* How the table of events changes.                                        *)

(* A waiter is in one context at most, and only as long as it was not      *)
(* scheduled; nobody is scheduled twice.                                   *)
WaitersOnce ==
  /\ \A fd \in Fds, e \in Kinds : context[fd][e] # NoWaiter =>
       /\ context[fd][e] \in used /\ fired[context[fd][e]] = 0
       /\ \A fd2 \in Fds, e2 \in Kinds :
            context[fd2][e2] = context[fd][e] => fd2 = fd /\ e2 = e
  /\ \A w \in Waiters : fired[w] <= 1 /\ (w \notin used => fired[w] = 0)

(* Where a thread is inside delEvent.                                      *)
DelPoints == {"delCtl", "delCount", "delStore", "delReset"}

(* Without delEvent the bits of events and the contexts agree, and whoever *)
(* was passed to addEvent waits or was scheduled.                          *)
Matched ==
  /\ \A fd \in Fds, e \in Kinds : e \in events[fd] <=> context[fd][e] # NoWaiter
  /\ \A w \in used : fired[w] = 1 \/ \E fd \in Fds, e \in Kinds : context[fd][e] = w
  /\ \A t \in Threads : pc[t] \notin DelPoints

(* What addEvent does to the table, at its end.                            *)
Added(fd, e, w) ==
  /\ context[fd][e] = NoWaiter
  /\ m_pendingEventCount' = (m_pendingEventCount + 1) % 2^CountBits
  /\ events' = [events EXCEPT ![fd] = @ \cup {e}]
  /\ context' = [context EXCEPT ![fd][e] = w]
  /\ used' = used \cup {w} /\ UNCHANGED fired

(* What triggerEvent and the decrement after it do to the table.           *)
Triggered(fd, e) ==
  CanTrigger(fd, e) /\ triggerEvent(fd, e) /\ CountDown /\ UNCHANGED used

(* What the three writes of delEvent do to the waiters.                    *)
Deleted(t) ==
  /\ pc[t] \in DelPoints /\ UNCHANGED <<fired, used>>
  /\ \/ UNCHANGED context
     \/ context' = [context EXCEPT ![Fd(t)][Ev(t)] = NoWaiter]

(* The table of events changes in these three ways and in no other.        *)
LEMMA TableSteps ==
  ASSUME TypeOK, [Next]_vars
  PROVE  \/ UNCHANGED tableVars
         \/ \E fd \in Fds, e \in Kinds, w \in Waiters \ used : Added(fd, e, w)
         \/ \E fd \in Fds, e \in Kinds : Triggered(fd, e)
         \/ \E t \in Threads : Deleted(t)
<1>1. ASSUME NEW t \in Threads
      PROVE  Fd(t) \in Fds /\ Ev(t) \in Kinds
  BY DEF TypeOK, Fd, Ev
<1>2. ASSUME NEW t \in Threads, Trigger(t)
      PROVE  UNCHANGED tableVars \/ \E fd \in Fds, e \in Kinds : Triggered(fd, e)
  <2>1. "READ" \in Kinds /\ "WRITE" \in Kinds
    BY DEF Kinds
  <2>2. CASE UNCHANGED tableVars
    BY <2>2
  <2>3. ASSUME NEW e \in Kinds, CanTrigger(Fd(t), e), triggerEvent(Fd(t), e), CountDown,
               UNCHANGED used
        PROVE  \E fd \in Fds, f \in Kinds : Triggered(fd, f)
    BY <1>1, <2>3 DEF Triggered
  <2> QED
    BY <1>2, <2>1, <2>2, <2>3 DEF Trigger, Abort
<1>3. ASSUME NEW t \in Threads, AddSet(t)
      PROVE  \/ UNCHANGED tableVars
             \/ \E fd \in Fds, e \in Kinds, w \in Waiters \ used : Added(fd, e, w)
  BY <1>1, <1>3 DEF AddSet, Unused, Added, Abort, tableVars
<1>4. ASSUME NEW t \in Threads, DelCount(t) \/ DelStore(t) \/ DelReset(t)
      PROVE  Deleted(t)
  BY <1>4 DEF DelCount, DelStore, DelReset, At, Deleted, DelPoints
<1>5. ASSUME NEW t \in Threads,
             \/ AddLock(t) \/ AddCtl(t) \/ DelCheck(t) \/ DelCtl(t) \/ CancelCheck(t)
             \/ CancelCtl(t) \/ TriggerDone(t) \/ epoll_wait(t) \/ DispatchLock(t)
             \/ Dispatch(t)
      PROVE  UNCHANGED tableVars
  BY <1>5 DEF AddLock, AddCtl, DelCheck, DelCtl, CancelCheck, CancelCtl, TriggerDone,
              Abort, epoll_wait, DispatchLock, Dispatch
<1> QED
  BY <1>2, <1>3, <1>4, <1>5
  DEF Next, CallerStep, DispatcherStep, Threads, Happens, Drained, vars

(* Nobody waits initially.                                                 *)
LEMMA InitWaitersOnce == Init => WaitersOnce
  BY DEF Init, WaitersOnce

(* addEvent takes a fresh waiter, triggerEvent schedules it and empties    *)
(* the context in the same critical section, delEvent only empties         *)
(* contexts.                                                               *)
LEMMA NextWaitersOnce ==
  ASSUME TypeOK, WaitersOnce, [Next]_vars PROVE WaitersOnce'
<1>1. CASE UNCHANGED tableVars
  BY <1>1 DEF tableVars, WaitersOnce
<1>2. ASSUME NEW fd \in Fds, NEW e \in Kinds, NEW w \in Waiters \ used, Added(fd, e, w)
      PROVE  WaitersOnce'
  <2>1. \A fd2 \in Fds, e2 \in Kinds :
          context'[fd2][e2] = IF fd2 = fd /\ e2 = e THEN w ELSE context[fd2][e2]
    BY <1>2 DEF Added, TypeOK
  <2>2. used' = used \cup {w} /\ fired' = fired /\ fired[w] = 0
    BY <1>2 DEF Added, WaitersOnce
  <2> QED
    BY <2>1, <2>2 DEF WaitersOnce
<1>3. ASSUME NEW fd \in Fds, NEW e \in Kinds, Triggered(fd, e)
      PROVE  WaitersOnce'
  <2>1. \A fd2 \in Fds, e2 \in Kinds :
          context'[fd2][e2] = IF fd2 = fd /\ e2 = e THEN NoWaiter ELSE context[fd2][e2]
    BY <1>3 DEF Triggered, triggerEvent, TypeOK
  <2> DEFINE v == context[fd][e]
  <2>2. v \in Waiters /\ v # NoWaiter /\ v \in used /\ fired[v] = 0
    BY <1>3 DEF Triggered, CanTrigger, TypeOK, WaitersOnce
  <2>3. \A w \in Waiters : fired'[w] = IF w = v THEN 1 ELSE fired[w]
    BY <1>3, <2>2 DEF Triggered, triggerEvent, TypeOK
  <2>4. used' = used
    BY <1>3 DEF Triggered
  <2>5. used \subseteq Waiters
    BY DEF TypeOK
  <2>6. \A fd2 \in Fds, e2 \in Kinds : context'[fd2][e2] # NoWaiter =>
          context'[fd2][e2] # v /\ context'[fd2][e2] = context[fd2][e2]
    BY <2>1, <2>2 DEF WaitersOnce
  <2> HIDE DEF v
  <2> QED
    BY <2>2, <2>3, <2>4, <2>5, <2>6 DEF WaitersOnce
<1>4. ASSUME NEW t \in Threads, Deleted(t)
      PROVE  WaitersOnce'
  <2>1. used' = used /\ fired' = fired
    BY <1>4 DEF Deleted
  <2>2. \A fd2 \in Fds, e2 \in Kinds :
          context'[fd2][e2] # NoWaiter => context'[fd2][e2] = context[fd2][e2]
    <3>1. Fd(t) \in Fds /\ Ev(t) \in Kinds
      BY DEF TypeOK, Fd, Ev
    <3>2. CASE UNCHANGED context
      BY <3>2
    <3>3. CASE context' = [context EXCEPT ![Fd(t)][Ev(t)] = NoWaiter]
      BY <3>1, <3>3 DEF TypeOK
    <3> QED
      BY <1>4, <3>2, <3>3 DEF Deleted
  <2> QED
    BY <2>1, <2>2 DEF WaitersOnce
<1> QED
  BY <1>1, <1>2, <1>3, <1>4, TableSteps

-----------------------------------------------------------------------------
(* The count of pending events and the fate of the waiters.                *)

(* The empty table matches.                                                *)
LEMMA InitMatched == ASSUME ~Deletes PROVE Init => Matched
  BY DEF Init, Matched, DelPoints, Threads

(* addEvent and triggerEvent change the bit and the context together.      *)
LEMMA NextMatched ==
  ASSUME ~Deletes, TypeOK, WaitersOnce, Matched, [Next]_vars PROVE Matched'
<1>1. \A t \in Threads : pc'[t] \notin DelPoints
  <2>0. pc \in [Threads -> Points] /\ \A u \in Threads : pc[u] \notin DelPoints
    BY DEF TypeOK, Matched
  <2>1. ASSUME NEW t \in Threads, AddLock(t) PROVE \A u \in Threads : pc'[u] \notin DelPoints
    BY <2>0, <2>1 DEF AddLock, DelPoints, Goto
  <2>2. ASSUME NEW t \in Threads, AddCtl(t) PROVE \A u \in Threads : pc'[u] \notin DelPoints
    BY <2>0, <2>2 DEF AddCtl, DelPoints, Goto
  <2>3. ASSUME NEW t \in Threads, AddSet(t) PROVE \A u \in Threads : pc'[u] \notin DelPoints
    BY <2>0, <2>3 DEF AddSet, Abort, DelPoints, Goto
  <2>4. ASSUME NEW t \in Threads, CancelCheck(t) PROVE \A u \in Threads : pc'[u] \notin DelPoints
    BY <2>0, <2>4 DEF CancelCheck, DelPoints, Goto
  <2>5. ASSUME NEW t \in Threads, CancelCtl(t) PROVE \A u \in Threads : pc'[u] \notin DelPoints
    BY <2>0, <2>5 DEF CancelCtl, DelPoints, Goto
  <2>6. ASSUME NEW t \in Threads, Trigger(t) PROVE \A u \in Threads : pc'[u] \notin DelPoints
    BY <2>0, <2>6 DEF Trigger, Abort, DelPoints, Goto
  <2>7. ASSUME NEW t \in Threads, TriggerDone(t) PROVE \A u \in Threads : pc'[u] \notin DelPoints
    BY <2>0, <2>7 DEF TriggerDone, Abort, DelPoints, Goto
  <2>8. ASSUME NEW t \in Threads, epoll_wait(t) PROVE \A u \in Threads : pc'[u] \notin DelPoints
    BY <2>0, <2>8 DEF epoll_wait, DelPoints, Goto
  <2>9. ASSUME NEW t \in Threads, DispatchLock(t) PROVE \A u \in Threads : pc'[u] \notin DelPoints
    BY <2>0, <2>9 DEF DispatchLock, DelPoints, Goto
  <2>10. ASSUME NEW t \in Threads, Dispatch(t) PROVE \A u \in Threads : pc'[u] \notin DelPoints
    BY <2>0, <2>10 DEF Dispatch, DelPoints, Goto
  <2>11. ASSUME NEW t \in Threads
         PROVE  ~(DelCheck(t) \/ DelCtl(t) \/ DelCount(t) \/ DelStore(t) \/ DelReset(t))
    BY <2>0 DEF DelCheck, DelCtl, DelCount, DelStore, DelReset, DelPoints, At
  <2> QED
    BY <2>0, <2>1, <2>2, <2>3, <2>4, <2>5, <2>6, <2>7, <2>8, <2>9, <2>10, <2>11
    DEF Next, CallerStep, DispatcherStep, Threads, Happens, Drained, vars
<1>2. CASE UNCHANGED tableVars
  BY <1>1, <1>2 DEF tableVars, Matched
<1>3. ASSUME NEW fd \in Fds, NEW e \in Kinds, NEW w \in Waiters \ used, Added(fd, e, w)
      PROVE  Matched'
  <2>1. \A fd2 \in Fds, e2 \in Kinds :
          /\ context'[fd2][e2] = IF fd2 = fd /\ e2 = e THEN w ELSE context[fd2][e2]
          /\ e2 \in events'[fd2] <=> (fd2 = fd /\ e2 = e) \/ e2 \in events[fd2]
    BY <1>3 DEF Added, TypeOK
  <2>2. used' = used \cup {w} /\ fired' = fired /\ w # NoWaiter
    BY <1>3, ConstantsAssumption DEF Added
  <2>3. \A v \in used : fired[v] = 1 \/ \E fd2 \in Fds, e2 \in Kinds : context'[fd2][e2] = v
    BY <1>3, <2>1, ConstantsAssumption DEF Added, Matched, TypeOK
  <2> QED
    BY <1>1, <2>1, <2>2, <2>3 DEF Matched
<1>4. ASSUME NEW fd \in Fds, NEW e \in Kinds, Triggered(fd, e)
      PROVE  Matched'
  <2>1. \A fd2 \in Fds, e2 \in Kinds :
          /\ context'[fd2][e2] = IF fd2 = fd /\ e2 = e THEN NoWaiter ELSE context[fd2][e2]
          /\ e2 \in events'[fd2] <=> ~(fd2 = fd /\ e2 = e) /\ e2 \in events[fd2]
    BY <1>4 DEF Triggered, triggerEvent, TypeOK
  <2> DEFINE v == context[fd][e]
  <2>2. v \in Waiters /\ fired[v] = 0 /\ used' = used
    BY <1>4 DEF Triggered, CanTrigger, TypeOK, WaitersOnce
  <2>3. \A w \in Waiters : fired'[w] = IF w = v THEN 1 ELSE fired[w]
    BY <1>4, <2>2 DEF Triggered, triggerEvent, TypeOK
  <2>4. used \subseteq Waiters
    BY DEF TypeOK
  <2>5. \A w \in used : fired'[w] = 1 \/ \E fd2 \in Fds, e2 \in Kinds : context'[fd2][e2] = w
    BY <2>1, <2>3, <2>4 DEF Matched
  <2> QED
    BY <1>1, <2>1, <2>2, <2>5 DEF Matched
<1>5. ASSUME NEW t \in Threads PROVE ~Deleted(t)
  BY DEF Deleted, Matched
<1> QED
  BY <1>2, <1>3, <1>4, <1>5, TableSteps

(* Both invariants hold in every reachable state.                          *)
LEMMA MatchedCorrect ==
  ASSUME ~Deletes PROVE Spec => [](WaitersOnce /\ Matched)
<1>1. TypeOK /\ WaitersOnce /\ [Next]_vars => WaitersOnce'
  BY NextWaitersOnce
<1>2. TypeOK /\ WaitersOnce /\ Matched /\ [Next]_vars => Matched'
  BY NextMatched
<1> QED
  BY InitWaitersOnce, InitMatched, TypeCorrect, <1>1, <1>2, PTL DEF Spec

(* Without delEvent, whoever was passed to addEvent waits in one context   *)
(* or was scheduled exactly once, whoever cancels and dispatches.          *)
THEOREM NoWaiterLostCorrect == ASSUME ~Deletes PROVE Spec => []NoWaiterLost
<1>1. TypeOK /\ WaitersOnce /\ Matched => NoWaiterLost
  <2> SUFFICES ASSUME TypeOK, WaitersOnce, Matched, NEW w \in used
               PROVE  fired[w] + Cardinality({p \in Fds \X Kinds : context[p[1]][p[2]] = w}) = 1
    BY DEF NoWaiterLost
  <2> DEFINE slots == {p \in Fds \X Kinds : context[p[1]][p[2]] = w}
  <2>0. w \in Waiters /\ w # NoWaiter
    BY ConstantsAssumption DEF TypeOK
  <2>1. CASE \E fd \in Fds, e \in Kinds : context[fd][e] = w
    <3>1. PICK fd \in Fds, e \in Kinds : context[fd][e] = w
      BY <2>1
    <3>2. slots = {<<fd, e>>}
      BY <2>0, <3>1 DEF WaitersOnce
    <3>3. fired[w] = 0
      BY <2>0, <3>1 DEF WaitersOnce
    <3> QED
      <4>1. Cardinality({<<fd, e>>}) = 1
        BY FS_Singleton
      <4> QED
        BY <3>2, <3>3, <4>1
  <2>2. CASE ~ \E fd \in Fds, e \in Kinds : context[fd][e] = w
    <3>1. slots = {}
      BY <2>2
    <3>2. fired[w] = 1
      BY <2>2 DEF Matched
    <3> QED
      BY <3>1, <3>2, FS_EmptySet
  <2> QED
    BY <2>1, <2>2
<1> QED
  BY MatchedCorrect, TypeCorrect, <1>1, PTL

(* The registered events.                                                  *)
Registered == {p \in Fds \X Kinds : p[2] \in events[p[1]]}

(* There are finitely many descriptors and a size_t can count their        *)
(* events.                                                                 *)
Countable == IsFiniteSet(Fds) /\ Cardinality(Fds \X Kinds) < 2^CountBits

(* Under Countable a set of events has a cardinality below the wrap-       *)
(* around.                                                                 *)
LEMMA RegisteredCountable ==
  ASSUME Countable, NEW R \in SUBSET (Fds \X Kinds)
  PROVE  IsFiniteSet(R) /\ Cardinality(R) \in Nat /\ Cardinality(R) < 2^CountBits
<1>1. Kinds = {"READ"} \cup {"WRITE"}
  BY DEF Kinds
<1>2. IsFiniteSet(Kinds)
  BY <1>1, FS_Singleton, FS_AddElement
<1>3. IsFiniteSet(Fds \X Kinds)
  BY <1>2, FS_Product DEF Countable
<1>4. /\ IsFiniteSet(R) /\ Cardinality(R) <= Cardinality(Fds \X Kinds)
      /\ Cardinality(R) \in Nat /\ Cardinality(Fds \X Kinds) \in Nat
  BY <1>3, FS_Subset, FS_CardinalityType
<1> QED
  BY <1>4, ConstantsAssumption DEF Countable

(* addEvent counts an event that was not registered, triggerEvent one that *)
(* was.                                                                    *)
LEMMA NextPendingAccurate ==
  ASSUME Countable, TypeOK, Matched, PendingAccurate, [Next]_vars
  PROVE  PendingAccurate'
<1> DEFINE M == 2^CountBits
           R == Registered
           S == Registered'
<1>0. /\ IsFiniteSet(R) /\ Cardinality(R) \in Nat /\ Cardinality(R) < M
      /\ IsFiniteSet(S) /\ Cardinality(S) \in Nat /\ Cardinality(S) < M
  BY RegisteredCountable DEF Registered
<1>1. M \in Nat /\ M > 0
  BY ConstantsAssumption
<1>2. m_pendingEventCount = Cardinality(R)
  BY DEF PendingAccurate, Registered
<1>3. SUFFICES m_pendingEventCount' = Cardinality(S)
  BY DEF PendingAccurate, Registered
<1>4. CASE UNCHANGED tableVars
  <2>1. S = R
    BY <1>4 DEF tableVars, Registered
  <2> QED
    BY <1>2, <1>4, <2>1 DEF tableVars
<1>5. ASSUME NEW fd \in Fds, NEW e \in Kinds, NEW w \in Waiters \ used, Added(fd, e, w)
      PROVE  m_pendingEventCount' = Cardinality(S)
  <2>1. S = R \cup {<<fd, e>>}
    BY <1>5 DEF Added, Registered, TypeOK
  <2>2. <<fd, e>> \notin R
    BY <1>5 DEF Added, Matched, Registered
  <2>3. m_pendingEventCount' = (m_pendingEventCount + 1) % M
    BY <1>5 DEF Added
  <2> HIDE DEF M, R, S
  <2>4. Cardinality(S) = Cardinality(R) + 1
    BY <1>0, <2>1, <2>2, FS_AddElement
  <2> QED
    BY <1>0, <1>1, <1>2, <2>3, <2>4
<1>6. ASSUME NEW fd \in Fds, NEW e \in Kinds, Triggered(fd, e)
      PROVE  m_pendingEventCount' = Cardinality(S)
  <2>1. S = R \ {<<fd, e>>}
    BY <1>6 DEF Triggered, triggerEvent, Registered, TypeOK
  <2>2. <<fd, e>> \in R
    BY <1>6 DEF Triggered, CanTrigger, Registered
  <2>3. m_pendingEventCount' = (m_pendingEventCount - 1) % M
    BY <1>6 DEF Triggered, CountDown
  <2> HIDE DEF M, R, S
  <2>4. Cardinality(S) = Cardinality(R) - 1
    BY <1>0, <2>1, <2>2, FS_RemoveElement
  <2> QED
    BY <1>0, <1>1, <1>2, <2>3, <2>4
<1>7. ASSUME NEW t \in Threads PROVE ~Deleted(t)
  BY DEF Deleted, Matched
<1> QED
  BY <1>4, <1>5, <1>6, <1>7, TableSteps

(* Without delEvent, m_pendingEventCount is the number of registered       *)
(* events and never wraps around.                                          *)
THEOREM PendingAccurateCorrect ==
  ASSUME ~Deletes, Countable PROVE Spec => []PendingAccurate
<1>1. Init => PendingAccurate
  <2> SUFFICES ASSUME Init PROVE PendingAccurate
    OBVIOUS
  <2>1. {p \in Fds \X Kinds : p[2] \in events[p[1]]} = {}
    BY DEF Init
  <2> QED
    BY <2>1, FS_EmptySet DEF Init, PendingAccurate
<1>2. TypeOK /\ Matched /\ PendingAccurate /\ [Next]_vars => PendingAccurate'
  BY NextPendingAccurate
<1> QED
  BY <1>1, <1>2, MatchedCorrect, TypeCorrect, PTL DEF Spec

-----------------------------------------------------------------------------
(* delEvent: the count and the contexts stay in step unless it is raced.   *)

(* Some thread is at l of delEvent with this descriptor and event.         *)
AtPair(p, l) == \E t \in Threads : pc[t] = l /\ Fd(t) = p[1] /\ Ev(t) = p[2]

(* The registered events that no delEvent has counted off yet.             *)
Counted == {p \in Fds \X Kinds : p[2] \in events[p[1]] /\ ~AtPair(p, "delStore")}

(* The two parts of DeleteInStep.                                          *)
CountInStep == ~raced => m_pendingEventCount = Cardinality(Counted)

ContextInStep ==
  ~raced => \A p \in Fds \X Kinds :
    context[p[1]][p[2]] # NoWaiter <=> p[2] \in events[p[1]] \/ AtPair(p, "delReset")

(* What a delEvent that is not raced relies on: new_events is current, the *)
(* event is registered until the store and not after, and nobody else      *)
(* resets the same context.                                                *)
Deletions ==
  ~raced =>
    /\ \A t \in Threads : Deleting(t) =>
         Ev(t) \in events[Fd(t)] /\ local[t] = events[Fd(t)] \ {Ev(t)}
    /\ \A t \in Threads : pc[t] = "delReset" => Ev(t) \notin events[Fd(t)]
    /\ \A t, u \in Threads :
         pc[t] = "delReset" /\ pc[u] = "delReset" /\ Fd(t) = Fd(u) /\ Ev(t) = Ev(u) => t = u

(* The steps of a thread, as far as this argument sees them.               *)
Passes(t) ==
  /\ UNCHANGED tableVars
  /\ pc[t] \notin {"delStore", "delReset"} /\ pc'[t] \notin DelPoints

Begins(t) ==
  /\ UNCHANGED tableVars /\ pc[t] \notin DelPoints /\ pc'[t] = "delCtl"
  /\ Ev(t)' \in events[Fd(t)'] /\ local'[t] = events[Fd(t)'] \ {Ev(t)'}

GoesOn(t) ==
  /\ UNCHANGED <<tableVars, arg, local>> /\ pc[t] = "delCtl" /\ pc'[t] = "delCount"

Adds(t) ==
  /\ pc[t] \notin DelPoints /\ pc'[t] \notin DelPoints /\ UNCHANGED arg /\ Write(t)
  /\ \E w \in Waiters \ used : Added(Fd(t), Ev(t), w)

Triggers(t) ==
  /\ pc[t] \notin DelPoints /\ pc' = pc /\ UNCHANGED arg /\ Write(t)
  /\ \E e \in Kinds : Triggered(Fd(t), e)

Counts(t) ==
  /\ pc[t] = "delCount" /\ pc'[t] = "delStore" /\ CountDown /\ Write(t)
  /\ UNCHANGED <<events, context, arg, local>>

Stores(t) ==
  /\ pc[t] = "delStore" /\ pc'[t] = "delReset" /\ Write(t)
  /\ events' = [events EXCEPT ![Fd(t)] = local[t]]
  /\ UNCHANGED <<context, m_pendingEventCount, arg, local>>

Resets(t) ==
  /\ pc[t] = "delReset" /\ pc'[t] = "user"
  /\ context' = [context EXCEPT ![Fd(t)][Ev(t)] = NoWaiter]
  /\ UNCHANGED <<events, m_pendingEventCount, raced, arg, local>>

(* Only t moves.                                                           *)
Only(t) ==
  \A u \in Threads \ {t} :
    pc'[u] = pc[u] /\ arg'[u] = arg[u] /\ local'[u] = local[u]

(* Every step is one of these.                                             *)
LEMMA DeleteSteps ==
  ASSUME TypeOK, [Next]_vars
  PROVE  \/ UNCHANGED <<tableVars, pc, arg, local>>
         \/ \E t \in Threads :
              /\ Only(t)
              /\ \/ Passes(t) \/ Begins(t) \/ GoesOn(t) \/ Adds(t) \/ Triggers(t)
                 \/ Counts(t) \/ Stores(t) \/ Resets(t)
<1> DEFINE Step(t) == /\ Only(t)
                      /\ \/ Passes(t) \/ Begins(t) \/ GoesOn(t) \/ Adds(t) \/ Triggers(t)
                         \/ Counts(t) \/ Stores(t) \/ Resets(t)
<1>0. /\ pc \in [Threads -> Points] /\ local \in [Threads -> SUBSET Kinds]
      /\ arg \in [Threads -> [fd : Fds, event : Kinds]]
      /\ events \in [Fds -> SUBSET Kinds]
  BY DEF TypeOK
<1>1. ASSUME NEW t \in Threads, AddLock(t) PROVE Step(t)
  BY <1>0, <1>1 DEF AddLock, At, Goto, Only, Passes, DelPoints
<1>2. ASSUME NEW t \in Threads, AddCtl(t) PROVE Step(t)
  BY <1>0, <1>2 DEF AddCtl, At, Goto, Only, Passes, DelPoints, threadVars
<1>3. ASSUME NEW t \in Threads, AddSet(t) PROVE Step(t)
  <2>1. CASE Abort(t)
    BY <1>0, <1>3, <2>1 DEF AddSet, At, Abort, Goto, Only, Passes, DelPoints, threadVars
  <2>2. CASE ~Abort(t)
    BY <1>0, <1>3, <2>2 DEF AddSet, Unused, Added, At, Goto, Only, Adds, DelPoints,
       threadVars
  <2> QED
    BY <2>1, <2>2
<1>4. ASSUME NEW t \in Threads, DelCheck(t) PROVE Step(t)
  <2>1. PICK fd \in Fds, e \in Kinds :
          /\ e \in events[fd] /\ arg' = [arg EXCEPT ![t] = [fd |-> fd, event |-> e]]
          /\ local' = [local EXCEPT ![t] = events[fd] \ {e}]
    BY <1>0, <1>4 DEF DelCheck
  <2>2. Fd(t)' = fd /\ Ev(t)' = e /\ local'[t] = events[fd] \ {e}
    BY <1>0, <2>1 DEF Fd, Ev
  <2>3. /\ UNCHANGED tableVars /\ pc[t] \notin DelPoints /\ pc'[t] = "delCtl"
        /\ Only(t)
    BY <1>0, <1>4, <2>1 DEF DelCheck, At, Goto, Only, DelPoints
  <2> QED
    BY <2>1, <2>2, <2>3 DEF Begins
<1>5. ASSUME NEW t \in Threads, DelCtl(t) PROVE Step(t)
  BY <1>0, <1>5 DEF DelCtl, At, Goto, Only, Passes, GoesOn, DelPoints, threadVars
<1>6. ASSUME NEW t \in Threads, DelCount(t) PROVE Step(t)
  BY <1>0, <1>6 DEF DelCount, At, Goto, Only, Counts, threadVars
<1>7. ASSUME NEW t \in Threads, DelStore(t) PROVE Step(t)
  BY <1>0, <1>7 DEF DelStore, At, Goto, Only, Stores, threadVars
<1>8. ASSUME NEW t \in Threads, DelReset(t) PROVE Step(t)
  BY <1>0, <1>8 DEF DelReset, At, Goto, Only, Resets, threadVars
<1>9. ASSUME NEW t \in Threads, CancelCheck(t) PROVE Step(t)
  BY <1>0, <1>9 DEF CancelCheck, At, Goto, Only, Passes, DelPoints
<1>10. ASSUME NEW t \in Threads, CancelCtl(t) PROVE Step(t)
  BY <1>0, <1>10 DEF CancelCtl, At, Goto, Only, Passes, DelPoints
<1>11. ASSUME NEW t \in Threads, Trigger(t) PROVE Step(t)
  <2>1. "READ" \in Kinds /\ "WRITE" \in Kinds
    BY DEF Kinds
  <2>2. CASE Abort(t)
    BY <1>0, <1>11, <2>2 DEF Trigger, At, Abort, Goto, Only, Passes, DelPoints, threadVars
  <2>3. CASE UNCHANGED tableVars /\ UNCHANGED <<arg, pc>>
             /\ \E e \in Kinds : local' = [local EXCEPT ![t] = @ \ {e}]
    BY <1>0, <1>11, <2>3 DEF Trigger, At, Only, Passes, DelPoints
  <2>4. ASSUME NEW e \in Kinds, CanTrigger(Fd(t), e), triggerEvent(Fd(t), e), CountDown,
               Write(t), local' = [local EXCEPT ![t] = @ \ {e}], UNCHANGED <<arg, used, pc>>
        PROVE  Step(t)
    <3>1. pc[t] \notin DelPoints
      BY <1>11 DEF Trigger, At, DelPoints
    <3> QED
      BY <1>0, <2>4, <3>1 DEF Only, Triggers, Triggered
  <2> QED
    BY <1>11, <2>1, <2>2, <2>3, <2>4 DEF Trigger
<1>12. ASSUME NEW t \in Threads, TriggerDone(t) PROVE Step(t)
  BY <1>0, <1>12 DEF TriggerDone, Abort, At, Goto, Only, Passes, DelPoints, threadVars
<1>13. ASSUME NEW t \in Threads, epoll_wait(t) PROVE Step(t)
  BY <1>0, <1>13 DEF epoll_wait, At, Only, Passes, DelPoints
<1>14. ASSUME NEW t \in Threads, DispatchLock(t) PROVE Step(t)
  BY <1>0, <1>14 DEF DispatchLock, At, Goto, Only, Passes, DelPoints
<1>15. ASSUME NEW t \in Threads, Dispatch(t) PROVE Step(t)
  BY <1>0, <1>15 DEF Dispatch, At, Goto, Only, Passes, DelPoints
<1> HIDE DEF Step
<1>16. \/ UNCHANGED <<tableVars, pc, arg, local>>
       \/ \E t \in Threads : Step(t)
  BY <1>1, <1>2, <1>3, <1>4, <1>5, <1>6, <1>7, <1>8, <1>9, <1>10, <1>11, <1>12, <1>13,
     <1>14, <1>15
  DEF Next, CallerStep, DispatcherStep, Threads, Happens, Drained, vars, threadVars
<1> QED
  BY <1>16 DEF Step

(* A thread that has not moved is still at its descriptor and event.       *)
LEMMA StillThere ==
  ASSUME NEW t \in Threads, Only(t)
  PROVE  \A u \in Threads \ {t} :
           pc'[u] = pc[u] /\ Fd(u)' = Fd(u) /\ Ev(u)' = Ev(u) /\ local'[u] = local[u]
  BY DEF Only, Fd, Ev

(* A write to the entry of a descriptor leaves nobody in a delEvent of it, *)
(* unless the table is raced.                                              *)
LEMMA Unraced ==
  ASSUME NEW t \in Threads, Write(t), ~raced'
  PROVE  ~raced /\ \A u \in Threads \ {t} : Deleting(u) => Fd(u) # Fd(t)
  BY DEF Write

(* What a delEvent relies on is kept by the others, who set raced when     *)
(* they write, and by its own steps.                                       *)
LEMMA NextDeletions ==
  ASSUME TypeOK, Deletions, ContextInStep, [Next]_vars PROVE Deletions'
<1>0. /\ pc \in [Threads -> Points] /\ local \in [Threads -> SUBSET Kinds]
      /\ events \in [Fds -> SUBSET Kinds]
      /\ \A t \in Threads : Fd(t) \in Fds /\ Ev(t) \in Kinds
  BY DEF TypeOK, Fd, Ev
<1>1. CASE UNCHANGED <<tableVars, pc, arg, local>>
  BY <1>1 DEF Deletions, Deleting, tableVars, Fd, Ev
<1>2. ASSUME NEW t \in Threads, Only(t), Passes(t) PROVE Deletions'
  BY <1>2, StillThere DEF Deletions, Deleting, Passes, DelPoints, tableVars
<1>3. ASSUME NEW t \in Threads, Only(t), Begins(t) PROVE Deletions'
  BY <1>3, StillThere DEF Deletions, Deleting, Begins, DelPoints, tableVars
<1>4. ASSUME NEW t \in Threads, Only(t), GoesOn(t) PROVE Deletions'
  <2>1. Fd(t)' = Fd(t) /\ Ev(t)' = Ev(t)
    BY <1>4 DEF GoesOn, Fd, Ev
  <2> QED
    BY <1>4, <2>1, StillThere DEF Deletions, Deleting, GoesOn, tableVars
<1>5. ASSUME NEW t \in Threads, Only(t), Adds(t) PROVE Deletions'
  <2> SUFFICES ASSUME ~raced' PROVE Deletions'
    BY DEF Deletions
  <2>1. ~raced /\ \A u \in Threads \ {t} : Deleting(u) => Fd(u) # Fd(t)
    BY <1>5, Unraced DEF Adds
  <2>2. events' = [events EXCEPT ![Fd(t)] = @ \cup {Ev(t)}] /\ context[Fd(t)][Ev(t)] = NoWaiter
    BY <1>5 DEF Adds, Added
  <2>3. ~AtPair(<<Fd(t), Ev(t)>>, "delReset")
    BY <1>0, <2>1, <2>2 DEF ContextInStep
  <2>4. pc[t] \notin DelPoints /\ pc'[t] \notin DelPoints
    BY <1>5 DEF Adds
  <2>5. \A u \in Threads \ {t} : Deleting(u) => events'[Fd(u)] = events[Fd(u)]
    BY <1>0, <2>1, <2>2
  <2>6. \A u \in Threads \ {t} : pc[u] = "delReset" => Ev(u) \notin events'[Fd(u)]
    BY <1>0, <2>1, <2>2, <2>3 DEF AtPair, Deletions
  <2> QED
    BY <1>5, <2>1, <2>4, <2>5, <2>6, StillThere DEF Deletions, Deleting, DelPoints
<1>6. ASSUME NEW t \in Threads, Only(t), Triggers(t) PROVE Deletions'
  <2> SUFFICES ASSUME ~raced' PROVE Deletions'
    BY DEF Deletions
  <2>1. ~raced /\ \A u \in Threads \ {t} : Deleting(u) => Fd(u) # Fd(t)
    BY <1>6, Unraced DEF Triggers
  <2>2. PICK e \in Kinds : events' = [events EXCEPT ![Fd(t)] = @ \ {e}]
    BY <1>6 DEF Triggers, Triggered, triggerEvent
  <2>3. pc[t] \notin DelPoints /\ pc'[t] \notin DelPoints
    BY <1>6 DEF Triggers
  <2>4. \A u \in Threads \ {t} : Deleting(u) => events'[Fd(u)] = events[Fd(u)]
    BY <1>0, <2>1, <2>2
  <2>5. \A u \in Threads \ {t} : pc[u] = "delReset" => Ev(u) \notin events'[Fd(u)]
    BY <1>0, <2>1, <2>2 DEF Deletions
  <2> QED
    BY <1>6, <2>1, <2>3, <2>4, <2>5, StillThere DEF Deletions, Deleting, DelPoints
<1>7. ASSUME NEW t \in Threads, Only(t), Counts(t) PROVE Deletions'
  <2> SUFFICES ASSUME ~raced' PROVE Deletions'
    BY DEF Deletions
  <2>1. ~raced
    BY <1>7, Unraced DEF Counts
  <2>2. Fd(t)' = Fd(t) /\ Ev(t)' = Ev(t)
    BY <1>7 DEF Counts, Fd, Ev
  <2> QED
    BY <1>7, <2>1, <2>2, StillThere DEF Deletions, Deleting, Counts
<1>8. ASSUME NEW t \in Threads, Only(t), Stores(t) PROVE Deletions'
  <2> SUFFICES ASSUME ~raced' PROVE Deletions'
    BY DEF Deletions
  <2>1. ~raced /\ \A u \in Threads \ {t} : Deleting(u) => Fd(u) # Fd(t)
    BY <1>8, Unraced DEF Stores
  <2>2. Fd(t)' = Fd(t) /\ Ev(t)' = Ev(t) /\ pc[t] = "delStore" /\ pc'[t] = "delReset"
    BY <1>8 DEF Stores, Fd, Ev
  <2>3. Ev(t) \in events[Fd(t)] /\ local[t] = events[Fd(t)] \ {Ev(t)}
    BY <2>1, <2>2 DEF Deletions, Deleting
  <2>4. events' = [events EXCEPT ![Fd(t)] = @ \ {Ev(t)}]
    BY <1>8, <2>3 DEF Stores
  <2>5. \A u \in Threads \ {t} : Deleting(u) => events'[Fd(u)] = events[Fd(u)]
    BY <1>0, <2>1, <2>4
  <2>6. \A u \in Threads \ {t} : pc[u] = "delReset" =>
          Ev(u) \notin events'[Fd(u)] /\ ~(Fd(u) = Fd(t) /\ Ev(u) = Ev(t))
    BY <1>0, <2>1, <2>3, <2>4 DEF Deletions
  <2>7. Ev(t) \notin events'[Fd(t)]
    BY <1>0, <2>4
  <2>8. local'[t] = local[t] /\ ~Deleting(t)'
    BY <1>8, <2>2 DEF Stores, Deleting
  <2> QED
    BY <1>8, <2>1, <2>2, <2>5, <2>6, <2>7, <2>8, StillThere DEF Deletions, Deleting
<1>9. ASSUME NEW t \in Threads, Only(t), Resets(t) PROVE Deletions'
  <2>1. Fd(t)' = Fd(t) /\ Ev(t)' = Ev(t)
    BY <1>9 DEF Resets, Fd, Ev
  <2> QED
    BY <1>9, <2>1, StillThere DEF Deletions, Deleting, Resets
<1> QED
  BY <1>1, <1>2, <1>3, <1>4, <1>5, <1>6, <1>7, <1>8, <1>9, DeleteSteps

(* The contexts follow the bits, except for the one that is about to be    *)
(* reset.                                                                  *)
LEMMA NextContextInStep ==
  ASSUME TypeOK, Deletions, ContextInStep, [Next]_vars PROVE ContextInStep'
<1>0. /\ events \in [Fds -> SUBSET Kinds]
      /\ context \in [Fds -> [Kinds -> Waiters \cup {NoWaiter}]]
      /\ \A t \in Threads : Fd(t) \in Fds /\ Ev(t) \in Kinds
  BY DEF TypeOK, Fd, Ev
<1> SUFFICES ASSUME ~raced', NEW fd \in Fds, NEW e \in Kinds
             PROVE  context'[fd][e] # NoWaiter
                      <=> e \in events'[fd] \/ AtPair(<<fd, e>>, "delReset")'
  BY DEF ContextInStep
<1> DEFINE Resetting(t) == pc[t] = "delReset" /\ Fd(t) = fd /\ Ev(t) = e
<1>a. ~raced => (context[fd][e] # NoWaiter
                   <=> e \in events[fd] \/ \E t \in Threads : Resetting(t))
  <2>1. AtPair(<<fd, e>>, "delReset") <=> \E t \in Threads : Resetting(t)
    BY DEF AtPair
  <2> HIDE DEF Resetting
  <2> DEFINE p == <<fd, e>>
  <2>2. p \in Fds \X Kinds /\ p[1] = fd /\ p[2] = e
    OBVIOUS
  <2>3. ~raced => (context[p[1]][p[2]] # NoWaiter
                     <=> p[2] \in events[p[1]] \/ AtPair(p, "delReset"))
    BY <2>2, Zenon DEF ContextInStep
  <2> QED
    BY <2>1, <2>2, <2>3
<1>b. AtPair(<<fd, e>>, "delReset")' <=> \E t \in Threads : Resetting(t)'
  BY DEF AtPair
<1>c. ASSUME NEW t \in Threads, Only(t)
      PROVE  \A u \in Threads \ {t} : Resetting(u)' <=> Resetting(u)
  BY <1>c, StillThere
<1>1. CASE UNCHANGED <<tableVars, pc, arg, local>>
  <2>1. \A t \in Threads : Resetting(t)' <=> Resetting(t)
    BY <1>1 DEF Fd, Ev
  <2> HIDE DEF Resetting
  <2> QED
    BY <1>1, <1>a, <1>b, <2>1 DEF tableVars
<1>2. ASSUME NEW t \in Threads, Only(t), Passes(t) \/ Begins(t) \/ GoesOn(t)
      PROVE  context'[fd][e] # NoWaiter
               <=> e \in events'[fd] \/ AtPair(<<fd, e>>, "delReset")'
  <2>1. ~Resetting(t)' /\ ~Resetting(t) /\ UNCHANGED tableVars
    BY <1>2 DEF Passes, Begins, GoesOn, DelPoints
  <2>2. \A u \in Threads : Resetting(u)' <=> Resetting(u)
    BY <1>2, <1>c, <2>1
  <2> HIDE DEF Resetting
  <2> QED
    BY <1>a, <1>b, <2>1, <2>2 DEF tableVars
<1>3. ASSUME NEW t \in Threads, Only(t), Adds(t)
      PROVE  context'[fd][e] # NoWaiter
               <=> e \in events'[fd] \/ AtPair(<<fd, e>>, "delReset")'
  <2>1. ~Resetting(t)' /\ ~Resetting(t) /\ ~raced
    BY <1>3, Unraced DEF Adds, DelPoints
  <2>2. \A u \in Threads : Resetting(u)' <=> Resetting(u)
    BY <1>3, <1>c, <2>1
  <2>3. PICK w \in Waiters :
          /\ context[Fd(t)][Ev(t)] = NoWaiter
          /\ events' = [events EXCEPT ![Fd(t)] = @ \cup {Ev(t)}]
          /\ context' = [context EXCEPT ![Fd(t)][Ev(t)] = w]
    BY <1>3 DEF Adds, Added
  <2>4. w # NoWaiter
    BY ConstantsAssumption
  <2>5. /\ context'[fd][e] = IF fd = Fd(t) /\ e = Ev(t) THEN w ELSE context[fd][e]
        /\ e \in events'[fd] <=> (fd = Fd(t) /\ e = Ev(t)) \/ e \in events[fd]
    BY <1>0, <2>3
  <2> HIDE DEF Resetting
  <2> QED
    BY <1>a, <1>b, <2>1, <2>2, <2>4, <2>5
<1>4. ASSUME NEW t \in Threads, Only(t), Triggers(t)
      PROVE  context'[fd][e] # NoWaiter
               <=> e \in events'[fd] \/ AtPair(<<fd, e>>, "delReset")'
  <2>1. ~Resetting(t)' /\ ~Resetting(t) /\ ~raced
    BY <1>4, Unraced DEF Triggers, DelPoints
  <2>2. \A u \in Threads : Resetting(u)' <=> Resetting(u)
    BY <1>4, <1>c, <2>1
  <2>3. PICK f \in Kinds :
          /\ f \in events[Fd(t)]
          /\ events' = [events EXCEPT ![Fd(t)] = @ \ {f}]
          /\ context' = [context EXCEPT ![Fd(t)][f] = NoWaiter]
    BY <1>4 DEF Triggers, Triggered, CanTrigger, triggerEvent
  <2>4. /\ context'[fd][e] = IF fd = Fd(t) /\ e = f THEN NoWaiter ELSE context[fd][e]
        /\ e \in events'[fd] <=> ~(fd = Fd(t) /\ e = f) /\ e \in events[fd]
    BY <1>0, <2>3
  <2>5. ~(fd = Fd(t) /\ e = f /\ \E u \in Threads : Resetting(u))
    BY <2>1, <2>3 DEF Deletions
  <2> HIDE DEF Resetting
  <2> QED
    BY <1>a, <1>b, <2>1, <2>2, <2>4, <2>5
<1>5. ASSUME NEW t \in Threads, Only(t), Counts(t)
      PROVE  context'[fd][e] # NoWaiter
               <=> e \in events'[fd] \/ AtPair(<<fd, e>>, "delReset")'
  <2>1. ~Resetting(t)' /\ ~Resetting(t) /\ ~raced /\ UNCHANGED <<events, context>>
    BY <1>5, Unraced DEF Counts
  <2>2. \A u \in Threads : Resetting(u)' <=> Resetting(u)
    BY <1>5, <1>c, <2>1
  <2> HIDE DEF Resetting
  <2> QED
    BY <1>a, <1>b, <2>1, <2>2
<1>6. ASSUME NEW t \in Threads, Only(t), Stores(t)
      PROVE  context'[fd][e] # NoWaiter
               <=> e \in events'[fd] \/ AtPair(<<fd, e>>, "delReset")'
  <2>1. /\ ~raced /\ pc[t] = "delStore" /\ pc'[t] = "delReset"
        /\ Fd(t)' = Fd(t) /\ Ev(t)' = Ev(t) /\ UNCHANGED context
    BY <1>6, Unraced DEF Stores, Fd, Ev
  <2>2. Ev(t) \in events[Fd(t)] /\ local[t] = events[Fd(t)] \ {Ev(t)}
    BY <2>1 DEF Deletions, Deleting
  <2>3. e \in events'[fd] <=> ~(fd = Fd(t) /\ e = Ev(t)) /\ e \in events[fd]
    BY <1>0, <1>6, <2>2 DEF Stores
  <2>4. ~Resetting(t) /\ (Resetting(t)' <=> fd = Fd(t) /\ e = Ev(t))
    BY <2>1
  <2> HIDE DEF Resetting
  <2>5. \A u \in Threads \ {t} : Resetting(u)' <=> Resetting(u)
    BY <1>6, <1>c
  <2> QED
    BY <1>a, <1>b, <2>1, <2>2, <2>3, <2>4, <2>5
<1>7. ASSUME NEW t \in Threads, Only(t), Resets(t)
      PROVE  context'[fd][e] # NoWaiter
               <=> e \in events'[fd] \/ AtPair(<<fd, e>>, "delReset")'
  <2>1. ~raced /\ pc[t] = "delReset" /\ pc'[t] = "user" /\ UNCHANGED events
    BY <1>7 DEF Resets
  <2>2. Ev(t) \notin events[Fd(t)]
    BY <2>1 DEF Deletions
  <2>3. context'[fd][e] = IF fd = Fd(t) /\ e = Ev(t) THEN NoWaiter ELSE context[fd][e]
    BY <1>0, <1>7 DEF Resets
  <2>4. fd = Fd(t) /\ e = Ev(t) => \A u \in Threads \ {t} : ~Resetting(u)
    BY <2>1 DEF Deletions
  <2>5. ~Resetting(t)' /\ (Resetting(t) <=> fd = Fd(t) /\ e = Ev(t))
    BY <2>1
  <2> HIDE DEF Resetting
  <2>6. \A u \in Threads \ {t} : Resetting(u)' <=> Resetting(u)
    BY <1>7, <1>c
  <2> QED
    BY <1>a, <1>b, <2>1, <2>2, <2>3, <2>4, <2>5, <2>6
<1> QED
  BY <1>1, <1>2, <1>3, <1>4, <1>5, <1>6, <1>7, DeleteSteps

(* addEvent counts one up, triggerEvent and delEvent one down, each the    *)
(* event it is about.                                                      *)
LEMMA NextCountInStep ==
  ASSUME Countable, TypeOK, Deletions, ContextInStep, CountInStep, [Next]_vars
  PROVE  CountInStep'
<1> DEFINE M == 2^CountBits
           R == Counted
           S == Counted'
<1>0. /\ events \in [Fds -> SUBSET Kinds]
      /\ \A t \in Threads : Fd(t) \in Fds /\ Ev(t) \in Kinds
  BY DEF TypeOK, Fd, Ev
<1>1. /\ IsFiniteSet(R) /\ Cardinality(R) \in Nat /\ Cardinality(R) < M
      /\ IsFiniteSet(S) /\ Cardinality(S) \in Nat /\ Cardinality(S) < M
  <2>1. R \in SUBSET (Fds \X Kinds) /\ S \in SUBSET (Fds \X Kinds)
    BY DEF Counted
  <2> QED
    BY <2>1, RegisteredCountable
<1>2. M \in Nat /\ M > 0
  BY ConstantsAssumption
<1> SUFFICES ASSUME ~raced' PROVE m_pendingEventCount' = Cardinality(S)
  BY DEF CountInStep
<1>3. ~raced => m_pendingEventCount = Cardinality(R)
  BY DEF CountInStep
<1>4. CASE UNCHANGED <<tableVars, pc, arg, local>>
  <2>1. S = R
    BY <1>4 DEF tableVars, Counted, AtPair, Fd, Ev
  <2> HIDE DEF R, S
  <2> QED
    BY <1>3, <1>4, <2>1 DEF tableVars
<1>5. ASSUME NEW t \in Threads, Only(t), Passes(t) \/ Begins(t) \/ GoesOn(t)
      PROVE  m_pendingEventCount' = Cardinality(S)
  <2>1. pc[t] # "delStore" /\ pc'[t] # "delStore" /\ UNCHANGED tableVars
    BY <1>5 DEF Passes, Begins, GoesOn, DelPoints
  <2>2. \A p : AtPair(p, "delStore")' <=> AtPair(p, "delStore")
    BY <1>5, <2>1, StillThere DEF AtPair
  <2>3. S = R
    BY <2>1, <2>2 DEF tableVars, Counted
  <2> HIDE DEF R, S
  <2> QED
    BY <1>3, <2>1, <2>3 DEF tableVars
<1>6. ASSUME NEW t \in Threads, Only(t), Adds(t)
      PROVE  m_pendingEventCount' = Cardinality(S)
  <2>1. ~raced /\ \A u \in Threads \ {t} : Deleting(u) => Fd(u) # Fd(t)
    BY <1>6, Unraced DEF Adds
  <2>2. pc[t] # "delStore" /\ pc'[t] # "delStore"
    BY <1>6 DEF Adds, DelPoints
  <2>3. \A p : AtPair(p, "delStore")' <=> AtPair(p, "delStore")
    BY <1>6, <2>2, StillThere DEF AtPair
  <2>4. /\ context[Fd(t)][Ev(t)] = NoWaiter
        /\ events' = [events EXCEPT ![Fd(t)] = @ \cup {Ev(t)}]
        /\ m_pendingEventCount' = (m_pendingEventCount + 1) % M
    BY <1>6 DEF Adds, Added
  <2> DEFINE q == <<Fd(t), Ev(t)>>
  <2>5. ~AtPair(q, "delStore")
    BY <2>1, <2>2 DEF AtPair, Deleting
  <2>6. q \notin R
    BY <1>0, <2>1, <2>4 DEF ContextInStep, Counted
  <2>7. S = R \cup {q}
    <3>1. q \in Fds \X Kinds
      BY <1>0
    <3>2. \A p \in Fds \X Kinds : p[2] \in events'[p[1]] <=> p = q \/ p[2] \in events[p[1]]
      BY <1>0, <2>4
    <3> HIDE DEF q
    <3> QED
      BY <2>3, <2>5, <3>1, <3>2 DEF Counted
  <2> HIDE DEF M, R, S, q
  <2>8. Cardinality(S) = Cardinality(R) + 1
    BY <1>1, <2>6, <2>7, FS_AddElement
  <2> QED
    BY <1>1, <1>2, <1>3, <2>1, <2>4, <2>8
<1>7. ASSUME NEW t \in Threads, Only(t), Triggers(t)
      PROVE  m_pendingEventCount' = Cardinality(S)
  <2>1. ~raced /\ \A u \in Threads \ {t} : Deleting(u) => Fd(u) # Fd(t)
    BY <1>7, Unraced DEF Triggers
  <2>2. pc[t] # "delStore" /\ pc'[t] # "delStore"
    BY <1>7 DEF Triggers, DelPoints
  <2>3. \A p : AtPair(p, "delStore")' <=> AtPair(p, "delStore")
    BY <1>7, <2>2, StillThere DEF AtPair
  <2>4. PICK e \in Kinds :
          /\ e \in events[Fd(t)]
          /\ events' = [events EXCEPT ![Fd(t)] = @ \ {e}]
          /\ m_pendingEventCount' = (m_pendingEventCount - 1) % M
    BY <1>7 DEF Triggers, Triggered, CanTrigger, triggerEvent, CountDown
  <2> DEFINE q == <<Fd(t), e>>
  <2>5. ~AtPair(q, "delStore")
    BY <2>1, <2>2 DEF AtPair, Deleting
  <2>6. q \in R
    BY <1>0, <2>4, <2>5 DEF Counted
  <2>7. S = R \ {q}
    <3>1. \A p \in Fds \X Kinds : p[2] \in events'[p[1]] <=> p # q /\ p[2] \in events[p[1]]
      BY <1>0, <2>4
    <3> HIDE DEF q
    <3> QED
      BY <2>3, <3>1 DEF Counted
  <2> HIDE DEF M, R, S, q
  <2>8. Cardinality(S) = Cardinality(R) - 1
    BY <1>1, <2>6, <2>7, FS_RemoveElement
  <2> QED
    BY <1>1, <1>2, <1>3, <2>1, <2>4, <2>8
<1>8. ASSUME NEW t \in Threads, Only(t), Counts(t)
      PROVE  m_pendingEventCount' = Cardinality(S)
  <2>1. ~raced /\ \A u \in Threads \ {t} : Deleting(u) => Fd(u) # Fd(t)
    BY <1>8, Unraced DEF Counts
  <2>2. /\ pc[t] = "delCount" /\ pc'[t] = "delStore" /\ UNCHANGED events
        /\ Fd(t)' = Fd(t) /\ Ev(t)' = Ev(t)
        /\ m_pendingEventCount' = (m_pendingEventCount - 1) % M
    BY <1>8 DEF Counts, Fd, Ev, CountDown
  <2> DEFINE q == <<Fd(t), Ev(t)>>
  <2>3. ~AtPair(q, "delStore")
    BY <2>1, <2>2 DEF AtPair, Deleting
  <2>4. q \in R
    BY <1>0, <2>1, <2>2, <2>3 DEF Counted, Deletions, Deleting
  <2>5. \A p \in Fds \X Kinds : AtPair(p, "delStore")' <=> p = q \/ AtPair(p, "delStore")
    BY <1>0, <1>8, <2>2, StillThere DEF AtPair
  <2>6. S = R \ {q}
    <3> HIDE DEF q
    <3> QED
      BY <2>2, <2>5 DEF Counted
  <2> HIDE DEF M, R, S, q
  <2>7. Cardinality(S) = Cardinality(R) - 1
    BY <1>1, <2>4, <2>6, FS_RemoveElement
  <2> QED
    BY <1>1, <1>2, <1>3, <2>1, <2>2, <2>7
<1>9. ASSUME NEW t \in Threads, Only(t), Stores(t)
      PROVE  m_pendingEventCount' = Cardinality(S)
  <2>1. ~raced /\ \A u \in Threads \ {t} : Deleting(u) => Fd(u) # Fd(t)
    BY <1>9, Unraced DEF Stores
  <2>2. /\ pc[t] = "delStore" /\ pc'[t] = "delReset" /\ UNCHANGED m_pendingEventCount
        /\ Fd(t)' = Fd(t) /\ Ev(t)' = Ev(t) /\ events' = [events EXCEPT ![Fd(t)] = local[t]]
    BY <1>9 DEF Stores, Fd, Ev
  <2>3. local[t] = events[Fd(t)] \ {Ev(t)}
    BY <2>1, <2>2 DEF Deletions, Deleting
  <2> DEFINE q == <<Fd(t), Ev(t)>>
  <2>4. \A p \in Fds \X Kinds : p[2] \in events'[p[1]] <=> p # q /\ p[2] \in events[p[1]]
    BY <1>0, <2>2, <2>3
  <2>5. AtPair(q, "delStore")
    BY <2>2 DEF AtPair
  <2>6. \A p \in Fds \X Kinds : p # q => (AtPair(p, "delStore")' <=> AtPair(p, "delStore"))
    BY <1>9, <2>2, StillThere DEF AtPair
  <2>7. S = R
    <3> HIDE DEF q
    <3> QED
      BY <2>4, <2>5, <2>6 DEF Counted
  <2> HIDE DEF R, S
  <2> QED
    BY <1>3, <2>1, <2>2, <2>7
<1>10. ASSUME NEW t \in Threads, Only(t), Resets(t)
      PROVE  m_pendingEventCount' = Cardinality(S)
  <2>1. /\ pc[t] = "delReset" /\ pc'[t] = "user"
        /\ UNCHANGED <<events, m_pendingEventCount, raced>>
    BY <1>10 DEF Resets
  <2>2. \A p : AtPair(p, "delStore")' <=> AtPair(p, "delStore")
    BY <1>10, <2>1, StillThere DEF AtPair
  <2>3. S = R
    BY <2>1, <2>2 DEF Counted
  <2> HIDE DEF R, S
  <2> QED
    BY <1>3, <2>1, <2>3
<1> QED
  BY <1>4, <1>5, <1>6, <1>7, <1>8, <1>9, <1>10, DeleteSteps

(* With delEvent, duplicate addEvents and both kinds of events: the count  *)
(* and the contexts stay in step with the bits, as long as no thread       *)
(* writes to the entry of a descriptor between the test of a delEvent on   *)
(* it and the write of events.                                             *)
THEOREM DeleteInStepCorrect == ASSUME Countable PROVE Spec => []DeleteInStep
<1>1. Init => Deletions /\ ContextInStep /\ CountInStep
  <2> SUFFICES ASSUME Init PROVE Deletions /\ ContextInStep /\ CountInStep
    OBVIOUS
  <2>1. \A t \in Threads : pc[t] \in {"user", "wait"}
    BY DEF Init
  <2>2. Counted = {}
    BY DEF Init, Counted
  <2>3. Cardinality({}) = 0
    BY FS_EmptySet
  <2>4. CountInStep
    BY <2>2, <2>3 DEF Init, CountInStep
  <2>5. ContextInStep
    BY <2>1 DEF Init, ContextInStep, AtPair
  <2> QED
    BY <2>1, <2>4, <2>5 DEF Deletions, Deleting
<1>2. TypeOK /\ Deletions /\ ContextInStep /\ CountInStep /\ [Next]_vars
        => Deletions' /\ ContextInStep' /\ CountInStep'
  BY NextDeletions, NextContextInStep, NextCountInStep
<1>3. ContextInStep /\ CountInStep => DeleteInStep
  BY DEF DeleteInStep, ContextInStep, CountInStep, Counted, AtPair
<1> QED
  BY TypeCorrect, <1>1, <1>2, <1>3, PTL DEF Spec

-----------------------------------------------------------------------------
(* The protocol of the descriptor mutex, for applications that only read.  *)

(* The application reads only, adds no event twice and does not call       *)
(* delEvent: the use for which the masks of cancelEvent and idle() are     *)
(* right.                                                                  *)
Reading == Events \subseteq {"READ"} /\ ~Duplicates /\ ~Deletes

(* epoll watches the descriptor for exactly the registered events.         *)
Settled(fd) ==
  /\ interest[fd] = MaskOf(events[fd])
  /\ fd \in registered <=> events[fd] # {}

(* Where a thread holds the mutex of its descriptor.                       *)
InsidePoints == {"addCtl", "addSet", "dispatch", "trigger", "triggerAll"}

(* What a thread that holds the mutex may rely on at each point: between   *)
(* epoll_ctl and the write to events they differ in a known way.           *)
Inside(t) ==
  /\ pc[t] \in InsidePoints => mutex[Fd(t)] = t
  /\ pc[t] = "addCtl" => Settled(Fd(t)) /\ events[Fd(t)] = {}
  /\ pc[t] = "addSet" =>
       interest[Fd(t)] = {"IN"} /\ Fd(t) \in registered /\ events[Fd(t)] = {}
  /\ pc[t] = "dispatch" => Settled(Fd(t))
  /\ pc[t] \in {"trigger", "triggerAll"} =>
       /\ interest[Fd(t)] = {} /\ Fd(t) \notin registered
       /\ events[Fd(t)] = local[t] \cap {"READ"}
  /\ pc[t] = "trigger" => "WRITE" \notin local[t]

(* Descriptors nobody holds are settled, and no assertion has failed.      *)
ReadOnly ==
  /\ \A fd \in Fds :
       /\ events[fd] \subseteq {"READ"} /\ interest[fd] \subseteq {"IN"}
       /\ mutex[fd] = NoThread => Settled(fd)
  /\ \A t \in Threads : Ev(t) = "READ" /\ pc[t] # "aborted" /\ Inside(t)
  /\ \A t \in Threads, fd \in Fds : "OUT" \notin evs[t][fd]

(* No descriptor is registered initially.                                  *)
LEMMA InitReadOnly == Init => ReadOnly
<1> SUFFICES ASSUME Init PROVE ReadOnly
  OBVIOUS
<1>1. MaskOf({}) = {}
  BY DEF MaskOf
<1>2. \A t \in Threads : Ev(t) = "READ" /\ pc[t] \in {"user", "wait"}
  BY DEF Init, Ev
<1>3. \A t \in Threads, fd \in Fds : evs[t][fd] = {}
  BY DEF Init
<1> QED
  BY <1>1, <1>2, <1>3 DEF Init, ReadOnly, Settled, Inside, InsidePoints

(* The step leaves the descriptor alone.                                   *)
SameFd(g) ==
  /\ events'[g] = events[g] /\ interest'[g] = interest[g] /\ mutex'[g] = mutex[g]
  /\ g \in registered' <=> g \in registered

(* The step changes no descriptor but fd, and fd only if no other thread   *)
(* holds its mutex; it moves no thread but t.                              *)
OnlyOn(t, fd) ==
  /\ mutex[fd] \in {NoThread, t} \/ SameFd(fd)
  /\ \A g \in Fds \ {fd} : SameFd(g)
  /\ \A u \in Threads \ {t} : pc'[u] = pc[u] /\ arg'[u] = arg[u] /\ local'[u] = local[u]

(* For a step on one descriptor it is enough to look at that descriptor    *)
(* and at the thread that takes the step.                                  *)
LEMMA OneDescriptor ==
  ASSUME TypeOK, ReadOnly, NEW t \in Threads, NEW fd \in Fds, OnlyOn(t, fd),
         events'[fd] \subseteq {"READ"}, interest'[fd] \subseteq {"IN"},
         mutex'[fd] = NoThread => Settled(fd)',
         Ev(t)' = "READ", pc'[t] # "aborted", Inside(t)',
         \A u \in Threads, g \in Fds : "OUT" \notin evs'[u][g]
  PROVE  ReadOnly'
<1>1. ASSUME NEW g \in Fds
      PROVE  /\ events'[g] \subseteq {"READ"} /\ interest'[g] \subseteq {"IN"}
             /\ mutex'[g] = NoThread => Settled(g)'
  BY DEF ReadOnly, OnlyOn, SameFd, Settled
<1>2. ASSUME NEW u \in Threads \ {t}
      PROVE  Ev(u)' = "READ" /\ pc'[u] # "aborted" /\ Inside(u)'
  <2>1. Ev(u)' = "READ" /\ pc'[u] # "aborted" /\ Fd(u)' = Fd(u) /\ Fd(u) \in Fds
    BY DEF ReadOnly, OnlyOn, Ev, Fd, TypeOK
  <2>2. pc'[u] = pc[u] /\ local'[u] = local[u] /\ Inside(u)
    BY DEF OnlyOn, ReadOnly
  <2>3. CASE pc[u] \notin InsidePoints
    BY <2>2, <2>1, <2>3 DEF Inside, InsidePoints
  <2>4. CASE pc[u] \in InsidePoints
    <3>1. Fd(u) # fd \/ SameFd(fd)
      BY <2>2, <2>4, ConstantsAssumption DEF OnlyOn, Inside
    <3>2. SameFd(Fd(u))
      BY <2>1, <3>1 DEF OnlyOn
    <3> QED
      BY <2>1, <2>2, <3>2 DEF Inside, Settled, SameFd
  <2> QED
    BY <2>1, <2>3, <2>4
<1> QED
  BY <1>1, <1>2 DEF ReadOnly

(* The masks that occur when only READ is used.                            *)
LEMMA MaskRead == MaskOf({}) = {} /\ MaskOf({"READ"}) = {"IN"}
  BY DEF MaskOf

(* Nothing about writing is reported unless epoll_wait reports it.         *)
LEMMA NoOut ==
  ASSUME ReadOnly, UNCHANGED evs PROVE \A u \in Threads, g \in Fds : "OUT" \notin evs'[u][g]
  BY DEF ReadOnly

(* The triggerEvent calls find the event registered, and leave the         *)
(* descriptor settled when the mutex is released.                          *)
LEMMA TriggerReadOnly ==
  ASSUME TypeOK, Matched, ReadOnly, NEW t \in Threads, Trigger(t) \/ TriggerDone(t)
  PROVE  ReadOnly'
<1>1. /\ Fd(t) \in Fds /\ local[t] \subseteq {"READ", "WRITE"}
      /\ mutex[Fd(t)] = t /\ interest[Fd(t)] = {} /\ Fd(t) \notin registered
      /\ events[Fd(t)] = local[t] \cap {"READ"}
      /\ pc[t] = "trigger" => "WRITE" \notin local[t]
      /\ Ev(t) = "READ" /\ pc[t] \in {"trigger", "triggerAll"}
  BY DEF TypeOK, Kinds, Fd, ReadOnly, Inside, InsidePoints, Trigger, TriggerDone, At
<1>2. CASE Trigger(t)
  <2> DEFINE e == IF "READ" \in local[t] THEN "READ" ELSE "WRITE"
  <2>1. e \in local[t] /\ e \in Kinds
    BY <1>1, <1>2 DEF Trigger, Kinds
  <2>2. e = "READ" => CanTrigger(Fd(t), e)
    BY <1>1, <2>1 DEF CanTrigger, Matched
  <2>3. ~Abort(t)
    BY <1>1, <1>2, <2>1, <2>2 DEF Trigger, Abort, Goto, TypeOK
  <2>4. /\ UNCHANGED <<epollVars, arg, evs, mutex, pc>>
        /\ local' = [local EXCEPT ![t] = @ \ {e}]
    BY <1>1, <1>2, <2>1, <2>2, <2>3 DEF Trigger
  <2>5. events' = IF e = "READ" THEN [events EXCEPT ![Fd(t)] = @ \ {e}] ELSE events
    BY <1>1, <1>2, <2>1, <2>2, <2>3 DEF Trigger, triggerEvent, tableVars
  <2>6. OnlyOn(t, Fd(t))
    BY <1>1, <2>4, <2>5 DEF OnlyOn, SameFd, TypeOK, epollVars
  <2>7. /\ local'[t] = local[t] \ {e} /\ Fd(t)' = Fd(t) /\ Ev(t)' = "READ"
        /\ events'[Fd(t)] = events[Fd(t)] \ {e}
    BY <1>1, <2>4, <2>5 DEF TypeOK, Fd, Ev
  <2>8. Inside(t)'
    BY <1>1, <2>4, <2>7 DEF Inside, InsidePoints, epollVars
  <2>9. /\ events'[Fd(t)] \subseteq {"READ"} /\ interest'[Fd(t)] \subseteq {"IN"}
        /\ mutex'[Fd(t)] # NoThread /\ pc'[t] # "aborted"
    BY <1>1, <2>4, <2>7, ConstantsAssumption DEF epollVars
  <2> QED
    BY <1>1, <2>4, <2>6, <2>7, <2>8, <2>9, NoOut, OneDescriptor
<1>3. CASE TriggerDone(t)
  <2>1. events[Fd(t)] = {} /\ ~Abort(t)
    BY <1>1, <1>3 DEF TriggerDone, Abort, Goto, TypeOK
  <2>2. /\ Release(Fd(t)) /\ UNCHANGED <<tableVars, epollVars, threadVars>>
        /\ Goto(t, IF t \in Callers THEN "user" ELSE "wait")
    BY <1>1, <1>3, <2>1 DEF TriggerDone, Abort
  <2>3. OnlyOn(t, Fd(t))
    BY <1>1, <2>2 DEF OnlyOn, SameFd, TypeOK, Release, Goto, tableVars, epollVars, threadVars
  <2>4. pc'[t] \in {"user", "wait"} /\ Fd(t)' = Fd(t) /\ Ev(t)' = "READ"
    BY <1>1, <2>2 DEF Goto, TypeOK, Fd, Ev, threadVars
  <2>5. Inside(t)'
    BY <2>4 DEF Inside, InsidePoints
  <2>6. Settled(Fd(t))' /\ events'[Fd(t)] = {} /\ interest'[Fd(t)] = {}
    BY <1>1, <2>1, <2>2, <2>4, MaskRead DEF Settled, tableVars, epollVars
  <2>7. UNCHANGED evs
    BY <2>2 DEF threadVars
  <2> QED
    BY <1>1, <2>3, <2>4, <2>5, <2>6, <2>7, NoOut, OneDescriptor
<1> QED
  BY <1>2, <1>3

(* addEvent adds a descriptor that is not registered, and its context is   *)
(* free.                                                                   *)
LEMMA AddReadOnly ==
  ASSUME Reading, TypeOK, Matched, ReadOnly, NEW t \in Threads,
         AddLock(t) \/ AddCtl(t) \/ AddSet(t)
  PROVE  ReadOnly'
<1>1. Fd(t) \in Fds /\ Ev(t) = "READ" /\ events[Fd(t)] \subseteq {"READ"}
  BY DEF TypeOK, Fd, ReadOnly
<1>2. CASE AddLock(t)
  <2>1. PICK fd \in Fds, e \in Events :
          /\ e \notin events[fd] /\ Acquire(t, fd)
          /\ arg' = [arg EXCEPT ![t] = [fd |-> fd, event |-> e]]
    BY <1>2 DEF AddLock, Reading
  <2>2. e = "READ" /\ Goto(t, "addCtl") /\ UNCHANGED <<tableVars, epollVars, local, evs>>
    BY <1>2 DEF AddLock, Reading
  <2>3. events[fd] = {} /\ Settled(fd) /\ mutex[fd] = NoThread
    BY <2>1, <2>2 DEF ReadOnly, Acquire
  <2>4. Fd(t)' = fd /\ Ev(t)' = "READ" /\ pc'[t] = "addCtl" /\ mutex'[fd] = t
    BY <2>1, <2>2 DEF Fd, Ev, Goto, Acquire, TypeOK
  <2>5. OnlyOn(t, fd)
    BY <2>1, <2>2 DEF OnlyOn, SameFd, Acquire, Goto, TypeOK, tableVars, epollVars
  <2>6. Settled(fd)' /\ events'[fd] = {} /\ interest'[fd] = {}
    BY <2>2, <2>3, MaskRead DEF Settled, tableVars, epollVars
  <2>7. Inside(t)'
    BY <2>4, <2>6 DEF Inside, InsidePoints, Settled
  <2> QED
    BY <2>2, <2>4, <2>5, <2>6, <2>7, NoOut, OneDescriptor
<1>3. CASE AddCtl(t)
  <2>1. mutex[Fd(t)] = t /\ Settled(Fd(t)) /\ events[Fd(t)] = {}
    BY <1>3 DEF AddCtl, At, ReadOnly, Inside, InsidePoints
  <2>2. Fd(t) \notin registered
    BY <2>1 DEF Settled
  <2>3. /\ epoll_ctl("ADD", Fd(t), MaskOf({"READ"}), TRUE)
        /\ Goto(t, "addSet") /\ UNCHANGED <<tableVars, threadVars, mutex>>
    BY <1>1, <1>3, <2>1, <2>2 DEF AddCtl, CtlSucceeds
  <2>4. /\ interest'[Fd(t)] = {"IN"} /\ Fd(t) \in registered' /\ events'[Fd(t)] = {}
        /\ mutex'[Fd(t)] = t
    BY <1>1, <2>1, <2>3, MaskRead DEF epoll_ctl, TypeOK, tableVars
  <2>5. OnlyOn(t, Fd(t))
    BY <1>1, <2>1, <2>3 DEF OnlyOn, SameFd, epoll_ctl, Goto, TypeOK, tableVars, threadVars
  <2>6. Fd(t)' = Fd(t) /\ Ev(t)' = "READ" /\ pc'[t] = "addSet" /\ UNCHANGED evs
    BY <1>1, <2>3 DEF Fd, Ev, Goto, TypeOK, threadVars
  <2>7. Inside(t)'
    BY <2>4, <2>6 DEF Inside, InsidePoints
  <2>8. t # NoThread
    BY ConstantsAssumption
  <2> QED
    BY <1>1, <2>4, <2>5, <2>6, <2>7, <2>8, NoOut, OneDescriptor
<1>4. CASE AddSet(t)
  <2>1. /\ mutex[Fd(t)] = t /\ interest[Fd(t)] = {"IN"} /\ Fd(t) \in registered
        /\ events[Fd(t)] = {}
    BY <1>4 DEF AddSet, At, ReadOnly, Inside, InsidePoints
  <2>2. context[Fd(t)][Ev(t)] = NoWaiter
    BY <1>1, <2>1 DEF Matched, Kinds
  <2>3. /\ events' = [events EXCEPT ![Fd(t)] = @ \cup {Ev(t)}]
        /\ Release(Fd(t)) /\ Goto(t, "user") /\ UNCHANGED <<epollVars, threadVars>>
    BY <1>4, <2>2 DEF AddSet, Unused
  <2>4. OnlyOn(t, Fd(t))
    BY <1>1, <2>1, <2>3 DEF OnlyOn, SameFd, Release, Goto, TypeOK, epollVars, threadVars
  <2>5. /\ Fd(t)' = Fd(t) /\ Ev(t)' = "READ" /\ pc'[t] = "user" /\ UNCHANGED evs
        /\ events'[Fd(t)] = {"READ"} /\ interest'[Fd(t)] = {"IN"}
        /\ registered' = registered
    BY <1>1, <2>1, <2>3 DEF Fd, Ev, Goto, TypeOK, epollVars, threadVars
  <2>6. Settled(Fd(t))'
    BY <2>1, <2>5, MaskRead DEF Settled
  <2>7. Inside(t)'
    BY <2>5 DEF Inside, InsidePoints
  <2> QED
    BY <1>1, <2>4, <2>5, <2>6, <2>7, NoOut, OneDescriptor
<1> QED
  BY <1>2, <1>3, <1>4

(* cancelEvent and cancelAll find the event gone, or remove the only one   *)
(* there is: the stale test of events does no harm.                        *)
LEMMA CancelReadOnly ==
  ASSUME TypeOK, ReadOnly, NEW t \in Threads, CancelCheck(t) \/ CancelCtl(t)
  PROVE  ReadOnly'
<1>1. /\ Fd(t) \in Fds /\ Ev(t) = "READ"
      /\ events[Fd(t)] \subseteq {"READ"} /\ interest[Fd(t)] \subseteq {"IN"}
  BY DEF TypeOK, Fd, ReadOnly
<1>2. CASE CancelCheck(t)
  <2>1. PICK fd \in Fds, e \in Kinds :
          e \in events[fd] /\ arg' = [arg EXCEPT ![t] = [fd |-> fd, event |-> e]]
    BY <1>2 DEF CancelCheck, TypeOK
  <2>2. e = "READ" /\ UNCHANGED <<tableVars, epollVars, local, evs, mutex>>
    BY <1>2, <2>1 DEF CancelCheck, ReadOnly
  <2>3. Fd(t)' = fd /\ Ev(t)' = "READ" /\ pc'[t] \in {"cancelLock", "allLock"}
    BY <1>2, <2>1, <2>2 DEF CancelCheck, Goto, Fd, Ev, TypeOK
  <2>4. OnlyOn(t, fd)
    BY <1>2, <2>1, <2>2
    DEF CancelCheck, Goto, OnlyOn, SameFd, TypeOK, tableVars, epollVars
  <2>5. Inside(t)'
    BY <2>3 DEF Inside, InsidePoints
  <2>6. /\ events'[fd] \subseteq {"READ"} /\ interest'[fd] \subseteq {"IN"}
        /\ mutex'[fd] = NoThread => Settled(fd)'
    BY <2>2 DEF ReadOnly, Settled, tableVars, epollVars
  <2> QED
    BY <2>2, <2>3, <2>4, <2>5, <2>6, NoOut, OneDescriptor
<1>3. CASE CancelCtl(t)
  <2>1. mutex[Fd(t)] = NoThread /\ Settled(Fd(t)) /\ UNCHANGED <<tableVars, arg, evs>>
    BY <1>1, <1>3 DEF CancelCtl, Acquire, ReadOnly
  <2>2. events[Fd(t)] \ {Ev(t)} = {}
    BY <1>1
  <2>3. Fd(t)' = Fd(t) /\ Ev(t)' = "READ"
    BY <1>1, <2>1 DEF Fd, Ev
  <2>4. CASE Fd(t) \in registered
    <3>1. /\ Acquire(t, Fd(t)) /\ epoll_ctl("DEL", Fd(t), {"IN"}, FALSE)
          /\ \/ /\ local' = [local EXCEPT ![t] = Kinds] /\ Goto(t, "triggerAll")
             \/ /\ local' = [local EXCEPT ![t] = {Ev(t)}] /\ Goto(t, "trigger")
      BY <1>3, <2>2, <2>4 DEF CancelCtl, CtlSucceeds, ModOrDel
    <3>2. events[Fd(t)] = {"READ"}
      BY <1>1, <2>1, <2>4 DEF Settled
    <3>3. /\ interest'[Fd(t)] = {} /\ Fd(t) \notin registered' /\ mutex'[Fd(t)] = t
          /\ events'[Fd(t)] = {"READ"}
      BY <1>1, <2>1, <3>1, <3>2 DEF epoll_ctl, Acquire, TypeOK, tableVars
    <3>4. \/ pc'[t] = "triggerAll" /\ local'[t] = Kinds
          \/ pc'[t] = "trigger" /\ local'[t] = {"READ"}
      BY <1>1, <3>1 DEF Goto, TypeOK
    <3>5. OnlyOn(t, Fd(t))
      BY <1>1, <2>1, <3>1 DEF OnlyOn, SameFd, epoll_ctl, Acquire, Goto, TypeOK, tableVars
    <3>6. Inside(t)'
      BY <2>3, <3>3, <3>4 DEF Inside, InsidePoints, Kinds
    <3>7. t # NoThread
      BY ConstantsAssumption
    <3> QED
      BY <1>1, <2>1, <2>3, <3>3, <3>4, <3>5, <3>6, <3>7, NoOut, OneDescriptor
  <2>5. CASE Fd(t) \notin registered
    <3>1. Goto(t, "user") /\ UNCHANGED <<epollVars, local, mutex>>
      BY <1>3, <2>2, <2>5 DEF CancelCtl, CtlSucceeds, ModOrDel
    <3>2. OnlyOn(t, Fd(t)) /\ pc'[t] = "user"
      BY <1>1, <2>1, <3>1 DEF OnlyOn, SameFd, Goto, TypeOK, tableVars, epollVars
    <3>3. /\ events'[Fd(t)] \subseteq {"READ"} /\ interest'[Fd(t)] \subseteq {"IN"}
          /\ Settled(Fd(t))'
      BY <1>1, <2>1, <2>3, <3>1 DEF Settled, tableVars, epollVars
    <3>4. Inside(t)'
      BY <3>2 DEF Inside, InsidePoints
    <3> QED
      BY <1>1, <2>1, <2>3, <3>2, <3>3, <3>4, NoOut, OneDescriptor
  <2> QED
    BY <2>4, <2>5
<1> QED
  BY <1>2, <1>3

(* idle() triggers READ only, and removes the registration when it does.   *)
LEMMA DispatchReadOnly ==
  ASSUME TypeOK, ReadOnly, NEW t \in Threads,
         epoll_wait(t) \/ DispatchLock(t) \/ Dispatch(t)
  PROVE  ReadOnly'
<1>1. /\ Fd(t) \in Fds /\ Ev(t) = "READ" /\ "OUT" \notin evs[t][Fd(t)]
      /\ events[Fd(t)] \subseteq {"READ"} /\ interest[Fd(t)] \subseteq {"IN"}
  BY DEF TypeOK, Fd, ReadOnly
<1>2. CASE epoll_wait(t)
  <2>1. UNCHANGED <<tableVars, arg, local, interest, registered, mutex, pc>>
    BY <1>2 DEF epoll_wait
  <2>2. \A fd \in Fds : "OUT" \notin Reported(fd)
    BY DEF Reported, ReadOnly
  <2>3. \A u \in Threads, g \in Fds : "OUT" \notin evs'[u][g]
    BY <1>2, <2>2 DEF epoll_wait, TypeOK, ReadOnly
  <2> QED
    BY <2>1, <2>3 DEF ReadOnly, Settled, Inside, Fd, Ev, tableVars
<1>3. CASE DispatchLock(t)
  <2>1. PICK fd \in Fds : Acquire(t, fd) /\ arg' = [arg EXCEPT ![t].fd = fd]
    BY <1>3 DEF DispatchLock
  <2>2. Goto(t, "dispatch") /\ UNCHANGED <<tableVars, epollVars, local, evs>>
    BY <1>3 DEF DispatchLock
  <2>3. Fd(t)' = fd /\ Ev(t)' = "READ" /\ pc'[t] = "dispatch" /\ mutex'[fd] = t
    BY <1>1, <2>1, <2>2 DEF Fd, Ev, Goto, Acquire, TypeOK
  <2>4. OnlyOn(t, fd)
    BY <2>1, <2>2 DEF OnlyOn, SameFd, Acquire, Goto, TypeOK, tableVars, epollVars
  <2>5. /\ events'[fd] \subseteq {"READ"} /\ interest'[fd] \subseteq {"IN"}
        /\ Settled(fd)'
    BY <2>1, <2>2 DEF ReadOnly, Settled, Acquire, tableVars, epollVars
  <2>6. Inside(t)'
    BY <2>3, <2>5 DEF Inside, InsidePoints, Settled
  <2> QED
    BY <2>2, <2>3, <2>4, <2>5, <2>6, NoOut, OneDescriptor
<1>4. CASE Dispatch(t)
  <2> DEFINE real == RealEvents(evs[t][Fd(t)])
  <2>1. real \subseteq {"READ"}
    BY <1>1 DEF RealEvents
  <2>2. mutex[Fd(t)] = t /\ Settled(Fd(t)) /\ UNCHANGED <<tableVars, arg>>
    BY <1>4 DEF Dispatch, At, ReadOnly, Inside, InsidePoints
  <2>3. Fd(t)' = Fd(t) /\ Ev(t)' = "READ"
    BY <1>1, <2>2 DEF Fd, Ev
  <2>4. \A u \in Threads, g \in Fds : "OUT" \notin evs'[u][g]
    BY <1>1, <1>4 DEF Dispatch, TypeOK, ReadOnly
  <2>5. CASE events[Fd(t)] \cap real # {}
    <3>1. events[Fd(t)] = {"READ"} /\ real = {"READ"}
      BY <1>1, <2>1, <2>5
    <3>2. Fd(t) \in registered /\ ModOrDel(events[Fd(t)] \ real) = "DEL"
      BY <2>2, <3>1 DEF Settled, ModOrDel
    <3> HIDE DEF real
    <3>3. PICK mask : epoll_ctl("DEL", Fd(t), mask, FALSE)
      BY <1>4, <2>5, <3>2 DEF Dispatch, CtlSucceeds, real
    <3>4. local' = [local EXCEPT ![t] = real] /\ Goto(t, "trigger") /\ UNCHANGED mutex
      BY <1>4, <2>5, <3>2 DEF Dispatch, CtlSucceeds, real
    <3>5. /\ interest'[Fd(t)] = {} /\ Fd(t) \notin registered' /\ mutex'[Fd(t)] = t
          /\ events'[Fd(t)] = {"READ"} /\ pc'[t] = "trigger" /\ local'[t] = {"READ"}
      BY <1>1, <2>2, <3>1, <3>3, <3>4 DEF epoll_ctl, Goto, TypeOK, tableVars
    <3>6. OnlyOn(t, Fd(t))
      BY <1>1, <2>2, <3>3, <3>4 DEF OnlyOn, SameFd, epoll_ctl, Goto, TypeOK, tableVars
    <3>7. Inside(t)' /\ t # NoThread
      BY <2>3, <3>5, ConstantsAssumption DEF Inside, InsidePoints
    <3> QED
      BY <1>1, <2>3, <2>4, <3>5, <3>6, <3>7, OneDescriptor
  <2>6. CASE events[Fd(t)] \cap real = {}
    <3>1. Release(Fd(t)) /\ Goto(t, "wait") /\ UNCHANGED <<epollVars, local>>
      BY <1>4, <2>6 DEF Dispatch
    <3>2. OnlyOn(t, Fd(t)) /\ pc'[t] = "wait"
      BY <1>1, <2>2, <3>1 DEF OnlyOn, SameFd, Release, Goto, TypeOK, tableVars, epollVars
    <3>3. /\ events'[Fd(t)] \subseteq {"READ"} /\ interest'[Fd(t)] \subseteq {"IN"}
          /\ Settled(Fd(t))'
      BY <1>1, <2>2, <2>3, <3>1 DEF Settled, tableVars, epollVars
    <3>4. Inside(t)'
      BY <3>2 DEF Inside, InsidePoints
    <3> QED
      BY <1>1, <2>3, <2>4, <3>2, <3>3, <3>4, OneDescriptor
  <2> QED
    BY <2>5, <2>6
<1> QED
  BY <1>2, <1>3, <1>4

(* Every step keeps the protocol.                                          *)
LEMMA NextReadOnly ==
  ASSUME Reading, TypeOK, Matched, ReadOnly, [Next]_vars PROVE ReadOnly'
<1>1. ASSUME UNCHANGED <<events, interest, registered, mutex, pc, arg, local, evs>>
      PROVE  ReadOnly'
  BY <1>1 DEF ReadOnly, Settled, Inside, Fd, Ev
<1>2. CASE UNCHANGED vars
  BY <1>1, <1>2 DEF vars, tableVars, epollVars, threadVars
<1>3. ASSUME NEW fd \in Fds, NEW c \in Conditions, Happens(fd, c) \/ Drained(fd, c)
      PROVE  ReadOnly'
  BY <1>1, <1>3 DEF Happens, Drained, tableVars, threadVars
<1>4. ASSUME NEW t \in Threads
      PROVE  ~(DelCheck(t) \/ DelCtl(t) \/ DelCount(t) \/ DelStore(t) \/ DelReset(t))
  BY DEF DelCheck, DelCtl, DelCount, DelStore, DelReset, DelPoints, At, Matched, Reading
<1> QED
  BY <1>2, <1>3, <1>4, AddReadOnly, CancelReadOnly, DispatchReadOnly, TriggerReadOnly
  DEF Next, CallerStep, DispatcherStep, Threads

(* The protocol holds in every reachable state.                            *)
LEMMA ReadOnlyCorrect == ASSUME Reading PROVE Spec => []ReadOnly
<1>1. TypeOK /\ Matched /\ ReadOnly /\ [Next]_vars => ReadOnly'
  BY NextReadOnly
<1>2. Spec => [](WaitersOnce /\ Matched)
  BY MatchedCorrect DEF Reading
<1> QED
  BY InitReadOnly, TypeCorrect, <1>1, <1>2, PTL DEF Spec

(* Whenever nobody holds its mutex, a descriptor is watched for exactly    *)
(* the events registered for it.                                           *)
THEOREM InterestMatchesCorrect == ASSUME Reading PROVE Spec => []InterestMatches
<1>1. ReadOnly => InterestMatches
  BY DEF ReadOnly, Settled, InterestMatches
<1> QED
  BY <1>1, ReadOnlyCorrect, PTL

(* None of the assertions of addEvent, triggerEvent and cancelAll fails,   *)
(* although cancelEvent and cancelAll test events before they take the     *)
(* mutex.                                                                  *)
THEOREM AssertionsHoldCorrect == ASSUME Reading PROVE Spec => []AssertionsHold
<1>1. ReadOnly => AssertionsHold
  BY DEF ReadOnly, AssertionsHold, Aborted
<1> QED
  BY <1>1, ReadOnlyCorrect, PTL

=============================================================================
