--------------------------- MODULE IOIdle_proofs ----------------------------
(***************************************************************************)
(* Theorems about IOIdle, for any number of workers and tasks, with and    *)
(* without use_caller: the counters the threads change without a lock, the *)
(* start of the workers, what is left when stop() returns, and that every  *)
(* callback runs once, where Callbacks says.                               *)
(***************************************************************************)
EXTENDS IOIdle, TLAPS, FiniteSetTheorems

(* Every thread is at a place of the code; tickle() is called from few.    *)
PlacesOK ==
  /\ pc \in [Threads -> Points] /\ ret \in [Threads -> Points]
  /\ \A t \in Threads : pc[t] = "tickle" =>
       \/ ret[t] \in {"exec", "dispatch", "uncount"}
       \/ t = Main /\ ret[t] \in {"user", "stopTickle"}

(* The types of the other variables but for the counters, whose types      *)
(* follow from what they count.                                            *)
DataOK ==
  /\ m_fibers \in Seq(Tasks) /\ done \subseteq Tasks /\ promised \subseteq Tasks
  /\ m_stopping \in BOOLEAN /\ m_autoStop \in BOOLEAN
  /\ pipe \in BOOLEAN /\ edge \in BOOLEAN /\ tickles \in Nat
  /\ m_id \subseteq Workers /\ m_sem \subseteq Workers /\ m_threadIds \subseteq Workers
  /\ waiting \subseteq Tasks /\ fired \subseteq waiting
  /\ due \subseteq timers /\ timers \subseteq Tasks
  /\ ft \in [Threads -> Tasks \cup {NoTask}]
  /\ \A t \in Threads : At(t) \in {"count", "exec"} => ft[t] \in Tasks
  /\ idle_ft \in [Threads -> BOOLEAN]
  /\ cbs \in [Threads -> SUBSET Tasks]
  /\ evs \in [Threads -> SUBSET (Tasks \cup {Tickle})]

(* A vector filled from a finite set holds each element once.              *)
LEMMA ListOfSet ==
  ASSUME NEW S, IsFiniteSet(S)
  PROVE  /\ SetToSeq(S) \in Seq(S) /\ IsInjective(SetToSeq(S))
         /\ Range(SetToSeq(S)) = S
<1>1. Cardinality(S) \in Nat /\ ExistsBijection(1 .. Cardinality(S), S)
  BY FS_CardinalityType
<1>2. PICK f \in Bijection(1 .. Cardinality(S), S) : TRUE
  BY <1>1 DEF ExistsBijection
<1>3. f \in [1 .. Cardinality(S) -> S] /\ IsInjective(f)
  BY <1>2 DEF Bijection, Injection, IsInjective
<1>4. SetToSeq(S) \in [1 .. Cardinality(S) -> S] /\ IsInjective(SetToSeq(S))
  BY <1>3 DEF SetToSeq
<1>5. SetToSeq(S) \in Surjection(1 .. Cardinality(S), S)
  <2>1. /\ IsFiniteSet(1 .. Cardinality(S))
        /\ Cardinality(1 .. Cardinality(S)) = Cardinality(S)
    BY <1>1, FS_Interval
  <2>2. SetToSeq(S) \in Injection(1 .. Cardinality(S), S)
    BY <1>4 DEF Injection, IsInjective
  <2> QED
    BY <2>1, <2>2, FS_Injection
<1>6. Range(SetToSeq(S)) = S
  BY <1>4, <1>5 DEF Surjection, Range
<1> QED
  BY <1>1, <1>4, <1>6

-----------------------------------------------------------------------------
(* Types.                                                                  *)

(* Main is in user code, and no other thread exists.                       *)
LEMMA InitPlacesOK == Init => PlacesOK
  BY IOIdleAssumption DEF Init, PlacesOK, Points, Threads

(* Every step leads to a place of the code.                                *)
LEMMA NextPlacesOK ==
  ASSUME PlacesOK, [Next]_vars PROVE PlacesOK'
<1> USE IOIdleAssumption DEF PlacesOK, Points, Threads, Goto, ThenTickle
<1>1. ASSUME NEW t \in Threads, tickle(t)
      PROVE  PlacesOK'
  BY <1>1 DEF tickle, idleVars, poolVars, ctlVars, startVars, flagVars,
     eventVars, timerVars
<1>2. ASSUME NEW t \in Threads, Take(t)
      PROVE  PlacesOK'
  BY <1>2 DEF Take, ioVars, idleVars, ctlVars, startVars, flagVars, eventVars,
     timerVars, pipeVars
<1>3. ASSUME NEW t \in Threads, CountActive(t)
      PROVE  PlacesOK'
  BY <1>3 DEF CountActive, ioVars, idleVars, ctlVars, startVars, flagVars,
     eventVars, timerVars, pipeVars
<1>4. ASSUME NEW t \in Threads, TaskEnds(t)
      PROVE  PlacesOK'
  BY <1>4 DEF TaskEnds, ioVars, idleVars, ctlVars, startVars, flagVars,
     eventVars, timerVars, pipeVars
<1>5. ASSUME NEW t \in Threads, ScanNothing(t)
      PROVE  PlacesOK'
  BY <1>5 DEF ScanNothing, Move, ioVars, idleVars, poolVars, ctlVars,
     startVars, flagVars, eventVars, timerVars, pipeVars
<1>6. ASSUME NEW t \in Threads, IdleIn(t)
      PROVE  PlacesOK'
  BY <1>6 DEF IdleIn, ioVars, poolVars, ctlVars, startVars, flagVars,
     eventVars, timerVars, pipeVars
<1>7. ASSUME NEW t \in Threads, IdleOut(t)
      PROVE  PlacesOK'
  BY <1>7 DEF IdleOut, ioVars, poolVars, ctlVars, startVars, flagVars,
     eventVars, timerVars, pipeVars
<1>8. ASSUME NEW t \in Threads, ReturnFromRun(t)
      PROVE  PlacesOK'
  BY <1>8 DEF ReturnFromRun, Move, ioVars, idleVars, poolVars, ctlVars,
     startVars, flagVars, eventVars, timerVars, pipeVars
<1>9. ASSUME NEW t \in Threads, isStopedTimer(t)
      PROVE  PlacesOK'
  BY <1>9 DEF isStopedTimer, Move, NotStoped, ioVars, idleVars, poolVars,
     ctlVars, startVars, flagVars, eventVars, timerVars, pipeVars
<1>10. ASSUME NEW t \in Threads, isStopedPending(t)
      PROVE  PlacesOK'
  BY <1>10 DEF isStopedPending, Move, NotStoped, ioVars, idleVars, poolVars,
     ctlVars, startVars, flagVars, eventVars, timerVars, pipeVars
<1>11. ASSUME NEW t \in Threads, isStopedList(t)
      PROVE  PlacesOK'
  BY <1>11 DEF isStopedList, Move, NotStoped, ioVars, idleVars, poolVars,
     ctlVars, startVars, flagVars, eventVars, timerVars, pipeVars
<1>12. ASSUME NEW t \in Threads, isStopedActive(t)
      PROVE  PlacesOK'
  BY <1>12 DEF isStopedActive, NotStoped, ioVars, poolVars, ctlVars,
     startVars, flagVars, eventVars, timerVars, pipeVars
<1>13. ASSUME NEW t \in Threads, EpollWait(t)
      PROVE  PlacesOK'
  BY <1>13 DEF EpollWait, poolVars, ctlVars, startVars, flagVars, timerVars
<1>14. ASSUME NEW t \in Threads, ListExpired(t)
      PROVE  PlacesOK'
  BY <1>14 DEF ListExpired, poolVars, ctlVars, startVars, flagVars, eventVars,
     pipeVars
<1>15. ASSUME NEW t \in Threads, ScheduleExpired(t)
      PROVE  PlacesOK'
  BY <1>15 DEF ScheduleExpired, ioVars, ctlVars, startVars, flagVars,
     eventVars, timerVars, pipeVars
<1>16. ASSUME NEW t \in Threads, DrainPipe(t)
      PROVE  PlacesOK'
  BY <1>16 DEF DrainPipe, poolVars, ctlVars, startVars, flagVars, eventVars,
     timerVars
<1>17. ASSUME NEW t \in Threads, NEW k \in Tasks, Trigger(t, k)
      PROVE  PlacesOK'
  BY <1>17 DEF Trigger, ctlVars, startVars, flagVars, timerVars, pipeVars
<1>18. ASSUME NEW t \in Threads, NEW k \in Tasks, Stale(t, k)
      PROVE  PlacesOK'
  BY <1>18 DEF Stale, ioVars, poolVars, ctlVars, startVars, flagVars,
     eventVars, timerVars, pipeVars
<1>19. ASSUME NEW t \in Threads, Uncount(t)
      PROVE  PlacesOK'
  BY <1>19 DEF Uncount, idleVars, poolVars, ctlVars, startVars, flagVars,
     timerVars, pipeVars
<1>20. ASSUME NEW t \in Threads, SwapOut(t)
      PROVE  PlacesOK'
  BY <1>20 DEF SwapOut, Move, ioVars, idleVars, poolVars, ctlVars, startVars,
     flagVars, eventVars, timerVars, pipeVars
<1>21. ASSUME NEW t \in Threads, NEW k \in Tasks, Schedule(t, k)
      PROVE  PlacesOK'
  BY <1>21 DEF Schedule, InUserCode, ioVars, idleVars, ctlVars, startVars,
     flagVars, eventVars, timerVars, pipeVars
<1>22. ASSUME NEW t \in Threads, NEW k \in Tasks, AddEvent(t, k)
      PROVE  PlacesOK'
  BY <1>22 DEF AddEvent, InUserCode, idleVars, poolVars, ctlVars, startVars,
     flagVars, timerVars, pipeVars
<1>23. ASSUME NEW t \in Threads, NEW k \in Tasks, AddTimer(t, k)
      PROVE  PlacesOK'
  BY <1>23 DEF AddTimer, InUserCode, idleVars, poolVars, ctlVars, startVars,
     flagVars, eventVars, pipeVars
<1>24. ASSUME NEW w \in Workers, Born(w)
      PROVE  PlacesOK'
  BY <1>24 DEF Born, ioVars, poolVars, flagVars, eventVars, timerVars,
     pipeVars
<1>25. ASSUME StartEnter
      PROVE  PlacesOK'
  BY <1>25 DEF StartEnter, ioVars, idleVars, poolVars, startVars, eventVars,
     timerVars, pipeVars
<1>26. ASSUME NEW w \in Workers, Create(w)
      PROVE  PlacesOK'
  BY <1>26 DEF Create, ioVars, idleVars, poolVars, ctlVars, startVars,
     flagVars, eventVars, timerVars, pipeVars
<1>27. ASSUME NEW w \in Workers, Constructed(w)
      PROVE  PlacesOK'
  BY <1>27 DEF Constructed, ioVars, idleVars, poolVars, flagVars, eventVars,
     timerVars, pipeVars
<1>28. ASSUME StopEnter
      PROVE  PlacesOK'
  BY <1>28 DEF StopEnter, ioVars, idleVars, poolVars, startVars, eventVars,
     timerVars, pipeVars
<1>29. ASSUME StopTickle
      PROVE  PlacesOK'
  BY <1>29 DEF StopTickle, ioVars, idleVars, poolVars, startVars, eventVars,
     timerVars, pipeVars
<1>30. ASSUME CallRoot
      PROVE  PlacesOK'
  BY <1>30 DEF CallRoot, ioVars, poolVars, ctlVars, startVars, flagVars,
     eventVars, timerVars, pipeVars
<1>31. ASSUME Join
      PROVE  PlacesOK'
  BY <1>31 DEF Join, Move, ioVars, idleVars, poolVars, ctlVars, startVars,
     flagVars, eventVars, timerVars, pipeVars
<1>32. ASSUME NEW k \in Tasks, Fire(k)
      PROVE  PlacesOK'
  BY <1>32 DEF Fire, idleVars, poolVars, ctlVars, startVars, flagVars,
     timerVars, pipeVars
<1>33. ASSUME NEW k \in Tasks, Expire(k)
      PROVE  PlacesOK'
  BY <1>33 DEF Expire, idleVars, poolVars, ctlVars, startVars, flagVars,
     eventVars, pipeVars
<1>34. ASSUME UNCHANGED vars PROVE PlacesOK'
  BY <1>34 DEF vars, ioVars, idleVars, poolVars, ctlVars, startVars, flagVars,
     eventVars, timerVars, pipeVars
<1> QED
  BY <1>1, <1>2, <1>3, <1>4, <1>5, <1>6, <1>7, <1>8, <1>9, <1>10, <1>11,
     <1>12, <1>13, <1>14, <1>15, <1>16, <1>17, <1>18, <1>19, <1>20, <1>21,
     <1>22, <1>23, <1>24, <1>25, <1>26, <1>27, <1>28, <1>29, <1>30, <1>31,
     <1>32, <1>33, <1>34
     DEF Next, RunStep, MainStep, Application

(* Nothing is scheduled, registered or started initially.                  *)
LEMMA InitDataOK == Init => DataOK
<1> SUFFICES ASSUME Init PROVE DataOK
  OBVIOUS
<1>1. m_fibers \in Seq(Tasks) /\ \A t \in Threads : At(t) \notin {"count", "exec"}
  BY DEF Init, At, Threads
<1>2. /\ ft \in [Threads -> Tasks \cup {NoTask}] /\ idle_ft \in [Threads -> BOOLEAN]
      /\ cbs \in [Threads -> SUBSET Tasks]
      /\ evs \in [Threads -> SUBSET (Tasks \cup {Tickle})]
  BY DEF Init
<1> QED
  BY <1>1, <1>2 DEF Init, DataOK

(* Every step keeps the types.                                             *)
LEMMA NextDataOK ==
  ASSUME PlacesOK, DataOK, [Next]_vars PROVE DataOK'
<1> USE IOIdleAssumption DEF PlacesOK, DataOK, Threads, Goto, ThenTickle, At
<1>1. ASSUME NEW t \in Threads, tickle(t)
      PROVE  DataOK'
  BY <1>1 DEF tickle, idleVars, poolVars, ctlVars, startVars, flagVars,
     eventVars, timerVars
<1>2. ASSUME NEW t \in Threads, Take(t)
      PROVE  DataOK'
  BY <1>2 DEF Take, ioVars, idleVars, ctlVars, startVars, flagVars, eventVars,
     timerVars, pipeVars
<1>3. ASSUME NEW t \in Threads, CountActive(t)
      PROVE  DataOK'
  BY <1>3 DEF CountActive, ioVars, idleVars, ctlVars, startVars, flagVars,
     eventVars, timerVars, pipeVars
<1>4. ASSUME NEW t \in Threads, TaskEnds(t)
      PROVE  DataOK'
  BY <1>4 DEF TaskEnds, ioVars, idleVars, ctlVars, startVars, flagVars,
     eventVars, timerVars, pipeVars
<1>5. ASSUME NEW t \in Threads, ScanNothing(t)
      PROVE  DataOK'
  BY <1>5 DEF ScanNothing, Move, ioVars, idleVars, poolVars, ctlVars,
     startVars, flagVars, eventVars, timerVars, pipeVars
<1>6. ASSUME NEW t \in Threads, IdleIn(t)
      PROVE  DataOK'
  BY <1>6 DEF IdleIn, ioVars, poolVars, ctlVars, startVars, flagVars,
     eventVars, timerVars, pipeVars
<1>7. ASSUME NEW t \in Threads, IdleOut(t)
      PROVE  DataOK'
  BY <1>7 DEF IdleOut, ioVars, poolVars, ctlVars, startVars, flagVars,
     eventVars, timerVars, pipeVars
<1>8. ASSUME NEW t \in Threads, ReturnFromRun(t)
      PROVE  DataOK'
  BY <1>8 DEF ReturnFromRun, Move, ioVars, idleVars, poolVars, ctlVars,
     startVars, flagVars, eventVars, timerVars, pipeVars
<1>9. ASSUME NEW t \in Threads, isStopedTimer(t)
      PROVE  DataOK'
  BY <1>9 DEF isStopedTimer, Move, NotStoped, ioVars, idleVars, poolVars,
     ctlVars, startVars, flagVars, eventVars, timerVars, pipeVars
<1>10. ASSUME NEW t \in Threads, isStopedPending(t)
      PROVE  DataOK'
  BY <1>10 DEF isStopedPending, Move, NotStoped, ioVars, idleVars, poolVars,
     ctlVars, startVars, flagVars, eventVars, timerVars, pipeVars
<1>11. ASSUME NEW t \in Threads, isStopedList(t)
      PROVE  DataOK'
  BY <1>11 DEF isStopedList, Move, NotStoped, ioVars, idleVars, poolVars,
     ctlVars, startVars, flagVars, eventVars, timerVars, pipeVars
<1>12. ASSUME NEW t \in Threads, isStopedActive(t)
      PROVE  DataOK'
  <2>1. idle_ft' \in [Threads -> BOOLEAN]
    <3>1. FALSE \in BOOLEAN
      OBVIOUS
    <3> QED
      BY <1>12, <3>1 DEF isStopedActive
  <2> QED
    BY <1>12, <2>1 DEF isStopedActive, NotStoped, poolVars, ctlVars,
       startVars, flagVars,
       ioVars, eventVars, timerVars, pipeVars
<1>13. ASSUME NEW t \in Threads, EpollWait(t)
      PROVE  DataOK'
  <2>1. Reportable \in SUBSET (Tasks \cup {Tickle})
    BY DEF Reportable
  <2>2. /\ evs' \in [Threads -> SUBSET (Tasks \cup {Tickle})]
        /\ fired' = {} /\ edge' = FALSE /\ waiting' = waiting
    BY <1>13, <2>1 DEF EpollWait, eventVars
  <2>3. FALSE \in BOOLEAN /\ {} \subseteq waiting
    OBVIOUS
  <2>4. \A u \in Threads : At(u)' \in {"count", "exec"} => At(u) \in {"count", "exec"}
    BY <1>13 DEF EpollWait
  <2> QED
    BY <1>13, <2>2, <2>3, <2>4 DEF EpollWait, poolVars, ctlVars, startVars,
       flagVars, timerVars
<1>14. ASSUME NEW t \in Threads, ListExpired(t)
      PROVE  DataOK'
  BY <1>14 DEF ListExpired, poolVars, ctlVars, startVars, flagVars, eventVars,
     pipeVars
<1>15. ASSUME NEW t \in Threads, ScheduleExpired(t)
      PROVE  DataOK'
  <2>1. SetToSeq(cbs[t]) \in Seq(cbs[t])
    <3>1. IsFiniteSet(cbs[t])
      BY FS_Subset
    <3> QED
      BY <3>1, ListOfSet
  <2>2. SetToSeq(cbs[t]) \in Seq(Tasks)
    BY <2>1
  <2>3. m_fibers' \in Seq(Tasks)
    BY <1>15, <2>2 DEF ScheduleExpired
  <2>4. cbs' \in [Threads -> SUBSET Tasks]
    BY <1>15 DEF ScheduleExpired
  <2> QED
    BY <1>15, <2>3, <2>4 DEF ScheduleExpired, NotStoped, ioVars, idleVars,
       poolVars,
       ctlVars, startVars, flagVars, eventVars, timerVars, pipeVars
<1>16. ASSUME NEW t \in Threads, DrainPipe(t)
      PROVE  DataOK'
  BY <1>16 DEF DrainPipe, poolVars, ctlVars, startVars, flagVars, eventVars,
     timerVars
<1>17. ASSUME NEW t \in Threads, NEW k \in Tasks, Trigger(t, k)
      PROVE  DataOK'
  <2>1. evs' \in [Threads -> SUBSET (Tasks \cup {Tickle})]
    BY <1>17 DEF Trigger
  <2>2. waiting' \subseteq Tasks /\ fired' \subseteq waiting'
    BY <1>17 DEF Trigger
  <2> QED
    BY <1>17, <2>1, <2>2 DEF Trigger, poolVars, ctlVars, startVars, flagVars,
       timerVars, pipeVars
<1>18. ASSUME NEW t \in Threads, NEW k \in Tasks, Stale(t, k)
      PROVE  DataOK'
  BY <1>18 DEF Stale, ioVars, poolVars, ctlVars, startVars, flagVars,
     eventVars, timerVars, pipeVars
<1>19. ASSUME NEW t \in Threads, Uncount(t)
      PROVE  DataOK'
  BY <1>19 DEF Uncount, idleVars, poolVars, ctlVars, startVars, flagVars,
     timerVars, pipeVars
<1>20. ASSUME NEW t \in Threads, SwapOut(t)
      PROVE  DataOK'
  BY <1>20 DEF SwapOut, Move, ioVars, idleVars, poolVars, ctlVars, startVars,
     flagVars, eventVars, timerVars, pipeVars
<1>21. ASSUME NEW t \in Threads, NEW k \in Tasks, Schedule(t, k)
      PROVE  DataOK'
  BY <1>21 DEF Schedule, InUserCode, ioVars, idleVars, ctlVars, startVars,
     flagVars, eventVars, timerVars, pipeVars
<1>22. ASSUME NEW t \in Threads, NEW k \in Tasks, AddEvent(t, k)
      PROVE  DataOK'
  BY <1>22 DEF AddEvent, InUserCode, idleVars, poolVars, ctlVars, startVars,
     flagVars, timerVars, pipeVars
<1>23. ASSUME NEW t \in Threads, NEW k \in Tasks, AddTimer(t, k)
      PROVE  DataOK'
  BY <1>23 DEF AddTimer, InUserCode, idleVars, poolVars, ctlVars, startVars,
     flagVars, eventVars, pipeVars
<1>24. ASSUME NEW w \in Workers, Born(w)
      PROVE  DataOK'
  BY <1>24 DEF Born, ioVars, poolVars, flagVars, eventVars, timerVars,
     pipeVars
<1>25. ASSUME StartEnter
      PROVE  DataOK'
  BY <1>25 DEF StartEnter, ioVars, idleVars, poolVars, startVars, eventVars,
     timerVars, pipeVars
<1>26. ASSUME NEW w \in Workers, Create(w)
      PROVE  DataOK'
  BY <1>26 DEF Create, ioVars, idleVars, poolVars, ctlVars, startVars,
     flagVars, eventVars, timerVars, pipeVars
<1>27. ASSUME NEW w \in Workers, Constructed(w)
      PROVE  DataOK'
  BY <1>27 DEF Constructed, ioVars, idleVars, poolVars, flagVars, eventVars,
     timerVars, pipeVars
<1>28. ASSUME StopEnter
      PROVE  DataOK'
  <2>1. tickles' \in Nat
    BY <1>28, FS_CardinalityType DEF StopEnter
  <2>2. TRUE \in BOOLEAN
    OBVIOUS
  <2> QED
    BY <1>28, <2>1, <2>2 DEF StopEnter, NotStoped, ioVars, idleVars, poolVars,
       startVars, eventVars, timerVars, pipeVars
<1>29. ASSUME StopTickle
      PROVE  DataOK'
  BY <1>29 DEF StopTickle, ioVars, idleVars, poolVars, startVars, eventVars,
     timerVars, pipeVars
<1>30. ASSUME CallRoot
      PROVE  DataOK'
  BY <1>30 DEF CallRoot, ioVars, poolVars, ctlVars, startVars, flagVars,
     eventVars, timerVars, pipeVars
<1>31. ASSUME Join
      PROVE  DataOK'
  BY <1>31 DEF Join, Move, ioVars, idleVars, poolVars, ctlVars, startVars,
     flagVars, eventVars, timerVars, pipeVars
<1>32. ASSUME NEW k \in Tasks, Fire(k)
      PROVE  DataOK'
  BY <1>32 DEF Fire, idleVars, poolVars, ctlVars, startVars, flagVars,
     timerVars, pipeVars
<1>33. ASSUME NEW k \in Tasks, Expire(k)
      PROVE  DataOK'
  BY <1>33 DEF Expire, idleVars, poolVars, ctlVars, startVars, flagVars,
     eventVars, pipeVars
<1>34. ASSUME UNCHANGED vars PROVE DataOK'
  BY <1>34 DEF vars, ioVars, idleVars, poolVars, ctlVars, startVars, flagVars,
     eventVars, timerVars, pipeVars
<1> QED
  BY <1>1, <1>2, <1>3, <1>4, <1>5, <1>6, <1>7, <1>8, <1>9, <1>10, <1>11,
     <1>12, <1>13, <1>14, <1>15, <1>16, <1>17, <1>18, <1>19, <1>20, <1>21,
     <1>22, <1>23, <1>24, <1>25, <1>26, <1>27, <1>28, <1>29, <1>30, <1>31,
     <1>32, <1>33, <1>34
     DEF Next, RunStep, MainStep, Application

-----------------------------------------------------------------------------
(* The counters.                                                           *)

(* Outside run() the thread of main has no idle fiber, and inside idle()   *)
(* every thread has one.                                                   *)
Outside ==
  /\ At(Main) \in {"user", "create", "ctor", "stopTickle"} => ~idle_ft[Main]
  /\ \A t \in Threads :
       At(t) = "isStopedTimer" \/ At(t) \in IdlePoints \ {"idleOut"} => idle_ft[t]

(* Nobody has an idle fiber initially.                                     *)
LEMMA InitOutside == Init => Outside
<1> SUFFICES ASSUME Init PROVE Outside
  OBVIOUS
<1>1. \A t \in Threads : At(t) \in {"user", "unborn"}
  BY DEF Init, At
<1> QED
  BY <1>1 DEF Init, Outside, IdlePoints, Threads

(* The idle fiber ends in the last read of isStoped() only.                *)
LEMMA NextOutside ==
  ASSUME PlacesOK, DataOK, Outside, [Next]_vars PROVE Outside'
<1> USE IOIdleAssumption DEF PlacesOK, DataOK, Outside, IdlePoints, At,
   Threads, Goto, ThenTickle
<1>1. ASSUME NEW t \in Threads, tickle(t)
      PROVE  Outside'
  BY <1>1 DEF tickle, idleVars, poolVars, ctlVars, startVars, flagVars,
     eventVars, timerVars
<1>2. ASSUME NEW t \in Threads, Take(t)
      PROVE  Outside'
  BY <1>2 DEF Take, ioVars, idleVars, ctlVars, startVars, flagVars, eventVars,
     timerVars, pipeVars
<1>3. ASSUME NEW t \in Threads, CountActive(t)
      PROVE  Outside'
  BY <1>3 DEF CountActive, ioVars, idleVars, ctlVars, startVars, flagVars,
     eventVars, timerVars, pipeVars
<1>4. ASSUME NEW t \in Threads, TaskEnds(t)
      PROVE  Outside'
  BY <1>4 DEF TaskEnds, ioVars, idleVars, ctlVars, startVars, flagVars,
     eventVars, timerVars, pipeVars
<1>5. ASSUME NEW t \in Threads, ScanNothing(t)
      PROVE  Outside'
  BY <1>5 DEF ScanNothing, Move, ioVars, idleVars, poolVars, ctlVars,
     startVars, flagVars, eventVars, timerVars, pipeVars
<1>6. ASSUME NEW t \in Threads, IdleIn(t)
      PROVE  Outside'
  BY <1>6 DEF IdleIn, ioVars, poolVars, ctlVars, startVars, flagVars,
     eventVars, timerVars, pipeVars
<1>7. ASSUME NEW t \in Threads, IdleOut(t)
      PROVE  Outside'
  BY <1>7 DEF IdleOut, ioVars, poolVars, ctlVars, startVars, flagVars,
     eventVars, timerVars, pipeVars
<1>8. ASSUME NEW t \in Threads, ReturnFromRun(t)
      PROVE  Outside'
  BY <1>8 DEF ReturnFromRun, Move, ioVars, idleVars, poolVars, ctlVars,
     startVars, flagVars, eventVars, timerVars, pipeVars
<1>9. ASSUME NEW t \in Threads, isStopedTimer(t)
      PROVE  Outside'
  BY <1>9 DEF isStopedTimer, Move, ioVars, idleVars, poolVars, ctlVars,
     startVars, flagVars, eventVars, timerVars, pipeVars, NotStoped
<1>10. ASSUME NEW t \in Threads, isStopedPending(t)
      PROVE  Outside'
  BY <1>10 DEF isStopedPending, Move, ioVars, idleVars, poolVars, ctlVars,
     startVars, flagVars, eventVars, timerVars, pipeVars, NotStoped
<1>11. ASSUME NEW t \in Threads, isStopedList(t)
      PROVE  Outside'
  BY <1>11 DEF isStopedList, Move, ioVars, idleVars, poolVars, ctlVars,
     startVars, flagVars, eventVars, timerVars, pipeVars, NotStoped
<1>12. ASSUME NEW t \in Threads, isStopedActive(t)
      PROVE  Outside'
  BY <1>12 DEF isStopedActive, ioVars, poolVars, ctlVars, startVars, flagVars,
     eventVars, timerVars, pipeVars, NotStoped
<1>13. ASSUME NEW t \in Threads, EpollWait(t)
      PROVE  Outside'
  BY <1>13 DEF EpollWait, poolVars, ctlVars, startVars, flagVars, timerVars
<1>14. ASSUME NEW t \in Threads, ListExpired(t)
      PROVE  Outside'
  BY <1>14 DEF ListExpired, poolVars, ctlVars, startVars, flagVars, eventVars,
     pipeVars
<1>15. ASSUME NEW t \in Threads, ScheduleExpired(t)
      PROVE  Outside'
  BY <1>15 DEF ScheduleExpired, ioVars, ctlVars, startVars, flagVars,
     eventVars, timerVars, pipeVars
<1>16. ASSUME NEW t \in Threads, DrainPipe(t)
      PROVE  Outside'
  BY <1>16 DEF DrainPipe, poolVars, ctlVars, startVars, flagVars, eventVars,
     timerVars
<1>17. ASSUME NEW t \in Threads, NEW k \in Tasks, Trigger(t, k)
      PROVE  Outside'
  BY <1>17 DEF Trigger, ctlVars, startVars, flagVars, timerVars, pipeVars
<1>18. ASSUME NEW t \in Threads, NEW k \in Tasks, Stale(t, k)
      PROVE  Outside'
  BY <1>18 DEF Stale, ioVars, poolVars, ctlVars, startVars, flagVars,
     eventVars, timerVars, pipeVars
<1>19. ASSUME NEW t \in Threads, Uncount(t)
      PROVE  Outside'
  BY <1>19 DEF Uncount, idleVars, poolVars, ctlVars, startVars, flagVars,
     timerVars, pipeVars
<1>20. ASSUME NEW t \in Threads, SwapOut(t)
      PROVE  Outside'
  BY <1>20 DEF SwapOut, Move, ioVars, idleVars, poolVars, ctlVars, startVars,
     flagVars, eventVars, timerVars, pipeVars
<1>21. ASSUME NEW t \in Threads, NEW k \in Tasks, Schedule(t, k)
      PROVE  Outside'
  BY <1>21 DEF Schedule, ioVars, idleVars, ctlVars, startVars, flagVars,
     eventVars, timerVars, pipeVars, InUserCode
<1>22. ASSUME NEW t \in Threads, NEW k \in Tasks, AddEvent(t, k)
      PROVE  Outside'
  BY <1>22 DEF AddEvent, idleVars, poolVars, ctlVars, startVars, flagVars,
     timerVars, pipeVars, InUserCode
<1>23. ASSUME NEW t \in Threads, NEW k \in Tasks, AddTimer(t, k)
      PROVE  Outside'
  BY <1>23 DEF AddTimer, idleVars, poolVars, ctlVars, startVars, flagVars,
     eventVars, pipeVars, InUserCode
<1>24. ASSUME NEW w \in Workers, Born(w)
      PROVE  Outside'
  BY <1>24 DEF Born, ioVars, poolVars, flagVars, eventVars, timerVars,
     pipeVars
<1>25. ASSUME StartEnter
      PROVE  Outside'
  BY <1>25 DEF StartEnter, ioVars, idleVars, poolVars, startVars, eventVars,
     timerVars, pipeVars
<1>26. ASSUME NEW w \in Workers, Create(w)
      PROVE  Outside'
  BY <1>26 DEF Create, ioVars, idleVars, poolVars, ctlVars, startVars,
     flagVars, eventVars, timerVars, pipeVars
<1>27. ASSUME NEW w \in Workers, Constructed(w)
      PROVE  Outside'
  BY <1>27 DEF Constructed, ioVars, idleVars, poolVars, flagVars, eventVars,
     timerVars, pipeVars
<1>28. ASSUME StopEnter
      PROVE  Outside'
  BY <1>28 DEF StopEnter, ioVars, idleVars, poolVars, startVars, eventVars,
     timerVars, pipeVars
<1>29. ASSUME StopTickle
      PROVE  Outside'
  BY <1>29 DEF StopTickle, ioVars, idleVars, poolVars, startVars, eventVars,
     timerVars, pipeVars
<1>30. ASSUME CallRoot
      PROVE  Outside'
  BY <1>30 DEF CallRoot, ioVars, poolVars, ctlVars, startVars, flagVars,
     eventVars, timerVars, pipeVars
<1>31. ASSUME Join
      PROVE  Outside'
  BY <1>31 DEF Join, Move, ioVars, idleVars, poolVars, ctlVars, startVars,
     flagVars, eventVars, timerVars, pipeVars
<1>32. ASSUME NEW k \in Tasks, Fire(k)
      PROVE  Outside'
  BY <1>32 DEF Fire, idleVars, poolVars, ctlVars, startVars, flagVars,
     timerVars, pipeVars
<1>33. ASSUME NEW k \in Tasks, Expire(k)
      PROVE  Outside'
  BY <1>33 DEF Expire, idleVars, poolVars, ctlVars, startVars, flagVars,
     eventVars, pipeVars
<1>34. ASSUME UNCHANGED vars PROVE Outside'
  BY <1>34 DEF vars, ioVars, idleVars, poolVars, ctlVars, startVars, flagVars,
     eventVars, timerVars, pipeVars
<1> QED
  BY <1>1, <1>2, <1>3, <1>4, <1>5, <1>6, <1>7, <1>8, <1>9, <1>10, <1>11,
     <1>12, <1>13, <1>14, <1>15, <1>16, <1>17, <1>18, <1>19, <1>20, <1>21,
     <1>22, <1>23, <1>24, <1>25, <1>26, <1>27, <1>28, <1>29, <1>30, <1>31,
     <1>32, <1>33, <1>34
     DEF Next, RunStep, MainStep, Application

(* The threads m_idleThreadCount has to count.                             *)
Idlers == {t \in Threads : At(t) \in IdlePoints \/ (At(t) \in IsStopedPoints /\ idle_ft[t])}

(* The threads m_activeThreadCount has to count.                           *)
Runners == {t \in Threads : At(t) = "exec"}

(* The threads that have dispatched an event they still have to uncount.   *)
Dispatchers == {t \in Threads : At(t) = "uncount"}

(* From n to m a counter follows the set it counts from S to T.            *)
Counts(S, T, n, m) ==
  \/ T = S /\ m = n
  \/ \E x : x \notin S /\ T = S \cup {x} /\ m = n + 1
  \/ \E x \in S : T = S \ {x} /\ m = n - 1

(* A counter that follows its set remains its cardinality.                 *)
LEMMA Counting ==
  ASSUME NEW S, IsFiniteSet(S), NEW T, NEW n, NEW m, n = Cardinality(S),
         Counts(S, T, n, m)
  PROVE  m = Cardinality(T) /\ IsFiniteSet(T)
<1>1. Cardinality(S) \in Nat
  BY FS_CardinalityType
<1>2. CASE T = S /\ m = n
  BY <1>2
<1>3. CASE \E x : x \notin S /\ T = S \cup {x} /\ m = n + 1
  BY <1>1, <1>3, FS_AddElement
<1>4. CASE \E x \in S : T = S \ {x} /\ m = n - 1
  BY <1>1, <1>4, FS_RemoveElement
<1> QED
  BY <1>2, <1>3, <1>4 DEF Counts

(* m_idleThreadCount follows its set in this step.                         *)
IdleCounted == Counts(Idlers, Idlers', m_idleThreadCount, m_idleThreadCount')

(* run() counts a thread before its idle fiber starts and uncounts it when *)
(* the fiber has swapped out or ended.                                     *)
LEMMA IdleSteps ==
  ASSUME PlacesOK, DataOK, Outside, [Next]_vars PROVE IdleCounted
<1> USE IOIdleAssumption
    DEF PlacesOK, DataOK, Outside, IdleCounted, Counts, Idlers, IdlePoints,
       IsStopedPoints,
        At, Threads, Goto, ThenTickle
<1>1. ASSUME NEW t \in Threads, tickle(t)
      PROVE  IdleCounted
  BY <1>1 DEF tickle, idleVars, poolVars, ctlVars, startVars, flagVars,
     eventVars, timerVars
<1>2. ASSUME NEW t \in Threads, Take(t)
      PROVE  IdleCounted
  BY <1>2 DEF Take, ioVars, idleVars, ctlVars, startVars, flagVars, eventVars,
     timerVars, pipeVars
<1>3. ASSUME NEW t \in Threads, CountActive(t)
      PROVE  IdleCounted
  BY <1>3 DEF CountActive, ioVars, idleVars, ctlVars, startVars, flagVars,
     eventVars, timerVars, pipeVars
<1>4. ASSUME NEW t \in Threads, TaskEnds(t)
      PROVE  IdleCounted
  BY <1>4 DEF TaskEnds, ioVars, idleVars, ctlVars, startVars, flagVars,
     eventVars, timerVars, pipeVars
<1>5. ASSUME NEW t \in Threads, ScanNothing(t)
      PROVE  IdleCounted
  BY <1>5 DEF ScanNothing, Move, ioVars, idleVars, poolVars, ctlVars,
     startVars, flagVars, eventVars, timerVars, pipeVars
<1>6. ASSUME NEW t \in Threads, IdleIn(t)
      PROVE  IdleCounted
  BY <1>6 DEF IdleIn, ioVars, poolVars, ctlVars, startVars, flagVars,
     eventVars, timerVars, pipeVars
<1>7. ASSUME NEW t \in Threads, IdleOut(t)
      PROVE  IdleCounted
  BY <1>7 DEF IdleOut, ioVars, poolVars, ctlVars, startVars, flagVars,
     eventVars, timerVars, pipeVars
<1>8. ASSUME NEW t \in Threads, ReturnFromRun(t)
      PROVE  IdleCounted
  BY <1>8 DEF ReturnFromRun, Move, ioVars, idleVars, poolVars, ctlVars,
     startVars, flagVars, eventVars, timerVars, pipeVars
<1>9. ASSUME NEW t \in Threads, isStopedTimer(t)
      PROVE  IdleCounted
  BY <1>9 DEF isStopedTimer, Move, ioVars, idleVars, poolVars, ctlVars,
     startVars, flagVars, eventVars, timerVars, pipeVars, NotStoped
<1>10. ASSUME NEW t \in Threads, isStopedPending(t)
      PROVE  IdleCounted
  BY <1>10 DEF isStopedPending, Move, ioVars, idleVars, poolVars, ctlVars,
     startVars, flagVars, eventVars, timerVars, pipeVars, NotStoped
<1>11. ASSUME NEW t \in Threads, isStopedList(t)
      PROVE  IdleCounted
  BY <1>11 DEF isStopedList, Move, ioVars, idleVars, poolVars, ctlVars,
     startVars, flagVars, eventVars, timerVars, pipeVars, NotStoped
<1>12. ASSUME NEW t \in Threads, isStopedActive(t)
      PROVE  IdleCounted
  BY <1>12 DEF isStopedActive, ioVars, poolVars, ctlVars, startVars, flagVars,
     eventVars, timerVars, pipeVars, NotStoped
<1>13. ASSUME NEW t \in Threads, EpollWait(t)
      PROVE  IdleCounted
  BY <1>13 DEF EpollWait, poolVars, ctlVars, startVars, flagVars, timerVars
<1>14. ASSUME NEW t \in Threads, ListExpired(t)
      PROVE  IdleCounted
  BY <1>14 DEF ListExpired, poolVars, ctlVars, startVars, flagVars, eventVars,
     pipeVars
<1>15. ASSUME NEW t \in Threads, ScheduleExpired(t)
      PROVE  IdleCounted
  BY <1>15 DEF ScheduleExpired, ioVars, ctlVars, startVars, flagVars,
     eventVars, timerVars, pipeVars
<1>16. ASSUME NEW t \in Threads, DrainPipe(t)
      PROVE  IdleCounted
  BY <1>16 DEF DrainPipe, poolVars, ctlVars, startVars, flagVars, eventVars,
     timerVars
<1>17. ASSUME NEW t \in Threads, NEW k \in Tasks, Trigger(t, k)
      PROVE  IdleCounted
  BY <1>17 DEF Trigger, ctlVars, startVars, flagVars, timerVars, pipeVars
<1>18. ASSUME NEW t \in Threads, NEW k \in Tasks, Stale(t, k)
      PROVE  IdleCounted
  BY <1>18 DEF Stale, ioVars, poolVars, ctlVars, startVars, flagVars,
     eventVars, timerVars, pipeVars
<1>19. ASSUME NEW t \in Threads, Uncount(t)
      PROVE  IdleCounted
  BY <1>19 DEF Uncount, idleVars, poolVars, ctlVars, startVars, flagVars,
     timerVars, pipeVars
<1>20. ASSUME NEW t \in Threads, SwapOut(t)
      PROVE  IdleCounted
  BY <1>20 DEF SwapOut, Move, ioVars, idleVars, poolVars, ctlVars, startVars,
     flagVars, eventVars, timerVars, pipeVars
<1>21. ASSUME NEW t \in Threads, NEW k \in Tasks, Schedule(t, k)
      PROVE  IdleCounted
  BY <1>21 DEF Schedule, ioVars, idleVars, ctlVars, startVars, flagVars,
     eventVars, timerVars, pipeVars, InUserCode
<1>22. ASSUME NEW t \in Threads, NEW k \in Tasks, AddEvent(t, k)
      PROVE  IdleCounted
  BY <1>22 DEF AddEvent, idleVars, poolVars, ctlVars, startVars, flagVars,
     timerVars, pipeVars, InUserCode
<1>23. ASSUME NEW t \in Threads, NEW k \in Tasks, AddTimer(t, k)
      PROVE  IdleCounted
  BY <1>23 DEF AddTimer, idleVars, poolVars, ctlVars, startVars, flagVars,
     eventVars, pipeVars, InUserCode
<1>24. ASSUME NEW w \in Workers, Born(w)
      PROVE  IdleCounted
  BY <1>24 DEF Born, ioVars, poolVars, flagVars, eventVars, timerVars,
     pipeVars
<1>25. ASSUME StartEnter
      PROVE  IdleCounted
  BY <1>25 DEF StartEnter, ioVars, idleVars, poolVars, startVars, eventVars,
     timerVars, pipeVars
<1>26. ASSUME NEW w \in Workers, Create(w)
      PROVE  IdleCounted
  BY <1>26 DEF Create, ioVars, idleVars, poolVars, ctlVars, startVars,
     flagVars, eventVars, timerVars, pipeVars
<1>27. ASSUME NEW w \in Workers, Constructed(w)
      PROVE  IdleCounted
  BY <1>27 DEF Constructed, ioVars, idleVars, poolVars, flagVars, eventVars,
     timerVars, pipeVars
<1>28. ASSUME StopEnter
      PROVE  IdleCounted
  BY <1>28 DEF StopEnter, ioVars, idleVars, poolVars, startVars, eventVars,
     timerVars, pipeVars
<1>29. ASSUME StopTickle
      PROVE  IdleCounted
  BY <1>29 DEF StopTickle, ioVars, idleVars, poolVars, startVars, eventVars,
     timerVars, pipeVars
<1>30. ASSUME CallRoot
      PROVE  IdleCounted
  BY <1>30 DEF CallRoot, ioVars, poolVars, ctlVars, startVars, flagVars,
     eventVars, timerVars, pipeVars
<1>31. ASSUME Join
      PROVE  IdleCounted
  BY <1>31 DEF Join, Move, ioVars, idleVars, poolVars, ctlVars, startVars,
     flagVars, eventVars, timerVars, pipeVars
<1>32. ASSUME NEW k \in Tasks, Fire(k)
      PROVE  IdleCounted
  BY <1>32 DEF Fire, idleVars, poolVars, ctlVars, startVars, flagVars,
     timerVars, pipeVars
<1>33. ASSUME NEW k \in Tasks, Expire(k)
      PROVE  IdleCounted
  BY <1>33 DEF Expire, idleVars, poolVars, ctlVars, startVars, flagVars,
     eventVars, pipeVars
<1>34. ASSUME UNCHANGED vars PROVE IdleCounted
  BY <1>34 DEF vars, ioVars, idleVars, poolVars, ctlVars, startVars, flagVars,
     eventVars, timerVars, pipeVars
<1> QED
  BY <1>1, <1>2, <1>3, <1>4, <1>5, <1>6, <1>7, <1>8, <1>9, <1>10, <1>11,
     <1>12, <1>13, <1>14, <1>15, <1>16, <1>17, <1>18, <1>19, <1>20, <1>21,
     <1>22, <1>23, <1>24, <1>25, <1>26, <1>27, <1>28, <1>29, <1>30, <1>31,
     <1>32, <1>33, <1>34
     DEF Next, RunStep, MainStep, Application

(* m_activeThreadCount follows its set in this step.                       *)
ActiveCounted == Counts(Runners, Runners', m_activeThreadCount, m_activeThreadCount')

(* run() counts a thread before its task starts, and uncounts it after.    *)
LEMMA ActiveSteps ==
  ASSUME PlacesOK, [Next]_vars PROVE ActiveCounted
<1> USE IOIdleAssumption
    DEF PlacesOK, ActiveCounted, Counts, Runners, At, Threads, Goto,
       ThenTickle
<1>1. ASSUME NEW t \in Threads, tickle(t)
      PROVE  ActiveCounted
  BY <1>1 DEF tickle, idleVars, poolVars, ctlVars, startVars, flagVars,
     eventVars, timerVars
<1>2. ASSUME NEW t \in Threads, Take(t)
      PROVE  ActiveCounted
  BY <1>2 DEF Take, ioVars, idleVars, ctlVars, startVars, flagVars, eventVars,
     timerVars, pipeVars
<1>3. ASSUME NEW t \in Threads, CountActive(t)
      PROVE  ActiveCounted
  BY <1>3 DEF CountActive, ioVars, idleVars, ctlVars, startVars, flagVars,
     eventVars, timerVars, pipeVars
<1>4. ASSUME NEW t \in Threads, TaskEnds(t)
      PROVE  ActiveCounted
  BY <1>4 DEF TaskEnds, ioVars, idleVars, ctlVars, startVars, flagVars,
     eventVars, timerVars, pipeVars
<1>5. ASSUME NEW t \in Threads, ScanNothing(t)
      PROVE  ActiveCounted
  BY <1>5 DEF ScanNothing, Move, ioVars, idleVars, poolVars, ctlVars,
     startVars, flagVars, eventVars, timerVars, pipeVars
<1>6. ASSUME NEW t \in Threads, IdleIn(t)
      PROVE  ActiveCounted
  BY <1>6 DEF IdleIn, ioVars, poolVars, ctlVars, startVars, flagVars,
     eventVars, timerVars, pipeVars
<1>7. ASSUME NEW t \in Threads, IdleOut(t)
      PROVE  ActiveCounted
  BY <1>7 DEF IdleOut, ioVars, poolVars, ctlVars, startVars, flagVars,
     eventVars, timerVars, pipeVars
<1>8. ASSUME NEW t \in Threads, ReturnFromRun(t)
      PROVE  ActiveCounted
  BY <1>8 DEF ReturnFromRun, Move, ioVars, idleVars, poolVars, ctlVars,
     startVars, flagVars, eventVars, timerVars, pipeVars
<1>9. ASSUME NEW t \in Threads, isStopedTimer(t)
      PROVE  ActiveCounted
  BY <1>9 DEF isStopedTimer, Move, ioVars, idleVars, poolVars, ctlVars,
     startVars, flagVars, eventVars, timerVars, pipeVars, NotStoped
<1>10. ASSUME NEW t \in Threads, isStopedPending(t)
      PROVE  ActiveCounted
  BY <1>10 DEF isStopedPending, Move, ioVars, idleVars, poolVars, ctlVars,
     startVars, flagVars, eventVars, timerVars, pipeVars, NotStoped
<1>11. ASSUME NEW t \in Threads, isStopedList(t)
      PROVE  ActiveCounted
  BY <1>11 DEF isStopedList, Move, ioVars, idleVars, poolVars, ctlVars,
     startVars, flagVars, eventVars, timerVars, pipeVars, NotStoped
<1>12. ASSUME NEW t \in Threads, isStopedActive(t)
      PROVE  ActiveCounted
  BY <1>12 DEF isStopedActive, ioVars, poolVars, ctlVars, startVars, flagVars,
     eventVars, timerVars, pipeVars, NotStoped
<1>13. ASSUME NEW t \in Threads, EpollWait(t)
      PROVE  ActiveCounted
  BY <1>13 DEF EpollWait, poolVars, ctlVars, startVars, flagVars, timerVars
<1>14. ASSUME NEW t \in Threads, ListExpired(t)
      PROVE  ActiveCounted
  BY <1>14 DEF ListExpired, poolVars, ctlVars, startVars, flagVars, eventVars,
     pipeVars
<1>15. ASSUME NEW t \in Threads, ScheduleExpired(t)
      PROVE  ActiveCounted
  BY <1>15 DEF ScheduleExpired, ioVars, ctlVars, startVars, flagVars,
     eventVars, timerVars, pipeVars
<1>16. ASSUME NEW t \in Threads, DrainPipe(t)
      PROVE  ActiveCounted
  BY <1>16 DEF DrainPipe, poolVars, ctlVars, startVars, flagVars, eventVars,
     timerVars
<1>17. ASSUME NEW t \in Threads, NEW k \in Tasks, Trigger(t, k)
      PROVE  ActiveCounted
  BY <1>17 DEF Trigger, ctlVars, startVars, flagVars, timerVars, pipeVars
<1>18. ASSUME NEW t \in Threads, NEW k \in Tasks, Stale(t, k)
      PROVE  ActiveCounted
  BY <1>18 DEF Stale, ioVars, poolVars, ctlVars, startVars, flagVars,
     eventVars, timerVars, pipeVars
<1>19. ASSUME NEW t \in Threads, Uncount(t)
      PROVE  ActiveCounted
  BY <1>19 DEF Uncount, idleVars, poolVars, ctlVars, startVars, flagVars,
     timerVars, pipeVars
<1>20. ASSUME NEW t \in Threads, SwapOut(t)
      PROVE  ActiveCounted
  BY <1>20 DEF SwapOut, Move, ioVars, idleVars, poolVars, ctlVars, startVars,
     flagVars, eventVars, timerVars, pipeVars
<1>21. ASSUME NEW t \in Threads, NEW k \in Tasks, Schedule(t, k)
      PROVE  ActiveCounted
  BY <1>21 DEF Schedule, ioVars, idleVars, ctlVars, startVars, flagVars,
     eventVars, timerVars, pipeVars, InUserCode
<1>22. ASSUME NEW t \in Threads, NEW k \in Tasks, AddEvent(t, k)
      PROVE  ActiveCounted
  BY <1>22 DEF AddEvent, idleVars, poolVars, ctlVars, startVars, flagVars,
     timerVars, pipeVars, InUserCode
<1>23. ASSUME NEW t \in Threads, NEW k \in Tasks, AddTimer(t, k)
      PROVE  ActiveCounted
  BY <1>23 DEF AddTimer, idleVars, poolVars, ctlVars, startVars, flagVars,
     eventVars, pipeVars, InUserCode
<1>24. ASSUME NEW w \in Workers, Born(w)
      PROVE  ActiveCounted
  BY <1>24 DEF Born, ioVars, poolVars, flagVars, eventVars, timerVars,
     pipeVars
<1>25. ASSUME StartEnter
      PROVE  ActiveCounted
  BY <1>25 DEF StartEnter, ioVars, idleVars, poolVars, startVars, eventVars,
     timerVars, pipeVars
<1>26. ASSUME NEW w \in Workers, Create(w)
      PROVE  ActiveCounted
  BY <1>26 DEF Create, ioVars, idleVars, poolVars, ctlVars, startVars,
     flagVars, eventVars, timerVars, pipeVars
<1>27. ASSUME NEW w \in Workers, Constructed(w)
      PROVE  ActiveCounted
  BY <1>27 DEF Constructed, ioVars, idleVars, poolVars, flagVars, eventVars,
     timerVars, pipeVars
<1>28. ASSUME StopEnter
      PROVE  ActiveCounted
  BY <1>28 DEF StopEnter, ioVars, idleVars, poolVars, startVars, eventVars,
     timerVars, pipeVars
<1>29. ASSUME StopTickle
      PROVE  ActiveCounted
  BY <1>29 DEF StopTickle, ioVars, idleVars, poolVars, startVars, eventVars,
     timerVars, pipeVars
<1>30. ASSUME CallRoot
      PROVE  ActiveCounted
  BY <1>30 DEF CallRoot, ioVars, poolVars, ctlVars, startVars, flagVars,
     eventVars, timerVars, pipeVars
<1>31. ASSUME Join
      PROVE  ActiveCounted
  BY <1>31 DEF Join, Move, ioVars, idleVars, poolVars, ctlVars, startVars,
     flagVars, eventVars, timerVars, pipeVars
<1>32. ASSUME NEW k \in Tasks, Fire(k)
      PROVE  ActiveCounted
  BY <1>32 DEF Fire, idleVars, poolVars, ctlVars, startVars, flagVars,
     timerVars, pipeVars
<1>33. ASSUME NEW k \in Tasks, Expire(k)
      PROVE  ActiveCounted
  BY <1>33 DEF Expire, idleVars, poolVars, ctlVars, startVars, flagVars,
     eventVars, pipeVars
<1>34. ASSUME UNCHANGED vars PROVE ActiveCounted
  BY <1>34 DEF vars, ioVars, idleVars, poolVars, ctlVars, startVars, flagVars,
     eventVars, timerVars, pipeVars
<1> QED
  BY <1>1, <1>2, <1>3, <1>4, <1>5, <1>6, <1>7, <1>8, <1>9, <1>10, <1>11,
     <1>12, <1>13, <1>14, <1>15, <1>16, <1>17, <1>18, <1>19, <1>20, <1>21,
     <1>22, <1>23, <1>24, <1>25, <1>26, <1>27, <1>28, <1>29, <1>30, <1>31,
     <1>32, <1>33, <1>34
     DEF Next, RunStep, MainStep, Application

(* m_pendingEventCount follows the events that wait or are being           *)
(* dispatched.                                                             *)
PendingCounted ==
  \/ waiting' = waiting /\ Dispatchers' = Dispatchers
     /\ m_pendingEventCount' = m_pendingEventCount
  \/ \E k : k \notin waiting /\ waiting' = waiting \cup {k} /\ Dispatchers' = Dispatchers
            /\ m_pendingEventCount' = m_pendingEventCount + 1
  \/ \E k \in waiting, t \in Threads \ Dispatchers :
            /\ waiting' = waiting \ {k} /\ Dispatchers' = Dispatchers \cup {t}
            /\ m_pendingEventCount' = m_pendingEventCount
  \/ \E t \in Dispatchers : waiting' = waiting /\ Dispatchers' = Dispatchers \ {t}
            /\ m_pendingEventCount' = m_pendingEventCount - 1

(* addEvent counts, the loop of idle() uncounts after triggerEvent.        *)
LEMMA PendingSteps ==
  ASSUME PlacesOK, DataOK, [Next]_vars PROVE PendingCounted
<1> USE IOIdleAssumption
    DEF PlacesOK, DataOK, PendingCounted, Dispatchers, At, Threads,
       Goto, ThenTickle
<1>1. ASSUME NEW t \in Threads, tickle(t)
      PROVE  PendingCounted
  BY <1>1 DEF tickle, idleVars, poolVars, ctlVars, startVars, flagVars,
     eventVars, timerVars
<1>2. ASSUME NEW t \in Threads, Take(t)
      PROVE  PendingCounted
  BY <1>2 DEF Take, ioVars, idleVars, ctlVars, startVars, flagVars, eventVars,
     timerVars, pipeVars
<1>3. ASSUME NEW t \in Threads, CountActive(t)
      PROVE  PendingCounted
  BY <1>3 DEF CountActive, ioVars, idleVars, ctlVars, startVars, flagVars,
     eventVars, timerVars, pipeVars
<1>4. ASSUME NEW t \in Threads, TaskEnds(t)
      PROVE  PendingCounted
  BY <1>4 DEF TaskEnds, ioVars, idleVars, ctlVars, startVars, flagVars,
     eventVars, timerVars, pipeVars
<1>5. ASSUME NEW t \in Threads, ScanNothing(t)
      PROVE  PendingCounted
  BY <1>5 DEF ScanNothing, Move, ioVars, idleVars, poolVars, ctlVars,
     startVars, flagVars, eventVars, timerVars, pipeVars
<1>6. ASSUME NEW t \in Threads, IdleIn(t)
      PROVE  PendingCounted
  BY <1>6 DEF IdleIn, ioVars, poolVars, ctlVars, startVars, flagVars,
     eventVars, timerVars, pipeVars
<1>7. ASSUME NEW t \in Threads, IdleOut(t)
      PROVE  PendingCounted
  BY <1>7 DEF IdleOut, ioVars, poolVars, ctlVars, startVars, flagVars,
     eventVars, timerVars, pipeVars
<1>8. ASSUME NEW t \in Threads, ReturnFromRun(t)
      PROVE  PendingCounted
  BY <1>8 DEF ReturnFromRun, Move, ioVars, idleVars, poolVars, ctlVars,
     startVars, flagVars, eventVars, timerVars, pipeVars
<1>9. ASSUME NEW t \in Threads, isStopedTimer(t)
      PROVE  PendingCounted
  BY <1>9 DEF isStopedTimer, Move, ioVars, idleVars, poolVars, ctlVars,
     startVars, flagVars, eventVars, timerVars, pipeVars, NotStoped
<1>10. ASSUME NEW t \in Threads, isStopedPending(t)
      PROVE  PendingCounted
  BY <1>10 DEF isStopedPending, Move, ioVars, idleVars, poolVars, ctlVars,
     startVars, flagVars, eventVars, timerVars, pipeVars, NotStoped
<1>11. ASSUME NEW t \in Threads, isStopedList(t)
      PROVE  PendingCounted
  BY <1>11 DEF isStopedList, Move, ioVars, idleVars, poolVars, ctlVars,
     startVars, flagVars, eventVars, timerVars, pipeVars, NotStoped
<1>12. ASSUME NEW t \in Threads, isStopedActive(t)
      PROVE  PendingCounted
  BY <1>12 DEF isStopedActive, ioVars, poolVars, ctlVars, startVars, flagVars,
     eventVars, timerVars, pipeVars, NotStoped
<1>13. ASSUME NEW t \in Threads, EpollWait(t)
      PROVE  PendingCounted
  BY <1>13 DEF EpollWait, poolVars, ctlVars, startVars, flagVars, timerVars
<1>14. ASSUME NEW t \in Threads, ListExpired(t)
      PROVE  PendingCounted
  BY <1>14 DEF ListExpired, poolVars, ctlVars, startVars, flagVars, eventVars,
     pipeVars
<1>15. ASSUME NEW t \in Threads, ScheduleExpired(t)
      PROVE  PendingCounted
  BY <1>15 DEF ScheduleExpired, ioVars, ctlVars, startVars, flagVars,
     eventVars, timerVars, pipeVars
<1>16. ASSUME NEW t \in Threads, DrainPipe(t)
      PROVE  PendingCounted
  BY <1>16 DEF DrainPipe, poolVars, ctlVars, startVars, flagVars, eventVars,
     timerVars
<1>17. ASSUME NEW t \in Threads, NEW k \in Tasks, Trigger(t, k)
      PROVE  PendingCounted
  BY <1>17 DEF Trigger, ctlVars, startVars, flagVars, timerVars, pipeVars
<1>18. ASSUME NEW t \in Threads, NEW k \in Tasks, Stale(t, k)
      PROVE  PendingCounted
  BY <1>18 DEF Stale, ioVars, poolVars, ctlVars, startVars, flagVars,
     eventVars, timerVars, pipeVars
<1>19. ASSUME NEW t \in Threads, Uncount(t)
      PROVE  PendingCounted
  BY <1>19 DEF Uncount, idleVars, poolVars, ctlVars, startVars, flagVars,
     timerVars, pipeVars
<1>20. ASSUME NEW t \in Threads, SwapOut(t)
      PROVE  PendingCounted
  BY <1>20 DEF SwapOut, Move, ioVars, idleVars, poolVars, ctlVars, startVars,
     flagVars, eventVars, timerVars, pipeVars
<1>21. ASSUME NEW t \in Threads, NEW k \in Tasks, Schedule(t, k)
      PROVE  PendingCounted
  BY <1>21 DEF Schedule, ioVars, idleVars, ctlVars, startVars, flagVars,
     eventVars, timerVars, pipeVars, InUserCode, NewTasks, Given
<1>22. ASSUME NEW t \in Threads, NEW k \in Tasks, AddEvent(t, k)
      PROVE  PendingCounted
  BY <1>22 DEF AddEvent, idleVars, poolVars, ctlVars, startVars, flagVars,
     timerVars, pipeVars, InUserCode, NewTasks, Given
<1>23. ASSUME NEW t \in Threads, NEW k \in Tasks, AddTimer(t, k)
      PROVE  PendingCounted
  BY <1>23 DEF AddTimer, idleVars, poolVars, ctlVars, startVars, flagVars,
     eventVars, pipeVars, InUserCode, NewTasks, Given
<1>24. ASSUME NEW w \in Workers, Born(w)
      PROVE  PendingCounted
  BY <1>24 DEF Born, ioVars, poolVars, flagVars, eventVars, timerVars,
     pipeVars
<1>25. ASSUME StartEnter
      PROVE  PendingCounted
  BY <1>25 DEF StartEnter, ioVars, idleVars, poolVars, startVars, eventVars,
     timerVars, pipeVars
<1>26. ASSUME NEW w \in Workers, Create(w)
      PROVE  PendingCounted
  BY <1>26 DEF Create, ioVars, idleVars, poolVars, ctlVars, startVars,
     flagVars, eventVars, timerVars, pipeVars
<1>27. ASSUME NEW w \in Workers, Constructed(w)
      PROVE  PendingCounted
  BY <1>27 DEF Constructed, ioVars, idleVars, poolVars, flagVars, eventVars,
     timerVars, pipeVars
<1>28. ASSUME StopEnter
      PROVE  PendingCounted
  BY <1>28 DEF StopEnter, ioVars, idleVars, poolVars, startVars, eventVars,
     timerVars, pipeVars
<1>29. ASSUME StopTickle
      PROVE  PendingCounted
  BY <1>29 DEF StopTickle, ioVars, idleVars, poolVars, startVars, eventVars,
     timerVars, pipeVars
<1>30. ASSUME CallRoot
      PROVE  PendingCounted
  BY <1>30 DEF CallRoot, ioVars, poolVars, ctlVars, startVars, flagVars,
     eventVars, timerVars, pipeVars
<1>31. ASSUME Join
      PROVE  PendingCounted
  BY <1>31 DEF Join, Move, ioVars, idleVars, poolVars, ctlVars, startVars,
     flagVars, eventVars, timerVars, pipeVars
<1>32. ASSUME NEW k \in Tasks, Fire(k)
      PROVE  PendingCounted
  BY <1>32 DEF Fire, idleVars, poolVars, ctlVars, startVars, flagVars,
     timerVars, pipeVars
<1>33. ASSUME NEW k \in Tasks, Expire(k)
      PROVE  PendingCounted
  BY <1>33 DEF Expire, idleVars, poolVars, ctlVars, startVars, flagVars,
     eventVars, pipeVars
<1>34. ASSUME UNCHANGED vars PROVE PendingCounted
  BY <1>34 DEF vars, ioVars, idleVars, poolVars, ctlVars, startVars, flagVars,
     eventVars, timerVars, pipeVars
<1> QED
  BY <1>1, <1>2, <1>3, <1>4, <1>5, <1>6, <1>7, <1>8, <1>9, <1>10, <1>11,
     <1>12, <1>13, <1>14, <1>15, <1>16, <1>17, <1>18, <1>19, <1>20, <1>21,
     <1>22, <1>23, <1>24, <1>25, <1>26, <1>27, <1>28, <1>29, <1>30, <1>31,
     <1>32, <1>33, <1>34
     DEF Next, RunStep, MainStep, Application

(* What is counted is finite.                                              *)
LEMMA FiniteSets ==
  ASSUME DataOK
  PROVE  IsFiniteSet(Idlers) /\ IsFiniteSet(Runners) /\ IsFiniteSet(Dispatchers)
         /\ IsFiniteSet(waiting)
<1>1. IsFiniteSet(Threads)
  BY FS_AddElement, IOIdleAssumption DEF Threads
<1>2. Idlers \subseteq Threads /\ Runners \subseteq Threads /\ Dispatchers \subseteq Threads
  BY DEF Idlers, Runners, Dispatchers
<1> QED
  BY <1>1, <1>2, FS_Subset, IOIdleAssumption DEF DataOK

(* CountersAccurate in terms of the sets that are counted.                 *)
LEMMA CountersParts ==
  CountersAccurate <=>
    /\ m_idleThreadCount = Cardinality(Idlers)
    /\ m_activeThreadCount = Cardinality(Runners)
    /\ m_pendingEventCount = Cardinality(waiting) + Cardinality(Dispatchers)
  BY DEF CountersAccurate, Idlers, Runners, Dispatchers

(* The same after a step.                                                  *)
LEMMA CountersParts_ ==
  CountersAccurate' <=>
    /\ m_idleThreadCount' = Cardinality(Idlers')
    /\ m_activeThreadCount' = Cardinality(Runners')
    /\ m_pendingEventCount' = Cardinality(waiting') + Cardinality(Dispatchers')
  BY DEF CountersAccurate, Idlers, Runners, Dispatchers

-----------------------------------------------------------------------------
(* The start of the workers.                                               *)

(* start() has created the thread.                                         *)
Begun(w) == pc[w] # "unborn"

(* While start() runs all created workers but the last have their id       *)
(* recorded; outside start() it is none or all of them.                    *)
Started ==
  /\ \A w \in Workers : w \in m_sem => w \in m_id
  /\ \A w \in Workers : w \in m_id \cup m_threadIds => Begun(w)
  /\ pc[Main] \in {"create", "ctor"} => ~m_stopping
  /\ pc[Main] = "create" =>
       m_threadIds = {w \in Workers : Begun(w)} /\ \E w \in Workers : ~Begun(w)
  /\ pc[Main] = "ctor" =>
       \E w \in Workers : Begun(w) /\ m_threadIds = {u \in Workers : Begun(u)} \ {w}
  /\ At(Main) = "user" /\ m_stopping => m_threadIds = {} /\ \A w \in Workers : ~Begun(w)
  /\ At(Main) = "user" /\ ~m_stopping => m_threadIds = Workers
  /\ At(Main) \notin {"user", "create", "ctor"} => m_stopping

(* Nothing is started initially.                                           *)
LEMMA InitStarted == Init => Started
  BY IOIdleAssumption DEF Init, Started, Begun, At, Threads

(* m_sem is posted after m_id is set and waited for before it is read.     *)
LEMMA NextStarted ==
  ASSUME PlacesOK, DataOK, Started, [Next]_vars PROVE Started'
<1> USE IOIdleAssumption DEF PlacesOK, DataOK, Started, Begun, At, Threads,
   Goto, ThenTickle
<1>1. ASSUME NEW t \in Threads, tickle(t)
      PROVE  Started'
  BY <1>1 DEF tickle, idleVars, poolVars, ctlVars, startVars, flagVars,
     eventVars, timerVars
<1>2. ASSUME NEW t \in Threads, Take(t)
      PROVE  Started'
  BY <1>2 DEF Take, ioVars, idleVars, ctlVars, startVars, flagVars, eventVars,
     timerVars, pipeVars
<1>3. ASSUME NEW t \in Threads, CountActive(t)
      PROVE  Started'
  BY <1>3 DEF CountActive, ioVars, idleVars, ctlVars, startVars, flagVars,
     eventVars, timerVars, pipeVars
<1>4. ASSUME NEW t \in Threads, TaskEnds(t)
      PROVE  Started'
  BY <1>4 DEF TaskEnds, ioVars, idleVars, ctlVars, startVars, flagVars,
     eventVars, timerVars, pipeVars
<1>5. ASSUME NEW t \in Threads, ScanNothing(t)
      PROVE  Started'
  BY <1>5 DEF ScanNothing, Move, ioVars, idleVars, poolVars, ctlVars,
     startVars, flagVars, eventVars, timerVars, pipeVars
<1>6. ASSUME NEW t \in Threads, IdleIn(t)
      PROVE  Started'
  BY <1>6 DEF IdleIn, ioVars, poolVars, ctlVars, startVars, flagVars,
     eventVars, timerVars, pipeVars
<1>7. ASSUME NEW t \in Threads, IdleOut(t)
      PROVE  Started'
  BY <1>7 DEF IdleOut, ioVars, poolVars, ctlVars, startVars, flagVars,
     eventVars, timerVars, pipeVars
<1>8. ASSUME NEW t \in Threads, ReturnFromRun(t)
      PROVE  Started'
  BY <1>8 DEF ReturnFromRun, Move, ioVars, idleVars, poolVars, ctlVars,
     startVars, flagVars, eventVars, timerVars, pipeVars
<1>9. ASSUME NEW t \in Threads, isStopedTimer(t)
      PROVE  Started'
  BY <1>9 DEF isStopedTimer, Move, ioVars, idleVars, poolVars, ctlVars,
     startVars, flagVars, eventVars, timerVars, pipeVars, NotStoped
<1>10. ASSUME NEW t \in Threads, isStopedPending(t)
      PROVE  Started'
  BY <1>10 DEF isStopedPending, Move, ioVars, idleVars, poolVars, ctlVars,
     startVars, flagVars, eventVars, timerVars, pipeVars, NotStoped
<1>11. ASSUME NEW t \in Threads, isStopedList(t)
      PROVE  Started'
  BY <1>11 DEF isStopedList, Move, ioVars, idleVars, poolVars, ctlVars,
     startVars, flagVars, eventVars, timerVars, pipeVars, NotStoped
<1>12. ASSUME NEW t \in Threads, isStopedActive(t)
      PROVE  Started'
  BY <1>12 DEF isStopedActive, ioVars, poolVars, ctlVars, startVars, flagVars,
     eventVars, timerVars, pipeVars, NotStoped
<1>13. ASSUME NEW t \in Threads, EpollWait(t)
      PROVE  Started'
  BY <1>13 DEF EpollWait, poolVars, ctlVars, startVars, flagVars, timerVars
<1>14. ASSUME NEW t \in Threads, ListExpired(t)
      PROVE  Started'
  BY <1>14 DEF ListExpired, poolVars, ctlVars, startVars, flagVars, eventVars,
     pipeVars
<1>15. ASSUME NEW t \in Threads, ScheduleExpired(t)
      PROVE  Started'
  BY <1>15 DEF ScheduleExpired, ioVars, ctlVars, startVars, flagVars,
     eventVars, timerVars, pipeVars
<1>16. ASSUME NEW t \in Threads, DrainPipe(t)
      PROVE  Started'
  BY <1>16 DEF DrainPipe, poolVars, ctlVars, startVars, flagVars, eventVars,
     timerVars
<1>17. ASSUME NEW t \in Threads, NEW k \in Tasks, Trigger(t, k)
      PROVE  Started'
  BY <1>17 DEF Trigger, ctlVars, startVars, flagVars, timerVars, pipeVars
<1>18. ASSUME NEW t \in Threads, NEW k \in Tasks, Stale(t, k)
      PROVE  Started'
  BY <1>18 DEF Stale, ioVars, poolVars, ctlVars, startVars, flagVars,
     eventVars, timerVars, pipeVars
<1>19. ASSUME NEW t \in Threads, Uncount(t)
      PROVE  Started'
  BY <1>19 DEF Uncount, idleVars, poolVars, ctlVars, startVars, flagVars,
     timerVars, pipeVars
<1>20. ASSUME NEW t \in Threads, SwapOut(t)
      PROVE  Started'
  BY <1>20 DEF SwapOut, Move, ioVars, idleVars, poolVars, ctlVars, startVars,
     flagVars, eventVars, timerVars, pipeVars
<1>21. ASSUME NEW t \in Threads, NEW k \in Tasks, Schedule(t, k)
      PROVE  Started'
  BY <1>21 DEF Schedule, ioVars, idleVars, ctlVars, startVars, flagVars,
     eventVars, timerVars, pipeVars, InUserCode
<1>22. ASSUME NEW t \in Threads, NEW k \in Tasks, AddEvent(t, k)
      PROVE  Started'
  BY <1>22 DEF AddEvent, idleVars, poolVars, ctlVars, startVars, flagVars,
     timerVars, pipeVars, InUserCode
<1>23. ASSUME NEW t \in Threads, NEW k \in Tasks, AddTimer(t, k)
      PROVE  Started'
  BY <1>23 DEF AddTimer, idleVars, poolVars, ctlVars, startVars, flagVars,
     eventVars, pipeVars, InUserCode
<1>24. ASSUME NEW w \in Workers, Born(w)
      PROVE  Started'
  BY <1>24 DEF Born, ioVars, poolVars, flagVars, eventVars, timerVars,
     pipeVars
<1>25. ASSUME StartEnter
      PROVE  Started'
  BY <1>25 DEF StartEnter, ioVars, idleVars, poolVars, startVars, eventVars,
     timerVars, pipeVars
<1>26. ASSUME NEW w \in Workers, Create(w)
      PROVE  Started'
  BY <1>26 DEF Create, ioVars, idleVars, poolVars, ctlVars, startVars,
     flagVars, eventVars, timerVars, pipeVars
<1>27. ASSUME NEW w \in Workers, Constructed(w)
      PROVE  Started'
  BY <1>27 DEF Constructed, ioVars, idleVars, poolVars, flagVars, eventVars,
     timerVars, pipeVars
<1>28. ASSUME StopEnter
      PROVE  Started'
  BY <1>28 DEF StopEnter, ioVars, idleVars, poolVars, startVars, eventVars,
     timerVars, pipeVars
<1>29. ASSUME StopTickle
      PROVE  Started'
  BY <1>29 DEF StopTickle, ioVars, idleVars, poolVars, startVars, eventVars,
     timerVars, pipeVars
<1>30. ASSUME CallRoot
      PROVE  Started'
  BY <1>30 DEF CallRoot, ioVars, poolVars, ctlVars, startVars, flagVars,
     eventVars, timerVars, pipeVars
<1>31. ASSUME Join
      PROVE  Started'
  BY <1>31 DEF Join, Move, ioVars, idleVars, poolVars, ctlVars, startVars,
     flagVars, eventVars, timerVars, pipeVars
<1>32. ASSUME NEW k \in Tasks, Fire(k)
      PROVE  Started'
  BY <1>32 DEF Fire, idleVars, poolVars, ctlVars, startVars, flagVars,
     timerVars, pipeVars
<1>33. ASSUME NEW k \in Tasks, Expire(k)
      PROVE  Started'
  BY <1>33 DEF Expire, idleVars, poolVars, ctlVars, startVars, flagVars,
     eventVars, pipeVars
<1>34. ASSUME UNCHANGED vars PROVE Started'
  BY <1>34 DEF vars, ioVars, idleVars, poolVars, ctlVars, startVars, flagVars,
     eventVars, timerVars, pipeVars
<1> QED
  BY <1>1, <1>2, <1>3, <1>4, <1>5, <1>6, <1>7, <1>8, <1>9, <1>10, <1>11,
     <1>12, <1>13, <1>14, <1>15, <1>16, <1>17, <1>18, <1>19, <1>20, <1>21,
     <1>22, <1>23, <1>24, <1>25, <1>26, <1>27, <1>28, <1>29, <1>30, <1>31,
     <1>32, <1>33, <1>34
     DEF Next, RunStep, MainStep, Application

-----------------------------------------------------------------------------
(* The list is looked at again.                                            *)

(* stop() has not been called.                                             *)
BeforeStop == At(Main) \in {"user", "create", "ctor"}

(* The thread will look at m_fibers before it leaves, or is in the last    *)
(* isStoped() of an idle fiber, after which run() scans once more.         *)
Looks(t) ==
  \/ At(t) \in {"born", "scan", "count", "exec", "call", "isStopedTimer",
                "isStopedPending", "isStopedList"} \cup IdlePoints
  \/ At(t) \in {"idle", "isStopedActive"} /\ idle_ft[t]
  \/ At(t) = "stopTickle" /\ UseCaller

(* Only a thread that counts or executes a task holds one.                 *)
FreeHands == \A t \in Threads : ft[t] # NoTask => At(t) \in {"count", "exec"}

(* As long as a task is scheduled somebody will look at the list: main has *)
(* not called stop(), or a thread that has not given up. No worker gives   *)
(* up before m_autoStop.                                                   *)
Watched ==
  /\ m_fibers # <<>> => BeforeStop \/ \E t \in Threads : Looks(t)
  /\ BeforeStop => ~m_autoStop
  /\ ~m_autoStop =>
       \A w \in Workers : Begun(w) =>
         /\ Looks(w) /\ At(w) # "isStopedActive"
         /\ At(w) = "born" \/ idle_ft[w]
  /\ \A w \in Workers :
       At(w) \notin {"user", "create", "ctor", "stopTickle", "call", "join", "returned"}
  /\ \A w \in Workers : At(w) \in IsStopedPoints => idle_ft[w]
  /\ pc[Main] = "returned" => \A w \in Workers : pc[w] = "exited"
  /\ FreeHands

(* Nothing is scheduled initially.                                         *)
LEMMA InitWatched == Init => Watched
<1> SUFFICES ASSUME Init PROVE Watched
  OBVIOUS
<1>1. \A t \in Threads : At(t) = IF t = Main THEN "user" ELSE "unborn"
  BY DEF Init, At
<1> QED
  BY <1>1, IOIdleAssumption
     DEF Init, Watched, FreeHands, BeforeStop, Looks, Begun, IsStopedPoints,
        Threads

(* A thread gives up only when it finds the list empty, and whoever        *)
(* schedules a task looks at the list again.                               *)
LEMMA NextWatched ==
  ASSUME PlacesOK, DataOK, Outside, Started, Watched, [Next]_vars PROVE Watched'
<1> USE IOIdleAssumption DEF PlacesOK, DataOK, Outside, Watched, FreeHands,
   BeforeStop, Looks, IdlePoints, IsStopedPoints,
        Begun, At, Threads, Goto, ThenTickle
<1>1. ASSUME NEW t \in Threads, tickle(t)
      PROVE  Watched'
  BY <1>1 DEF tickle, idleVars, poolVars, ctlVars, startVars, flagVars,
     eventVars, timerVars
<1>2. ASSUME NEW t \in Threads, Take(t)
      PROVE  Watched'
  BY <1>2 DEF Take, ioVars, idleVars, ctlVars, startVars, flagVars, eventVars,
     timerVars, pipeVars
<1>3. ASSUME NEW t \in Threads, CountActive(t)
      PROVE  Watched'
  BY <1>3 DEF CountActive, ioVars, idleVars, ctlVars, startVars, flagVars,
     eventVars, timerVars, pipeVars
<1>4. ASSUME NEW t \in Threads, TaskEnds(t)
      PROVE  Watched'
  BY <1>4 DEF TaskEnds, ioVars, idleVars, ctlVars, startVars, flagVars,
     eventVars, timerVars, pipeVars
<1>5. ASSUME NEW t \in Threads, ScanNothing(t)
      PROVE  Watched'
  BY <1>5 DEF ScanNothing, Move, ioVars, idleVars, poolVars, ctlVars,
     startVars, flagVars, eventVars, timerVars, pipeVars
<1>6. ASSUME NEW t \in Threads, IdleIn(t)
      PROVE  Watched'
  BY <1>6 DEF IdleIn, ioVars, poolVars, ctlVars, startVars, flagVars,
     eventVars, timerVars, pipeVars
<1>7. ASSUME NEW t \in Threads, IdleOut(t)
      PROVE  Watched'
  BY <1>7 DEF IdleOut, ioVars, poolVars, ctlVars, startVars, flagVars,
     eventVars, timerVars, pipeVars
<1>8. ASSUME NEW t \in Threads, ReturnFromRun(t)
      PROVE  Watched'
  BY <1>8 DEF ReturnFromRun, Move, ioVars, idleVars, poolVars, ctlVars,
     startVars, flagVars, eventVars, timerVars, pipeVars
<1>9. ASSUME NEW t \in Threads, isStopedTimer(t)
      PROVE  Watched'
  BY <1>9 DEF isStopedTimer, Move, ioVars, idleVars, poolVars, ctlVars,
     startVars, flagVars, eventVars, timerVars, pipeVars, NotStoped
<1>10. ASSUME NEW t \in Threads, isStopedPending(t)
      PROVE  Watched'
  BY <1>10 DEF isStopedPending, Move, ioVars, idleVars, poolVars, ctlVars,
     startVars, flagVars, eventVars, timerVars, pipeVars, NotStoped
<1>11. ASSUME NEW t \in Threads, isStopedList(t)
      PROVE  Watched'
  BY <1>11 DEF isStopedList, Move, ioVars, idleVars, poolVars, ctlVars,
     startVars, flagVars, eventVars, timerVars, pipeVars, NotStoped
<1>12. ASSUME NEW t \in Threads, isStopedActive(t)
      PROVE  Watched'
  BY <1>12 DEF isStopedActive, ioVars, poolVars, ctlVars, startVars, flagVars,
     eventVars, timerVars, pipeVars, NotStoped
<1>13. ASSUME NEW t \in Threads, EpollWait(t)
      PROVE  Watched'
  BY <1>13 DEF EpollWait, poolVars, ctlVars, startVars, flagVars, timerVars
<1>14. ASSUME NEW t \in Threads, ListExpired(t)
      PROVE  Watched'
  BY <1>14 DEF ListExpired, poolVars, ctlVars, startVars, flagVars, eventVars,
     pipeVars
<1>15. ASSUME NEW t \in Threads, ScheduleExpired(t)
      PROVE  Watched'
  BY <1>15 DEF ScheduleExpired, ioVars, ctlVars, startVars, flagVars,
     eventVars, timerVars, pipeVars
<1>16. ASSUME NEW t \in Threads, DrainPipe(t)
      PROVE  Watched'
  BY <1>16 DEF DrainPipe, poolVars, ctlVars, startVars, flagVars, eventVars,
     timerVars
<1>17. ASSUME NEW t \in Threads, NEW k \in Tasks, Trigger(t, k)
      PROVE  Watched'
  BY <1>17 DEF Trigger, ctlVars, startVars, flagVars, timerVars, pipeVars
<1>18. ASSUME NEW t \in Threads, NEW k \in Tasks, Stale(t, k)
      PROVE  Watched'
  BY <1>18 DEF Stale, ioVars, poolVars, ctlVars, startVars, flagVars,
     eventVars, timerVars, pipeVars
<1>19. ASSUME NEW t \in Threads, Uncount(t)
      PROVE  Watched'
  BY <1>19 DEF Uncount, idleVars, poolVars, ctlVars, startVars, flagVars,
     timerVars, pipeVars
<1>20. ASSUME NEW t \in Threads, SwapOut(t)
      PROVE  Watched'
  BY <1>20 DEF SwapOut, Move, ioVars, idleVars, poolVars, ctlVars, startVars,
     flagVars, eventVars, timerVars, pipeVars
<1>21. ASSUME NEW t \in Threads, NEW k \in Tasks, Schedule(t, k)
      PROVE  Watched'
  BY <1>21 DEF Schedule, ioVars, idleVars, ctlVars, startVars, flagVars,
     eventVars, timerVars, pipeVars, InUserCode
<1>22. ASSUME NEW t \in Threads, NEW k \in Tasks, AddEvent(t, k)
      PROVE  Watched'
  BY <1>22 DEF AddEvent, idleVars, poolVars, ctlVars, startVars, flagVars,
     timerVars, pipeVars, InUserCode
<1>23. ASSUME NEW t \in Threads, NEW k \in Tasks, AddTimer(t, k)
      PROVE  Watched'
  BY <1>23 DEF AddTimer, idleVars, poolVars, ctlVars, startVars, flagVars,
     eventVars, pipeVars, InUserCode
<1>24. ASSUME NEW w \in Workers, Born(w)
      PROVE  Watched'
  BY <1>24 DEF Born, ioVars, poolVars, flagVars, eventVars, timerVars,
     pipeVars
<1>25. ASSUME StartEnter
      PROVE  Watched'
  BY <1>25 DEF StartEnter, ioVars, idleVars, poolVars, startVars, eventVars,
     timerVars, pipeVars
<1>26. ASSUME NEW w \in Workers, Create(w)
      PROVE  Watched'
  BY <1>26 DEF Create, ioVars, idleVars, poolVars, ctlVars, startVars,
     flagVars, eventVars, timerVars, pipeVars
<1>27. ASSUME NEW w \in Workers, Constructed(w)
      PROVE  Watched'
  BY <1>27 DEF Constructed, ioVars, idleVars, poolVars, flagVars, eventVars,
     timerVars, pipeVars
<1>28. ASSUME StopEnter
      PROVE  Watched'
  <2>1. At(Main)' = "stopTickle" /\ m_autoStop' = TRUE
    BY <1>28 DEF StopEnter
  <2>2. \A w \in Workers : /\ pc'[w] = pc[w] /\ At(w)' = At(w) /\ Begun(w)
                          /\ idle_ft'[w] = idle_ft[w] /\ Looks(w)
    BY <1>28, Started DEF StopEnter, Started, idleVars
  <2>3. \E t \in Threads : Looks(t)'
    <3>1. CASE UseCaller
      BY <2>1, <3>1
    <3>2. CASE ~UseCaller
      <4>1. PICK w \in Workers : TRUE
        BY <3>2
      <4> QED
        BY <2>2, <4>1
    <3> QED
      BY <3>1, <3>2
  <2>4. pc'[Main] = "stopTickle" /\ ft' = ft /\ \A t \in Threads \ {Main} : At(t)' = At(t)
    BY <1>28 DEF StopEnter
  <2>5. ft[Main] = NoTask
    BY <1>28 DEF StopEnter
  <2> QED
    BY <1>28, <2>1, <2>2, <2>3, <2>4, <2>5
<1>29. ASSUME StopTickle
      PROVE  Watched'
  BY <1>29 DEF StopTickle, ioVars, idleVars, poolVars, startVars, eventVars,
     timerVars, pipeVars
<1>30. ASSUME CallRoot
      PROVE  Watched'
  BY <1>30 DEF CallRoot, ioVars, poolVars, ctlVars, startVars, flagVars,
     eventVars, timerVars, pipeVars
<1>31. ASSUME Join
      PROVE  Watched'
  BY <1>31 DEF Join, Move, ioVars, idleVars, poolVars, ctlVars, startVars,
     flagVars, eventVars, timerVars, pipeVars
<1>32. ASSUME NEW k \in Tasks, Fire(k)
      PROVE  Watched'
  BY <1>32 DEF Fire, idleVars, poolVars, ctlVars, startVars, flagVars,
     timerVars, pipeVars
<1>33. ASSUME NEW k \in Tasks, Expire(k)
      PROVE  Watched'
  BY <1>33 DEF Expire, idleVars, poolVars, ctlVars, startVars, flagVars,
     eventVars, pipeVars
<1>34. ASSUME UNCHANGED vars PROVE Watched'
  BY <1>34 DEF vars, ioVars, idleVars, poolVars, ctlVars, startVars, flagVars,
     eventVars, timerVars, pipeVars
<1> QED
  BY <1>1, <1>2, <1>3, <1>4, <1>5, <1>6, <1>7, <1>8, <1>9, <1>10, <1>11,
     <1>12, <1>13, <1>14, <1>15, <1>16, <1>17, <1>18, <1>19, <1>20, <1>21,
     <1>22, <1>23, <1>24, <1>25, <1>26, <1>27, <1>28, <1>29, <1>30, <1>31,
     <1>32, <1>33, <1>34
     DEF Next, RunStep, MainStep, Application

-----------------------------------------------------------------------------
(* What main registered.                                                   *)

(* The task waits for its event, is scheduled, is held by a thread, or was *)
(* executed.                                                               *)
Accounted(k) ==
  \/ k \in waiting \/ k \in done
  \/ \E i \in 1 .. Len(m_fibers) : m_fibers[i] = k
  \/ \E t \in Threads : ft[t] = k

(* The thread of main has seen m_pendingEventCount at zero and will not    *)
(* wait for events any more.                                               *)
SawNone ==
  \/ At(Main) \in {"isStopedList", "isStopedActive", "join", "returned"}
  \/ At(Main) \in {"idleOut", "scan", "count", "exec", "idle"} /\ ~idle_ft[Main]

(* No registered task is lost, and none waits once the thread of main has  *)
(* given up.                                                               *)
Kept ==
  /\ \A k \in promised : Accounted(k)
  /\ UseCaller /\ SawNone => promised \cap waiting = {}

(* Nothing is registered initially.                                        *)
LEMMA InitKept == Init => Kept
  BY DEF Init, Kept

(* A task that is accounted for cannot be handed over again.               *)
LEMMA AccountedGiven ==
  ASSUME DataOK, NEW k, Accounted(k)
  PROVE  k \in Given
<1>1. CASE \E i \in 1 .. Len(m_fibers) : m_fibers[i] = k
  BY <1>1 DEF Given, Range, DataOK
<1> QED
  BY <1>1 DEF Given, Accounted

(* A task goes from its event to the list, to a thread and to done.        *)
LEMMA AccountedKept ==
  ASSUME PlacesOK, DataOK, FreeHands, NEW k \in Tasks, Accounted(k), [Next]_vars
  PROVE  Accounted(k)'
<1> USE IOIdleAssumption DEF PlacesOK, DataOK, Accounted, Threads, Goto,
   ThenTickle
<1>1. ASSUME NEW t \in Threads, tickle(t)
      PROVE  Accounted(k)'
  BY <1>1 DEF tickle, idleVars, poolVars, ctlVars, startVars, flagVars,
     eventVars, timerVars
<1>2. ASSUME NEW t \in Threads, Take(t)
      PROVE  Accounted(k)'
  <2>1. /\ m_fibers # <<>> /\ m_fibers' = Tail(m_fibers) /\ waiting' = waiting /\ done' = done
        /\ ft' = [ft EXCEPT ![t] = Head(m_fibers)] /\ pc[t] = "scan"
    BY <1>2 DEF Take, ioVars, eventVars
  <2>2. ft'[t] = m_fibers[1] /\ \A u \in Threads \ {t} : ft'[u] = ft[u]
    BY <2>1
  <2>3. k # NoTask /\ ft[t] = k => FALSE
    BY <2>1 DEF At, FreeHands
  <2>4. CASE \E i \in 1 .. Len(m_fibers) : m_fibers[i] = k
    <3>1. PICK i \in 1 .. Len(m_fibers) : m_fibers[i] = k
      BY <2>4
    <3>2. CASE i = 1
      BY <2>2, <3>1, <3>2
    <3>3. CASE i # 1
      <4>1. i - 1 \in 1 .. Len(Tail(m_fibers)) /\ Tail(m_fibers)[i - 1] = k
        BY <2>1, <3>1, <3>3
      <4> QED
        BY <2>1, <4>1
    <3> QED
      BY <3>2, <3>3
  <2> QED
    BY <2>1, <2>2, <2>3, <2>4
<1>3. ASSUME NEW t \in Threads, CountActive(t)
      PROVE  Accounted(k)'
  BY <1>3 DEF CountActive, ioVars, idleVars, ctlVars, startVars, flagVars,
     eventVars, timerVars, pipeVars
<1>4. ASSUME NEW t \in Threads, TaskEnds(t)
      PROVE  Accounted(k)'
  BY <1>4 DEF TaskEnds, ioVars, idleVars, ctlVars, startVars, flagVars,
     eventVars, timerVars, pipeVars
<1>5. ASSUME NEW t \in Threads, ScanNothing(t)
      PROVE  Accounted(k)'
  BY <1>5 DEF ScanNothing, Move, ioVars, idleVars, poolVars, ctlVars,
     startVars, flagVars, eventVars, timerVars, pipeVars
<1>6. ASSUME NEW t \in Threads, IdleIn(t)
      PROVE  Accounted(k)'
  BY <1>6 DEF IdleIn, ioVars, poolVars, ctlVars, startVars, flagVars,
     eventVars, timerVars, pipeVars
<1>7. ASSUME NEW t \in Threads, IdleOut(t)
      PROVE  Accounted(k)'
  BY <1>7 DEF IdleOut, ioVars, poolVars, ctlVars, startVars, flagVars,
     eventVars, timerVars, pipeVars
<1>8. ASSUME NEW t \in Threads, ReturnFromRun(t)
      PROVE  Accounted(k)'
  BY <1>8 DEF ReturnFromRun, Move, ioVars, idleVars, poolVars, ctlVars,
     startVars, flagVars, eventVars, timerVars, pipeVars
<1>9. ASSUME NEW t \in Threads, isStopedTimer(t)
      PROVE  Accounted(k)'
  BY <1>9 DEF isStopedTimer, Move, ioVars, idleVars, poolVars, ctlVars,
     startVars, flagVars, eventVars, timerVars, pipeVars, NotStoped
<1>10. ASSUME NEW t \in Threads, isStopedPending(t)
      PROVE  Accounted(k)'
  BY <1>10 DEF isStopedPending, Move, ioVars, idleVars, poolVars, ctlVars,
     startVars, flagVars, eventVars, timerVars, pipeVars, NotStoped
<1>11. ASSUME NEW t \in Threads, isStopedList(t)
      PROVE  Accounted(k)'
  BY <1>11 DEF isStopedList, Move, ioVars, idleVars, poolVars, ctlVars,
     startVars, flagVars, eventVars, timerVars, pipeVars, NotStoped
<1>12. ASSUME NEW t \in Threads, isStopedActive(t)
      PROVE  Accounted(k)'
  BY <1>12 DEF isStopedActive, ioVars, poolVars, ctlVars, startVars, flagVars,
     eventVars, timerVars, pipeVars, NotStoped
<1>13. ASSUME NEW t \in Threads, EpollWait(t)
      PROVE  Accounted(k)'
  BY <1>13 DEF EpollWait, poolVars, ctlVars, startVars, flagVars, timerVars
<1>14. ASSUME NEW t \in Threads, ListExpired(t)
      PROVE  Accounted(k)'
  BY <1>14 DEF ListExpired, poolVars, ctlVars, startVars, flagVars, eventVars,
     pipeVars
<1>15. ASSUME NEW t \in Threads, ScheduleExpired(t)
      PROVE  Accounted(k)'
  BY <1>15 DEF ScheduleExpired, ioVars, ctlVars, startVars, flagVars,
     eventVars, timerVars, pipeVars
<1>16. ASSUME NEW t \in Threads, DrainPipe(t)
      PROVE  Accounted(k)'
  BY <1>16 DEF DrainPipe, poolVars, ctlVars, startVars, flagVars, eventVars,
     timerVars
<1>17. ASSUME NEW t \in Threads, NEW j \in Tasks, Trigger(t, j)
      PROVE  Accounted(k)'
  BY <1>17, SMTT(30) DEF Trigger, ctlVars, startVars, flagVars, timerVars, pipeVars
<1>18. ASSUME NEW t \in Threads, NEW j \in Tasks, Stale(t, j)
      PROVE  Accounted(k)'
  BY <1>18 DEF Stale, ioVars, poolVars, ctlVars, startVars, flagVars,
     eventVars, timerVars, pipeVars
<1>19. ASSUME NEW t \in Threads, Uncount(t)
      PROVE  Accounted(k)'
  BY <1>19 DEF Uncount, idleVars, poolVars, ctlVars, startVars, flagVars,
     timerVars, pipeVars
<1>20. ASSUME NEW t \in Threads, SwapOut(t)
      PROVE  Accounted(k)'
  BY <1>20 DEF SwapOut, Move, ioVars, idleVars, poolVars, ctlVars, startVars,
     flagVars, eventVars, timerVars, pipeVars
<1>21. ASSUME NEW t \in Threads, NEW j \in Tasks, Schedule(t, j)
      PROVE  Accounted(k)'
  BY <1>21 DEF Schedule, ioVars, idleVars, ctlVars, startVars, flagVars,
     eventVars, timerVars, pipeVars, InUserCode
<1>22. ASSUME NEW t \in Threads, NEW j \in Tasks, AddEvent(t, j)
      PROVE  Accounted(k)'
  BY <1>22 DEF AddEvent, idleVars, poolVars, ctlVars, startVars, flagVars,
     timerVars, pipeVars, InUserCode
<1>23. ASSUME NEW t \in Threads, NEW j \in Tasks, AddTimer(t, j)
      PROVE  Accounted(k)'
  BY <1>23 DEF AddTimer, idleVars, poolVars, ctlVars, startVars, flagVars,
     eventVars, pipeVars, InUserCode
<1>24. ASSUME NEW w \in Workers, Born(w)
      PROVE  Accounted(k)'
  BY <1>24 DEF Born, ioVars, poolVars, flagVars, eventVars, timerVars,
     pipeVars
<1>25. ASSUME StartEnter
      PROVE  Accounted(k)'
  BY <1>25 DEF StartEnter, ioVars, idleVars, poolVars, startVars, eventVars,
     timerVars, pipeVars
<1>26. ASSUME NEW w \in Workers, Create(w)
      PROVE  Accounted(k)'
  BY <1>26 DEF Create, ioVars, idleVars, poolVars, ctlVars, startVars,
     flagVars, eventVars, timerVars, pipeVars
<1>27. ASSUME NEW w \in Workers, Constructed(w)
      PROVE  Accounted(k)'
  BY <1>27 DEF Constructed, ioVars, idleVars, poolVars, flagVars, eventVars,
     timerVars, pipeVars
<1>28. ASSUME StopEnter
      PROVE  Accounted(k)'
  BY <1>28 DEF StopEnter, ioVars, idleVars, poolVars, startVars, eventVars,
     timerVars, pipeVars
<1>29. ASSUME StopTickle
      PROVE  Accounted(k)'
  BY <1>29 DEF StopTickle, ioVars, idleVars, poolVars, startVars, eventVars,
     timerVars, pipeVars
<1>30. ASSUME CallRoot
      PROVE  Accounted(k)'
  BY <1>30 DEF CallRoot, ioVars, poolVars, ctlVars, startVars, flagVars,
     eventVars, timerVars, pipeVars
<1>31. ASSUME Join
      PROVE  Accounted(k)'
  BY <1>31 DEF Join, Move, ioVars, idleVars, poolVars, ctlVars, startVars,
     flagVars, eventVars, timerVars, pipeVars
<1>32. ASSUME NEW j \in Tasks, Fire(j)
      PROVE  Accounted(k)'
  BY <1>32 DEF Fire, idleVars, poolVars, ctlVars, startVars, flagVars,
     timerVars, pipeVars
<1>33. ASSUME NEW j \in Tasks, Expire(j)
      PROVE  Accounted(k)'
  BY <1>33 DEF Expire, idleVars, poolVars, ctlVars, startVars, flagVars,
     eventVars, pipeVars
<1>34. ASSUME UNCHANGED vars PROVE Accounted(k)'
  BY <1>34 DEF vars, ioVars, idleVars, poolVars, ctlVars, startVars, flagVars,
     eventVars, timerVars, pipeVars
<1> QED
  BY <1>1, <1>2, <1>3, <1>4, <1>5, <1>6, <1>7, <1>8, <1>9, <1>10, <1>11,
     <1>12, <1>13, <1>14, <1>15, <1>16, <1>17, <1>18, <1>19, <1>20, <1>21,
     <1>22, <1>23, <1>24, <1>25, <1>26, <1>27, <1>28, <1>29, <1>30, <1>31,
     <1>32, <1>33, <1>34
     DEF Next, RunStep, MainStep, Application

(* Only addEvent adds to promised.                                         *)
LEMMA PromisedSteps ==
  ASSUME [Next]_vars, promised' # promised
  PROVE  \E t \in Threads, k \in Tasks : AddEvent(t, k)
<1> SUFFICES ASSUME ~\E t \in Threads, k \in Tasks : AddEvent(t, k)
             PROVE  promised' = promised
  OBVIOUS
<1>1. ASSUME NEW t \in Threads, tickle(t)
      PROVE  promised' = promised
  BY <1>1 DEF tickle, idleVars, poolVars, ctlVars, startVars, flagVars,
     eventVars, timerVars
<1>2. ASSUME NEW t \in Threads, Take(t)
      PROVE  promised' = promised
  BY <1>2 DEF Take, ioVars, idleVars, ctlVars, startVars, flagVars, eventVars,
     timerVars, pipeVars
<1>3. ASSUME NEW t \in Threads, CountActive(t)
      PROVE  promised' = promised
  BY <1>3 DEF CountActive, ioVars, idleVars, ctlVars, startVars, flagVars,
     eventVars, timerVars, pipeVars
<1>4. ASSUME NEW t \in Threads, TaskEnds(t)
      PROVE  promised' = promised
  BY <1>4 DEF TaskEnds, ioVars, idleVars, ctlVars, startVars, flagVars,
     eventVars, timerVars, pipeVars
<1>5. ASSUME NEW t \in Threads, ScanNothing(t)
      PROVE  promised' = promised
  BY <1>5 DEF ScanNothing, Move, ioVars, idleVars, poolVars, ctlVars,
     startVars, flagVars, eventVars, timerVars, pipeVars
<1>6. ASSUME NEW t \in Threads, IdleIn(t)
      PROVE  promised' = promised
  BY <1>6 DEF IdleIn, ioVars, poolVars, ctlVars, startVars, flagVars,
     eventVars, timerVars, pipeVars
<1>7. ASSUME NEW t \in Threads, IdleOut(t)
      PROVE  promised' = promised
  BY <1>7 DEF IdleOut, ioVars, poolVars, ctlVars, startVars, flagVars,
     eventVars, timerVars, pipeVars
<1>8. ASSUME NEW t \in Threads, ReturnFromRun(t)
      PROVE  promised' = promised
  BY <1>8 DEF ReturnFromRun, Move, ioVars, idleVars, poolVars, ctlVars,
     startVars, flagVars, eventVars, timerVars, pipeVars
<1>9. ASSUME NEW t \in Threads, isStopedTimer(t)
      PROVE  promised' = promised
  BY <1>9 DEF isStopedTimer, Move, ioVars, idleVars, poolVars, ctlVars,
     startVars, flagVars, eventVars, timerVars, pipeVars
<1>10. ASSUME NEW t \in Threads, isStopedPending(t)
      PROVE  promised' = promised
  BY <1>10 DEF isStopedPending, Move, ioVars, idleVars, poolVars, ctlVars,
     startVars, flagVars, eventVars, timerVars, pipeVars
<1>11. ASSUME NEW t \in Threads, isStopedList(t)
      PROVE  promised' = promised
  BY <1>11 DEF isStopedList, Move, ioVars, idleVars, poolVars, ctlVars,
     startVars, flagVars, eventVars, timerVars, pipeVars
<1>12. ASSUME NEW t \in Threads, isStopedActive(t)
      PROVE  promised' = promised
  BY <1>12 DEF isStopedActive, ioVars, poolVars, ctlVars, startVars, flagVars,
     eventVars, timerVars, pipeVars
<1>13. ASSUME NEW t \in Threads, EpollWait(t)
      PROVE  promised' = promised
  BY <1>13 DEF EpollWait, poolVars, ctlVars, startVars, flagVars, timerVars
<1>14. ASSUME NEW t \in Threads, ListExpired(t)
      PROVE  promised' = promised
  BY <1>14 DEF ListExpired, poolVars, ctlVars, startVars, flagVars, eventVars,
     pipeVars
<1>15. ASSUME NEW t \in Threads, ScheduleExpired(t)
      PROVE  promised' = promised
  BY <1>15 DEF ScheduleExpired, ioVars, ctlVars, startVars, flagVars,
     eventVars, timerVars, pipeVars
<1>16. ASSUME NEW t \in Threads, DrainPipe(t)
      PROVE  promised' = promised
  BY <1>16 DEF DrainPipe, poolVars, ctlVars, startVars, flagVars, eventVars,
     timerVars
<1>17. ASSUME NEW t \in Threads, NEW k \in Tasks, Trigger(t, k)
      PROVE  promised' = promised
  BY <1>17 DEF Trigger, ctlVars, startVars, flagVars, timerVars, pipeVars
<1>18. ASSUME NEW t \in Threads, NEW k \in Tasks, Stale(t, k)
      PROVE  promised' = promised
  BY <1>18 DEF Stale, ioVars, poolVars, ctlVars, startVars, flagVars,
     eventVars, timerVars, pipeVars
<1>19. ASSUME NEW t \in Threads, Uncount(t)
      PROVE  promised' = promised
  BY <1>19 DEF Uncount, idleVars, poolVars, ctlVars, startVars, flagVars,
     timerVars, pipeVars
<1>20. ASSUME NEW t \in Threads, SwapOut(t)
      PROVE  promised' = promised
  BY <1>20 DEF SwapOut, Move, ioVars, idleVars, poolVars, ctlVars, startVars,
     flagVars, eventVars, timerVars, pipeVars
<1>21. ASSUME NEW t \in Threads, NEW k \in Tasks, Schedule(t, k)
      PROVE  promised' = promised
  BY <1>21 DEF Schedule, ioVars, idleVars, ctlVars, startVars, flagVars,
     eventVars, timerVars, pipeVars
<1>22. ASSUME NEW t \in Threads, NEW k \in Tasks, AddEvent(t, k)
      PROVE  promised' = promised
  BY <1>22 DEF AddEvent, idleVars, poolVars, ctlVars, startVars, flagVars,
     timerVars, pipeVars
<1>23. ASSUME NEW t \in Threads, NEW k \in Tasks, AddTimer(t, k)
      PROVE  promised' = promised
  BY <1>23 DEF AddTimer, idleVars, poolVars, ctlVars, startVars, flagVars,
     eventVars, pipeVars
<1>24. ASSUME NEW w \in Workers, Born(w)
      PROVE  promised' = promised
  BY <1>24 DEF Born, ioVars, poolVars, flagVars, eventVars, timerVars,
     pipeVars
<1>25. ASSUME StartEnter
      PROVE  promised' = promised
  BY <1>25 DEF StartEnter, ioVars, idleVars, poolVars, startVars, eventVars,
     timerVars, pipeVars
<1>26. ASSUME NEW w \in Workers, Create(w)
      PROVE  promised' = promised
  BY <1>26 DEF Create, ioVars, idleVars, poolVars, ctlVars, startVars,
     flagVars, eventVars, timerVars, pipeVars
<1>27. ASSUME NEW w \in Workers, Constructed(w)
      PROVE  promised' = promised
  BY <1>27 DEF Constructed, ioVars, idleVars, poolVars, flagVars, eventVars,
     timerVars, pipeVars
<1>28. ASSUME StopEnter
      PROVE  promised' = promised
  BY <1>28 DEF StopEnter, ioVars, idleVars, poolVars, startVars, eventVars,
     timerVars, pipeVars
<1>29. ASSUME StopTickle
      PROVE  promised' = promised
  BY <1>29 DEF StopTickle, ioVars, idleVars, poolVars, startVars, eventVars,
     timerVars, pipeVars
<1>30. ASSUME CallRoot
      PROVE  promised' = promised
  BY <1>30 DEF CallRoot, ioVars, poolVars, ctlVars, startVars, flagVars,
     eventVars, timerVars, pipeVars
<1>31. ASSUME Join
      PROVE  promised' = promised
  BY <1>31 DEF Join, Move, ioVars, idleVars, poolVars, ctlVars, startVars,
     flagVars, eventVars, timerVars, pipeVars
<1>32. ASSUME NEW k \in Tasks, Fire(k)
      PROVE  promised' = promised
  BY <1>32 DEF Fire, idleVars, poolVars, ctlVars, startVars, flagVars,
     timerVars, pipeVars
<1>33. ASSUME NEW k \in Tasks, Expire(k)
      PROVE  promised' = promised
  BY <1>33 DEF Expire, idleVars, poolVars, ctlVars, startVars, flagVars,
     eventVars, pipeVars
<1>34. ASSUME UNCHANGED vars PROVE promised' = promised
  BY <1>34 DEF vars, ioVars, idleVars, poolVars, ctlVars, startVars, flagVars,
     eventVars, timerVars, pipeVars
<1> QED
  BY <1>1, <1>2, <1>3, <1>4, <1>5, <1>6, <1>7, <1>8, <1>9, <1>10, <1>11,
     <1>12, <1>13, <1>14, <1>15, <1>16, <1>17, <1>18, <1>19, <1>20, <1>21,
     <1>22, <1>23, <1>24, <1>25, <1>26, <1>27, <1>28, <1>29, <1>30, <1>31,
     <1>32, <1>33, <1>34
     DEF Next, RunStep, MainStep, Application

(* The counter is zero only if no event waits.                             *)
LEMMA NoneWaiting ==
  ASSUME DataOK, CountersAccurate, m_pendingEventCount = 0
  PROVE  waiting = {}
<1>1. IsFiniteSet(waiting) /\ IsFiniteSet(Dispatchers)
  BY FiniteSets
<1>2. Cardinality(waiting) \in Nat /\ Cardinality(Dispatchers) \in Nat
  BY <1>1, FS_CardinalityType
<1>3. Cardinality(waiting) = 0
  BY <1>2, CountersParts
<1> QED
  BY <1>1, <1>3, FS_EmptySet

(* The thread of main gives up when no event waits, and then hands over no *)
(* event of its own; a task of another thread may register a new callback, *)
(* but none main had registered.                                           *)
LEMMA NextNoneLeft ==
  ASSUME PlacesOK, DataOK, Outside, CountersAccurate, Kept, UseCaller, [Next]_vars
  PROVE  SawNone' => promised' \cap waiting' = {}
<1> USE IOIdleAssumption, AccountedGiven DEF PlacesOK, DataOK, Outside,
   IdlePoints, Kept, SawNone, At, Threads, Goto, ThenTickle
<1>1. ASSUME NEW t \in Threads, tickle(t)
      PROVE  SawNone' => promised' \cap waiting' = {}
  BY <1>1 DEF tickle, idleVars, poolVars, ctlVars, startVars, flagVars,
     eventVars, timerVars
<1>2. ASSUME NEW t \in Threads, Take(t)
      PROVE  SawNone' => promised' \cap waiting' = {}
  BY <1>2 DEF Take, ioVars, idleVars, ctlVars, startVars, flagVars, eventVars,
     timerVars, pipeVars
<1>3. ASSUME NEW t \in Threads, CountActive(t)
      PROVE  SawNone' => promised' \cap waiting' = {}
  BY <1>3 DEF CountActive, ioVars, idleVars, ctlVars, startVars, flagVars,
     eventVars, timerVars, pipeVars
<1>4. ASSUME NEW t \in Threads, TaskEnds(t)
      PROVE  SawNone' => promised' \cap waiting' = {}
  BY <1>4 DEF TaskEnds, ioVars, idleVars, ctlVars, startVars, flagVars,
     eventVars, timerVars, pipeVars
<1>5. ASSUME NEW t \in Threads, ScanNothing(t)
      PROVE  SawNone' => promised' \cap waiting' = {}
  BY <1>5 DEF ScanNothing, Move, ioVars, idleVars, poolVars, ctlVars,
     startVars, flagVars, eventVars, timerVars, pipeVars
<1>6. ASSUME NEW t \in Threads, IdleIn(t)
      PROVE  SawNone' => promised' \cap waiting' = {}
  BY <1>6 DEF IdleIn, ioVars, poolVars, ctlVars, startVars, flagVars,
     eventVars, timerVars, pipeVars
<1>7. ASSUME NEW t \in Threads, IdleOut(t)
      PROVE  SawNone' => promised' \cap waiting' = {}
  BY <1>7 DEF IdleOut, ioVars, poolVars, ctlVars, startVars, flagVars,
     eventVars, timerVars, pipeVars
<1>8. ASSUME NEW t \in Threads, ReturnFromRun(t)
      PROVE  SawNone' => promised' \cap waiting' = {}
  BY <1>8 DEF ReturnFromRun, Move, ioVars, idleVars, poolVars, ctlVars,
     startVars, flagVars, eventVars, timerVars, pipeVars
<1>9. ASSUME NEW t \in Threads, isStopedTimer(t)
      PROVE  SawNone' => promised' \cap waiting' = {}
  BY <1>9 DEF isStopedTimer, Move, ioVars, idleVars, poolVars, ctlVars,
     startVars, flagVars, eventVars, timerVars, pipeVars, NotStoped
<1>10. ASSUME NEW t \in Threads, isStopedPending(t)
      PROVE  SawNone' => promised' \cap waiting' = {}
  BY <1>10, NoneWaiting DEF isStopedPending, Move, ioVars, idleVars, poolVars,
     ctlVars, startVars, flagVars, eventVars, timerVars, pipeVars, NotStoped
<1>11. ASSUME NEW t \in Threads, isStopedList(t)
      PROVE  SawNone' => promised' \cap waiting' = {}
  BY <1>11 DEF isStopedList, Move, ioVars, idleVars, poolVars, ctlVars,
     startVars, flagVars, eventVars, timerVars, pipeVars, NotStoped
<1>12. ASSUME NEW t \in Threads, isStopedActive(t)
      PROVE  SawNone' => promised' \cap waiting' = {}
  BY <1>12 DEF isStopedActive, ioVars, poolVars, ctlVars, startVars, flagVars,
     eventVars, timerVars, pipeVars, NotStoped
<1>13. ASSUME NEW t \in Threads, EpollWait(t)
      PROVE  SawNone' => promised' \cap waiting' = {}
  BY <1>13 DEF EpollWait, poolVars, ctlVars, startVars, flagVars, timerVars
<1>14. ASSUME NEW t \in Threads, ListExpired(t)
      PROVE  SawNone' => promised' \cap waiting' = {}
  BY <1>14 DEF ListExpired, poolVars, ctlVars, startVars, flagVars, eventVars,
     pipeVars
<1>15. ASSUME NEW t \in Threads, ScheduleExpired(t)
      PROVE  SawNone' => promised' \cap waiting' = {}
  BY <1>15 DEF ScheduleExpired, ioVars, ctlVars, startVars, flagVars,
     eventVars, timerVars, pipeVars
<1>16. ASSUME NEW t \in Threads, DrainPipe(t)
      PROVE  SawNone' => promised' \cap waiting' = {}
  BY <1>16 DEF DrainPipe, poolVars, ctlVars, startVars, flagVars, eventVars,
     timerVars
<1>17. ASSUME NEW t \in Threads, NEW k \in Tasks, Trigger(t, k)
      PROVE  SawNone' => promised' \cap waiting' = {}
  BY <1>17 DEF Trigger, ctlVars, startVars, flagVars, timerVars, pipeVars
<1>18. ASSUME NEW t \in Threads, NEW k \in Tasks, Stale(t, k)
      PROVE  SawNone' => promised' \cap waiting' = {}
  BY <1>18 DEF Stale, ioVars, poolVars, ctlVars, startVars, flagVars,
     eventVars, timerVars, pipeVars
<1>19. ASSUME NEW t \in Threads, Uncount(t)
      PROVE  SawNone' => promised' \cap waiting' = {}
  BY <1>19 DEF Uncount, idleVars, poolVars, ctlVars, startVars, flagVars,
     timerVars, pipeVars
<1>20. ASSUME NEW t \in Threads, SwapOut(t)
      PROVE  SawNone' => promised' \cap waiting' = {}
  BY <1>20 DEF SwapOut, Move, ioVars, idleVars, poolVars, ctlVars, startVars,
     flagVars, eventVars, timerVars, pipeVars
<1>21. ASSUME NEW t \in Threads, NEW k \in Tasks, Schedule(t, k)
      PROVE  SawNone' => promised' \cap waiting' = {}
  BY <1>21 DEF Schedule, ioVars, idleVars, ctlVars, startVars, flagVars,
     eventVars, timerVars, pipeVars, InUserCode, NewTasks
<1>22. ASSUME NEW t \in Threads, NEW k \in Tasks, AddEvent(t, k)
      PROVE  SawNone' => promised' \cap waiting' = {}
  BY <1>22 DEF AddEvent, idleVars, poolVars, ctlVars, startVars, flagVars,
     timerVars, pipeVars, InUserCode, NewTasks
<1>23. ASSUME NEW t \in Threads, NEW k \in Tasks, AddTimer(t, k)
      PROVE  SawNone' => promised' \cap waiting' = {}
  BY <1>23 DEF AddTimer, idleVars, poolVars, ctlVars, startVars, flagVars,
     eventVars, pipeVars, InUserCode, NewTasks
<1>24. ASSUME NEW w \in Workers, Born(w)
      PROVE  SawNone' => promised' \cap waiting' = {}
  BY <1>24 DEF Born, ioVars, poolVars, flagVars, eventVars, timerVars,
     pipeVars
<1>25. ASSUME StartEnter
      PROVE  SawNone' => promised' \cap waiting' = {}
  BY <1>25 DEF StartEnter, ioVars, idleVars, poolVars, startVars, eventVars,
     timerVars, pipeVars
<1>26. ASSUME NEW w \in Workers, Create(w)
      PROVE  SawNone' => promised' \cap waiting' = {}
  BY <1>26 DEF Create, ioVars, idleVars, poolVars, ctlVars, startVars,
     flagVars, eventVars, timerVars, pipeVars
<1>27. ASSUME NEW w \in Workers, Constructed(w)
      PROVE  SawNone' => promised' \cap waiting' = {}
  BY <1>27 DEF Constructed, ioVars, idleVars, poolVars, flagVars, eventVars,
     timerVars, pipeVars
<1>28. ASSUME StopEnter
      PROVE  SawNone' => promised' \cap waiting' = {}
  BY <1>28 DEF StopEnter, ioVars, idleVars, poolVars, startVars, eventVars,
     timerVars, pipeVars
<1>29. ASSUME StopTickle
      PROVE  SawNone' => promised' \cap waiting' = {}
  BY <1>29 DEF StopTickle, ioVars, idleVars, poolVars, startVars, eventVars,
     timerVars, pipeVars
<1>30. ASSUME CallRoot
      PROVE  SawNone' => promised' \cap waiting' = {}
  BY <1>30 DEF CallRoot, ioVars, poolVars, ctlVars, startVars, flagVars,
     eventVars, timerVars, pipeVars
<1>31. ASSUME Join
      PROVE  SawNone' => promised' \cap waiting' = {}
  BY <1>31 DEF Join, Move, ioVars, idleVars, poolVars, ctlVars, startVars,
     flagVars, eventVars, timerVars, pipeVars
<1>32. ASSUME NEW k \in Tasks, Fire(k)
      PROVE  SawNone' => promised' \cap waiting' = {}
  BY <1>32 DEF Fire, idleVars, poolVars, ctlVars, startVars, flagVars,
     timerVars, pipeVars
<1>33. ASSUME NEW k \in Tasks, Expire(k)
      PROVE  SawNone' => promised' \cap waiting' = {}
  BY <1>33 DEF Expire, idleVars, poolVars, ctlVars, startVars, flagVars,
     eventVars, pipeVars
<1>34. ASSUME UNCHANGED vars PROVE SawNone' => promised' \cap waiting' = {}
  BY <1>34 DEF vars, ioVars, idleVars, poolVars, ctlVars, startVars, flagVars,
     eventVars, timerVars, pipeVars
<1> QED
  BY <1>1, <1>2, <1>3, <1>4, <1>5, <1>6, <1>7, <1>8, <1>9, <1>10, <1>11,
     <1>12, <1>13, <1>14, <1>15, <1>16, <1>17, <1>18, <1>19, <1>20, <1>21,
     <1>22, <1>23, <1>24, <1>25, <1>26, <1>27, <1>28, <1>29, <1>30, <1>31,
     <1>32, <1>33, <1>34
     DEF Next, RunStep, MainStep, Application

(* Every step keeps the registered tasks.                                  *)
LEMMA NextKept ==
  ASSUME PlacesOK, DataOK, Outside, CountersAccurate, Watched, Kept, [Next]_vars
  PROVE  Kept'
<1>1. ASSUME NEW k \in promised' PROVE Accounted(k)'
  <2>1. k \in promised \/ k \in waiting'
    <3> SUFFICES ASSUME k \notin promised PROVE k \in waiting'
      OBVIOUS
    <3>1. promised' # promised
      BY <1>1
    <3>2. PICK t \in Threads, j \in Tasks : AddEvent(t, j)
      BY <3>1, PromisedSteps
    <3> QED
      BY <1>1, <3>2 DEF AddEvent
  <2>2. CASE k \in promised
    BY <2>2, AccountedKept DEF Kept, DataOK, Watched
  <2> QED
    BY <2>1, <2>2 DEF Accounted
<1>2. UseCaller /\ SawNone' => promised' \cap waiting' = {}
  BY NextNoneLeft
<1> QED
  BY <1>1, <1>2 DEF Kept

-----------------------------------------------------------------------------
(* Where the callbacks are.                                                *)

(* Appending to a list without duplicates.                                 *)
LEMMA ListAppend ==
  ASSUME NEW S, NEW q \in Seq(S), IsInjective(q), NEW e \in S, e \notin Range(q)
  PROVE  IsInjective(Append(q, e)) /\ Range(Append(q, e)) = Range(q) \cup {e}
<1> DEFINE r == Append(q, e)
<1>1. /\ Len(r) = Len(q) + 1 /\ Len(q) \in Nat /\ r[Len(q) + 1] = e
      /\ \A i \in 1 .. Len(q) : r[i] = q[i]
      /\ DOMAIN q = 1 .. Len(q) /\ DOMAIN r = 1 .. Len(q) + 1
  OBVIOUS
<1> HIDE DEF r
<1>2. \A i \in 1 .. Len(q) : q[i] # e
  BY <1>1 DEF Range
<1>3. \A i \in 1 .. Len(q) + 1 : i \in 1 .. Len(q) \/ i = Len(q) + 1
  BY <1>1
<1>4. IsInjective(r)
  BY <1>1, <1>2, <1>3 DEF IsInjective
<1>5. Range(r) = Range(q) \cup {e}
  <2>1. Range(q) = {q[i] : i \in 1 .. Len(q)} /\ Range(r) = {r[i] : i \in 1 .. Len(q) + 1}
    BY <1>1 DEF Range
  <2>2. Len(q) + 1 \in 1 .. Len(q) + 1 /\ 1 .. Len(q) \subseteq 1 .. Len(q) + 1
    BY <1>1
  <2> QED
    BY <1>1, <1>3, <2>1, <2>2
<1> QED
  BY <1>4, <1>5 DEF r

(* Taking the first of a list without duplicates.                          *)
LEMMA ListTail ==
  ASSUME NEW S, NEW q \in Seq(S), IsInjective(q), q # <<>>
  PROVE  /\ IsInjective(Tail(q)) /\ Head(q) \in Range(q)
         /\ Range(Tail(q)) = Range(q) \ {Head(q)}
<1> DEFINE r == Tail(q)
<1>1. /\ Len(q) \in Nat \ {0} /\ DOMAIN q = 1 .. Len(q) /\ DOMAIN r = 1 .. Len(q) - 1
      /\ \A i \in 1 .. Len(q) - 1 : r[i] = q[i + 1]
      /\ Head(q) = q[1] /\ 1 \in 1 .. Len(q)
  OBVIOUS
<1> HIDE DEF r
<1>2. \A i \in 1 .. Len(q) - 1 : i + 1 \in 1 .. Len(q) /\ i + 1 # 1
  BY <1>1
<1>3. \A i, j \in 1 .. Len(q) : q[i] = q[j] => i = j
  BY <1>1 DEF IsInjective
<1>4. IsInjective(r)
  <2> SUFFICES ASSUME NEW i \in 1 .. Len(q) - 1, NEW j \in 1 .. Len(q) - 1, r[i] = r[j]
               PROVE  i = j
    BY <1>1 DEF IsInjective
  <2>1. i + 1 = j + 1
    BY <1>1, <1>2, <1>3
  <2> QED
    BY <2>1
<1>5. Range(q) = {q[i] : i \in 1 .. Len(q)} /\ Range(r) = {r[i] : i \in 1 .. Len(q) - 1}
  BY <1>1 DEF Range
<1>6. ASSUME NEW x \in Range(q) \ {Head(q)} PROVE x \in Range(r)
  <2>1. PICK i \in 1 .. Len(q) : x = q[i]
    BY <1>5
  <2>2. i # 1
    BY <1>1, <1>6, <2>1
  <2>3. i - 1 \in 1 .. Len(q) - 1 /\ r[i - 1] = q[i]
    BY <1>1, <2>2
  <2> QED
    BY <1>5, <2>1, <2>3
<1>7. ASSUME NEW x \in Range(r) PROVE x \in Range(q) \ {Head(q)}
  <2>1. PICK i \in 1 .. Len(q) - 1 : x = r[i]
    BY <1>5
  <2>2. x = q[i + 1] /\ i + 1 \in 1 .. Len(q) /\ i + 1 # 1
    BY <1>1, <1>2, <2>1
  <2>3. x # q[1]
    BY <1>1, <1>3, <2>2
  <2> QED
    BY <1>1, <1>5, <2>2, <2>3
<1> QED
  BY <1>1, <1>4, <1>5, <1>6, <1>7 DEF r

(* Appending the elements of a set to a list that holds none of them.      *)
LEMMA ListAppendSet ==
  ASSUME NEW S, NEW q \in Seq(S), IsInjective(q), NEW T \in SUBSET S, IsFiniteSet(T),
         T \cap Range(q) = {}
  PROVE  /\ IsInjective(q \o SetToSeq(T))
         /\ Range(q \o SetToSeq(T)) = Range(q) \cup T
<1> DEFINE p == SetToSeq(T)
           r == q \o p
<1>1. p \in Seq(T) /\ IsInjective(p) /\ Range(p) = T
  BY ListOfSet
<1> HIDE DEF p
<1>2. /\ Len(q) \in Nat /\ Len(p) \in Nat /\ Len(r) = Len(q) + Len(p)
      /\ DOMAIN q = 1 .. Len(q) /\ DOMAIN p = 1 .. Len(p) /\ DOMAIN r = 1 .. Len(q) + Len(p)
      /\ \A i \in 1 .. Len(q) : r[i] = q[i]
      /\ \A i \in 1 .. Len(p) : r[Len(q) + i] = p[i]
  BY <1>1
<1> HIDE DEF r
<1>3. /\ Range(q) = {q[i] : i \in 1 .. Len(q)} /\ Range(p) = {p[i] : i \in 1 .. Len(p)}
      /\ Range(r) = {r[i] : i \in 1 .. Len(q) + Len(p)}
  BY <1>2 DEF Range
<1>4. \A i \in 1 .. Len(q) + Len(p) :
        \/ i \in 1 .. Len(q) /\ r[i] = q[i] /\ r[i] \in Range(q)
        \/ /\ i - Len(q) \in 1 .. Len(p) /\ r[i] = p[i - Len(q)] /\ r[i] \in T
           /\ i \notin 1 .. Len(q)
  <2> SUFFICES ASSUME NEW i \in 1 .. Len(q) + Len(p), i \notin 1 .. Len(q)
               PROVE  i - Len(q) \in 1 .. Len(p) /\ r[i] = p[i - Len(q)]
    BY <1>1, <1>2, <1>3
  <2>1. i - Len(q) \in 1 .. Len(p)
    BY <1>2
  <2>2. Len(q) + (i - Len(q)) = i
    BY <1>2
  <2> QED
    BY <1>2, <2>1, <2>2
<1>5. /\ \A i, j \in 1 .. Len(q) : q[i] = q[j] => i = j
      /\ \A i, j \in 1 .. Len(p) : p[i] = p[j] => i = j
  BY <1>1, <1>2 DEF IsInjective
<1>6. IsInjective(r)
  <2> SUFFICES ASSUME NEW i \in 1 .. Len(q) + Len(p), NEW j \in 1 .. Len(q) + Len(p),
                      r[i] = r[j]
               PROVE  i = j
    BY <1>2 DEF IsInjective
  <2>1. CASE i \in 1 .. Len(q) /\ j \in 1 .. Len(q)
    BY <1>2, <1>5, <2>1
  <2>2. CASE i \notin 1 .. Len(q) /\ j \notin 1 .. Len(q)
    <3>1. /\ i - Len(q) \in 1 .. Len(p) /\ j - Len(q) \in 1 .. Len(p)
          /\ p[i - Len(q)] = p[j - Len(q)]
      BY <1>4, <2>2
    <3>2. i - Len(q) = j - Len(q)
      BY <1>5, <3>1
    <3> QED
      BY <1>2, <3>2
  <2>3. CASE i \in 1 .. Len(q) /\ j \notin 1 .. Len(q)
    BY <1>1, <1>4, <2>3
  <2>4. CASE i \notin 1 .. Len(q) /\ j \in 1 .. Len(q)
    BY <1>1, <1>4, <2>4
  <2> QED
    BY <2>1, <2>2, <2>3, <2>4
<1>7. Range(r) = Range(q) \cup T
  <2>1. ASSUME NEW x \in Range(r) PROVE x \in Range(q) \cup T
    BY <1>3, <1>4
  <2>2. ASSUME NEW x \in Range(q) PROVE x \in Range(r)
    BY <1>2, <1>3
  <2>3. ASSUME NEW x \in T PROVE x \in Range(r)
    <3>1. PICK i \in 1 .. Len(p) : x = p[i]
      BY <1>1, <1>3
    <3>2. Len(q) + i \in 1 .. Len(q) + Len(p) /\ r[Len(q) + i] = x
      BY <1>2, <3>1
    <3> QED
      BY <1>3, <3>2
  <2> QED
    BY <2>1, <2>2, <2>3
<1> QED
  BY <1>6, <1>7 DEF r, p

(* A thread carries expired callbacks and reports of epoll only while it   *)
(* is about to schedule or to handle them: none of them is overwritten.    *)
Pockets ==
  \A t \in Threads :
    /\ cbs[t] # {} => At(t) = "scheduleExpired"
    /\ evs[t] # {} => At(t) \in {"expired", "scheduleExpired", "dispatch", "uncount"}

(* Nobody carries anything initially.                                      *)
LEMMA InitPockets == Init => Pockets
  BY DEF Init, Pockets

(* A thread empties its pockets before it goes on.                         *)
LEMMA NextPockets ==
  ASSUME PlacesOK, DataOK, Pockets, [Next]_vars PROVE Pockets'
<1> USE IOIdleAssumption DEF PlacesOK, DataOK, Pockets, IdlePoints, At,
   Threads, Goto, ThenTickle
<1>1. ASSUME NEW t \in Threads, tickle(t)
      PROVE  Pockets'
  BY <1>1 DEF tickle, idleVars, poolVars, ctlVars, startVars, flagVars,
     eventVars, timerVars
<1>2. ASSUME NEW t \in Threads, Take(t)
      PROVE  Pockets'
  BY <1>2 DEF Take, ioVars, idleVars, ctlVars, startVars, flagVars, eventVars,
     timerVars, pipeVars
<1>3. ASSUME NEW t \in Threads, CountActive(t)
      PROVE  Pockets'
  BY <1>3 DEF CountActive, ioVars, idleVars, ctlVars, startVars, flagVars,
     eventVars, timerVars, pipeVars
<1>4. ASSUME NEW t \in Threads, TaskEnds(t)
      PROVE  Pockets'
  BY <1>4 DEF TaskEnds, ioVars, idleVars, ctlVars, startVars, flagVars,
     eventVars, timerVars, pipeVars
<1>5. ASSUME NEW t \in Threads, ScanNothing(t)
      PROVE  Pockets'
  BY <1>5 DEF ScanNothing, Move, ioVars, idleVars, poolVars, ctlVars,
     startVars, flagVars, eventVars, timerVars, pipeVars
<1>6. ASSUME NEW t \in Threads, IdleIn(t)
      PROVE  Pockets'
  BY <1>6 DEF IdleIn, ioVars, poolVars, ctlVars, startVars, flagVars,
     eventVars, timerVars, pipeVars
<1>7. ASSUME NEW t \in Threads, IdleOut(t)
      PROVE  Pockets'
  BY <1>7 DEF IdleOut, ioVars, poolVars, ctlVars, startVars, flagVars,
     eventVars, timerVars, pipeVars
<1>8. ASSUME NEW t \in Threads, ReturnFromRun(t)
      PROVE  Pockets'
  BY <1>8 DEF ReturnFromRun, Move, ioVars, idleVars, poolVars, ctlVars,
     startVars, flagVars, eventVars, timerVars, pipeVars
<1>9. ASSUME NEW t \in Threads, isStopedTimer(t)
      PROVE  Pockets'
  BY <1>9 DEF isStopedTimer, Move, ioVars, idleVars, poolVars, ctlVars,
     startVars, flagVars, eventVars, timerVars, pipeVars, NotStoped
<1>10. ASSUME NEW t \in Threads, isStopedPending(t)
      PROVE  Pockets'
  BY <1>10 DEF isStopedPending, Move, ioVars, idleVars, poolVars, ctlVars,
     startVars, flagVars, eventVars, timerVars, pipeVars, NotStoped
<1>11. ASSUME NEW t \in Threads, isStopedList(t)
      PROVE  Pockets'
  BY <1>11 DEF isStopedList, Move, ioVars, idleVars, poolVars, ctlVars,
     startVars, flagVars, eventVars, timerVars, pipeVars, NotStoped
<1>12. ASSUME NEW t \in Threads, isStopedActive(t)
      PROVE  Pockets'
  BY <1>12 DEF isStopedActive, ioVars, poolVars, ctlVars, startVars, flagVars,
     eventVars, timerVars, pipeVars, NotStoped
<1>13. ASSUME NEW t \in Threads, EpollWait(t)
      PROVE  Pockets'
  BY <1>13 DEF EpollWait, poolVars, ctlVars, startVars, flagVars, timerVars
<1>14. ASSUME NEW t \in Threads, ListExpired(t)
      PROVE  Pockets'
  BY <1>14 DEF ListExpired, poolVars, ctlVars, startVars, flagVars, eventVars,
     pipeVars
<1>15. ASSUME NEW t \in Threads, ScheduleExpired(t)
      PROVE  Pockets'
  BY <1>15 DEF ScheduleExpired, ioVars, ctlVars, startVars, flagVars,
     eventVars, timerVars, pipeVars
<1>16. ASSUME NEW t \in Threads, DrainPipe(t)
      PROVE  Pockets'
  BY <1>16 DEF DrainPipe, poolVars, ctlVars, startVars, flagVars, eventVars,
     timerVars
<1>17. ASSUME NEW t \in Threads, NEW k \in Tasks, Trigger(t, k)
      PROVE  Pockets'
  BY <1>17 DEF Trigger, ctlVars, startVars, flagVars, timerVars, pipeVars
<1>18. ASSUME NEW t \in Threads, NEW k \in Tasks, Stale(t, k)
      PROVE  Pockets'
  BY <1>18 DEF Stale, ioVars, poolVars, ctlVars, startVars, flagVars,
     eventVars, timerVars, pipeVars
<1>19. ASSUME NEW t \in Threads, Uncount(t)
      PROVE  Pockets'
  BY <1>19 DEF Uncount, idleVars, poolVars, ctlVars, startVars, flagVars,
     timerVars, pipeVars
<1>20. ASSUME NEW t \in Threads, SwapOut(t)
      PROVE  Pockets'
  BY <1>20 DEF SwapOut, Move, ioVars, idleVars, poolVars, ctlVars, startVars,
     flagVars, eventVars, timerVars, pipeVars
<1>21. ASSUME NEW t \in Threads, NEW k \in Tasks, Schedule(t, k)
      PROVE  Pockets'
  BY <1>21 DEF Schedule, ioVars, idleVars, ctlVars, startVars, flagVars,
     eventVars, timerVars, pipeVars, InUserCode
<1>22. ASSUME NEW t \in Threads, NEW k \in Tasks, AddEvent(t, k)
      PROVE  Pockets'
  BY <1>22 DEF AddEvent, idleVars, poolVars, ctlVars, startVars, flagVars,
     timerVars, pipeVars, InUserCode
<1>23. ASSUME NEW t \in Threads, NEW k \in Tasks, AddTimer(t, k)
      PROVE  Pockets'
  BY <1>23 DEF AddTimer, idleVars, poolVars, ctlVars, startVars, flagVars,
     eventVars, pipeVars, InUserCode
<1>24. ASSUME NEW w \in Workers, Born(w)
      PROVE  Pockets'
  BY <1>24 DEF Born, ioVars, poolVars, flagVars, eventVars, timerVars,
     pipeVars
<1>25. ASSUME StartEnter
      PROVE  Pockets'
  BY <1>25 DEF StartEnter, ioVars, idleVars, poolVars, startVars, eventVars,
     timerVars, pipeVars
<1>26. ASSUME NEW w \in Workers, Create(w)
      PROVE  Pockets'
  BY <1>26 DEF Create, ioVars, idleVars, poolVars, ctlVars, startVars,
     flagVars, eventVars, timerVars, pipeVars
<1>27. ASSUME NEW w \in Workers, Constructed(w)
      PROVE  Pockets'
  BY <1>27 DEF Constructed, ioVars, idleVars, poolVars, flagVars, eventVars,
     timerVars, pipeVars
<1>28. ASSUME StopEnter
      PROVE  Pockets'
  BY <1>28 DEF StopEnter, ioVars, idleVars, poolVars, startVars, eventVars,
     timerVars, pipeVars
<1>29. ASSUME StopTickle
      PROVE  Pockets'
  BY <1>29 DEF StopTickle, ioVars, idleVars, poolVars, startVars, eventVars,
     timerVars, pipeVars
<1>30. ASSUME CallRoot
      PROVE  Pockets'
  BY <1>30 DEF CallRoot, ioVars, poolVars, ctlVars, startVars, flagVars,
     eventVars, timerVars, pipeVars
<1>31. ASSUME Join
      PROVE  Pockets'
  BY <1>31 DEF Join, Move, ioVars, idleVars, poolVars, ctlVars, startVars,
     flagVars, eventVars, timerVars, pipeVars
<1>32. ASSUME NEW k \in Tasks, Fire(k)
      PROVE  Pockets'
  BY <1>32 DEF Fire, idleVars, poolVars, ctlVars, startVars, flagVars,
     timerVars, pipeVars
<1>33. ASSUME NEW k \in Tasks, Expire(k)
      PROVE  Pockets'
  BY <1>33 DEF Expire, idleVars, poolVars, ctlVars, startVars, flagVars,
     eventVars, pipeVars
<1>34. ASSUME UNCHANGED vars PROVE Pockets'
  BY <1>34 DEF vars, ioVars, idleVars, poolVars, ctlVars, startVars, flagVars,
     eventVars, timerVars, pipeVars
<1> QED
  BY <1>1, <1>2, <1>3, <1>4, <1>5, <1>6, <1>7, <1>8, <1>9, <1>10, <1>11,
     <1>12, <1>13, <1>14, <1>15, <1>16, <1>17, <1>18, <1>19, <1>20, <1>21,
     <1>22, <1>23, <1>24, <1>25, <1>26, <1>27, <1>28, <1>29, <1>30, <1>31,
     <1>32, <1>33, <1>34
     DEF Next, RunStep, MainStep, Application

(* No callback goes from one place to another.                             *)
Quiet ==
  /\ UNCHANGED <<m_fibers, done, waiting, fired, timers, due, cbs, ft>>
  /\ \A t \in Threads :
       evs'[t] \cap Tasks \subseteq evs[t] /\ evs[t] \cap waiting \subseteq evs'[t]

(* The steps that move callbacks.                                          *)
Moving ==
  \/ \E t \in Threads, k \in Tasks :
       Schedule(t, k) \/ AddEvent(t, k) \/ AddTimer(t, k) \/ Trigger(t, k)
  \/ \E t \in Threads :
       Take(t) \/ TaskEnds(t) \/ EpollWait(t) \/ ListExpired(t) \/ ScheduleExpired(t)
  \/ \E k \in Tasks : Fire(k) \/ Expire(k)

(* All the other steps are quiet.                                          *)
LEMMA QuietSteps ==
  ASSUME DataOK, [Next]_vars PROVE Quiet \/ Moving
<1> USE IOIdleAssumption DEF DataOK
<1>1. ASSUME NEW t \in Threads, tickle(t)
      PROVE  Quiet
  BY <1>1 DEF Quiet, tickle, idleVars, poolVars, ctlVars, startVars,
     flagVars, eventVars, timerVars
<1>2. ASSUME NEW t \in Threads, CountActive(t)
      PROVE  Quiet
  BY <1>2 DEF Quiet, CountActive, ioVars, idleVars, ctlVars, startVars,
     flagVars, eventVars, timerVars, pipeVars
<1>3. ASSUME NEW t \in Threads, ScanNothing(t)
      PROVE  Quiet
  BY <1>3 DEF Quiet, ScanNothing, Move, ioVars, idleVars, poolVars, ctlVars,
     startVars, flagVars, eventVars, timerVars, pipeVars
<1>4. ASSUME NEW t \in Threads, IdleIn(t)
      PROVE  Quiet
  BY <1>4 DEF Quiet, IdleIn, ioVars, poolVars, ctlVars, startVars, flagVars,
     eventVars, timerVars, pipeVars
<1>5. ASSUME NEW t \in Threads, IdleOut(t)
      PROVE  Quiet
  BY <1>5 DEF Quiet, IdleOut, ioVars, poolVars, ctlVars, startVars,
     flagVars, eventVars, timerVars, pipeVars
<1>6. ASSUME NEW t \in Threads, ReturnFromRun(t)
      PROVE  Quiet
  BY <1>6 DEF Quiet, ReturnFromRun, Move, ioVars, idleVars, poolVars,
     ctlVars, startVars, flagVars, eventVars, timerVars, pipeVars
<1>7. ASSUME NEW t \in Threads, isStopedTimer(t)
      PROVE  Quiet
  BY <1>7 DEF Quiet, isStopedTimer, Move, ioVars, idleVars, poolVars,
     ctlVars, startVars, flagVars, eventVars, timerVars, pipeVars
<1>8. ASSUME NEW t \in Threads, isStopedPending(t)
      PROVE  Quiet
  BY <1>8 DEF Quiet, isStopedPending, Move, ioVars, idleVars, poolVars,
     ctlVars, startVars, flagVars, eventVars, timerVars, pipeVars
<1>9. ASSUME NEW t \in Threads, isStopedList(t)
      PROVE  Quiet
  BY <1>9 DEF Quiet, isStopedList, Move, ioVars, idleVars, poolVars,
     ctlVars, startVars, flagVars, eventVars, timerVars, pipeVars
<1>10. ASSUME NEW t \in Threads, isStopedActive(t)
      PROVE  Quiet
  BY <1>10 DEF Quiet, isStopedActive, ioVars, poolVars, ctlVars, startVars,
     flagVars, eventVars, timerVars, pipeVars
<1>11. ASSUME NEW t \in Threads, DrainPipe(t)
      PROVE  Quiet
  BY <1>11 DEF Quiet, DrainPipe, poolVars, ctlVars, startVars, flagVars,
     eventVars, timerVars
<1>12. ASSUME NEW t \in Threads, NEW k \in Tasks, Stale(t, k)
      PROVE  Quiet
  BY <1>12 DEF Quiet, Stale, ioVars, poolVars, ctlVars, startVars, flagVars,
     eventVars, timerVars, pipeVars
<1>13. ASSUME NEW t \in Threads, Uncount(t)
      PROVE  Quiet
  BY <1>13 DEF Quiet, Uncount, idleVars, poolVars, ctlVars, startVars,
     flagVars, timerVars, pipeVars
<1>14. ASSUME NEW t \in Threads, SwapOut(t)
      PROVE  Quiet
  BY <1>14 DEF Quiet, SwapOut, Move, ioVars, idleVars, poolVars, ctlVars,
     startVars, flagVars, eventVars, timerVars, pipeVars
<1>15. ASSUME NEW w \in Workers, Born(w)
      PROVE  Quiet
  BY <1>15 DEF Quiet, Born, ioVars, poolVars, flagVars, eventVars,
     timerVars, pipeVars
<1>16. ASSUME StartEnter
      PROVE  Quiet
  BY <1>16 DEF Quiet, StartEnter, ioVars, idleVars, poolVars, startVars,
     eventVars, timerVars, pipeVars
<1>17. ASSUME NEW w \in Workers, Create(w)
      PROVE  Quiet
  BY <1>17 DEF Quiet, Create, ioVars, idleVars, poolVars, ctlVars,
     startVars, flagVars, eventVars, timerVars, pipeVars
<1>18. ASSUME NEW w \in Workers, Constructed(w)
      PROVE  Quiet
  BY <1>18 DEF Quiet, Constructed, ioVars, idleVars, poolVars, flagVars,
     eventVars, timerVars, pipeVars
<1>19. ASSUME StopEnter
      PROVE  Quiet
  BY <1>19 DEF Quiet, StopEnter, ioVars, idleVars, poolVars, startVars,
     eventVars, timerVars, pipeVars
<1>20. ASSUME StopTickle
      PROVE  Quiet
  BY <1>20 DEF Quiet, StopTickle, ioVars, idleVars, poolVars, startVars,
     eventVars, timerVars, pipeVars
<1>21. ASSUME CallRoot
      PROVE  Quiet
  BY <1>21 DEF Quiet, CallRoot, ioVars, poolVars, ctlVars, startVars,
     flagVars, eventVars, timerVars, pipeVars
<1>22. ASSUME Join
      PROVE  Quiet
  BY <1>22 DEF Quiet, Join, Move, ioVars, idleVars, poolVars, ctlVars,
     startVars, flagVars, eventVars, timerVars, pipeVars
<1>23. ASSUME UNCHANGED vars
      PROVE  Quiet
  BY <1>23 DEF Quiet, vars, ioVars, idleVars, poolVars, ctlVars, startVars,
     flagVars, eventVars, timerVars, pipeVars
<1>24. ASSUME NEW t \in Threads, NEW k \in Tasks,
             Schedule(t, k) \/ AddEvent(t, k) \/ AddTimer(t, k) \/ Trigger(t, k)
      PROVE  Moving
  BY <1>24 DEF Moving
<1>25. ASSUME NEW t \in Threads,
             Take(t) \/ TaskEnds(t) \/ EpollWait(t) \/ ListExpired(t) \/ ScheduleExpired(t)
      PROVE  Moving
  BY <1>25 DEF Moving
<1>26. ASSUME NEW k \in Tasks, Fire(k) \/ Expire(k)
      PROVE  Moving
  BY <1>26 DEF Moving
<1> QED
  BY <1>1, <1>2, <1>3, <1>4, <1>5, <1>6, <1>7, <1>8, <1>9, <1>10, <1>11,
     <1>12, <1>13, <1>14, <1>15, <1>16, <1>17, <1>18, <1>19, <1>20, <1>21,
     <1>22, <1>23, <1>24, <1>25, <1>26
     DEF Next, RunStep, MainStep, Application

(* The callbacks on the list, those a thread runs, those of expired timers *)
(* a thread carries, and those reported or soon to be reported.            *)
Listed  == Range(m_fibers)
InHand  == {k \in Tasks : \E t \in Threads : ft[t] = k}
Expired == {k \in Tasks : \E t \in Threads : k \in cbs[t]}
Readies == {k \in Tasks : Ready(k)}

(* A callback is in one place, and in the hands of one thread.             *)
Apart ==
  /\ Listed \cap (InHand \cup Expired \cup waiting \cup timers \cup done) = {}
  /\ InHand \cap (Expired \cup waiting \cup timers \cup done) = {}
  /\ Expired \cap (waiting \cup timers \cup done) = {}
  /\ waiting \cap (timers \cup done) = {}
  /\ timers \cap done = {}

Alone ==
  \A t, u \in Threads : t # u =>
    cbs[t] \cap cbs[u] = {} /\ (ft[t] # NoTask => ft[t] # ft[u])

(* No callback waits for an event of which an old report is left.          *)
HandedOver == Listed \cup InHand \cup Expired \cup waiting \cup timers \cup done
Remembered == \A t \in Threads : evs[t] \cap Tasks \subseteq HandedOver

OnePlace == IsInjective(m_fibers) /\ Apart /\ Alone /\ Remembered

(* The parts of the state the places depend on.                            *)
Placing == DataOK /\ FreeHands /\ Pockets /\ OnePlace

(* Where a callback is, in terms of these sets.                            *)
PlaceFacts ==
  /\ Readies \subseteq waiting \cup timers \cup Expired
  /\ Readies \cap (InHand \cup Listed \cup done) = {}
  /\ \A k \in Tasks :
       /\ k \in InHand            => PlaceOf(k) = "thread"
       /\ k \in Listed            => PlaceOf(k) = "list"
       /\ k \in Readies           => PlaceOf(k) = "ready"
       /\ k \in waiting \ Readies => PlaceOf(k) = "event"
       /\ k \in timers \ Readies  => PlaceOf(k) = "timer"
       /\ k \in done              => PlaceOf(k) = "ended"
       /\ k \notin HandedOver     => PlaceOf(k) = "out"

(* The sets tell PlaceOf.                                                  *)
LEMMA PlaceIs == DataOK /\ Apart => PlaceFacts
<1> SUFFICES ASSUME DataOK, Apart PROVE PlaceFacts
  OBVIOUS
<1>1. Readies \subseteq waiting \cup timers \cup Expired /\ Expired \subseteq Readies
  BY DEF Readies, Ready, Expired, DataOK
<1>2. Readies \cap (InHand \cup Listed \cup done) = {}
  BY <1>1 DEF Apart
<1>3. ASSUME NEW k \in Tasks
      PROVE  /\ (\E t \in Threads : ft[t] = k) <=> k \in InHand
             /\ k \in Range(m_fibers) <=> k \in Listed
             /\ Ready(k) <=> k \in Readies
  BY DEF InHand, Listed, Readies
<1>4. ASSUME NEW k \in Tasks
      PROVE  /\ k \in InHand            => PlaceOf(k) = "thread"
             /\ k \in Listed            => PlaceOf(k) = "list"
             /\ k \in Readies           => PlaceOf(k) = "ready"
             /\ k \in waiting \ Readies => PlaceOf(k) = "event"
             /\ k \in timers \ Readies  => PlaceOf(k) = "timer"
             /\ k \in done              => PlaceOf(k) = "ended"
             /\ k \notin HandedOver     => PlaceOf(k) = "out"
  <2>1. CASE k \in InHand
    BY <1>1, <1>2, <1>3, <2>1 DEF Apart, HandedOver, PlaceOf
  <2>2. CASE k \in Listed
    BY <1>1, <1>2, <1>3, <2>2 DEF Apart, HandedOver, PlaceOf
  <2>3. CASE k \in Readies
    BY <1>1, <1>2, <1>3, <2>3 DEF Apart, HandedOver, PlaceOf
  <2>4. CASE k \in waiting \ Readies
    BY <1>1, <1>2, <1>3, <2>4 DEF Apart, HandedOver, PlaceOf
  <2>5. CASE k \in timers \ Readies
    BY <1>1, <1>2, <1>3, <2>5 DEF Apart, HandedOver, PlaceOf
  <2>6. CASE k \in done
    BY <1>1, <1>2, <1>3, <2>6 DEF Apart, HandedOver, PlaceOf
  <2>7. CASE k \notin HandedOver
    BY <1>1, <1>2, <1>3, <2>7 DEF Apart, HandedOver, PlaceOf
  <2> QED
    BY <1>1, <2>1, <2>2, <2>3, <2>4, <2>5, <2>6, <2>7 DEF HandedOver
<1> QED
  BY <1>1, <1>2, <1>4 DEF PlaceFacts

(* The same after a step.                                                  *)
LEMMA PlaceIs_ == DataOK' /\ Apart' => PlaceFacts'
  BY PlaceIs, PTL

(* A callback whose membership does not change stays where it is.          *)
LEMMA SamePlace ==
  ASSUME PlaceFacts, PlaceFacts', NEW k \in Tasks,
         k \in InHand' <=> k \in InHand, k \in Listed' <=> k \in Listed,
         k \in Readies' <=> k \in Readies, k \in Expired' <=> k \in Expired,
         k \in waiting' <=> k \in waiting, k \in timers' <=> k \in timers,
         k \in done' <=> k \in done
  PROVE  PlaceOf(k)' = PlaceOf(k)
<1>1. CASE k \in InHand
  BY <1>1 DEF PlaceFacts
<1>2. CASE k \in Listed
  BY <1>2 DEF PlaceFacts
<1>3. CASE k \in Readies
  BY <1>3 DEF PlaceFacts
<1>4. CASE k \in waiting \ Readies
  BY <1>4 DEF PlaceFacts
<1>5. CASE k \in timers \ Readies
  BY <1>5 DEF PlaceFacts
<1>6. CASE k \in done
  BY <1>6 DEF PlaceFacts
<1>7. CASE k \notin HandedOver
  BY <1>7 DEF PlaceFacts, HandedOver
<1>8. CASE k \in Expired \ Readies
  <2>1. Expired \subseteq Readies
    BY DEF Expired, Readies, Ready
  <2> QED
    BY <1>8, <2>1
<1> QED
  BY <1>1, <1>2, <1>3, <1>4, <1>5, <1>6, <1>7, <1>8 DEF HandedOver

(* A new callback is in none of the places.                                *)
LEMMA NewTask ==
  ASSUME DataOK, NEW k \in NewTasks
  PROVE  k \in Tasks /\ k \notin HandedOver
<1>1. k \notin Range(m_fibers) /\ k \notin done \cup waiting \cup timers
  BY DEF NewTasks, Given
<1>2. k \notin InHand
  BY DEF NewTasks, Given, InHand
<1>3. k \notin Expired
  BY DEF NewTasks, Given, Expired
<1> QED
  BY <1>1, <1>2, <1>3 DEF NewTasks, HandedOver, Listed

(* The callbacks in each place after a step.                               *)
Becomes(L, H, E, W, T, D, R) ==
  /\ Listed' = L /\ InHand' = H /\ Expired' = E
  /\ waiting' = W /\ timers' = T /\ done' = D /\ Readies' = R

(* What has been handed over stays so, and reports are not invented.       *)
LEMMA StillRemembered ==
  ASSUME Remembered, HandedOver \subseteq HandedOver',
         \A t \in Threads : evs'[t] \cap Tasks \subseteq evs[t]
  PROVE  Remembered'
  BY DEF Remembered

(* A quiet step leaves all of them where they are.                         *)
LEMMA QuietPlaces ==
  ASSUME Placing, Quiet
  PROVE  Becomes(Listed, InHand, Expired, waiting, timers, done, Readies) /\ OnePlace'
<1> USE DEF Placing, OnePlace, DataOK
<1>1. Listed' = Listed /\ InHand' = InHand /\ Expired' = Expired
  BY DEF Quiet, Listed, InHand, Expired
<1>2. ASSUME NEW k \in Tasks PROVE Ready(k)' <=> Ready(k)
  BY DEF Quiet, Ready
<1>3. Readies' = Readies
  BY <1>2 DEF Readies
<1>4. Remembered'
  BY <1>1, StillRemembered DEF Quiet, HandedOver
<1>5. IsInjective(m_fibers)' /\ Apart' /\ Alone'
  BY <1>1 DEF Quiet, Apart, Alone
<1> QED
  BY <1>1, <1>3, <1>4, <1>5 DEF Quiet, Becomes

(* The thread that schedules k has put it on the list.                     *)
LEMMA SchedulePlaces ==
  ASSUME Placing, NEW t \in Threads, NEW k \in Tasks, Schedule(t, k)
  PROVE  /\ k \notin HandedOver
         /\ Becomes(Listed \cup {k}, InHand, Expired, waiting, timers, done, Readies)
         /\ OnePlace'
<1> USE DEF Placing, OnePlace, DataOK
<1>1. k \notin HandedOver
  BY NewTask DEF Schedule
<1>2. /\ m_fibers' = Append(m_fibers, k)
      /\ UNCHANGED <<done, waiting, timers, fired, due, ft, cbs, evs>>
  BY DEF Schedule, ioVars, eventVars, timerVars, idleVars
<1>3. IsInjective(m_fibers)' /\ Listed' = Listed \cup {k}
  BY <1>1, <1>2, ListAppend DEF Listed, HandedOver
<1>4. InHand' = InHand /\ Expired' = Expired /\ Readies' = Readies /\ Alone'
  BY <1>2 DEF InHand, Expired, Readies, Ready, Alone
<1>5. Apart'
  BY <1>1, <1>2, <1>3, <1>4 DEF Apart, HandedOver
<1>6. Remembered'
  BY <1>2, <1>3, <1>4, StillRemembered DEF HandedOver
<1> QED
  BY <1>1, <1>2, <1>3, <1>4, <1>5, <1>6 DEF Becomes

(* k waits for its event. No report of its descriptor can be left over     *)
(* from before.                                                            *)
LEMMA AddEventPlaces ==
  ASSUME Placing, NEW t \in Threads, NEW k \in Tasks, AddEvent(t, k)
  PROVE  /\ k \notin HandedOver
         /\ Becomes(Listed, InHand, Expired, waiting \cup {k}, timers, done, Readies)
         /\ OnePlace'
<1> USE DEF Placing, OnePlace, DataOK
<1>1. k \notin HandedOver
  BY NewTask DEF AddEvent
<1>2. /\ waiting' = waiting \cup {k}
      /\ UNCHANGED <<m_fibers, done, timers, fired, due, ft, cbs, evs>>
  BY DEF AddEvent, poolVars, timerVars, idleVars
<1>3. /\ IsInjective(m_fibers)' /\ Listed' = Listed
      /\ InHand' = InHand /\ Expired' = Expired /\ Alone'
  BY <1>2 DEF Listed, InHand, Expired, Alone
<1>4. Readies' = Readies
  <2>1. \A u \in Threads : k \notin evs[u]
    BY <1>1 DEF Remembered
  <2>2. ASSUME NEW j \in Tasks PROVE Ready(j)' <=> Ready(j)
    BY <1>2, <2>1 DEF Ready
  <2> QED
    BY <2>2 DEF Readies
<1>5. Apart'
  BY <1>1, <1>2, <1>3 DEF Apart, HandedOver
<1>6. Remembered'
  BY <1>2, <1>3, StillRemembered DEF HandedOver
<1> QED
  BY <1>1, <1>2, <1>3, <1>4, <1>5, <1>6 DEF Becomes

(* k waits for its time.                                                   *)
LEMMA AddTimerPlaces ==
  ASSUME Placing, NEW t \in Threads, NEW k \in Tasks, AddTimer(t, k)
  PROVE  /\ k \notin HandedOver
         /\ Becomes(Listed, InHand, Expired, waiting, timers \cup {k}, done, Readies)
         /\ OnePlace'
<1> USE DEF Placing, OnePlace, DataOK
<1>1. k \notin HandedOver
  BY NewTask DEF AddTimer
<1>2. /\ timers' = timers \cup {k}
      /\ UNCHANGED <<m_fibers, done, waiting, fired, due, ft, cbs, evs>>
  BY DEF AddTimer, poolVars, eventVars, idleVars
<1>3. /\ IsInjective(m_fibers)' /\ Listed' = Listed
      /\ InHand' = InHand /\ Expired' = Expired /\ Readies' = Readies /\ Alone'
  BY <1>2 DEF Listed, InHand, Expired, Readies, Ready, Alone
<1>4. Apart'
  BY <1>1, <1>2, <1>3 DEF Apart, HandedOver
<1>5. Remembered'
  BY <1>2, <1>3, StillRemembered DEF HandedOver
<1> QED
  BY <1>1, <1>2, <1>3, <1>4, <1>5 DEF Becomes

(* The descriptor of k is ready, perhaps once more.                        *)
LEMMA FirePlaces ==
  ASSUME Placing, NEW k \in Tasks, Fire(k)
  PROVE  /\ k \in waiting
         /\ Becomes(Listed, InHand, Expired, waiting, timers, done, Readies \cup {k})
         /\ OnePlace'
<1> USE DEF Placing, OnePlace, DataOK
<1>1. /\ k \in waiting /\ fired' = fired \cup {k}
      /\ UNCHANGED <<m_fibers, done, waiting, timers, due, ft, cbs, evs>>
  BY DEF Fire, poolVars, timerVars, idleVars
<1>2. /\ IsInjective(m_fibers)' /\ Listed' = Listed
      /\ InHand' = InHand /\ Expired' = Expired /\ Alone'
  BY <1>1 DEF Listed, InHand, Expired, Alone
<1>3. Readies' = Readies \cup {k}
  <2>1. ASSUME NEW j \in Tasks PROVE Ready(j)' <=> Ready(j) \/ j = k
    BY <1>1 DEF Ready
  <2> QED
    BY <2>1 DEF Readies
<1>4. Apart' /\ Remembered'
  BY <1>1, <1>2, StillRemembered DEF Apart, HandedOver
<1> QED
  BY <1>1, <1>2, <1>3, <1>4 DEF Becomes

(* The time of k has come.                                                 *)
LEMMA ExpirePlaces ==
  ASSUME Placing, NEW k \in Tasks, Expire(k)
  PROVE  /\ k \in timers
         /\ Becomes(Listed, InHand, Expired, waiting, timers, done, Readies \cup {k})
         /\ OnePlace'
<1> USE DEF Placing, OnePlace, DataOK
<1>1. /\ k \in timers /\ due' = due \cup {k}
      /\ UNCHANGED <<m_fibers, done, waiting, timers, fired, ft, cbs, evs>>
  BY DEF Expire, poolVars, eventVars, idleVars
<1>2. /\ IsInjective(m_fibers)' /\ Listed' = Listed
      /\ InHand' = InHand /\ Expired' = Expired /\ Alone'
  BY <1>1 DEF Listed, InHand, Expired, Alone
<1>3. Readies' = Readies \cup {k}
  <2>1. ASSUME NEW j \in Tasks PROVE Ready(j)' <=> Ready(j) \/ j = k
    BY <1>1 DEF Ready
  <2> QED
    BY <2>1 DEF Readies
<1>4. Apart' /\ Remembered'
  BY <1>1, <1>2, StillRemembered DEF Apart, HandedOver
<1> QED
  BY <1>1, <1>2, <1>3, <1>4 DEF Becomes

(* The first of the list is in the hands of t, which held none, and        *)
(* nowhere else.                                                           *)
LEMMA TakePlaces ==
  ASSUME Placing, NEW t \in Threads, Take(t)
  PROVE  /\ Head(m_fibers) \in Listed
         /\ Becomes(Listed \ {Head(m_fibers)}, InHand \cup {Head(m_fibers)},
                    Expired, waiting, timers, done, Readies)
         /\ OnePlace'
<1> USE IOIdleAssumption DEF Placing, OnePlace, DataOK
<1> DEFINE k == Head(m_fibers)
<1>1. /\ m_fibers # <<>> /\ m_fibers' = Tail(m_fibers) /\ ft' = [ft EXCEPT ![t] = k]
      /\ UNCHANGED <<done, waiting, timers, fired, due, cbs, evs>> /\ pc[t] = "scan"
  BY DEF Take, ioVars, eventVars, timerVars, idleVars
<1>2. /\ k \in Listed /\ Listed \subseteq Tasks
      /\ IsInjective(m_fibers)' /\ Listed' = Listed \ {k}
  <2>1. Listed \subseteq Tasks
    BY DEF Listed, Range
  <2> QED
    BY <1>1, <2>1, ListTail DEF Listed
<1> HIDE DEF k
<1>3. ft[t] = NoTask
  BY <1>1 DEF FreeHands, At
<1>4. ft'[t] = k /\ \A u \in Threads \ {t} : ft'[u] = ft[u]
  BY <1>1
<1>5. InHand' = InHand \cup {k}
  BY <1>2, <1>3, <1>4 DEF InHand
<1>6. Expired' = Expired /\ Readies' = Readies
  BY <1>1 DEF Expired, Readies, Ready
<1>7. Alone'
  <2>1. \A u \in Threads : ft[u] # k
    BY <1>2 DEF Apart, InHand
  <2> QED
    BY <1>1, <1>4, <2>1 DEF Alone
<1>8. Apart'
  BY <1>1, <1>2, <1>5, <1>6 DEF Apart
<1>9. Remembered'
  BY <1>1, <1>2, <1>5, <1>6, StillRemembered DEF HandedOver
<1> QED
  BY <1>1, <1>2, <1>5, <1>6, <1>7, <1>8, <1>9 DEF Becomes, k

(* The callback of t has ended; no other thread holds it.                  *)
LEMMA TaskEndsPlaces ==
  ASSUME Placing, NEW t \in Threads, TaskEnds(t)
  PROVE  /\ ft[t] \in InHand
         /\ Becomes(Listed, InHand \ {ft[t]}, Expired, waiting, timers,
                    done \cup {ft[t]}, Readies)
         /\ OnePlace'
<1> USE IOIdleAssumption DEF Placing, OnePlace, DataOK
<1>1. /\ done' = done \cup {ft[t]} /\ ft' = [ft EXCEPT ![t] = NoTask] /\ pc[t] = "exec"
      /\ UNCHANGED <<m_fibers, waiting, timers, fired, due, cbs, evs>>
  BY DEF TaskEnds, ioVars, eventVars, timerVars, idleVars
<1>2. ft[t] \in Tasks /\ ft[t] \in InHand
  BY <1>1 DEF At, InHand
<1>3. ft'[t] = NoTask /\ \A u \in Threads \ {t} : ft'[u] = ft[u]
  BY <1>1
<1>4. \A u \in Threads \ {t} : ft[u] # ft[t]
  BY <1>2 DEF Alone
<1>5. InHand' = InHand \ {ft[t]}
  BY <1>2, <1>3, <1>4 DEF InHand
<1>6. Listed' = Listed /\ IsInjective(m_fibers)' /\ Expired' = Expired /\ Readies' = Readies
  BY <1>1 DEF Listed, Expired, Readies, Ready
<1>7. Alone'
  BY <1>1, <1>3 DEF Alone
<1>8. Apart'
  BY <1>1, <1>2, <1>5, <1>6 DEF Apart
<1>9. Remembered'
  BY <1>1, <1>5, <1>6, StillRemembered DEF HandedOver
<1> QED
  BY <1>1, <1>2, <1>5, <1>6, <1>7, <1>8, <1>9 DEF Becomes

(* What is ready is reported to t; t carried no report it had not handled. *)
LEMMA EpollWaitPlaces ==
  ASSUME Placing, NEW t \in Threads, EpollWait(t)
  PROVE  Becomes(Listed, InHand, Expired, waiting, timers, done, Readies) /\ OnePlace'
<1> USE IOIdleAssumption DEF Placing, OnePlace, DataOK
<1>1. /\ evs' = [evs EXCEPT ![t] = Reportable] /\ fired' = {} /\ pc[t] \in {"wait", "sleep"}
      /\ UNCHANGED <<m_fibers, done, waiting, timers, due, ft, cbs>>
  BY DEF EpollWait, poolVars, timerVars
<1>2. evs[t] = {}
  BY <1>1 DEF Pockets, At
<1>3. evs'[t] \cap Tasks = fired /\ \A u \in Threads \ {t} : evs'[u] = evs[u]
  BY <1>1 DEF Reportable
<1>4. /\ IsInjective(m_fibers)' /\ Listed' = Listed
      /\ InHand' = InHand /\ Expired' = Expired /\ Alone'
  BY <1>1 DEF Listed, InHand, Expired, Alone
<1>5. Readies' = Readies
  <2>1. ASSUME NEW k \in Tasks PROVE Ready(k)' <=> Ready(k)
    <3>1. (\E u \in Threads : k \in evs'[u]) <=> k \in fired \/ \E u \in Threads : k \in evs[u]
      BY <1>2, <1>3
    <3> QED
      BY <1>1, <3>1 DEF Ready
  <2> QED
    BY <2>1 DEF Readies
<1>6. Apart'
  BY <1>1, <1>4 DEF Apart
<1>7. Remembered'
  <2>1. HandedOver' = HandedOver /\ fired \subseteq HandedOver
    BY <1>1, <1>4 DEF HandedOver
  <2> QED
    BY <1>3, <2>1 DEF Remembered
<1> QED
  BY <1>1, <1>4, <1>5, <1>6, <1>7 DEF Becomes

(* The timers whose time has come are carried by t, which carried none.    *)
LEMMA ListExpiredPlaces ==
  ASSUME Placing, NEW t \in Threads, ListExpired(t)
  PROVE  /\ due \subseteq Readies
         /\ Becomes(Listed, InHand, Expired \cup due, waiting, timers \ due, done, Readies)
         /\ OnePlace'
<1> USE IOIdleAssumption DEF Placing, OnePlace, DataOK
<1>1. /\ cbs' = [cbs EXCEPT ![t] = due] /\ due' = {} /\ timers' = timers \ due
      /\ pc[t] = "expired"
      /\ UNCHANGED <<m_fibers, done, waiting, fired, ft, evs>>
  BY DEF ListExpired, poolVars, eventVars
<1>2. cbs[t] = {}
  BY <1>1 DEF Pockets, At
<1>3. cbs'[t] = due /\ \A u \in Threads \ {t} : cbs'[u] = cbs[u]
  BY <1>1
<1>4. \A k \in Tasks :
        (\E u \in Threads : k \in cbs'[u]) <=> k \in due \/ \E u \in Threads : k \in cbs[u]
  BY <1>2, <1>3
<1>5. /\ IsInjective(m_fibers)' /\ Listed' = Listed /\ InHand' = InHand
      /\ Expired' = Expired \cup due
  BY <1>1, <1>4 DEF Listed, InHand, Expired
<1>6. Readies' = Readies /\ due \subseteq Readies
  <2>1. ASSUME NEW k \in Tasks PROVE Ready(k)' <=> Ready(k)
    BY <1>1, <1>4 DEF Ready
  <2> QED
    BY <2>1 DEF Readies, Ready
<1>7. Alone'
  <2>1. \A u \in Threads : cbs[u] \cap due = {}
    BY DEF Apart, Expired
  <2> QED
    BY <1>1, <1>3, <2>1 DEF Alone
<1>8. Apart'
  BY <1>1, <1>5 DEF Apart
<1>9. Remembered'
  BY <1>1, <1>5, StillRemembered DEF HandedOver
<1> QED
  BY <1>1, <1>5, <1>6, <1>7, <1>8, <1>9 DEF Becomes

(* Those t carries, and no other thread does, are on the list.             *)
LEMMA ScheduleExpiredPlaces ==
  ASSUME Placing, NEW t \in Threads, ScheduleExpired(t)
  PROVE  /\ cbs[t] \subseteq Readies
         /\ Becomes(Listed \cup cbs[t], InHand, Expired \ cbs[t], waiting, timers, done,
                    Readies \ cbs[t])
         /\ OnePlace'
<1> USE IOIdleAssumption DEF Placing, OnePlace, DataOK
<1>1. /\ m_fibers' = m_fibers \o SetToSeq(cbs[t]) /\ cbs' = [cbs EXCEPT ![t] = {}]
      /\ UNCHANGED <<done, waiting, timers, fired, due, ft, evs>>
  BY DEF ScheduleExpired, ioVars, eventVars, timerVars
<1>2. cbs[t] \in SUBSET Tasks /\ IsFiniteSet(cbs[t]) /\ cbs[t] \subseteq Expired
  BY FS_Subset DEF Expired
<1>3. IsInjective(m_fibers)' /\ Listed' = Listed \cup cbs[t]
  <2>1. cbs[t] \cap Range(m_fibers) = {}
    BY <1>2 DEF Apart, Listed
  <2> QED
    BY <1>1, <1>2, <2>1, ListAppendSet DEF Listed
<1>4. cbs'[t] = {} /\ \A u \in Threads \ {t} : cbs'[u] = cbs[u] /\ cbs[u] \cap cbs[t] = {}
  BY <1>1 DEF Alone
<1>5. InHand' = InHand /\ Expired' = Expired \ cbs[t] /\ Alone'
  BY <1>1, <1>2, <1>4 DEF InHand, Expired, Alone
<1>6. cbs[t] \subseteq Readies /\ Readies' = Readies \ cbs[t]
  <2>1. cbs[t] \cap (waiting \cup timers) = {}
    BY <1>2 DEF Apart
  <2>2. ASSUME NEW k \in Tasks PROVE Ready(k)' <=> Ready(k) /\ k \notin cbs[t]
    BY <1>1, <1>4, <2>1 DEF Ready
  <2> QED
    BY <1>2, <2>2 DEF Readies, Ready
<1>7. Apart'
  BY <1>1, <1>2, <1>3, <1>5 DEF Apart
<1>8. Remembered'
  BY <1>1, <1>3, <1>5, StillRemembered DEF HandedOver
<1> QED
  BY <1>1, <1>3, <1>5, <1>6, <1>7, <1>8 DEF Becomes

(* k is on the list and waits no more, whoever else was told that it is    *)
(* ready.                                                                  *)
LEMMA TriggerPlaces ==
  ASSUME Placing, NEW t \in Threads, NEW k \in Tasks, Trigger(t, k)
  PROVE  /\ k \in Readies
         /\ Becomes(Listed \cup {k}, InHand, Expired, waiting \ {k}, timers, done,
                    Readies \ {k})
         /\ OnePlace'
<1> USE IOIdleAssumption DEF Placing, OnePlace, DataOK
<1>1. /\ k \in evs[t] \cap waiting
      /\ m_fibers' = Append(m_fibers, k) /\ waiting' = waiting \ {k} /\ fired' = fired \ {k}
      /\ evs' = [evs EXCEPT ![t] = evs[t] \ {k}]
      /\ UNCHANGED <<done, timers, due, ft, cbs>>
  BY DEF Trigger, timerVars
<1>2. IsInjective(m_fibers)' /\ Listed' = Listed \cup {k}
  <2>1. k \notin Range(m_fibers)
    BY <1>1 DEF Apart, Listed
  <2> QED
    BY <1>1, <2>1, ListAppend DEF Listed
<1>3. InHand' = InHand /\ Expired' = Expired /\ Alone'
  BY <1>1 DEF InHand, Expired, Alone
<1>4. evs'[t] = evs[t] \ {k} /\ \A u \in Threads \ {t} : evs'[u] = evs[u]
  BY <1>1
<1>5. k \in Readies /\ Readies' = Readies \ {k}
  <2>1. k \notin timers /\ \A u \in Threads : k \notin cbs[u]
    BY <1>1 DEF Apart, Expired
  <2>2. ASSUME NEW j \in Tasks PROVE Ready(j)' <=> Ready(j) /\ j # k
    BY <1>1, <1>4, <2>1 DEF Ready
  <2> QED
    BY <1>1, <2>2 DEF Readies, Ready
<1>6. Apart'
  BY <1>1, <1>2, <1>3 DEF Apart
<1>7. Remembered'
  BY <1>1, <1>2, <1>3, <1>4, StillRemembered DEF HandedOver
<1> QED
  BY <1>1, <1>2, <1>3, <1>5, <1>6, <1>7 DEF Becomes

(* No callback is anywhere initially.                                      *)
LEMMA InitOnePlace == Init => OnePlace
<1> SUFFICES ASSUME Init PROVE OnePlace
  OBVIOUS
<1>1. /\ m_fibers = <<>> /\ \A t \in Threads : ft[t] = NoTask /\ cbs[t] = {} /\ evs[t] = {}
      /\ waiting = {} /\ timers = {} /\ done = {}
  BY DEF Init
<1>2. IsInjective(m_fibers) /\ Listed = {}
  BY <1>1 DEF IsInjective, Listed, Range
<1>3. InHand = {} /\ Expired = {}
  BY <1>1, IOIdleAssumption DEF InHand, Expired
<1> QED
  BY <1>1, <1>2, <1>3 DEF OnePlace, Apart, Alone, Remembered

(* Every step keeps a callback in one place.                               *)
LEMMA NextOnePlace ==
  ASSUME Placing, [Next]_vars PROVE OnePlace'
<1>1. CASE Quiet
  BY <1>1, QuietPlaces
<1>2. CASE Moving
  BY <1>2, SchedulePlaces, AddEventPlaces, AddTimerPlaces, TriggerPlaces, TakePlaces,
     TaskEndsPlaces, EpollWaitPlaces, ListExpiredPlaces, ScheduleExpiredPlaces,
     FirePlaces, ExpirePlaces DEF Moving
<1> QED
  BY <1>1, <1>2, QuietSteps DEF Placing

(* A step that moves the callbacks of S moves them in Callbacks.           *)
LEMMA MoveOf ==
  ASSUME NEW S \in SUBSET Tasks, NEW from, NEW to,
         \A k \in S : PlaceOf(k) = from /\ PlaceOf(k)' = to,
         \A k \in Tasks \ S : PlaceOf(k)' = PlaceOf(k)
  PROVE  Promise!Move(S, from, to)
  BY DEF Promise!Move

(* Nothing moves in Callbacks if no place changes.                         *)
LEMMA NoMove ==
  ASSUME \A k \in Tasks : PlaceOf(k)' = PlaceOf(k)
  PROVE  UNCHANGED [k \in Tasks |-> PlaceOf(k)]
  OBVIOUS

(* What a step of IOIdle is in Callbacks.                                  *)
PromiseStep == Promise!Next \/ UNCHANGED [k \in Tasks |-> PlaceOf(k)]

(* Every step of IOIdle is one of Callbacks, or none.                      *)
LEMMA StepsKeepPromise ==
  ASSUME Placing, DataOK', [Next]_vars PROVE PromiseStep
<1>1. PlaceFacts /\ PlaceFacts'
  BY NextOnePlace, PlaceIs, PlaceIs_ DEF Placing, OnePlace
<1>2. CASE Quiet
  <2>1. Becomes(Listed, InHand, Expired, waiting, timers, done, Readies)
    BY <1>2, QuietPlaces
  <2>2. ASSUME NEW j \in Tasks PROVE PlaceOf(j)' = PlaceOf(j)
    BY <1>1, <2>1, SamePlace DEF Becomes
  <2> QED
    BY <2>2, NoMove DEF PromiseStep
<1>3. ASSUME NEW t \in Threads, NEW k \in Tasks,
             Schedule(t, k) \/ AddEvent(t, k) \/ AddTimer(t, k)
      PROVE  Promise!HandOver(k)
  <2>1. CASE Schedule(t, k)
    <3>1. /\ k \notin HandedOver
          /\ Becomes(Listed \cup {k}, InHand, Expired, waiting, timers, done, Readies)
      BY <2>1, SchedulePlaces
    <3>2. PlaceOf(k) = "out" /\ PlaceOf(k)' = "list"
      BY <1>1, <3>1 DEF PlaceFacts, Becomes
    <3>3. ASSUME NEW j \in Tasks \ {k} PROVE PlaceOf(j)' = PlaceOf(j)
      BY <1>1, <3>1, SamePlace DEF Becomes
    <3>4. Promise!Move({k}, "out", "list")
      BY <3>2, <3>3, MoveOf
    <3> QED
      BY <3>4 DEF Promise!HandOver
  <2>2. CASE AddEvent(t, k)
    <3>1. /\ k \notin HandedOver
          /\ Becomes(Listed, InHand, Expired, waiting \cup {k}, timers, done, Readies)
      BY <2>2, AddEventPlaces
    <3>2. PlaceOf(k) = "out" /\ PlaceOf(k)' = "event"
      BY <1>1, <3>1 DEF PlaceFacts, Becomes, HandedOver
    <3>3. ASSUME NEW j \in Tasks \ {k} PROVE PlaceOf(j)' = PlaceOf(j)
      BY <1>1, <3>1, SamePlace DEF Becomes
    <3>4. Promise!Move({k}, "out", "event")
      BY <3>2, <3>3, MoveOf
    <3> QED
      BY <3>4 DEF Promise!HandOver
  <2>3. CASE AddTimer(t, k)
    <3>1. /\ k \notin HandedOver
          /\ Becomes(Listed, InHand, Expired, waiting, timers \cup {k}, done, Readies)
      BY <2>3, AddTimerPlaces
    <3>2. PlaceOf(k) = "out" /\ PlaceOf(k)' = "timer"
      BY <1>1, <3>1 DEF PlaceFacts, Becomes, HandedOver
    <3>3. ASSUME NEW j \in Tasks \ {k} PROVE PlaceOf(j)' = PlaceOf(j)
      BY <1>1, <3>1, SamePlace DEF Becomes
    <3>4. Promise!Move({k}, "out", "timer")
      BY <3>2, <3>3, MoveOf
    <3> QED
      BY <3>4 DEF Promise!HandOver
  <2> QED
    BY <1>3, <2>1, <2>2, <2>3
<1>4. ASSUME NEW k \in Tasks, Fire(k) \/ Expire(k) PROVE PromiseStep
  <2>1. PICK from \in {"event", "timer"} :
          /\ k \in Readies \/ PlaceOf(k) = from
          /\ Becomes(Listed, InHand, Expired, waiting, timers, done, Readies \cup {k})
    <3>1. CASE Fire(k)
      BY <1>1, <3>1, FirePlaces DEF PlaceFacts
    <3>2. CASE Expire(k)
      BY <1>1, <3>2, ExpirePlaces DEF PlaceFacts
    <3> QED
      BY <1>4, <3>1, <3>2
  <2>2. PlaceOf(k)' = "ready"
    BY <1>1, <2>1 DEF PlaceFacts, Becomes
  <2>3. ASSUME NEW j \in Tasks \ {k} PROVE PlaceOf(j)' = PlaceOf(j)
    BY <1>1, <2>1, SamePlace DEF Becomes
  <2>4. CASE k \in Readies
    <3>1. PlaceOf(k) = "ready"
      BY <1>1, <2>4 DEF PlaceFacts
    <3> QED
      BY <2>2, <2>3, <3>1, NoMove DEF PromiseStep
  <2>5. CASE PlaceOf(k) = from
    <3>1. Promise!Move({k}, from, "ready")
      BY <2>2, <2>3, <2>5, MoveOf
    <3> QED
      BY <3>1 DEF Promise!BecomeReady, Promise!Next, PromiseStep
  <2> QED
    BY <2>1, <2>4, <2>5
<1>5. ASSUME NEW t \in Threads, EpollWait(t) \/ ListExpired(t)
      PROVE  UNCHANGED [k \in Tasks |-> PlaceOf(k)]
  <2>1. PICK D \in SUBSET Readies :
          Becomes(Listed, InHand, Expired \cup D, waiting, timers \ D, done, Readies)
    <3>1. CASE EpollWait(t)
      <4>1. /\ {} \in SUBSET Readies
            /\ Becomes(Listed, InHand, Expired \cup {}, waiting, timers \ {}, done, Readies)
        BY <3>1, EpollWaitPlaces
      <4> QED
        BY <4>1
    <3>2. CASE ListExpired(t)
      BY <3>2, ListExpiredPlaces
    <3> QED
      BY <1>5, <3>1, <3>2
  <2>2. ASSUME NEW j \in Tasks PROVE PlaceOf(j)' = PlaceOf(j)
    <3>1. CASE j \in Readies
      BY <1>1, <2>1, <3>1 DEF PlaceFacts, Becomes
    <3>2. CASE j \notin Readies
      BY <1>1, <2>1, <3>2, SamePlace DEF Becomes
    <3> QED
      BY <3>1, <3>2
  <2> QED
    BY <2>2, NoMove
<1>6. ASSUME NEW t \in Threads,
             ScheduleExpired(t) \/ \E k \in Tasks : Trigger(t, k)
      PROVE  \E S \in SUBSET Tasks : Promise!Enlist(S)
  <2>1. PICK S \in SUBSET Readies :
          \/ Becomes(Listed \cup S, InHand, Expired \ S, waiting, timers, done, Readies \ S)
          \/ Becomes(Listed \cup S, InHand, Expired, waiting \ S, timers, done, Readies \ S)
    <3>1. CASE ScheduleExpired(t)
      BY <3>1, ScheduleExpiredPlaces
    <3>2. ASSUME NEW k \in Tasks, Trigger(t, k)
          PROVE  /\ {k} \in SUBSET Readies
                 /\ Becomes(Listed \cup {k}, InHand, Expired, waiting \ {k}, timers, done,
                            Readies \ {k})
      BY <3>2, TriggerPlaces
    <3> QED
      BY <1>6, <3>1, <3>2
  <2>2. S \in SUBSET Tasks
    BY DEF Readies
  <2>3. \A k \in S : PlaceOf(k) = "ready" /\ PlaceOf(k)' = "list"
    BY <1>1, <2>1, <2>2 DEF PlaceFacts, Becomes
  <2>4. ASSUME NEW j \in Tasks \ S PROVE PlaceOf(j)' = PlaceOf(j)
    BY <1>1, <2>1, SamePlace DEF Becomes
  <2>5. Promise!Move(S, "ready", "list")
    BY <2>2, <2>3, <2>4, MoveOf
  <2> QED
    BY <2>2, <2>5 DEF Promise!Enlist
<1>7. ASSUME NEW t \in Threads, Take(t)
      PROVE  \E k \in Tasks : Promise!Start(k)
  <2>1. /\ Head(m_fibers) \in Listed
        /\ Becomes(Listed \ {Head(m_fibers)}, InHand \cup {Head(m_fibers)}, Expired,
                   waiting, timers, done, Readies)
    BY <1>7, TakePlaces
  <2>2. PICK k \in Tasks : k = Head(m_fibers)
    BY <2>1 DEF Listed, Range, Placing, DataOK
  <2>3. PlaceOf(k) = "list" /\ PlaceOf(k)' = "thread"
    BY <1>1, <2>1, <2>2 DEF PlaceFacts, Becomes
  <2>4. ASSUME NEW j \in Tasks \ {k} PROVE PlaceOf(j)' = PlaceOf(j)
    BY <1>1, <2>1, <2>2, SamePlace DEF Becomes
  <2>5. Promise!Move({k}, "list", "thread")
    BY <2>2, <2>3, <2>4, MoveOf
  <2> QED
    BY <2>2, <2>5 DEF Promise!Start
<1>8. ASSUME NEW t \in Threads, TaskEnds(t)
      PROVE  \E k \in Tasks : Promise!End(k)
  <2>1. /\ ft[t] \in InHand
        /\ Becomes(Listed, InHand \ {ft[t]}, Expired, waiting, timers, done \cup {ft[t]},
                   Readies)
    BY <1>8, TaskEndsPlaces
  <2>2. PICK k \in Tasks : k = ft[t]
    BY <2>1 DEF InHand
  <2>3. PlaceOf(k) = "thread" /\ PlaceOf(k)' = "ended"
    BY <1>1, <2>1, <2>2 DEF PlaceFacts, Becomes
  <2>4. ASSUME NEW j \in Tasks \ {k} PROVE PlaceOf(j)' = PlaceOf(j)
    BY <1>1, <2>1, <2>2, SamePlace DEF Becomes
  <2>5. Promise!Move({k}, "thread", "ended")
    BY <2>2, <2>3, <2>4, MoveOf
  <2> QED
    BY <2>2, <2>5 DEF Promise!End
<1>9. CASE Moving
  BY <1>3, <1>4, <1>5, <1>6, <1>7, <1>8, <1>9 DEF Moving, Promise!Next, PromiseStep
<1> QED
  BY <1>2, <1>9, QuietSteps DEF Placing

(* Initially every callback is out of the IOManager.                       *)
LEMMA InitPromise == Init => Promise!Init
<1> SUFFICES ASSUME Init, NEW k \in Tasks PROVE PlaceOf(k) = "out"
  BY DEF Promise!Init
<1>1. DataOK /\ OnePlace
  BY InitDataOK, InitOnePlace
<1>2. k \notin HandedOver
  BY IOIdleAssumption DEF Init, HandedOver, Listed, Range, InHand, Expired
<1> QED
  BY <1>1, <1>2, PlaceIs DEF OnePlace, PlaceFacts

-----------------------------------------------------------------------------
(* The invariant and the theorems.                                         *)

(* The inductive invariant.                                                *)
Inv ==
  /\ PlacesOK /\ DataOK /\ Outside /\ CountersAccurate
  /\ Started /\ Watched /\ Kept /\ Pockets /\ OnePlace

(* The counters remain accurate.                                           *)
LEMMA NextCounters ==
  ASSUME Inv, [Next]_vars PROVE CountersAccurate'
<1>1. IdleCounted /\ ActiveCounted /\ PendingCounted
  BY IdleSteps, ActiveSteps, PendingSteps DEF Inv
<1>2. /\ m_idleThreadCount = Cardinality(Idlers)
      /\ m_activeThreadCount = Cardinality(Runners)
      /\ m_pendingEventCount = Cardinality(waiting) + Cardinality(Dispatchers)
  BY CountersParts DEF Inv
<1>3. /\ IsFiniteSet(Idlers) /\ IsFiniteSet(Runners)
      /\ IsFiniteSet(Dispatchers) /\ IsFiniteSet(waiting)
  BY FiniteSets DEF Inv
<1>4. m_idleThreadCount' = Cardinality(Idlers')
  BY <1>1, <1>2, <1>3, Counting DEF IdleCounted
<1>5. m_activeThreadCount' = Cardinality(Runners')
  BY <1>1, <1>2, <1>3, Counting DEF ActiveCounted
<1>6. m_pendingEventCount' = Cardinality(waiting') + Cardinality(Dispatchers')
  <2>1. Cardinality(waiting) \in Nat /\ Cardinality(Dispatchers) \in Nat
    BY <1>3, FS_CardinalityType
  <2>2. CASE waiting' = waiting /\ Dispatchers' = Dispatchers
             /\ m_pendingEventCount' = m_pendingEventCount
    BY <1>2, <2>2
  <2>3. ASSUME NEW k, k \notin waiting, waiting' = waiting \cup {k},
               Dispatchers' = Dispatchers, m_pendingEventCount' = m_pendingEventCount + 1
        PROVE  m_pendingEventCount' = Cardinality(waiting') + Cardinality(Dispatchers')
    <3>1. Cardinality(waiting') = Cardinality(waiting) + 1
      BY <1>3, <2>3, FS_AddElement
    <3> QED
      BY <1>2, <2>1, <2>3, <3>1
  <2>4. ASSUME NEW k \in waiting, NEW t, t \notin Dispatchers, waiting' = waiting \ {k},
               Dispatchers' = Dispatchers \cup {t}, m_pendingEventCount' = m_pendingEventCount
        PROVE  m_pendingEventCount' = Cardinality(waiting') + Cardinality(Dispatchers')
    <3>1. Cardinality(waiting') = Cardinality(waiting) - 1
      BY <1>3, <2>4, FS_RemoveElement
    <3>2. Cardinality(Dispatchers') = Cardinality(Dispatchers) + 1
      BY <1>3, <2>4, FS_AddElement
    <3> QED
      BY <1>2, <2>1, <2>4, <3>1, <3>2
  <2>5. ASSUME NEW t \in Dispatchers, waiting' = waiting, Dispatchers' = Dispatchers \ {t},
               m_pendingEventCount' = m_pendingEventCount - 1
        PROVE  m_pendingEventCount' = Cardinality(waiting') + Cardinality(Dispatchers')
    <3>1. Cardinality(Dispatchers') = Cardinality(Dispatchers) - 1
      BY <1>3, <2>5, FS_RemoveElement
    <3> QED
      BY <1>2, <2>1, <2>5, <3>1
  <2> QED
    BY <1>1, <2>2, <2>3, <2>4, <2>5 DEF PendingCounted
<1> QED
  BY <1>4, <1>5, <1>6, CountersParts_

(* The invariant holds initially.                                          *)
LEMMA InitInv == Init => Inv
<1> SUFFICES ASSUME Init PROVE Inv
  OBVIOUS
<1>1. Idlers = {} /\ Runners = {} /\ Dispatchers = {} /\ waiting = {}
  <2>1. \A t \in Threads : At(t) \in {"user", "unborn"}
    BY DEF Init, At
  <2> QED
    BY <2>1 DEF Init, Idlers, Runners, Dispatchers, IdlePoints, IsStopedPoints
<1>2. CountersAccurate
  <2>1. Cardinality({}) = 0
    BY FS_EmptySet
  <2>2. m_idleThreadCount = 0 /\ m_activeThreadCount = 0 /\ m_pendingEventCount = 0
    BY DEF Init
  <2> QED
    BY <1>1, <2>1, <2>2, CountersParts
<1> QED
  BY <1>2, InitPlacesOK, InitDataOK, InitOutside, InitStarted, InitWatched,
     InitKept, InitPockets, InitOnePlace DEF Inv

(* Every step keeps the invariant.                                         *)
LEMMA NextInv == Inv /\ [Next]_vars => Inv'
<1> SUFFICES ASSUME Inv, [Next]_vars PROVE Inv'
  OBVIOUS
<1>1. PlacesOK' /\ DataOK' /\ Outside' /\ CountersAccurate'
  BY NextPlacesOK, NextDataOK, NextOutside, NextCounters DEF Inv
<1>2. Started' /\ Watched' /\ Kept'
  BY NextStarted, NextWatched, NextKept DEF Inv
<1>3. Pockets' /\ OnePlace'
  BY NextPockets, NextOnePlace DEF Inv, Watched, Placing
<1> QED
  BY <1>1, <1>2, <1>3 DEF Inv

(* The invariant holds in every reachable state.                           *)
LEMMA InvCorrect == Spec => []Inv
  BY InitInv, NextInv, PTL DEF Spec

(* When stop() returns every thread has given up, so nothing is scheduled. *)
LEMMA AllDone == Inv => QueueDrained
<1> SUFFICES ASSUME Inv, pc[Main] = "returned"
             PROVE  m_fibers = <<>> /\ {ft[t] : t \in Threads} = {NoTask}
  BY DEF QueueDrained
<1>1. /\ At(Main) = "returned" /\ \A w \in Workers : At(w) = "exited"
  BY DEF Inv, Watched, At
<1>2. \A t \in Threads : ~Looks(t) /\ ft[t] = NoTask
  BY <1>1 DEF Inv, Watched, FreeHands, Looks, IdlePoints, Threads
<1>3. m_fibers = <<>>
  BY <1>1, <1>2 DEF Inv, Watched, BeforeStop
<1> QED
  BY <1>2, <1>3 DEF Threads

(* The three counters, changed without a lock by any number of threads,    *)
(* are the number of threads in their idle fiber, of threads running a     *)
(* task, and of events not yet dispatched.                                 *)
THEOREM CountersAccurateCorrect == Spec => []CountersAccurate
<1>1. Inv => CountersAccurate
  BY DEF Inv
<1> QED
  BY <1>1, InvCorrect, PTL

(* Every variable keeps its type; no counter ever wraps below zero.        *)
THEOREM TypeCorrect == Spec => []TypeOK
<1>1. Inv => TypeOK
  <2> SUFFICES ASSUME Inv PROVE TypeOK
    OBVIOUS
  <2>1. m_activeThreadCount \in Nat /\ m_idleThreadCount \in Nat /\ m_pendingEventCount \in Nat
    BY FiniteSets, CountersParts, FS_CardinalityType DEF Inv
  <2>2. {pc, ret} \subseteq [Threads -> Points]
    BY DEF Inv, PlacesOK
  <2> QED
    BY <2>1, <2>2 DEF Inv, DataOK, TypeOK
<1> QED
  BY <1>1, InvCorrect, PTL

(* start() returns with the id of every worker, however the new threads    *)
(* are scheduled.                                                          *)
THEOREM IdsRecordedCorrect == Spec => []IdsRecorded
<1>1. Inv => IdsRecorded
  BY DEF Inv, Started, At, IdsRecorded
<1> QED
  BY <1>1, InvCorrect, PTL

(* When stop() returns no task is in m_fibers or held by a thread, though  *)
(* every thread decided to leave on reads of isStoped() that are not       *)
(* atomic.                                                                 *)
THEOREM QueueDrainedCorrect == Spec => []QueueDrained
<1>1. Inv => QueueDrained
  BY AllDone
<1> QED
  BY <1>1, InvCorrect, PTL

(* With use_caller, every callback main registered for an event before     *)
(* stop() has run when stop() returns.                                     *)
THEOREM EventsKeptCorrect == Spec => []EventsKept
<1>1. Inv => EventsKept
  <2> SUFFICES ASSUME Inv, UseCaller, pc[Main] = "returned", NEW k \in promised
               PROVE  k \in done
    BY DEF EventsKept
  <2>1. Accounted(k) /\ k \in Tasks /\ k \notin waiting
    BY DEF Inv, Kept, SawNone, At, DataOK
  <2>2. m_fibers = <<>> /\ \A t \in Threads : ft[t] = NoTask
    BY AllDone DEF QueueDrained
  <2> QED
    BY <2>1, <2>2, IOIdleAssumption DEF Accounted
<1> QED
  BY <1>1, InvCorrect, PTL

(* Whatever the threads do, a callback that is handed over waits for its   *)
(* event or its time if it was given one, is put on the list only after    *)
(* that and only once, and is run by one thread: every step is a step of   *)
(* Callbacks or leaves every callback where it is.                         *)
THEOREM ImplementsCallbacksCorrect == Spec => ImplementsCallbacks
<1>1. Inv /\ Inv' /\ [Next]_vars => PromiseStep
  BY StepsKeepPromise DEF Inv, Watched, Placing
<1> QED
  BY <1>1, InitPromise, InvCorrect, PTL DEF Spec, ImplementsCallbacks, Promise!Spec, PromiseStep

=============================================================================
