--------------------------- MODULE Scheduler_proofs ---------------------------
(***************************************************************************)
(* Theorems about Scheduler, for any number of threads and tasks.          *)
(***************************************************************************)
EXTENDS Scheduler, TLAPS, SequenceTheorems, FiniteSetTheorems

(* What erasing one element of a list leaves.                              *)
LEMMA RemoveAtProperties ==
  ASSUME NEW S, NEW s \in Seq(S), NEW i \in 1 .. Len(s)
  PROVE  /\ RemoveAt(s, i) \in Seq(S)
         /\ Len(RemoveAt(s, i)) = Len(s) - 1
         /\ \A j \in 1 .. Len(s) - 1 :
              RemoveAt(s, i)[j] = IF j < i THEN s[j] ELSE s[j + 1]
<1> DEFINE a == SubSeq(s, 1, i - 1)
           b == SubSeq(s, i + 1, Len(s))
<1>1. a \in Seq(S) /\ Len(a) = i - 1 /\ \A j \in 1 .. i - 1 : a[j] = s[j]
  BY SubSeqProperties
<1>2. /\ b \in Seq(S) /\ Len(b) = Len(s) - i
      /\ \A j \in 1 .. Len(s) - i : b[j] = s[i + j]
  BY SubSeqProperties
<1>3. RemoveAt(s, i) = a \o b
  BY DEF RemoveAt
<1> HIDE DEF a, b
<1>4. /\ a \o b \in Seq(S) /\ Len(a \o b) = Len(a) + Len(b)
      /\ \A j \in 1 .. Len(a) + Len(b) :
           (a \o b)[j] = IF j <= Len(a) THEN a[j] ELSE b[j - Len(a)]
  BY <1>1, <1>2, ConcatProperties
<1>5. ASSUME NEW j \in 1 .. Len(s) - 1
      PROVE  (a \o b)[j] = IF j < i THEN s[j] ELSE s[j + 1]
  <2>1. CASE j < i
    BY <1>1, <1>2, <1>4, <2>1
  <2>2. CASE ~(j < i)
    <3>1. j - (i - 1) \in 1 .. Len(s) - i
      BY <2>2
    <3>2. b[j - (i - 1)] = s[i + (j - (i - 1))]
      BY <1>2, <3>1
    <3> QED
      BY <1>1, <1>2, <1>4, <2>2, <3>2
  <2> QED
    BY <2>1, <2>2
<1> QED
  BY <1>1, <1>2, <1>3, <1>4, <1>5

-----------------------------------------------------------------------------
(* Types, and the count of active threads.                                 *)

(* A thread at a point of run() where it uses ft has an entry there.       *)
HasEntry == \A t \in Threads : pc[t] \in Carrying => ft[t] \in Entry

TypeInv == TypeOK /\ HasEntry /\ ActiveAccurate

LEMMA BusyFinite ==
  IsFiniteSet(Busy) /\ Cardinality(Busy) \in Nat
<1>1. IsFiniteSet(Threads)
  BY ConstantsAssumption, FS_AddElement, FS_Union, FS_Singleton DEF Threads
<1> QED
  BY <1>1, FS_Subset, FS_CardinalityType DEF Busy

LEMMA InitTypeInv == Init => TypeInv
<1> SUFFICES ASSUME Init PROVE TypeInv
  OBVIOUS
<1>1. TypeOK
  <2>1. m_state \in [Fibers \cup {RootFiber} -> FiberState]
    BY DEF Init, FiberState
  <2>2. pc \in [Threads -> RunPoints \cup MainPoints \cup {"unborn", "exited"}]
    BY DEF Init, MainPoints
  <2>3. yields \in [Fibers -> Nat]
    BY ConstantsAssumption DEF Init
  <2>4. ft \in [Threads -> Entry \cup {NoEntry}] /\ idle_ft \in [Threads -> BOOLEAN]
    BY DEF Init
  <2>5. m_fibers \in Seq(Entry)
    BY DEF Init
  <2>6. m_stopping \in BOOLEAN /\ m_autoStop \in BOOLEAN
    BY DEF Init
  <2> QED
    BY <2>1, <2>2, <2>3, <2>4, <2>5, <2>6 DEF Init, TypeOK
<1>2. HasEntry
  BY DEF Init, HasEntry, Carrying
<1>3. Busy = {}
  BY DEF Init, Busy
<1>4. ActiveAccurate
  BY <1>3, FS_EmptySet DEF Init, ActiveAccurate
<1> QED
  BY <1>1, <1>2, <1>4 DEF TypeInv

LEMMA AbortTypeInv ==
  ASSUME TypeInv, Abort PROVE TypeInv'
<1>1. TypeOK' /\ HasEntry'
  BY DEF TypeInv, TypeOK, HasEntry, Abort, Goto, Carrying, MainPoints, queueVars,
         flagVars, localVars, fiberVars, boundVars
<1>2. pc'[Main] = "aborted"
  BY DEF Abort, Goto, TypeInv, TypeOK, Threads
<1> QED
  BY <1>1, <1>2 DEF TypeInv, ActiveAccurate

(* One step of a thread in run(), or of the fiber it runs.                 *)
LEMMA ThreadTypeInv ==
  ASSUME TypeInv, NEW t \in Threads, RunStep(t) \/ Yield(t) \/ Schedule(t)
  PROVE  TypeInv'
<1> USE ConstantsAssumption
        DEF At, Over, Destroyed, Goto, queueVars, flagVars, localVars, fiberVars, boundVars,
            TypeInv, TypeOK, HasEntry, Carrying, RunPoints, MainPoints
<1>1. CASE Lock(t)
  <2>1. TypeOK'
    BY <1>1 DEF Lock
  <2>2. HasEntry'
    BY <1>1 DEF Lock
  <2>3. ActiveAccurate'
    BY <1>1 DEF Lock, Busy, ActiveAccurate
  <2> QED
    BY <2>1, <2>2, <2>3 DEF TypeInv
<1>2. CASE ScanSkip(t)
  <2>1. TypeOK'
    BY <1>2 DEF ScanSkip, Scanning
  <2>2. HasEntry'
    BY <1>2 DEF ScanSkip, Scanning
  <2>3. ActiveAccurate'
    BY <1>2 DEF ScanSkip, Scanning, Busy, ActiveAccurate
  <2> QED
    BY <2>1, <2>2, <2>3 DEF TypeInv
<1>3. CASE ScanMarkReady(t)
  <2>1. TypeOK'
    <3>1. m_state' \in [Fibers \cup {RootFiber} -> FiberState]
      BY <1>3 DEF ScanMarkReady, FiberState
    <3> QED
      BY <1>3, <3>1 DEF ScanMarkReady, Scanning, FiberState
  <2>2. HasEntry'
    BY <1>3 DEF ScanMarkReady, Scanning, FiberState
  <2>3. ActiveAccurate'
    BY <1>3 DEF ScanMarkReady, Scanning, FiberState, Busy, ActiveAccurate
  <2> QED
    BY <2>1, <2>2, <2>3 DEF TypeInv
<1>4. CASE ScanErase(t)
  <2>1. TypeOK'
    BY <1>4, RemoveAtProperties DEF ScanErase, Scanning, Erase, AfterErase
  <2>2. HasEntry'
    BY <1>4 DEF ScanErase, Scanning, Erase, AfterErase
  <2>3. ActiveAccurate'
    BY <1>4 DEF ScanErase, Scanning, Erase, AfterErase, Busy, ActiveAccurate
  <2> QED
    BY <2>1, <2>2, <2>3 DEF TypeInv
<1>5. CASE ScanTake(t)
  <2>1. TypeOK'
    BY <1>5, RemoveAtProperties, SMTT(30) DEF ScanTake, Scanning, Erase
  <2>2. HasEntry'
    BY <1>5 DEF ScanTake, Scanning, Erase
  <2>3. ActiveAccurate'
    BY <1>5 DEF ScanTake, Scanning, Erase, Busy, ActiveAccurate
  <2> QED
    BY <2>1, <2>2, <2>3 DEF TypeInv
<1>6. CASE CountActive(t)
  <2>1. TypeOK'
    BY <1>6 DEF CountActive, Activate
  <2>2. HasEntry'
    BY <1>6 DEF CountActive, Activate
  <2>3. ActiveAccurate'
    <3>1. Busy' = Busy \cup {t} /\ t \notin Busy
      BY <1>6 DEF CountActive, Busy
    <3>2. Cardinality(Busy') = Cardinality(Busy) + 1
      BY <3>1, BusyFinite, FS_AddElement
    <3> QED
      BY <1>6, <3>2 DEF CountActive, Activate, ActiveAccurate
  <2> QED
    BY <2>1, <2>2, <2>3 DEF TypeInv
<1>7. CASE ScanNothing(t)
  <2>1. TypeOK'
    BY <1>7 DEF ScanNothing
  <2>2. HasEntry'
    BY <1>7 DEF ScanNothing
  <2>3. ActiveAccurate'
    BY <1>7 DEF ScanNothing, Busy, ActiveAccurate
  <2> QED
    BY <2>1, <2>2, <2>3 DEF TypeInv
<1>8. CASE SetReady(t)
  <2>1. TypeOK'
    BY <1>8 DEF SetReady, FiberState
  <2>2. HasEntry'
    BY <1>8 DEF SetReady, FiberState
  <2>3. ActiveAccurate'
    BY <1>8 DEF SetReady, FiberState, Busy, ActiveAccurate
  <2> QED
    BY <2>1, <2>2, <2>3 DEF TypeInv
<1>9. CASE SwapIn(t)
  <2>1. CASE CanSwapIn(ft[t].fiber)
    <3>1. m_state' \in [Fibers \cup {RootFiber} -> FiberState]
      BY <1>9, <2>1 DEF SwapIn, FiberState
    <3>2. TypeOK' /\ HasEntry'
      BY <1>9, <2>1, <3>1, SMTT(30) DEF SwapIn
    <3>3. Busy' = Busy
      BY <1>9, <2>1 DEF SwapIn, Busy
    <3>4. ActiveAccurate'
      BY <1>9, <2>1, <3>3 DEF SwapIn, ActiveAccurate
    <3> QED
      BY <3>2, <3>4
  <2>2. CASE ~CanSwapIn(ft[t].fiber)
    BY <1>9, <2>2, AbortTypeInv DEF SwapIn
  <2> QED
    BY <2>1, <2>2
<1>10. CASE MainFuncEnds(t)
  <2>1. TypeOK'
    <3>1. m_state' \in [Fibers \cup {RootFiber} -> FiberState]
      BY <1>10 DEF MainFuncEnds, Leave, FiberState, Finished
    <3>2. pc' \in [Threads -> RunPoints \cup MainPoints \cup {"unborn", "exited"}]
      BY <1>10 DEF MainFuncEnds, Leave
    <3>3. ended' \subseteq Fibers \cup {RootFiber}
      BY <1>10 DEF MainFuncEnds, Entry
    <3> QED
      BY <1>10, <3>1, <3>2, <3>3 DEF MainFuncEnds, Leave, FiberState, Finished
  <2>2. HasEntry'
    BY <1>10 DEF MainFuncEnds, Leave, FiberState, Finished
  <2>3. ActiveAccurate'
    BY <1>10, ZenonT(60) DEF MainFuncEnds, Leave, FiberState, Finished, Busy, ActiveAccurate
  <2> QED
    BY <2>1, <2>2, <2>3 DEF TypeInv
<1>11. CASE SwapOut(t)
  <2>1. TypeOK'
    BY <1>11 DEF SwapOut
  <2>2. HasEntry'
    BY <1>11 DEF SwapOut
  <2>3. ActiveAccurate'
    BY <1>11 DEF SwapOut, Busy, ActiveAccurate
  <2> QED
    BY <2>1, <2>2, <2>3 DEF TypeInv
<1>12. CASE CountInactive(t)
  <2>1. TypeOK'
    <3>1. m_activeThreadCount' \in Nat
      <4>1. t \in Busy
        BY <1>12 DEF CountInactive, Busy
      <4>2. m_activeThreadCount = Cardinality(Busy) /\ Cardinality(Busy) # 0
        BY <1>12, <4>1, BusyFinite, FS_EmptySet DEF CountInactive, ActiveAccurate
      <4> QED
        BY <1>12, <4>2, BusyFinite DEF CountInactive, Deactivate
    <3> QED
      BY <1>12, <3>1 DEF CountInactive, Deactivate
  <2>2. HasEntry'
    BY <1>12 DEF CountInactive, Deactivate
  <2>3. ActiveAccurate'
    <3>1. Busy' = Busy \ {t} /\ t \in Busy
      BY <1>12 DEF CountInactive, Busy
    <3>2. Cardinality(Busy') = Cardinality(Busy) - 1
      BY <3>1, BusyFinite, FS_RemoveElement
    <3> QED
      BY <1>12, <3>2 DEF CountInactive, Deactivate, ActiveAccurate
  <2> QED
    BY <2>1, <2>2, <2>3 DEF TypeInv
<1>13. CASE CheckState(t)
  <2>1. TypeOK'
    BY <1>13 DEF CheckState
  <2>2. HasEntry'
    BY <1>13 DEF CheckState
  <2>3. ActiveAccurate'
    BY <1>13, ZenonT(60) DEF CheckState, Busy, ActiveAccurate
  <2> QED
    BY <2>1, <2>2, <2>3 DEF TypeInv
<1>14. CASE Reschedule(t)
  <2>1. TypeOK'
    BY <1>14, AppendProperties DEF Reschedule, Push
  <2>2. HasEntry'
    BY <1>14 DEF Reschedule, Push
  <2>3. ActiveAccurate'
    BY <1>14 DEF Reschedule, Push, Busy, ActiveAccurate
  <2> QED
    BY <2>1, <2>2, <2>3 DEF TypeInv
<1>15. CASE SetHold(t)
  <2>1. TypeOK'
    BY <1>15 DEF SetHold, FiberState
  <2>2. HasEntry'
    BY <1>15 DEF SetHold, FiberState
  <2>3. ActiveAccurate'
    BY <1>15 DEF SetHold, FiberState, Busy, ActiveAccurate
  <2> QED
    BY <2>1, <2>2, <2>3 DEF TypeInv
<1>16. CASE Idle(t)
  <2>1. TypeOK'
    BY <1>16 DEF Idle
  <2>2. HasEntry'
    BY <1>16 DEF Idle
  <2>3. ActiveAccurate'
    BY <1>16 DEF Idle, Busy, ActiveAccurate
  <2> QED
    BY <2>1, <2>2, <2>3 DEF TypeInv
<1>17. CASE ReturnFromRun(t)
  <2>1. TypeOK'
    BY <1>17 DEF ReturnFromRun, FiberState
  <2>2. HasEntry'
    BY <1>17 DEF ReturnFromRun, FiberState
  <2>3. ActiveAccurate'
    BY <1>17 DEF ReturnFromRun, FiberState, Busy, ActiveAccurate
  <2> QED
    BY <2>1, <2>2, <2>3 DEF TypeInv
<1>18. CASE Yield(t)
  <2>1. CASE Abort
    BY <2>1, AbortTypeInv
  <2>2. ASSUME NEW state \in FiberState, Leave(t, state), UNCHANGED ended,
               yields' = [yields EXCEPT ![ft[t].fiber] = @ - 1]
        PROVE  TypeInv'
    <3>1. m_state' \in [Fibers \cup {RootFiber} -> FiberState]
      BY <2>2 DEF Leave
    <3>2. yields' \in [Fibers -> Nat]
      BY <1>18, <2>2 DEF Yield, Entry
    <3>3. pc' \in [Threads -> RunPoints \cup MainPoints \cup {"unborn", "exited"}]
      BY <2>2 DEF Leave
    <3>4. TypeOK'
      BY <2>2, <3>1, <3>2, <3>3 DEF Leave
    <3>6. HasEntry'
      BY <1>18, <2>2 DEF Leave, Yield
    <3>5. ActiveAccurate'
      BY <1>18, <2>2 DEF Yield, Leave, Busy, ActiveAccurate
    <3> QED
      BY <3>4, <3>5, <3>6
  <2>3. m_state[ft[t].fiber] \in FiberState /\ {"READY", "HOLD"} \subseteq FiberState
    BY <1>18 DEF Yield, Entry, FiberState
  <2> QED
    BY <1>18, <2>1, <2>2, <2>3 DEF Yield
<1>19. CASE Schedule(t)
  <2>1. TypeOK'
    <3>1. m_fibers' \in Seq(Entry) /\ submitted' \subseteq Fibers /\ wakes' \in Nat
      BY <1>19, AppendProperties DEF Schedule, schedule, Push, Entry
    <3> QED
      BY <1>19, <3>1 DEF Schedule, schedule, FreshCallback, WakeableFiber, Push
  <2>2. HasEntry'
    BY <1>19 DEF Schedule, schedule, FreshCallback, WakeableFiber, Push
  <2>3. ActiveAccurate'
    BY <1>19 DEF Schedule, schedule, FreshCallback, WakeableFiber, Push, Busy, ActiveAccurate
  <2> QED
    BY <2>1, <2>2, <2>3 DEF TypeInv
<1> QED
  BY <1>1, <1>2, <1>3, <1>4, <1>5, <1>6, <1>7, <1>8, <1>9, <1>10, <1>11, <1>12, <1>13, <1>14, <1>15, <1>16, <1>17, <1>18, <1>19 DEF RunStep

(* One step of the thread that starts, stops and destroys the scheduler.   *)
LEMMA MainTypeInv ==
  ASSUME TypeInv, Start \/ StopEnter \/ StopStep
  PROVE  TypeInv'
<1> USE ConstantsAssumption
        DEF At, Over, Destroyed, Goto, queueVars, flagVars, localVars, fiberVars, boundVars,
            TypeInv, TypeOK, HasEntry, Carrying, RunPoints, MainPoints
<1>1. CASE Start
  <2>1. TypeOK'
    <3>1. pc' \in [Threads -> RunPoints \cup MainPoints \cup {"unborn", "exited"}]
      BY <1>1 DEF Start
    <3>2. idle_ft' \in [Threads -> BOOLEAN]
      BY <1>1 DEF Start
    <3>3. m_stopping' = FALSE /\ starts' \in Nat
      BY <1>1 DEF Start
    <3> QED
      BY <1>1, <3>1, <3>2, <3>3 DEF Start
  <2>2. HasEntry'
    BY <1>1 DEF Start
  <2>3. ActiveAccurate'
    <3>1. Busy' = Busy
      BY <1>1 DEF Start, Busy, Threads
    <3> QED
      BY <1>1, <3>1 DEF Start, ActiveAccurate
  <2> QED
    BY <2>1, <2>2, <2>3 DEF TypeInv
<1>2. CASE StopEnter
  <2>1. TypeOK'
    <3>1. pc' \in [Threads -> RunPoints \cup MainPoints \cup {"unborn", "exited"}]
      BY <1>2 DEF StopEnter
    <3>2. m_autoStop' \in BOOLEAN /\ stops' \in Nat
      BY <1>2 DEF StopEnter
    <3> QED
      BY <1>2, <3>1, <3>2 DEF StopEnter
  <2>2. HasEntry'
    BY <1>2 DEF StopEnter
  <2>3. ActiveAccurate'
    BY <1>2 DEF StopEnter, Busy, ActiveAccurate
  <2> QED
    BY <2>1, <2>2, <2>3 DEF TypeInv
<1>3. CASE StopCheck
  <2>1. TypeOK'
    BY <1>3 DEF StopCheck
  <2>2. HasEntry'
    BY <1>3 DEF StopCheck
  <2>3. ActiveAccurate'
    BY <1>3 DEF StopCheck, Busy, ActiveAccurate
  <2> QED
    BY <2>1, <2>2, <2>3 DEF TypeInv
<1>4. CASE StopRootTerm
  <2>1. TypeOK'
    BY <1>4 DEF StopRootTerm
  <2>2. HasEntry'
    BY <1>4 DEF StopRootTerm
  <2>3. ActiveAccurate'
    BY <1>4 DEF StopRootTerm, Busy, ActiveAccurate
  <2> QED
    BY <2>1, <2>2, <2>3 DEF TypeInv
<1>5. CASE StopFlag
  <2>1. TypeOK'
    BY <1>5 DEF StopFlag
  <2>2. HasEntry'
    BY <1>5 DEF StopFlag
  <2>3. ActiveAccurate'
    BY <1>5 DEF StopFlag, Busy, ActiveAccurate
  <2> QED
    BY <2>1, <2>2, <2>3 DEF TypeInv
<1>6. CASE StopRoot
  <2>1. TypeOK'
    BY <1>6 DEF StopRoot, FiberState
  <2>2. HasEntry'
    BY <1>6 DEF StopRoot, FiberState
  <2>3. ActiveAccurate'
    BY <1>6 DEF StopRoot, FiberState, Busy, ActiveAccurate
  <2> QED
    BY <2>1, <2>2, <2>3 DEF TypeInv
<1>7. CASE Join
  <2>1. TypeOK'
    BY <1>7 DEF Join, AllExited
  <2>2. HasEntry'
    BY <1>7 DEF Join, AllExited
  <2>3. ActiveAccurate'
    <3>1. Busy' = Busy
      BY <1>7 DEF Join, AllExited, Busy, Threads
    <3> QED
      BY <1>7, <3>1 DEF Join, ActiveAccurate
  <2> QED
    BY <2>1, <2>2, <2>3 DEF TypeInv
<1>8. CASE Destroy
  <2>1. TypeOK'
    BY <1>8 DEF Destroy
  <2>2. HasEntry'
    BY <1>8 DEF Destroy
  <2>3. ActiveAccurate'
    BY <1>8 DEF Destroy, Busy, ActiveAccurate
  <2> QED
    BY <2>1, <2>2, <2>3 DEF TypeInv
<1> QED
  BY <1>1, <1>2, <1>3, <1>4, <1>5, <1>6, <1>7, <1>8 DEF StopStep

LEMMA StutterTypeInv ==
  ASSUME TypeInv, UNCHANGED vars PROVE TypeInv'
  BY DEF TypeInv, TypeOK, HasEntry, ActiveAccurate, Busy, vars,
         queueVars, flagVars, localVars, fiberVars, boundVars

LEMMA NextTypeInv ==
  ASSUME TypeInv, [Next]_vars PROVE TypeInv'
  BY ThreadTypeInv, MainTypeInv, StutterTypeInv DEF Next

(* The strengthened type invariant holds in every reachable state.         *)
THEOREM TypeInvCorrect == Spec => []TypeInv
<1>1. TypeInv /\ [Next]_vars => TypeInv'
  BY NextTypeInv
<1> QED
  BY InitTypeInv, <1>1, PTL DEF Spec

(* Every variable keeps its type; in particular the unsigned               *)
(* m_activeThreadCount never goes below zero.                              *)
THEOREM TypeCorrect == Spec => []TypeOK
<1>1. TypeInv => TypeOK
  BY DEF TypeInv
<1> QED
  BY TypeInvCorrect, <1>1, PTL

(* m_activeThreadCount counts the threads that are running a fiber,        *)
(* whatever fibers are scheduled and when.                                 *)
THEOREM ActiveAccurateCorrect == Spec => []ActiveAccurate
<1>1. TypeInv => ActiveAccurate
  BY DEF TypeInv
<1> QED
  BY TypeInvCorrect, <1>1, PTL

-----------------------------------------------------------------------------
(* Every worker is joined before stop() returns.                           *)

(* No worker thread exists: none was started, or all were joined.          *)
Unborn == \A w \in Workers : pc[w] = "unborn"

(* While stop() is called once, the workers are gone when it returns: it   *)
(* returns through the join of all of them, or at once because m_stopping  *)
(* was never cleared by start().                                           *)
Joined ==
  /\ pc[Main] \notin {"user", "aborted"} => stops >= 1
  /\ pc[Main] \in {"user", "stopCheck"} /\ m_stopping => Unborn
  /\ pc[Main] \in {"returned"} \cup Destroyed => Unborn
  /\ m_state[RootFiber] \in Finished =>
       pc[Main] \in {"join", "returned", "aborted"} \cup Destroyed

(* No worker exists when the scheduler is constructed.                     *)
LEMMA InitJoined == Init => Joined
  BY ConstantsAssumption DEF Init, Joined, Unborn, Threads, Finished, Destroyed

(* No step of a thread, of the application or of stop() breaks it.         *)
LEMMA NextJoined ==
  ASSUME MaxStops = 1, TypeInv, Joined, [Next]_vars PROVE Joined'
<1> USE ConstantsAssumption
        DEF At, Over, Destroyed, Goto, Threads, TypeInv, TypeOK, HasEntry, Carrying,
            Joined, Unborn, Finished, flagVars, boundVars, fiberVars
<1>1. ASSUME NEW t \in Threads, RunStep(t) \/ Yield(t) \/ Schedule(t)
      PROVE  Joined'
  <2>1. CASE Lock(t)
    BY <1>1, <2>1 DEF Lock, Entry
  <2>2. CASE ScanSkip(t)
    BY <1>1, <2>2 DEF ScanSkip, Scanning, Skippable, PinSkips, StateAtIt, Entry
  <2>3. CASE ScanMarkReady(t)
    BY <1>1, <2>3 DEF ScanMarkReady, Scanning, StateAtIt, Entry
  <2>4. CASE ScanErase(t)
    BY <1>1, <2>4 DEF ScanErase, Scanning, StateAtIt, Finished, Entry
  <2>5. CASE ScanTake(t)
    BY <1>1, <2>5 DEF ScanTake, Scanning, Entry
  <2>6. CASE CountActive(t)
    BY <1>1, <2>6 DEF CountActive, Entry
  <2>7. CASE ScanNothing(t)
    BY <1>1, <2>7 DEF ScanNothing, Entry
  <2>8. CASE SetReady(t)
    BY <1>1, <2>8 DEF SetReady, Entry
  <2>9. CASE SwapIn(t)
    BY <1>1, <2>9 DEF SwapIn, Abort, Entry
  <2>10. CASE MainFuncEnds(t)
    BY <1>1, <2>10 DEF MainFuncEnds, Leave, Entry
  <2>11. CASE SwapOut(t)
    BY <1>1, <2>11 DEF SwapOut, Entry
  <2>12. CASE CountInactive(t)
    BY <1>1, <2>12 DEF CountInactive, Entry
  <2>13. CASE CheckState(t)
    BY <1>1, <2>13 DEF CheckState, Entry
  <2>14. CASE Reschedule(t)
    BY <1>1, <2>14 DEF Reschedule, Entry
  <2>15. CASE SetHold(t)
    BY <1>1, <2>15 DEF SetHold, Entry
  <2>16. CASE Idle(t)
    BY <1>1, <2>16 DEF Idle, Entry
  <2>17. CASE ReturnFromRun(t)
    BY <1>1, <2>17 DEF ReturnFromRun, Entry
  <2>18. CASE Yield(t)
    BY <1>1, <2>18 DEF Yield, Leave, Abort, Entry
  <2>19. CASE Schedule(t)
    BY <1>1, <2>19 DEF Schedule, schedule, Entry
  <2> QED
    BY <1>1, <2>1, <2>2, <2>3, <2>4, <2>5, <2>6, <2>7, <2>8, <2>9, <2>10, <2>11, <2>12,
       <2>13, <2>14, <2>15, <2>16, <2>17, <2>18, <2>19 DEF RunStep
<1>2. CASE Start
  BY <1>2 DEF Start, Entry
<1>3. CASE StopEnter
  BY <1>3 DEF StopEnter, Entry
<1>4. CASE StopCheck
  BY <1>4 DEF StopCheck, IsStoped, Entry
<1>5. CASE StopRootTerm
  BY <1>5 DEF StopRootTerm, Entry
<1>6. CASE StopFlag
  BY <1>6 DEF StopFlag, Entry
<1>7. CASE StopRoot
  BY <1>7 DEF StopRoot, IsStoped, Entry
<1>8. CASE Join
  <2>1. \A w \in Workers : pc'[w] = "unborn"
    BY <1>8 DEF Join, AllExited
  <2>2. pc'[Main] = "returned" /\ UNCHANGED <<stops, m_state>>
    BY <1>8 DEF Join
  <2> QED
    BY <1>8, <2>1, <2>2 DEF Join
<1>9. CASE Destroy
  BY <1>9 DEF Destroy, Entry
<1>10. CASE UNCHANGED vars
  BY <1>10 DEF vars, Entry
<1> QED
  BY <1>1, <1>2, <1>3, <1>4, <1>5, <1>6, <1>7, <1>8, <1>9, <1>10 DEF Next, StopStep

(* When the scheduler is destroyed after its only stop(), no thread is in  *)
(* run() any more.                                                         *)
THEOREM NoThreadLeftCorrect ==
  ASSUME MaxStops = 1 PROVE Spec => []NoThreadLeft
<1>1. TypeInv /\ Joined /\ [Next]_vars => Joined'
  BY NextJoined
<1>2. Joined => NoThreadLeft
  BY DEF Joined, Unborn, NoThreadLeft, Destroyed
<1> QED
  BY <1>1, <1>2, InitJoined, TypeInvCorrect, PTL DEF Spec

-----------------------------------------------------------------------------
(* Every task is in one place, provided that a fiber is scheduled only when*)
(* no thread carries it.                                                   *)

(* No task is in the list twice.                                           *)
QueueDistinct ==
  \A i, j \in 1 .. Len(m_fibers) : m_fibers[i].fiber = m_fibers[j].fiber => i = j

(* A task a thread carries is not in the list.                             *)
CarriedNotQueued ==
  \A t \in Threads : pc[t] \in Carrying =>
    \A i \in 1 .. Len(m_fibers) : m_fibers[i].fiber # ft[t].fiber

(* No task is carried by two threads.                                      *)
OneCarrier ==
  \A t, u \in Threads :
    pc[t] \in Carrying /\ pc[u] \in Carrying /\ ft[t].fiber = ft[u].fiber => t = u

(* Only submitted tasks are in the list or with a thread, so that a fresh  *)
(* callback is in neither place.                                           *)
Known ==
  /\ \A i \in 1 .. Len(m_fibers) : m_fibers[i].fiber \in submitted
  /\ \A t \in Threads : pc[t] \in Carrying => ft[t].fiber \in submitted

(* The three facts, and the one they need.                                 *)
PlaceInv == QueueDistinct /\ CarriedNotQueued /\ OneCarrier /\ Known

(* No task enters or changes its place.                                    *)
LEMMA SamePlaces ==
  ASSUME PlaceInv, UNCHANGED <<m_fibers, submitted>>,
         \A u \in Threads : pc'[u] \in Carrying => pc[u] \in Carrying /\ ft'[u] = ft[u]
  PROVE  PlaceInv'
  BY DEF PlaceInv, QueueDistinct, CarriedNotQueued, OneCarrier, Known

LEMMA PushPlaces ==
  ASSUME TypeOK, PlaceInv, NEW e \in Entry, m_fibers' = Push(e),
         submitted' = submitted \cup {e.fiber},
         \A i \in 1 .. Len(m_fibers) : m_fibers[i].fiber # e.fiber,
         \A u \in Threads : pc'[u] \in Carrying =>
           pc[u] \in Carrying /\ ft'[u] = ft[u] /\ ft[u].fiber # e.fiber
  PROVE  PlaceInv'
<1>1. /\ Len(m_fibers') = Len(m_fibers) + 1
      /\ \A i \in 1 .. Len(m_fibers) : m_fibers'[i] = m_fibers[i]
      /\ m_fibers'[Len(m_fibers) + 1] = e
  BY AppendProperties DEF TypeOK, Push
<1>2. ASSUME NEW i \in 1 .. Len(m_fibers')
      PROVE  \/ i \in 1 .. Len(m_fibers) /\ m_fibers'[i] = m_fibers[i]
             \/ i = Len(m_fibers) + 1 /\ m_fibers'[i] = e
  BY <1>1 DEF TypeOK
<1>3. QueueDistinct'
  BY <1>2 DEF QueueDistinct, PlaceInv
<1>4. CarriedNotQueued'
  BY <1>2 DEF CarriedNotQueued, PlaceInv
<1>5. OneCarrier'
  BY DEF OneCarrier, PlaceInv
<1>6. Known'
  BY <1>2 DEF Known, PlaceInv
<1> QED
  BY <1>3, <1>4, <1>5, <1>6 DEF PlaceInv

(* The list loses the element at it; its fiber may go to a thread.         *)
LEMMA ErasePlaces ==
  ASSUME TypeOK, PlaceInv, NEW t \in Threads, Scanning(t), m_fibers' = Erase(it),
         UNCHANGED submitted,
         \A u \in Threads : pc'[u] \in Carrying =>
           \/ pc[u] \in Carrying /\ ft'[u] = ft[u]
           \/ u = t /\ ft'[u] = m_fibers[it]
  PROVE  PlaceInv'
<1>1. it \in 1 .. Len(m_fibers) /\ m_fibers \in Seq(Entry)
  BY DEF Scanning, TypeOK
<1>2. /\ Len(m_fibers') = Len(m_fibers) - 1
      /\ \A j \in 1 .. Len(m_fibers) - 1 :
           m_fibers'[j] = IF j < it THEN m_fibers[j] ELSE m_fibers[j + 1]
  BY <1>1, RemoveAtProperties DEF Erase
<1>3. ASSUME NEW j \in 1 .. Len(m_fibers')
      PROVE  \E k \in 1 .. Len(m_fibers) :
               k # it /\ m_fibers'[j] = m_fibers[k] /\ k = IF j < it THEN j ELSE j + 1
  BY <1>1, <1>2
<1>4. QueueDistinct'
  <2> SUFFICES ASSUME NEW i \in 1 .. Len(m_fibers'), NEW j \in 1 .. Len(m_fibers'),
                      m_fibers'[i].fiber = m_fibers'[j].fiber
               PROVE  i = j
    BY DEF QueueDistinct
  <2>1. PICK k \in 1 .. Len(m_fibers) :
          m_fibers'[i] = m_fibers[k] /\ k = IF i < it THEN i ELSE i + 1
    BY <1>3
  <2>2. PICK l \in 1 .. Len(m_fibers) :
          m_fibers'[j] = m_fibers[l] /\ l = IF j < it THEN j ELSE j + 1
    BY <1>3
  <2>3. k = l
    BY <2>1, <2>2 DEF PlaceInv, QueueDistinct
  <2> QED
    BY <1>1, <1>2, <2>1, <2>2, <2>3
<1>5. CarriedNotQueued'
  <2> SUFFICES ASSUME NEW u \in Threads, pc'[u] \in Carrying,
                      NEW j \in 1 .. Len(m_fibers')
               PROVE  m_fibers'[j].fiber # ft'[u].fiber
    BY Zenon DEF CarriedNotQueued
  <2>1. PICK k \in 1 .. Len(m_fibers) : k # it /\ m_fibers'[j] = m_fibers[k]
    BY <1>3
  <2>2. CASE pc[u] \in Carrying /\ ft'[u] = ft[u]
    BY <2>1, <2>2 DEF CarriedNotQueued, PlaceInv
  <2>3. CASE ft'[u] = m_fibers[it]
    BY <1>1, <2>1, <2>3 DEF QueueDistinct, PlaceInv
  <2> QED
    BY <2>2, <2>3
<1>6. OneCarrier'
  BY <1>1 DEF OneCarrier, CarriedNotQueued, PlaceInv
<1>7. Known'
  BY <1>1, <1>3 DEF Known, PlaceInv
<1> QED
  BY <1>4, <1>5, <1>6, <1>7 DEF PlaceInv

-----------------------------------------------------------------------------
(* What m_state is while a thread carries the fiber; nobody else may       *)
(* change it then.                                                         *)

CarriedState ==
  \A t \in Threads :
    /\ pc[t] \in {"count", "ready", "hold", "resched"} =>
         m_state[ft[t].fiber] \notin Finished
    /\ pc[t] = "swapIn" => m_state[ft[t].fiber] = "READY"
    /\ pc[t] = "exec" => m_state[ft[t].fiber] = "EXEC"

EndedFinished == \A f \in Fibers : f \in ended => m_state[f] \in Finished

SafeInv == TypeInv /\ PlaceInv /\ CarriedState /\ EndedFinished

LEMMA InitSafeInv == Init => SafeInv
<1> SUFFICES ASSUME Init PROVE SafeInv
  OBVIOUS
<1>1. PlaceInv
  BY DEF Init, PlaceInv, QueueDistinct, CarriedNotQueued, OneCarrier, Known, Carrying
<1>2. CarriedState /\ EndedFinished
  BY DEF Init, CarriedState, EndedFinished
<1> QED
  BY InitTypeInv, <1>1, <1>2 DEF SafeInv

(* One step of a thread in run(), or of the fiber it runs.                 *)
LEMMA ThreadSafeInv ==
  ASSUME ~WakeRunning, SafeInv, NEW t \in Threads,
         RunStep(t) \/ Yield(t) \/ Schedule(t)
  PROVE  PlaceInv' /\ CarriedState' /\ EndedFinished'
<1> USE ConstantsAssumption
        DEF At, Over, Destroyed, Goto, queueVars, flagVars, localVars, fiberVars, boundVars,
            SafeInv, TypeInv, TypeOK, HasEntry, Carrying
<1>1. CASE Lock(t)
  <2>1. PlaceInv'
    BY <1>1, SamePlaces DEF Lock
  <2>2. CarriedState'
    BY <1>1 DEF Lock, CarriedState, PlaceInv, OneCarrier, CarriedNotQueued,
       Entry, Finished
  <2>3. EndedFinished'
    BY <1>1 DEF Lock, EndedFinished, CarriedState, Entry, Finished
  <2> QED
    BY <2>1, <2>2, <2>3
<1>2. CASE ScanSkip(t)
  <2>1. PlaceInv'
    BY <1>2, SamePlaces DEF ScanSkip, Scanning
  <2>2. CarriedState'
    BY <1>2 DEF ScanSkip, Scanning, CarriedState, PlaceInv, OneCarrier,
       CarriedNotQueued, Entry, Finished
  <2>3. EndedFinished'
    BY <1>2 DEF ScanSkip, Scanning, EndedFinished, CarriedState, Entry, Finished
  <2> QED
    BY <2>1, <2>2, <2>3
<1>3. CASE ScanMarkReady(t)
  <2>1. PlaceInv'
    BY <1>3, SamePlaces DEF ScanMarkReady, Scanning, StateAtIt
  <2>2. CarriedState'
    BY <1>3 DEF ScanMarkReady, Scanning, StateAtIt, CarriedState, PlaceInv,
       OneCarrier, CarriedNotQueued, Entry, Finished
  <2>3. EndedFinished'
    BY <1>3 DEF ScanMarkReady, Scanning, StateAtIt, EndedFinished, CarriedState,
       Entry, Finished
  <2> QED
    BY <2>1, <2>2, <2>3
<1>4. CASE ScanErase(t)
  <2>1. PlaceInv'
    BY <1>4, ErasePlaces DEF ScanErase
  <2>2. CarriedState'
    BY <1>4 DEF ScanErase, Scanning, CarriedState, PlaceInv, OneCarrier,
       CarriedNotQueued, Entry, Finished
  <2>3. EndedFinished'
    BY <1>4 DEF ScanErase, Scanning, EndedFinished, CarriedState, Entry, Finished
  <2> QED
    BY <2>1, <2>2, <2>3
<1>5. CASE ScanTake(t)
  <2>1. PlaceInv'
    BY <1>5, ErasePlaces DEF ScanTake
  <2>2. CarriedState'
    BY <1>5 DEF ScanTake, Scanning, StateAtIt, CarriedState, PlaceInv,
       OneCarrier, CarriedNotQueued, Entry, Finished
  <2>3. EndedFinished'
    BY <1>5 DEF ScanTake, Scanning, StateAtIt, EndedFinished, CarriedState,
       Entry, Finished
  <2> QED
    BY <2>1, <2>2, <2>3
<1>6. CASE CountActive(t)
  <2>1. PlaceInv'
    BY <1>6, SamePlaces DEF CountActive
  <2>2. CarriedState'
    BY <1>6 DEF CountActive, CarriedState, PlaceInv, OneCarrier,
       CarriedNotQueued, Entry, Finished
  <2>3. EndedFinished'
    BY <1>6 DEF CountActive, EndedFinished, CarriedState, Entry, Finished
  <2> QED
    BY <2>1, <2>2, <2>3
<1>7. CASE ScanNothing(t)
  <2>1. PlaceInv'
    BY <1>7, SamePlaces DEF ScanNothing
  <2>2. CarriedState'
    BY <1>7 DEF ScanNothing, CarriedState, PlaceInv, OneCarrier,
       CarriedNotQueued, Entry, Finished
  <2>3. EndedFinished'
    BY <1>7 DEF ScanNothing, EndedFinished, CarriedState, Entry, Finished
  <2> QED
    BY <2>1, <2>2, <2>3
<1>8. CASE SetReady(t)
  <2>1. PlaceInv'
    BY <1>8, SamePlaces DEF SetReady
  <2>2. CarriedState'
    BY <1>8 DEF SetReady, CarriedState, PlaceInv, OneCarrier, CarriedNotQueued,
       Entry, Finished
  <2>3. EndedFinished'
    BY <1>8 DEF SetReady, EndedFinished, CarriedState, Entry, Finished
  <2> QED
    BY <2>1, <2>2, <2>3
<1>9. CASE SwapIn(t)
  <2>1. PlaceInv'
    BY <1>9, SamePlaces DEF SwapIn, CanSwapIn, Abort
  <2>2. CarriedState'
    BY <1>9 DEF SwapIn, CanSwapIn, Abort, CarriedState, PlaceInv, OneCarrier,
       CarriedNotQueued, Entry, Finished
  <2>3. EndedFinished'
    BY <1>9 DEF SwapIn, CanSwapIn, Abort, EndedFinished, CarriedState, Entry,
       Finished
  <2> QED
    BY <2>1, <2>2, <2>3
<1>10. CASE MainFuncEnds(t)
  <2>1. PlaceInv'
    BY <1>10, SamePlaces DEF MainFuncEnds, Leave
  <2>2. CarriedState'
    BY <1>10 DEF MainFuncEnds, Leave, CarriedState, PlaceInv, OneCarrier,
       CarriedNotQueued, Entry, Finished
  <2>3. EndedFinished'
    BY <1>10 DEF MainFuncEnds, Leave, EndedFinished, CarriedState, Entry, Finished
  <2> QED
    BY <2>1, <2>2, <2>3
<1>11. CASE SwapOut(t)
  <2>1. PlaceInv'
    BY <1>11, SamePlaces DEF SwapOut
  <2>2. CarriedState'
    BY <1>11 DEF SwapOut, CarriedState, PlaceInv, OneCarrier, CarriedNotQueued,
       Entry, Finished
  <2>3. EndedFinished'
    BY <1>11 DEF SwapOut, EndedFinished, CarriedState, Entry, Finished
  <2> QED
    BY <2>1, <2>2, <2>3
<1>12. CASE CountInactive(t)
  <2>1. PlaceInv'
    BY <1>12, SamePlaces DEF CountInactive
  <2>2. CarriedState'
    BY <1>12 DEF CountInactive, CarriedState, PlaceInv, OneCarrier,
       CarriedNotQueued, Entry, Finished
  <2>3. EndedFinished'
    BY <1>12 DEF CountInactive, EndedFinished, CarriedState, Entry, Finished
  <2> QED
    BY <2>1, <2>2, <2>3
<1>13. CASE CheckState(t)
  <2>1. PlaceInv'
    BY <1>13, SamePlaces DEF CheckState, HasEnded
  <2>2. CarriedState'
    BY <1>13 DEF CheckState, HasEnded, CarriedState, PlaceInv, OneCarrier,
       CarriedNotQueued, Entry, Finished
  <2>3. EndedFinished'
    BY <1>13 DEF CheckState, HasEnded, EndedFinished, CarriedState, Entry, Finished
  <2> QED
    BY <2>1, <2>2, <2>3
<1>14. CASE Reschedule(t)
  <2>1. PlaceInv'
    <3>1. ft[t] \in Entry /\ ft[t].fiber \in submitted
      BY <1>14 DEF Reschedule, PlaceInv, Known
    <3>2. \A i \in 1 .. Len(m_fibers) : m_fibers[i].fiber # ft[t].fiber
      BY <1>14 DEF Reschedule, PlaceInv, CarriedNotQueued
    <3>3. \A u \in Threads : pc'[u] \in Carrying =>
            pc[u] \in Carrying /\ ft'[u] = ft[u] /\ ft[u].fiber # ft[t].fiber
      BY <1>14 DEF Reschedule, PlaceInv, OneCarrier
    <3> QED
      BY <1>14, <3>1, <3>2, <3>3, PushPlaces DEF Reschedule
  <2>2. CarriedState'
    BY <1>14 DEF Reschedule, CarriedState, PlaceInv, OneCarrier,
       CarriedNotQueued, Entry, Finished
  <2>3. EndedFinished'
    BY <1>14 DEF Reschedule, EndedFinished, CarriedState, Entry, Finished
  <2> QED
    BY <2>1, <2>2, <2>3
<1>15. CASE SetHold(t)
  <2>1. PlaceInv'
    BY <1>15, SamePlaces DEF SetHold
  <2>2. CarriedState'
    BY <1>15 DEF SetHold, CarriedState, PlaceInv, OneCarrier, CarriedNotQueued,
       Entry, Finished
  <2>3. EndedFinished'
    BY <1>15 DEF SetHold, EndedFinished, CarriedState, Entry, Finished
  <2> QED
    BY <2>1, <2>2, <2>3
<1>16. CASE Idle(t)
  <2>1. PlaceInv'
    BY <1>16, SamePlaces DEF Idle
  <2>2. CarriedState'
    BY <1>16 DEF Idle, CarriedState, PlaceInv, OneCarrier, CarriedNotQueued,
       Entry, Finished
  <2>3. EndedFinished'
    BY <1>16 DEF Idle, EndedFinished, CarriedState, Entry, Finished
  <2> QED
    BY <2>1, <2>2, <2>3
<1>17. CASE ReturnFromRun(t)
  <2>1. PlaceInv'
    BY <1>17, SamePlaces DEF ReturnFromRun
  <2>2. CarriedState'
    BY <1>17 DEF ReturnFromRun, CarriedState, PlaceInv, OneCarrier,
       CarriedNotQueued, Entry, Finished
  <2>3. EndedFinished'
    BY <1>17 DEF ReturnFromRun, EndedFinished, CarriedState, Entry, Finished
  <2> QED
    BY <2>1, <2>2, <2>3
<1>18. CASE Yield(t)
  <2>1. PlaceInv'
    BY <1>18, SamePlaces DEF Yield, Leave, Abort
  <2>2. CarriedState'
    <3>1. ASSUME NEW state \in FiberState, Leave(t, state) PROVE CarriedState'
      BY <1>18, <3>1 DEF Yield, Leave, CarriedState, PlaceInv, OneCarrier
    <3>2. CASE Abort
      BY <3>2 DEF Abort, CarriedState
    <3>3. m_state[ft[t].fiber] \in FiberState /\ {"READY", "HOLD"} \subseteq FiberState
      BY <1>18 DEF Yield, Entry, FiberState
    <3> QED
      BY <1>18, <3>1, <3>2, <3>3 DEF Yield
  <2>3. EndedFinished'
    BY <1>18 DEF Yield, Leave, Abort, EndedFinished, CarriedState, Entry, Finished
  <2> QED
    BY <2>1, <2>2, <2>3
<1>19. CASE Schedule(t)
  <2>1. PlaceInv'
    <3>1. PICK f \in Fibers, thread \in PinTargets \cup {NoThread} : schedule(f, thread)
      BY <1>19 DEF Schedule
    <3>2. /\ \A i \in 1 .. Len(m_fibers) : m_fibers[i].fiber # f
          /\ \A u \in Threads : pc[u] \in Carrying => ft[u].fiber # f
      <4> HIDE DEF At, Over, Destroyed, Goto, flagVars, boundVars
      <4>1. CASE FreshCallback(f)
        BY <4>1 DEF FreshCallback, PlaceInv, Known
      <4>2. CASE WakeableFiber(f)
        BY <4>2 DEF WakeableFiber, Queued, Carries
      <4> QED
        BY <3>1, <4>1, <4>2 DEF schedule
    <3>3. [fiber |-> f, thread |-> thread] \in Entry
      BY DEF Entry
    <3>4. /\ m_fibers' = Push([fiber |-> f, thread |-> thread])
          /\ submitted' = submitted \cup {f} /\ UNCHANGED <<pc, ft>>
      BY <3>1 DEF schedule
    <3>5. PlaceInv /\ TypeOK
      OBVIOUS
    <3> HIDE DEF SafeInv, TypeInv, TypeOK, Carrying
    <3> QED
      BY <3>2, <3>3, <3>4, <3>5, PushPlaces
  <2>2. CarriedState'
    BY <1>19 DEF Schedule, schedule, CarriedState, PlaceInv, OneCarrier,
       CarriedNotQueued, Entry, Finished
  <2>3. EndedFinished'
    BY <1>19 DEF Schedule, schedule, EndedFinished, CarriedState, Entry, Finished
  <2> QED
    BY <2>1, <2>2, <2>3
<1> QED
  BY <1>1, <1>2, <1>3, <1>4, <1>5, <1>6, <1>7, <1>8, <1>9, <1>10, <1>11, <1>12,
     <1>13, <1>14, <1>15, <1>16, <1>17, <1>18, <1>19 DEF RunStep

(* One step of the thread that starts, stops and destroys the scheduler.   *)
LEMMA MainSafeInv ==
  ASSUME SafeInv, Start \/ StopEnter \/ StopStep
  PROVE  PlaceInv' /\ CarriedState' /\ EndedFinished'
<1> USE ConstantsAssumption
        DEF At, Over, Destroyed, Goto, queueVars, flagVars, localVars, fiberVars, boundVars,
            SafeInv, TypeInv, TypeOK, HasEntry, Carrying
<1>1. CASE Start
  <2>1. PlaceInv'
    BY <1>1, SamePlaces DEF Start
  <2>2. CarriedState'
    BY <1>1 DEF Start, CarriedState, PlaceInv, OneCarrier, CarriedNotQueued,
       Entry, Finished
  <2>3. EndedFinished'
    BY <1>1 DEF Start, EndedFinished, CarriedState, Entry, Finished
  <2> QED
    BY <2>1, <2>2, <2>3
<1>2. CASE StopEnter
  <2>1. PlaceInv'
    BY <1>2, SamePlaces DEF StopEnter
  <2>2. CarriedState'
    BY <1>2 DEF StopEnter, CarriedState, PlaceInv, OneCarrier, CarriedNotQueued,
       Entry, Finished
  <2>3. EndedFinished'
    BY <1>2 DEF StopEnter, EndedFinished, CarriedState, Entry, Finished
  <2> QED
    BY <2>1, <2>2, <2>3
<1>3. CASE StopCheck
  <2>1. PlaceInv'
    BY <1>3, SamePlaces DEF StopCheck
  <2>2. CarriedState'
    BY <1>3 DEF StopCheck, CarriedState, PlaceInv, OneCarrier, CarriedNotQueued,
       Entry, Finished
  <2>3. EndedFinished'
    BY <1>3 DEF StopCheck, EndedFinished, CarriedState, Entry, Finished
  <2> QED
    BY <2>1, <2>2, <2>3
<1>4. CASE StopRootTerm
  <2>1. PlaceInv'
    BY <1>4, SamePlaces DEF StopRootTerm
  <2>2. CarriedState'
    BY <1>4 DEF StopRootTerm, CarriedState, PlaceInv, OneCarrier,
       CarriedNotQueued, Entry, Finished
  <2>3. EndedFinished'
    BY <1>4 DEF StopRootTerm, EndedFinished, CarriedState, Entry, Finished
  <2> QED
    BY <2>1, <2>2, <2>3
<1>5. CASE StopFlag
  <2>1. PlaceInv'
    BY <1>5, SamePlaces DEF StopFlag
  <2>2. CarriedState'
    BY <1>5 DEF StopFlag, CarriedState, PlaceInv, OneCarrier, CarriedNotQueued,
       Entry, Finished
  <2>3. EndedFinished'
    BY <1>5 DEF StopFlag, EndedFinished, CarriedState, Entry, Finished
  <2> QED
    BY <2>1, <2>2, <2>3
<1>6. CASE StopRoot
  <2>1. PlaceInv'
    BY <1>6, SamePlaces DEF StopRoot
  <2>2. CarriedState'
    BY <1>6 DEF StopRoot, CarriedState, PlaceInv, OneCarrier, CarriedNotQueued,
       Entry, Finished
  <2>3. EndedFinished'
    BY <1>6 DEF StopRoot, EndedFinished, CarriedState, Entry, Finished
  <2> QED
    BY <2>1, <2>2, <2>3
<1>7. CASE Join
  <2>1. PlaceInv'
    BY <1>7, SamePlaces DEF Join
  <2>2. CarriedState'
    BY <1>7 DEF Join, CarriedState, PlaceInv, OneCarrier, CarriedNotQueued,
       Entry, Finished
  <2>3. EndedFinished'
    BY <1>7 DEF Join, EndedFinished, CarriedState, Entry, Finished
  <2> QED
    BY <2>1, <2>2, <2>3
<1>8. CASE Destroy
  <2>1. PlaceInv'
    BY <1>8, SamePlaces DEF Destroy
  <2>2. CarriedState'
    BY <1>8 DEF Destroy, CarriedState, PlaceInv, OneCarrier, CarriedNotQueued,
       Entry, Finished
  <2>3. EndedFinished'
    BY <1>8 DEF Destroy, EndedFinished, CarriedState, Entry, Finished
  <2> QED
    BY <2>1, <2>2, <2>3
<1> QED
  BY <1>1, <1>2, <1>3, <1>4, <1>5, <1>6, <1>7, <1>8 DEF StopStep

LEMMA StutterSafeInv ==
  ASSUME SafeInv, UNCHANGED vars
  PROVE  PlaceInv' /\ CarriedState' /\ EndedFinished'
<1> USE DEF SafeInv, vars, queueVars, flagVars, localVars, fiberVars
<1>1. PlaceInv'
  BY SamePlaces
<1>2. CarriedState' /\ EndedFinished'
  BY DEF CarriedState, EndedFinished
<1> QED
  BY <1>1, <1>2

LEMMA NextSafeInv ==
  ASSUME ~WakeRunning, SafeInv, [Next]_vars PROVE SafeInv'
<1>1. TypeInv'
  BY NextTypeInv DEF SafeInv
<1>2. PlaceInv' /\ CarriedState' /\ EndedFinished'
  BY ThreadSafeInv, MainSafeInv, StutterSafeInv DEF Next
<1> QED
  BY <1>1, <1>2 DEF SafeInv

(* The invariant about places and states holds in every reachable state, if*)
(* a fiber is scheduled only while no thread carries it.                   *)
THEOREM SafeInvCorrect == ASSUME ~WakeRunning PROVE Spec => []SafeInv
<1>1. SafeInv /\ [Next]_vars => SafeInv'
  BY NextSafeInv
<1> QED
  BY InitSafeInv, <1>1, PTL DEF Spec

(* A task is in m_fibers once or with one thread in run(), never both.     *)
THEOREM UniquePlaceCorrect == ASSUME ~WakeRunning PROVE Spec => []UniquePlace
<1>1. SafeInv => UniquePlace
  <2> SUFFICES ASSUME SafeInv PROVE UniquePlace
    OBVIOUS
  <2>1. DOMAIN m_fibers = 1 .. Len(m_fibers)
    BY DEF SafeInv, TypeInv, TypeOK
  <2> QED
    BY <2>1 DEF SafeInv, PlaceInv, QueueDistinct, CarriedNotQueued, OneCarrier,
                UniquePlace, Queued, Carries
<1> QED
  BY SafeInvCorrect, <1>1, PTL

(* No two threads are on the stack of one fiber.                           *)
THEOREM SingleRunnerCorrect == ASSUME ~WakeRunning PROVE Spec => []SingleRunner
<1>1. SafeInv => SingleRunner
  BY DEF SafeInv, PlaceInv, OneCarrier, SingleRunner, Corrupted, Runners, Carrying
<1> QED
  BY SafeInvCorrect, <1>1, PTL

-----------------------------------------------------------------------------
(* A fiber that ended is never given another state.                        *)

KeepsFinished ==
  \A f \in Fibers : m_state[f] \in Finished => m_state'[f] = m_state[f]

LEMMA NextKeepsFinished ==
  ASSUME SafeInv, [Next]_vars PROVE KeepsFinished
<1> USE ConstantsAssumption
        DEF At, fiberVars, SafeInv, TypeInv, TypeOK, HasEntry, Carrying,
            KeepsFinished, CarriedState, Entry, Finished
<1>1. ASSUME UNCHANGED m_state PROVE KeepsFinished
  BY <1>1
<1>2. ASSUME NEW t \in Threads, RunStep(t) \/ Yield(t) \/ Schedule(t)
      PROVE  KeepsFinished
  <2>1. CASE ScanMarkReady(t)
    BY <2>1 DEF ScanMarkReady, Scanning, StateAtIt
  <2>2. CASE SetReady(t)
    BY <2>2 DEF SetReady
  <2>3. CASE SwapIn(t)
    BY <2>3 DEF SwapIn, Abort
  <2>4. CASE Yield(t)
    BY <2>4 DEF Yield, Leave, Abort
  <2>5. CASE MainFuncEnds(t)
    BY <2>5 DEF MainFuncEnds, Leave
  <2>6. CASE SetHold(t)
    BY <2>6 DEF SetHold
  <2>7. CASE ReturnFromRun(t)
    BY <2>7 DEF ReturnFromRun
  <2>8. CASE UNCHANGED m_state
    BY <2>8
  <2> QED
    BY <1>2, <2>1, <2>2, <2>3, <2>4, <2>5, <2>6, <2>7, <2>8
    DEF RunStep, Lock, ScanSkip, ScanErase, ScanTake, CountActive, ScanNothing,
        SwapOut, CountInactive, CheckState, Reschedule, Idle, Schedule, schedule
<1>3. CASE StopRoot
  BY <1>3 DEF StopRoot
<1> QED
  BY <1>1, <1>2, <1>3
  DEF Next, StopStep, Start, StopEnter, StopCheck, StopRootTerm, StopFlag, Join,
      Destroy, vars

(* run() may forget a fiber it sees in TERM or EXCEPT: no thread gives     *)
(* it another state.                                                       *)
THEOREM FinishedStaysFinishedCorrect ==
  ASSUME ~WakeRunning PROVE Spec => FinishedStaysFinished
<1>1. SafeInv /\ [Next]_vars =>
        [\A f \in Fibers : m_state[f] \in Finished => m_state'[f] = m_state[f]]_vars
  BY NextKeepsFinished DEF KeepsFinished
<1> QED
  BY SafeInvCorrect, <1>1, PTL DEF Spec, FinishedStaysFinished

-----------------------------------------------------------------------------
(* No assertion fails while stop() is called once.                         *)

(* The root fiber runs in the only call of stop(), and stop() is past the  *)
(* place where it calls it, and marks it, once the root fiber has ended.   *)
RootOnce ==
  /\ pc[Main] \notin {"user", "returned"} \cup Destroyed => stops >= 1
  /\ RootFiber \in ended =>
       /\ pc[Main] \in {"join", "returned", "destroyed"} /\ stops >= 1
       /\ m_state[RootFiber] \in Finished
  /\ AssertionsHold

LEMMA InitRootOnce == Init => RootOnce
  BY DEF Init, RootOnce, AssertionsHold, Threads, Destroyed

LEMMA NextRootOnce ==
  ASSUME MaxStops = 1, SafeInv, RootOnce, [Next]_vars PROVE RootOnce'
<1> USE ConstantsAssumption
        DEF At, Over, Destroyed, Goto, Threads, SafeInv, TypeInv, TypeOK, HasEntry, Carrying,
            RootOnce, AssertionsHold, Finished, Entry, flagVars, boundVars, fiberVars
<1>1. ASSUME NEW t \in Threads, RunStep(t) \/ Yield(t) \/ Schedule(t)
      PROVE  RootOnce'
  <2>1. CASE Lock(t)
    BY <1>1, <2>1 DEF Lock
  <2>2. CASE ScanSkip(t)
    BY <1>1, <2>2 DEF ScanSkip, Scanning
  <2>3. CASE ScanMarkReady(t)
    BY <1>1, <2>3 DEF ScanMarkReady, Scanning, StateAtIt
  <2>4. CASE ScanErase(t)
    BY <1>1, <2>4 DEF ScanErase, Scanning
  <2>5. CASE ScanTake(t)
    BY <1>1, <2>5 DEF ScanTake, Scanning
  <2>6. CASE CountActive(t)
    BY <1>1, <2>6 DEF CountActive
  <2>7. CASE ScanNothing(t)
    BY <1>1, <2>7 DEF ScanNothing
  <2>8. CASE SetReady(t)
    BY <1>1, <2>8 DEF SetReady
  <2>9. CASE SwapIn(t)
    BY <1>1, <2>9 DEF SwapIn, CanSwapIn, Abort, CarriedState, EndedFinished, Entry, Finished
  <2>10. CASE MainFuncEnds(t)
    BY <1>1, <2>10 DEF MainFuncEnds, Leave, Entry
  <2>11. CASE SwapOut(t)
    BY <1>1, <2>11 DEF SwapOut
  <2>12. CASE CountInactive(t)
    BY <1>1, <2>12 DEF CountInactive
  <2>13. CASE CheckState(t)
    BY <1>1, <2>13 DEF CheckState
  <2>14. CASE Reschedule(t)
    BY <1>1, <2>14 DEF Reschedule
  <2>15. CASE SetHold(t)
    BY <1>1, <2>15 DEF SetHold
  <2>16. CASE Idle(t)
    BY <1>1, <2>16 DEF Idle
  <2>17. CASE ReturnFromRun(t)
    BY <1>1, <2>17 DEF ReturnFromRun
  <2>18. CASE Yield(t)
    BY <1>1, <2>18 DEF Yield, Leave, Abort, CarriedState
  <2>19. CASE Schedule(t)
    BY <1>1, <2>19 DEF Schedule, schedule
  <2> QED
    BY <1>1, <2>1, <2>2, <2>3, <2>4, <2>5, <2>6, <2>7, <2>8, <2>9, <2>10,
       <2>11, <2>12, <2>13, <2>14, <2>15, <2>16, <2>17, <2>18, <2>19
    DEF RunStep
<1>2. CASE Start
  BY <1>2 DEF Start
<1>3. CASE StopEnter
  BY <1>3 DEF StopEnter
<1>4. CASE StopCheck
  BY <1>4 DEF StopCheck
<1>5. CASE StopRootTerm
  BY <1>5 DEF StopRootTerm
<1>6. CASE StopFlag
  BY <1>6 DEF StopFlag
<1>7. CASE StopRoot
  BY <1>7 DEF StopRoot
<1>8. CASE Join
  BY <1>8 DEF Join
<1>9. CASE Destroy
  BY <1>9 DEF Destroy
<1>10. CASE UNCHANGED vars
  BY <1>10 DEF vars
<1> QED
  BY <1>1, <1>2, <1>3, <1>4, <1>5, <1>6, <1>7, <1>8, <1>9, <1>10
  DEF Next, StopStep

(* With one call of stop(), none of the assertions of swapIn(),            *)
(* YieldToReady(), YieldToHold(), MainFunc() and CallerMainFunc() fails,   *)
(* and that of ~Fiber fails for the root fiber only if stop() marked it    *)
(* and did not call it.                                                    *)
THEOREM AssertionsHoldCorrect ==
  ASSUME ~WakeRunning, MaxStops = 1 PROVE Spec => []AssertionsHold
<1>1. RootOnce /\ SafeInv /\ [Next]_vars => RootOnce'
  BY NextRootOnce
<1>2. RootOnce => AssertionsHold
  BY DEF RootOnce
<1> QED
  BY SafeInvCorrect, InitRootOnce, <1>1, <1>2, PTL DEF Spec

-----------------------------------------------------------------------------
(* The refinement of TaskPool.                                             *)

(* A thread in run() carries the fiber.                                    *)
Held(f) == \E t \in Threads : pc[t] \in Carrying /\ ft[t].fiber = f

(* The fiber has an entry in m_fibers.                                     *)
Listed(f) == \E i \in 1 .. Len(m_fibers) : m_fibers[i].fiber = f

(* PlaceOf, by which the scheduler is mapped to TaskPool, says where a     *)
(* fiber is.                                                               *)
PlacesFaithful ==
  \A f \in Fibers :
    /\ ~(Listed(f) /\ Held(f))
    /\ Listed(f) => PlaceOf(f) = "queued"
    /\ Held(f) => PlaceOf(f) = "running"
    /\ ~Listed(f) /\ ~Held(f) => PlaceOf(f) = "out"

(* Because a task is in one place only, PlaceOf is never ambiguous.        *)
LEMMA PlaceValue == SafeInv => PlacesFaithful
<1> SUFFICES ASSUME SafeInv, NEW f \in Fibers
             PROVE  /\ ~(Listed(f) /\ Held(f))
                    /\ Listed(f) => PlaceOf(f) = "queued"
                    /\ Held(f) => PlaceOf(f) = "running"
                    /\ ~Listed(f) /\ ~Held(f) => PlaceOf(f) = "out"
  BY DEF PlacesFaithful
<1>1. DOMAIN m_fibers = 1 .. Len(m_fibers)
  BY DEF SafeInv, TypeInv, TypeOK
<1>2. Queued(f) <=> Listed(f)
  BY <1>1 DEF Queued, Listed
<1>3. (\E t \in Threads : Carries(t, f)) <=> Held(f)
  BY DEF Carries, Held
<1>4. ~(Listed(f) /\ Held(f))
  BY DEF SafeInv, PlaceInv, CarriedNotQueued, Listed, Held
<1> QED
  BY <1>2, <1>3, <1>4 DEF PlaceOf

(* The step hands no fiber to a thread and takes none away.                *)
SameCarriers ==
  \A u \in Threads :
    /\ pc'[u] \in Carrying <=> pc[u] \in Carrying
    /\ pc[u] \in Carrying => ft'[u] = ft[u]

(* The step ends no fiber and revives none.                                *)
SameDone == \A f \in Fibers : m_state'[f] \in Finished <=> m_state[f] \in Finished

(* A step that changes neither the list nor what the threads carry moves   *)
(* no task.                                                                *)
LEMMA SamePlaceOf ==
  ASSUME SafeInv, SafeInv', UNCHANGED m_fibers, SameCarriers, NEW f \in Fibers
  PROVE  PlaceOf(f)' = PlaceOf(f)
<1>1. PlacesFaithful /\ PlacesFaithful'
  BY PlaceValue, PTL
<1> QED
  BY <1>1 DEF SameCarriers, PlacesFaithful, Listed, Held

(* Such a step is invisible in TaskPool, unless it ends a fiber.           *)
LEMMA PoolStutter ==
  ASSUME SafeInv, SafeInv', UNCHANGED m_fibers, SameCarriers, SameDone
  PROVE  UNCHANGED Pool!vars
  BY SamePlaceOf DEF Pool!vars, SameDone

(* A step that changes the place of one fiber is a move of TaskPool.       *)
LEMMA PoolMove ==
  ASSUME SafeInv, SafeInv', NEW f \in Fibers, NEW from, NEW to, SameDone,
         PlaceOf(f) = from, PlaceOf(f)' = to,
         \A g \in Fibers \ {f} : (Listed(g)' <=> Listed(g)) /\ (Held(g)' <=> Held(g))
  PROVE  /\ Pool!Move(f, from, to)
         /\ UNCHANGED {g \in Fibers : m_state[g] \in Finished}
<1>1. PlacesFaithful /\ PlacesFaithful'
  BY PlaceValue, PTL
<1>2. ASSUME NEW g \in Fibers \ {f} PROVE PlaceOf(g)' = PlaceOf(g)
  BY <1>1 DEF PlacesFaithful
<1> QED
  BY <1>2 DEF Pool!Move, SameDone

(* erase() takes its element out of the list and leaves all others in it.  *)
LEMMA ErasedListed ==
  ASSUME SafeInv, it \in 1 .. Len(m_fibers), m_fibers' = Erase(it), NEW g \in Fibers
  PROVE  Listed(g)' <=> Listed(g) /\ g # m_fibers[it].fiber
<1>1. /\ Len(m_fibers') = Len(m_fibers) - 1
      /\ \A j \in 1 .. Len(m_fibers) - 1 :
           m_fibers'[j] = IF j < it THEN m_fibers[j] ELSE m_fibers[j + 1]
  BY RemoveAtProperties DEF Erase, SafeInv, TypeInv, TypeOK
<1>2. Len(m_fibers) \in Nat /\ it \in Nat
  BY DEF SafeInv, TypeInv, TypeOK
<1>3. QueueDistinct
  BY DEF SafeInv, PlaceInv
<1>4. ASSUME NEW j \in 1 .. Len(m_fibers'), m_fibers'[j].fiber = g
      PROVE  Listed(g) /\ g # m_fibers[it].fiber
  <2>1. PICK k \in 1 .. Len(m_fibers) : k # it /\ m_fibers'[j] = m_fibers[k]
    BY <1>1, <1>2
  <2> QED
    BY <1>3, <1>4, <2>1 DEF Listed, QueueDistinct
<1>5. ASSUME NEW k \in 1 .. Len(m_fibers), m_fibers[k].fiber = g, k # it
      PROVE  \E j \in 1 .. Len(m_fibers') : m_fibers'[j] = m_fibers[k]
  <2>1. CASE k < it
    BY <1>1, <1>2, <1>5, <2>1
  <2>2. CASE k > it
    <3>1. k - 1 \in 1 .. Len(m_fibers') /\ ~(k - 1 < it) /\ (k - 1) + 1 = k
      BY <1>1, <1>2, <1>5, <2>2
    <3> QED
      BY <1>1, <3>1
  <2> QED
    BY <1>2, <1>5, <2>1, <2>2
<1> QED
  BY <1>4, <1>5 DEF Listed

(* push_back() adds its entry and nothing else.                            *)
LEMMA PushedListed ==
  ASSUME SafeInv, NEW e \in Entry, m_fibers' = Push(e), NEW g \in Fibers
  PROVE  Listed(g)' <=> Listed(g) \/ g = e.fiber
<1>1. /\ Len(m_fibers') = Len(m_fibers) + 1
      /\ \A i \in 1 .. Len(m_fibers) : m_fibers'[i] = m_fibers[i]
      /\ m_fibers'[Len(m_fibers) + 1] = e
      /\ Len(m_fibers) \in Nat
  BY AppendProperties DEF Push, SafeInv, TypeInv, TypeOK
<1> QED
  BY <1>1 DEF Listed

(* Every step of a thread in run(), of the fiber it runs or of schedule()  *)
(* is a step of TaskPool: schedule() submits, taking an entry runs it, the *)
(* end of MainFunc finishes it, and what CheckState finds decides between  *)
(* requeueing and releasing it.                                            *)
LEMMA PoolThread ==
  ASSUME ~WakeRunning, SafeInv, SafeInv', NEW t \in Threads,
         RunStep(t) \/ Yield(t) \/ Schedule(t)
  PROVE  [Pool!Next]_(Pool!vars)
<1> USE ConstantsAssumption
        DEF At, Goto, queueVars, flagVars, localVars, fiberVars, boundVars,
            SafeInv, TypeInv, TypeOK, HasEntry, Carrying
<1>0. PlacesFaithful /\ PlacesFaithful'
  BY PlaceValue, PTL
<1>1. CASE Lock(t)
  <2>1. SameCarriers /\ UNCHANGED m_fibers
    BY <1>1 DEF Lock, SameCarriers
  <2>2. SameDone
    BY <1>1 DEF Lock, SameDone, Finished
  <2> QED
    BY <2>1, <2>2, PoolStutter

<1>2. CASE ScanSkip(t)
  <2>1. SameCarriers /\ UNCHANGED m_fibers
    BY <1>2 DEF ScanSkip, Scanning, SameCarriers
  <2>2. SameDone
    BY <1>2 DEF ScanSkip, Scanning, SameDone, Finished
  <2> QED
    BY <2>1, <2>2, PoolStutter

<1>3. CASE ScanMarkReady(t)
  <2>1. SameCarriers /\ UNCHANGED m_fibers
    BY <1>3 DEF ScanMarkReady, Scanning, StateAtIt, SameCarriers
  <2>2. SameDone
    BY <1>3 DEF ScanMarkReady, Scanning, StateAtIt, SameDone, Finished
  <2> QED
    BY <2>1, <2>2, PoolStutter

<1>4. CASE CountActive(t)
  <2>1. SameCarriers /\ UNCHANGED m_fibers
    BY <1>4 DEF CountActive, SameCarriers
  <2>2. SameDone
    BY <1>4 DEF CountActive, SameDone, Finished
  <2> QED
    BY <2>1, <2>2, PoolStutter

<1>5. CASE ScanNothing(t)
  <2>1. SameCarriers /\ UNCHANGED m_fibers
    BY <1>5 DEF ScanNothing, SameCarriers
  <2>2. SameDone
    BY <1>5 DEF ScanNothing, SameDone, Finished
  <2> QED
    BY <2>1, <2>2, PoolStutter

<1>6. CASE SetReady(t)
  <2>1. SameCarriers /\ UNCHANGED m_fibers
    BY <1>6 DEF SetReady, SameCarriers
  <2>2. SameDone
    BY <1>6 DEF SetReady, SameDone, Finished, CarriedState, Entry
  <2> QED
    BY <2>1, <2>2, PoolStutter

<1>7. CASE SwapIn(t)
  <2>1. SameCarriers /\ UNCHANGED m_fibers
    BY <1>7
    DEF SwapIn, CanSwapIn, SameCarriers, Abort, CarriedState, EndedFinished, Entry, Finished
  <2>2. SameDone
    BY <1>7
    DEF SwapIn, CanSwapIn, SameDone, Finished, CarriedState, Entry, EndedFinished, Abort
  <2> QED
    BY <2>1, <2>2, PoolStutter

<1>8. CASE SwapOut(t)
  <2>1. SameCarriers /\ UNCHANGED m_fibers
    BY <1>8 DEF SwapOut, SameCarriers
  <2>2. SameDone
    BY <1>8 DEF SwapOut, SameDone, Finished
  <2> QED
    BY <2>1, <2>2, PoolStutter

<1>9. CASE CountInactive(t)
  <2>1. SameCarriers /\ UNCHANGED m_fibers
    BY <1>9 DEF CountInactive, SameCarriers
  <2>2. SameDone
    BY <1>9 DEF CountInactive, SameDone, Finished
  <2> QED
    BY <2>1, <2>2, PoolStutter

<1>10. CASE Idle(t)
  <2>1. SameCarriers /\ UNCHANGED m_fibers
    BY <1>10 DEF Idle, SameCarriers
  <2>2. SameDone
    BY <1>10 DEF Idle, SameDone, Finished
  <2> QED
    BY <2>1, <2>2, PoolStutter

<1>11. CASE ReturnFromRun(t)
  <2>1. SameCarriers /\ UNCHANGED m_fibers
    BY <1>11 DEF ReturnFromRun, SameCarriers
  <2>2. SameDone
    BY <1>11 DEF ReturnFromRun, SameDone, Finished
  <2> QED
    BY <2>1, <2>2, PoolStutter

<1>12. CASE Yield(t)
  <2>1. SameCarriers /\ UNCHANGED m_fibers
    BY <1>12, SMTT(30)
    DEF Yield, Leave, SameCarriers, Abort, CarriedState, EndedFinished, Entry, Finished
  <2>2. SameDone
    BY <1>12 DEF Yield, Leave, SameDone, Finished, CarriedState, Entry, EndedFinished, Abort
  <2> QED
    BY <2>1, <2>2, PoolStutter

<1>13. CASE ScanErase(t)
  <2>0. PICK f \in Fibers : f = m_fibers[it].fiber
    <3>1. it \in 1 .. Len(m_fibers) /\ m_fibers[it] \in Entry
      BY <1>13 DEF ScanErase, Scanning
    <3> QED
      BY <3>1 DEF Entry
  <2>1. it \in 1 .. Len(m_fibers) /\ m_state[f] \in Finished
    BY <2>0, <1>13 DEF ScanErase, Scanning, StateAtIt, Entry
  <2>2. SameDone /\ \A g \in Fibers : Held(g)' <=> Held(g)
    BY <2>0, <1>13 DEF ScanErase, SameDone, Held
  <2>3. \A g \in Fibers : Listed(g)' <=> Listed(g) /\ g # f
    BY <2>0, <1>13, <2>1, ErasedListed DEF ScanErase
  <2>4. PlaceOf(f) = "queued" /\ PlaceOf(f)' = "out"
    <3>1. Listed(f)
      BY <2>0, <2>1 DEF Listed
    <3> QED
      BY <2>0, <2>1, <2>2, <2>3, <3>1, <1>0 DEF PlacesFaithful
  <2>5. Pool!Drop(f)
    BY <2>0, <2>1, <2>2, <2>3, <2>4, PoolMove DEF Pool!Drop
  <2> QED
    BY <2>0, <2>1, <2>5 DEF Pool!Next
<1>14. CASE ScanTake(t)
  <2>0. PICK f \in Fibers : f = m_fibers[it].fiber
    <3>1. it \in 1 .. Len(m_fibers) /\ m_fibers[it] \in Entry
      BY <1>14 DEF ScanTake, Scanning
    <3> QED
      BY <3>1 DEF Entry
  <2>1. it \in 1 .. Len(m_fibers) /\ m_state[f] \notin Finished
    BY <2>0, <1>14 DEF ScanTake, Scanning, StateAtIt, Entry, Finished
  <2>2. SameDone /\ \A g \in Fibers : Held(g)' <=> Held(g) \/ g = f
    BY <2>0, <1>14 DEF ScanTake, Scanning, SameDone, Held
  <2>3. \A g \in Fibers : Listed(g)' <=> Listed(g) /\ g # f
    BY <2>0, <1>14, <2>1, ErasedListed DEF ScanTake
  <2>4. PlaceOf(f) = "queued" /\ PlaceOf(f)' = "running"
    <3>1. Listed(f)
      BY <2>0, <2>1 DEF Listed
    <3> QED
      BY <2>0, <2>1, <2>2, <2>3, <3>1, <1>0 DEF PlacesFaithful
  <2>5. Pool!Take(f)
    BY <2>0, <2>1, <2>2, <2>3, <2>4, PoolMove DEF Pool!Take
  <2> QED
    BY <2>0, <2>1, <2>5 DEF Pool!Next
<1>15. CASE MainFuncEnds(t)
  <2>0. PICK f \in Fibers : f = ft[t].fiber
    BY <1>15 DEF MainFuncEnds, Entry
  <2>1. Held(f) /\ m_state[f] = "EXEC"
    BY <2>0, <1>15 DEF MainFuncEnds, CarriedState, Entry, Held
  <2>2. UNCHANGED m_fibers /\ SameCarriers
    BY <2>0, <1>15 DEF MainFuncEnds, Leave, SameCarriers
  <2>3. \A g \in Fibers : m_state'[g] \in Finished <=> m_state[g] \in Finished \/ g = f
    BY <2>0, <1>15, <2>1 DEF MainFuncEnds, Leave
  <2>4. \A g \in Fibers : PlaceOf(g)' = PlaceOf(g)
    BY <2>2, SamePlaceOf
  <2>5. PlaceOf(f) = "running"
    BY <2>0, <2>1, <1>0 DEF PlacesFaithful
  <2>6. Pool!Finish(f)
    BY <2>0, <2>1, <2>3, <2>4, <2>5 DEF Pool!Finish, Finished
  <2> QED
    BY <2>0, <2>1, <2>6 DEF Pool!Next
<1>16. CASE CheckState(t)
  <2>0. PICK f \in Fibers : f = ft[t].fiber
    BY <1>16 DEF CheckState, Entry
  <2>1. Held(f) /\ UNCHANGED m_fibers /\ SameDone
    BY <2>0, <1>16 DEF CheckState, Entry, Held, SameDone
  <2>2. CASE pc'[t] = "lock"
    <3>1. \A g \in Fibers : Held(g)' <=> Held(g) /\ g # f
      BY <2>0, <1>16, <2>2, ZenonT(60) DEF CheckState, Held, PlaceInv, OneCarrier
    <3>2. \A g \in Fibers : Listed(g)' <=> Listed(g)
      BY <2>0, <2>1 DEF Listed
    <3>3. PlaceOf(f) = "running" /\ PlaceOf(f)' = "out"
      BY <2>0, <2>1, <3>1, <3>2, <1>0 DEF PlacesFaithful
    <3>4. Pool!Release(f)
      BY <2>0, <2>1, <3>1, <3>2, <3>3, PoolMove DEF Pool!Release
    <3> QED
      BY <2>0, <2>1, <3>4 DEF Pool!Next
  <2>3. CASE pc'[t] # "lock"
    <3>1. SameCarriers
      BY <2>0, <1>16, <2>3 DEF CheckState, SameCarriers
    <3> QED
      BY <2>0, <2>1, <3>1, PoolStutter
  <2> QED
    BY <2>0, <2>2, <2>3
<1>17. CASE Reschedule(t)
  <2>0. PICK f \in Fibers : f = ft[t].fiber
    BY <1>17 DEF Reschedule, Entry
  <2>1. Held(f) /\ m_state[f] \notin Finished /\ ft[t] \in Entry
    BY <2>0, <1>17 DEF Reschedule, CarriedState, Entry, Held
  <2>2. SameDone /\ \A g \in Fibers : Held(g)' <=> Held(g) /\ g # f
    BY <2>0, <1>17 DEF Reschedule, SameDone, Held, PlaceInv, OneCarrier
  <2>3. \A g \in Fibers : Listed(g)' <=> Listed(g) \/ g = f
    BY <2>0, <1>17, <2>1, PushedListed DEF Reschedule
  <2>4. PlaceOf(f) = "running" /\ PlaceOf(f)' = "queued"
    BY <2>0, <2>1, <2>2, <2>3, <1>0 DEF PlacesFaithful
  <2>5. Pool!Requeue(f)
    BY <2>0, <2>1, <2>2, <2>3, <2>4, PoolMove DEF Pool!Requeue
  <2> QED
    BY <2>0, <2>1, <2>5 DEF Pool!Next
<1>18. CASE SetHold(t)
  <2>0. PICK f \in Fibers : f = ft[t].fiber
    BY <1>18 DEF SetHold, Entry
  <2>1. Held(f) /\ UNCHANGED m_fibers
    BY <2>0, <1>18 DEF SetHold, Entry, Held
  <2>2. SameDone
    BY <2>0, <1>18 DEF SetHold, SameDone, CarriedState, Entry, Finished
  <2>3. \A g \in Fibers : Held(g)' <=> Held(g) /\ g # f
    BY <2>0, <1>18 DEF SetHold, Held, PlaceInv, OneCarrier
  <2>4. \A g \in Fibers : Listed(g)' <=> Listed(g)
    BY <2>0, <2>1 DEF Listed
  <2>5. PlaceOf(f) = "running" /\ PlaceOf(f)' = "out"
    BY <2>0, <2>1, <2>3, <2>4, <1>0 DEF PlacesFaithful
  <2>6. Pool!Release(f)
    BY <2>0, <2>1, <2>2, <2>3, <2>4, <2>5, PoolMove DEF Pool!Release
  <2> QED
    BY <2>0, <2>1, <2>6 DEF Pool!Next
<1>19. CASE Schedule(t)
  <2>1. PICK f \in Fibers, thread \in PinTargets \cup {NoThread} : schedule(f, thread)
    BY <1>19 DEF Schedule
  <2>2. ~Listed(f) /\ ~Held(f)
    BY <2>1 DEF schedule, FreshCallback, WakeableFiber, Queued, Carries, PlaceInv, Known,
       Listed, Held
  <2>3. SameDone /\ \A g \in Fibers : Held(g)' <=> Held(g)
    BY <2>1 DEF schedule, SameDone, Held
  <2>4. \A g \in Fibers : Listed(g)' <=> Listed(g) \/ g = f
    <3>1. [fiber |-> f, thread |-> thread] \in Entry
      BY DEF Entry
    <3> QED
      BY <2>1, <3>1, PushedListed DEF schedule
  <2>5. PlaceOf(f) = "out" /\ PlaceOf(f)' = "queued"
    BY <2>2, <2>3, <2>4, <1>0 DEF PlacesFaithful
  <2>6. Pool!Submit(f)
    BY <2>3, <2>4, <2>5, PoolMove DEF Pool!Submit
  <2> QED
    BY <2>6 DEF Pool!Next
<1> QED
  BY <1>1, <1>2, <1>3, <1>4, <1>5, <1>6, <1>7, <1>8, <1>9, <1>10, <1>11, <1>12,
     <1>13, <1>14, <1>15, <1>16, <1>17, <1>18, <1>19 DEF RunStep

(* start(), stop() and the destructor move no task.                        *)
LEMMA PoolMain ==
  ASSUME SafeInv, SafeInv', Start \/ StopEnter \/ StopStep
  PROVE  UNCHANGED Pool!vars
<1> USE ConstantsAssumption
        DEF At, Goto, queueVars, localVars, fiberVars, SafeInv, TypeInv, TypeOK, Carrying
<1>1. UNCHANGED m_fibers /\ SameDone
  BY DEF Start, StopEnter, StopStep, StopCheck, StopRootTerm, StopFlag, StopRoot, Join,
     Destroy, SameDone
<1>2. SameCarriers
  <2> USE DEF SameCarriers
  <2>1. CASE Start
    BY <2>1 DEF Start, Threads
  <2>2. CASE StopEnter
    BY <2>2 DEF StopEnter
  <2>3. CASE StopCheck
    BY <2>3 DEF StopCheck
  <2>4. CASE StopRootTerm
    BY <2>4 DEF StopRootTerm
  <2>5. CASE StopFlag
    BY <2>5 DEF StopFlag
  <2>6. CASE StopRoot
    BY <2>6 DEF StopRoot
  <2>7. CASE Join
    BY <2>7 DEF Join, AllExited, Threads
  <2>8. CASE Destroy
    BY <2>8 DEF Destroy
  <2> QED
    BY <2>1, <2>2, <2>3, <2>4, <2>5, <2>6, <2>7, <2>8 DEF StopStep
<1> QED
  BY <1>1, <1>2, PoolStutter

(* The scheduler implements the abstract pool of tasks: a task is out,     *)
(* queued or running, is moved only along the edges of TaskPool, and is    *)
(* never queued again once it has ended in run().                          *)
THEOREM ImplementsTaskPoolCorrect ==
  ASSUME ~WakeRunning PROVE Spec => ImplementsTaskPool
<1>1. Init => Pool!Init
  BY DEF Init, Pool!Init, PlaceOf, Queued, Carries, Carrying, Finished
<1>2. SafeInv /\ SafeInv' /\ [Next]_vars => [Pool!Next]_(Pool!vars)
  <2> SUFFICES ASSUME SafeInv, SafeInv', [Next]_vars PROVE [Pool!Next]_(Pool!vars)
    OBVIOUS
  <2>1. CASE UNCHANGED vars
    BY <2>1, PoolStutter DEF vars, queueVars, localVars, fiberVars, SameCarriers, SameDone
  <2> QED
    BY <2>1, PoolThread, PoolMain DEF Next
<1> QED
  BY SafeInvCorrect, <1>1, <1>2, PTL DEF Spec, ImplementsTaskPool, Pool!Spec

-----------------------------------------------------------------------------
(* No callback is lost in the shutdown.                                    *)

(* Every entry of the list is one that the next scan takes: it is pinned   *)
(* to nobody and its fiber is UNINIT or READY. So no scan passes an entry  *)
(* over.                                                                   *)
Takeable ==
  /\ \A i \in 1 .. Len(m_fibers) :
       m_fibers[i].thread = NoThread /\ m_state[m_fibers[i].fiber] \in {"UNINIT", "READY"}
  /\ \A t \in Threads :
       /\ pc[t] = "resched" => m_state[ft[t].fiber] = "READY"
       /\ pc[t] = "scan" => it = 1

(* A task handed to schedule() is in the list, with a thread, or has ended *)
(* or given up its thread.                                                 *)
Accounted ==
  \A f \in submitted : Listed(f) \/ Held(f) \/ m_state[f] \in Finished \cup {"HOLD"}

(* The thread will look at the list again before it leaves run(): it has   *)
(* its idle fiber left, or is not at the idle fiber.                       *)
WillScan(t) == pc[t] \in RunPoints \ {"idle"} \/ (pc[t] = "idle" /\ idle_ft[t])

(* The caller of stop() has not entered run() yet.                         *)
BeforeRun == {"user", "stopCheck", "stopRootTerm", "stopFlag", "stopRoot", "aborted"}

(* While the list is not empty, somebody is still going to scan it.        *)
Watched == m_fibers # <<>> => pc[Main] \in BeforeRun \/ \E t \in Threads : WillScan(t)

(* The application schedules callbacks only, pins none to a thread, uses   *)
(* the calling thread and stops the scheduler once.                        *)
CallbacksOnly ==
  /\ UseCaller /\ PinTargets = {}
  /\ MaxWakes = 0 /\ MaxStops = 1 /\ ~WakeRunning
LostInv == SafeInv /\ Joined /\ Takeable /\ Accounted /\ Watched

(* The empty scheduler satisfies the invariant.                            *)
LEMMA InitLostInv == Init => LostInv
<1> SUFFICES ASSUME Init PROVE LostInv
  OBVIOUS
<1>1. Takeable /\ Accounted /\ Watched
  BY DEF Init, Takeable, Accounted, Watched
<1> QED
  BY <1>1, InitSafeInv, InitJoined DEF LostInv

(* Under Takeable a scan stops at the first entry.                         *)
LEMMA NothingSkipped ==
  ASSUME SafeInv, Takeable, NEW t \in Threads, Scanning(t)
  PROVE  /\ it = 1 /\ 1 \in 1 .. Len(m_fibers) /\ ~PinSkips(t)
         /\ StateAtIt \in {"UNINIT", "READY"}
  BY DEF Scanning, At, Takeable, SafeInv, TypeInv, TypeOK, PinSkips, StateAtIt

(* The entries of the list and of the threads name fibers.                 *)
LEMMA EntryFibers ==
  ASSUME SafeInv
  PROVE  /\ \A i \in 1 .. Len(m_fibers) : m_fibers[i].fiber \in Fibers
         /\ \A u \in Threads : pc[u] \in Carrying => ft[u].fiber \in Fibers
         /\ Len(m_fibers) \in Nat
<1>1. m_fibers \in Seq(Entry) /\ HasEntry
  BY DEF SafeInv, TypeInv, TypeOK
<1>2. \A i \in 1 .. Len(m_fibers) : m_fibers[i] \in Entry
  BY <1>1
<1> QED
  BY <1>1, <1>2 DEF Entry, HasEntry

(* No assertion of swapIn() or of the yields fails.                        *)
LEMMA NoAbort ==
  ASSUME SafeInv, NEW t \in Threads
  PROVE  /\ SwapIn(t) => CanSwapIn(ft[t].fiber)
         /\ Yield(t) => m_state[ft[t].fiber] = "EXEC"
  BY DEF SafeInv, TypeInv, TypeOK, HasEntry, Carrying, Entry, CarriedState, EndedFinished,
         SwapIn, Yield, At, CanSwapIn, Finished

(* A list that is not empty has a first entry.                             *)
LEMMA NonEmpty ==
  ASSUME SafeInv, m_fibers # <<>> PROVE Len(m_fibers) >= 1
  BY EmptySeq DEF SafeInv, TypeInv, TypeOK

(* erase() leaves entries that were in the list before.                    *)
LEMMA ErasedEntries ==
  ASSUME SafeInv, it \in 1 .. Len(m_fibers), m_fibers' = Erase(it)
  PROVE  \A j \in 1 .. Len(m_fibers') :
           \E k \in 1 .. Len(m_fibers) : k # it /\ m_fibers'[j] = m_fibers[k]
<1>1. /\ Len(m_fibers') = Len(m_fibers) - 1
      /\ \A j \in 1 .. Len(m_fibers) - 1 :
           m_fibers'[j] = IF j < it THEN m_fibers[j] ELSE m_fibers[j + 1]
  BY RemoveAtProperties DEF Erase, SafeInv, TypeInv, TypeOK
<1>2. Len(m_fibers) \in Nat /\ it \in Nat
  BY DEF SafeInv, TypeInv, TypeOK
<1> QED
  BY <1>1, <1>2

(* push_back() leaves the entries in their places and adds one.            *)
LEMMA PushedEntries ==
  ASSUME SafeInv, NEW e \in Entry, m_fibers' = Push(e)
  PROVE  \A j \in 1 .. Len(m_fibers') :
           (j \in 1 .. Len(m_fibers) /\ m_fibers'[j] = m_fibers[j]) \/ m_fibers'[j] = e
<1>1. /\ Len(m_fibers') = Len(m_fibers) + 1
      /\ \A i \in 1 .. Len(m_fibers) : m_fibers'[i] = m_fibers[i]
      /\ m_fibers'[Len(m_fibers) + 1] = e
      /\ Len(m_fibers) \in Nat
  BY AppendProperties DEF Push, SafeInv, TypeInv, TypeOK
<1> QED
  BY <1>1

(* A step that only adds takeable entries, and changes the state of no     *)
(* fiber in the list, keeps the list takeable.                             *)
LEMMA StillTakeable ==
  ASSUME Takeable, UNCHANGED it,
         \A j \in 1 .. Len(m_fibers') :
           \/ \E k \in 1 .. Len(m_fibers) :
                /\ m_fibers'[j] = m_fibers[k]
                /\ m_state'[m_fibers[k].fiber] = m_state[m_fibers[k].fiber]
           \/ /\ m_fibers'[j].thread = NoThread
              /\ m_state'[m_fibers'[j].fiber] \in {"UNINIT", "READY"},
         \A u \in Threads : pc'[u] \in {"resched", "scan"} =>
           /\ pc'[u] = pc[u] /\ ft'[u] = ft[u]
           /\ pc[u] = "resched" => m_state'[ft[u].fiber] = m_state[ft[u].fiber]
  PROVE  Takeable'
<1>1. ASSUME NEW j \in 1 .. Len(m_fibers')
      PROVE  /\ m_fibers'[j].thread = NoThread
             /\ m_state'[m_fibers'[j].fiber] \in {"UNINIT", "READY"}
  <2>1. ASSUME NEW k \in 1 .. Len(m_fibers), m_fibers'[j] = m_fibers[k],
               m_state'[m_fibers[k].fiber] = m_state[m_fibers[k].fiber]
        PROVE  /\ m_fibers'[j].thread = NoThread
               /\ m_state'[m_fibers'[j].fiber] \in {"UNINIT", "READY"}
    BY <2>1 DEF Takeable
  <2> QED
    BY <2>1
<1>2. ASSUME NEW u \in Threads
      PROVE  /\ pc'[u] = "resched" => m_state'[ft'[u].fiber] = "READY"
             /\ pc'[u] = "scan" => it' = 1
  BY DEF Takeable
<1> QED
  BY <1>1, <1>2 DEF Takeable

(* A thread leaves run() only after a scan that found the list empty, and  *)
(* no thread but one in run(), or the application before stop(), adds to   *)
(* it.                                                                     *)
LEMMA NextWatched ==
  ASSUME CallbacksOnly, LostInv, [Next]_vars PROVE Watched'
<1> USE ConstantsAssumption
        DEF CallbacksOnly, At, Goto, queueVars, localVars, fiberVars, boundVars,
            LostInv, SafeInv, TypeInv, TypeOK, HasEntry, Carrying
<1>0. /\ \A i \in 1 .. Len(m_fibers) : m_fibers[i].fiber \in Fibers
      /\ \A u \in Threads : pc[u] \in Carrying => ft[u].fiber \in Fibers
      /\ Len(m_fibers) \in Nat
  BY EntryFibers DEF LostInv
<1>1. ASSUME NEW t \in Threads, RunStep(t) \/ Yield(t) \/ Schedule(t)
      PROVE  Watched'
  <2>1. CASE Lock(t)
    BY <1>1, <2>1 DEF Lock, Watched, BeforeRun, WillScan, RunPoints
  <2>2. CASE ScanSkip(t)
    BY <1>1, <2>2, NothingSkipped DEF ScanSkip, Skippable, StateAtIt
  <2>3. CASE ScanMarkReady(t)
    BY <1>1, <2>3, NothingSkipped DEF ScanMarkReady, StateAtIt
  <2>4. CASE ScanErase(t)
    BY <1>1, <2>4, NothingSkipped DEF ScanErase, StateAtIt, Finished
  <2>5. CASE ScanTake(t)
    BY <1>1, <2>5 DEF ScanTake, Scanning, Watched, BeforeRun, WillScan, RunPoints
  <2>6. CASE CountActive(t)
    BY <1>1, <2>6 DEF CountActive, Watched, BeforeRun, WillScan, RunPoints
  <2>7. CASE ScanNothing(t)
    BY <1>0, <1>1, <2>7, NonEmpty
    DEF ScanNothing, Takeable, Watched, BeforeRun, WillScan, RunPoints
  <2>8. CASE SetReady(t)
    BY <1>1, <2>8 DEF SetReady, Watched, BeforeRun, WillScan, RunPoints
  <2>9. CASE SwapIn(t)
    BY <1>1, <2>9 DEF SwapIn, Abort, Watched, BeforeRun, WillScan, RunPoints
  <2>10. CASE MainFuncEnds(t)
    BY <1>1, <2>10 DEF MainFuncEnds, Leave, Watched, BeforeRun, WillScan, RunPoints
  <2>11. CASE SwapOut(t)
    BY <1>1, <2>11 DEF SwapOut, Watched, BeforeRun, WillScan, RunPoints
  <2>12. CASE CountInactive(t)
    BY <1>1, <2>12 DEF CountInactive, Watched, BeforeRun, WillScan, RunPoints
  <2>13. CASE CheckState(t)
    BY <1>1, <2>13 DEF CheckState, Watched, BeforeRun, WillScan, RunPoints
  <2>14. CASE Reschedule(t)
    BY <1>1, <2>14 DEF Reschedule, Watched, BeforeRun, WillScan, RunPoints
  <2>15. CASE SetHold(t)
    BY <1>1, <2>15 DEF SetHold, Watched, BeforeRun, WillScan, RunPoints
  <2>16. CASE Idle(t)
    BY <1>1, <2>16 DEF Idle, Watched, BeforeRun, WillScan, RunPoints
  <2>17. CASE ReturnFromRun(t)
    <3>1. UNCHANGED m_fibers /\ ~WillScan(t)
      BY <1>1, <2>17 DEF ReturnFromRun, WillScan, RunPoints
    <3>2. pc[t] = "idle" /\ pc[Main] # "aborted"
      BY <1>1, <2>17 DEF ReturnFromRun, Over
    <3>3. \A u \in Threads \ {t} : WillScan(u)' <=> WillScan(u)
      BY <1>1, <2>17 DEF ReturnFromRun, WillScan, RunPoints
    <3>4. pc[Main] \in BeforeRun => pc'[Main] \in BeforeRun
      BY <1>1, <2>17, <3>2 DEF ReturnFromRun, BeforeRun, Threads
    <3> QED
      BY <3>1, <3>3, <3>4 DEF Watched
  <2>18. CASE Yield(t)
    BY <1>1, <2>18 DEF Yield, Leave, Abort, Watched, BeforeRun, WillScan, RunPoints
  <2>19. CASE Schedule(t)
    BY <1>1, <2>19 DEF Schedule, schedule, Watched, BeforeRun, WillScan, RunPoints
  <2> QED
    BY <1>1, <2>1, <2>2, <2>3, <2>4, <2>5, <2>6, <2>7, <2>8, <2>9, <2>10, <2>11, <2>12,
       <2>13, <2>14, <2>15, <2>16, <2>17, <2>18, <2>19 DEF RunStep
<1>2. CASE Start
  BY <1>2 DEF Start, Watched, BeforeRun, WillScan, RunPoints
<1>3. CASE StopEnter
  BY <1>3 DEF StopEnter, Watched, BeforeRun, WillScan, RunPoints
<1>4. CASE StopCheck
  BY <1>4 DEF StopCheck, IsStoped, Watched, BeforeRun, WillScan, RunPoints
<1>5. CASE StopRootTerm
  BY <1>5 DEF StopRootTerm, Watched, BeforeRun, WillScan, RunPoints
<1>6. CASE StopFlag
  BY <1>6 DEF StopFlag, Watched, BeforeRun, WillScan, RunPoints
<1>7. CASE StopRoot
  BY <1>7 DEF StopRoot, IsStoped, Watched, BeforeRun, WillScan, RunPoints
<1>8. CASE Join
  BY <1>8 DEF Join, AllExited, Watched, BeforeRun, WillScan, RunPoints
<1>9. CASE Destroy
  BY <1>9 DEF Destroy, Watched, BeforeRun, WillScan, RunPoints
<1>10. CASE UNCHANGED vars
  BY <1>10 DEF vars, Watched, BeforeRun, WillScan, RunPoints
<1> QED
  BY <1>1, <1>2, <1>3, <1>4, <1>5, <1>6, <1>7, <1>8, <1>9, <1>10 DEF Next, StopStep

(* Fresh callbacks are UNINIT and requeued fibers READY, and nobody else   *)
(* changes the state of a fiber while it is in the list.                   *)
LEMMA NextTakeable ==
  ASSUME CallbacksOnly, LostInv, [Next]_vars PROVE Takeable'
<1> USE ConstantsAssumption
        DEF CallbacksOnly, At, Goto, queueVars, localVars, fiberVars, boundVars,
            LostInv, SafeInv, TypeInv, TypeOK, HasEntry, Carrying
<1>0. /\ \A i \in 1 .. Len(m_fibers) : m_fibers[i].fiber \in Fibers
      /\ \A u \in Threads : pc[u] \in Carrying => ft[u].fiber \in Fibers
      /\ Len(m_fibers) \in Nat
  BY EntryFibers DEF LostInv
<1>1. ASSUME NEW t \in Threads, RunStep(t) \/ Yield(t) \/ Schedule(t)
      PROVE  Takeable'
  <2>1. CASE Lock(t)
    BY <1>1, <2>1
    DEF Lock, Takeable, CarriedState, Entry, PlaceInv, CarriedNotQueued, OneCarrier
  <2>2. CASE ScanSkip(t)
    BY <1>1, <2>2, NothingSkipped DEF ScanSkip, Skippable, StateAtIt
  <2>3. CASE ScanMarkReady(t)
    BY <1>1, <2>3, NothingSkipped DEF ScanMarkReady, StateAtIt
  <2>4. CASE ScanErase(t)
    BY <1>1, <2>4, NothingSkipped DEF ScanErase, StateAtIt, Finished
  <2>5. CASE ScanTake(t)
    <3>1. \A j \in 1 .. Len(m_fibers') :
            \E k \in 1 .. Len(m_fibers) : m_fibers'[j] = m_fibers[k]
      BY <1>1, <2>5, ErasedEntries DEF ScanTake, Scanning
    <3>2. \A u \in Threads : pc'[u] \in {"resched", "scan"} =>
            pc'[u] = pc[u] /\ ft'[u] = ft[u]
      BY <1>1, <2>5 DEF ScanTake, Scanning
    <3>3. UNCHANGED <<m_state, it>>
      BY <2>5 DEF ScanTake
    <3> QED
      BY <3>1, <3>2, <3>3, StillTakeable
  <2>6. CASE CountActive(t)
    BY <1>1, <2>6
    DEF CountActive, Takeable, CarriedState, Entry, PlaceInv, CarriedNotQueued, OneCarrier
  <2>7. CASE ScanNothing(t)
    BY <1>1, <2>7
    DEF ScanNothing, Takeable, CarriedState, Entry, PlaceInv, CarriedNotQueued, OneCarrier
  <2>8. CASE SetReady(t)
    BY <1>1, <2>8
    DEF SetReady, Takeable, CarriedState, Entry, PlaceInv, CarriedNotQueued, OneCarrier
  <2>9. CASE SwapIn(t)
    <3>1. UNCHANGED <<m_fibers, it>>
      BY <1>1, <2>9, NoAbort DEF SwapIn
    <3>2. \A f \in Fibers : f # ft[t].fiber => m_state'[f] = m_state[f]
      BY <1>0, <1>1, <2>9, NoAbort DEF SwapIn
    <3>3. \A u \in Threads : pc'[u] \in {"resched", "scan"} =>
            pc'[u] = pc[u] /\ ft'[u] = ft[u] /\ u # t
      BY <1>1, <2>9, NoAbort DEF SwapIn
    <3>4. pc[t] \in Carrying
      BY <2>9 DEF SwapIn
    <3>5. \A i \in 1 .. Len(m_fibers) : m_fibers[i].fiber # ft[t].fiber
      BY <1>1, <3>4 DEF PlaceInv, CarriedNotQueued
    <3>6. \A u \in Threads : pc'[u] = "resched" => ft[u].fiber # ft[t].fiber
      BY <1>1, <3>3, <3>4 DEF PlaceInv, OneCarrier
    <3> QED
      BY <1>0, <3>1, <3>2, <3>3, <3>5, <3>6, StillTakeable
  <2>10. CASE MainFuncEnds(t)
    <3>1. UNCHANGED <<m_fibers, it>>
      BY <1>1, <2>10, NoAbort DEF MainFuncEnds, Leave
    <3>2. \A f \in Fibers : f # ft[t].fiber => m_state'[f] = m_state[f]
      BY <1>0, <1>1, <2>10, NoAbort DEF MainFuncEnds, Leave
    <3>3. \A u \in Threads : pc'[u] \in {"resched", "scan"} =>
            pc'[u] = pc[u] /\ ft'[u] = ft[u] /\ u # t
      BY <1>1, <2>10, NoAbort DEF MainFuncEnds, Leave
    <3>4. pc[t] \in Carrying
      BY <2>10 DEF MainFuncEnds
    <3>5. \A i \in 1 .. Len(m_fibers) : m_fibers[i].fiber # ft[t].fiber
      BY <1>1, <3>4 DEF PlaceInv, CarriedNotQueued
    <3>6. \A u \in Threads : pc'[u] = "resched" => ft[u].fiber # ft[t].fiber
      BY <1>1, <3>3, <3>4 DEF PlaceInv, OneCarrier
    <3> QED
      BY <1>0, <3>1, <3>2, <3>3, <3>5, <3>6, StillTakeable
  <2>11. CASE SwapOut(t)
    BY <1>1, <2>11
    DEF SwapOut, Takeable, CarriedState, Entry, PlaceInv, CarriedNotQueued, OneCarrier
  <2>12. CASE CountInactive(t)
    BY <1>1, <2>12
    DEF CountInactive, Takeable, CarriedState, Entry, PlaceInv, CarriedNotQueued, OneCarrier
  <2>13. CASE CheckState(t)
    BY <1>1, <2>13
    DEF CheckState, Takeable, CarriedState, Entry, PlaceInv, CarriedNotQueued, OneCarrier
  <2>14. CASE Reschedule(t)
    <3>1. ft[t] \in Entry /\ ft[t].thread = NoThread /\ m_state[ft[t].fiber] = "READY"
      BY <1>1, <2>14 DEF Reschedule, Takeable, Entry
    <3>2. \A j \in 1 .. Len(m_fibers') :
            (j \in 1 .. Len(m_fibers) /\ m_fibers'[j] = m_fibers[j]) \/ m_fibers'[j] = ft[t]
      BY <1>1, <2>14, <3>1, PushedEntries DEF Reschedule
    <3>3. \A u \in Threads : pc'[u] \in {"resched", "scan"} =>
            pc'[u] = pc[u] /\ ft'[u] = ft[u]
      BY <1>1, <2>14 DEF Reschedule
    <3>4. UNCHANGED <<m_state, it>>
      BY <2>14 DEF Reschedule
    <3> QED
      BY <3>1, <3>2, <3>3, <3>4, StillTakeable
  <2>15. CASE SetHold(t)
    BY <1>1, <2>15
    DEF SetHold, Takeable, CarriedState, Entry, PlaceInv, CarriedNotQueued, OneCarrier
  <2>16. CASE Idle(t)
    BY <1>1, <2>16
    DEF Idle, Takeable, CarriedState, Entry, PlaceInv, CarriedNotQueued, OneCarrier
  <2>17. CASE ReturnFromRun(t)
    <3>1. \A f \in Fibers : m_state'[f] = m_state[f]
      BY <1>1, <2>17 DEF ReturnFromRun
    <3>2. UNCHANGED <<m_fibers, it>>
      BY <1>1, <2>17 DEF ReturnFromRun
    <3>3. \A u \in Threads : pc'[u] \in {"resched", "scan"} =>
            pc'[u] = pc[u] /\ ft'[u] = ft[u]
      BY <1>1, <2>17 DEF ReturnFromRun
    <3> QED
      BY <1>0, <3>1, <3>2, <3>3, StillTakeable
  <2>18. CASE Yield(t)
    <3>1. UNCHANGED <<m_fibers, it>>
      BY <1>1, <2>18, NoAbort DEF Yield, Leave
    <3>2. \A f \in Fibers : f # ft[t].fiber => m_state'[f] = m_state[f]
      BY <1>0, <1>1, <2>18, NoAbort DEF Yield, Leave
    <3>3. \A u \in Threads : pc'[u] \in {"resched", "scan"} =>
            pc'[u] = pc[u] /\ ft'[u] = ft[u] /\ u # t
      BY <1>1, <2>18, NoAbort DEF Yield, Leave
    <3>4. pc[t] \in Carrying
      BY <2>18 DEF Yield
    <3>5. \A i \in 1 .. Len(m_fibers) : m_fibers[i].fiber # ft[t].fiber
      BY <1>1, <3>4 DEF PlaceInv, CarriedNotQueued
    <3>6. \A u \in Threads : pc'[u] = "resched" => ft[u].fiber # ft[t].fiber
      BY <1>1, <3>3, <3>4 DEF PlaceInv, OneCarrier
    <3> QED
      BY <1>0, <3>1, <3>2, <3>3, <3>5, <3>6, StillTakeable
  <2>19. CASE Schedule(t)
    <3>1. PICK f \in Fibers, thread \in PinTargets \cup {NoThread} : schedule(f, thread)
      BY <2>19 DEF Schedule
    <3>2. m_state[f] = "UNINIT" /\ thread = NoThread
      BY <3>1 DEF schedule, FreshCallback, WakeableFiber
    <3>3. [fiber |-> f, thread |-> thread] \in Entry
      BY DEF Entry
    <3>4. \A j \in 1 .. Len(m_fibers') :
            (j \in 1 .. Len(m_fibers) /\ m_fibers'[j] = m_fibers[j])
            \/ m_fibers'[j] = [fiber |-> f, thread |-> thread]
      BY <3>1, <3>3, PushedEntries DEF schedule
    <3>5. UNCHANGED <<m_state, it, pc, ft>>
      BY <3>1 DEF schedule
    <3> QED
      BY <3>2, <3>4, <3>5, StillTakeable, SMTT(30)
  <2> QED
    BY <1>1, <2>1, <2>2, <2>3, <2>4, <2>5, <2>6, <2>7, <2>8, <2>9, <2>10, <2>11, <2>12,
       <2>13, <2>14, <2>15, <2>16, <2>17, <2>18, <2>19 DEF RunStep
<1>2. CASE Start
  BY <1>2 DEF Start, Takeable, CarriedState, Entry, PlaceInv, CarriedNotQueued, OneCarrier
<1>3. CASE StopEnter
  BY <1>3
  DEF StopEnter, Takeable, CarriedState, Entry, PlaceInv, CarriedNotQueued, OneCarrier
<1>4. CASE StopCheck
  BY <1>4
  DEF StopCheck, IsStoped, Takeable, CarriedState, Entry, PlaceInv, CarriedNotQueued,
      OneCarrier
<1>5. CASE StopRootTerm
  BY <1>5
  DEF StopRootTerm, Takeable, CarriedState, Entry, PlaceInv, CarriedNotQueued, OneCarrier
<1>6. CASE StopFlag
  BY <1>6
  DEF StopFlag, Takeable, CarriedState, Entry, PlaceInv, CarriedNotQueued, OneCarrier
<1>7. CASE StopRoot
  <2>1. \A f \in Fibers : m_state'[f] = m_state[f]
    BY <1>7 DEF StopRoot
  <2>2. UNCHANGED <<m_fibers, it>>
    BY <1>7 DEF StopRoot
  <2>3. \A u \in Threads : pc'[u] \in {"resched", "scan"} =>
          pc'[u] = pc[u] /\ ft'[u] = ft[u]
    BY <1>7 DEF StopRoot
  <2> QED
    BY <1>0, <2>1, <2>2, <2>3, StillTakeable
<1>8. CASE Join
  BY <1>8
  DEF Join, AllExited, Takeable, CarriedState, Entry, PlaceInv, CarriedNotQueued, OneCarrier
<1>9. CASE Destroy
  BY <1>9 DEF Destroy, Takeable, CarriedState, Entry, PlaceInv, CarriedNotQueued, OneCarrier
<1>10. CASE UNCHANGED vars
  BY <1>10 DEF vars, Takeable, CarriedState, Entry, PlaceInv, CarriedNotQueued, OneCarrier
<1> QED
  BY <1>1, <1>2, <1>3, <1>4, <1>5, <1>6, <1>7, <1>8, <1>9, <1>10 DEF Next, StopStep

(* No step drops a submitted task: it moves between list and threads until *)
(* it ends or holds.                                                       *)
LEMMA NextAccounted ==
  ASSUME CallbacksOnly, LostInv, [Next]_vars PROVE Accounted'
<1> USE ConstantsAssumption
        DEF CallbacksOnly, At, Goto, queueVars, localVars, fiberVars, boundVars,
            LostInv, SafeInv, TypeInv, TypeOK, HasEntry, Carrying
<1>0. /\ \A i \in 1 .. Len(m_fibers) : m_fibers[i].fiber \in Fibers
      /\ \A u \in Threads : pc[u] \in Carrying => ft[u].fiber \in Fibers
      /\ Len(m_fibers) \in Nat
  BY EntryFibers DEF LostInv
<1>1. ASSUME NEW t \in Threads, RunStep(t) \/ Yield(t) \/ Schedule(t)
      PROVE  Accounted'
  <2>1. CASE Lock(t)
    BY <1>1, <2>1 DEF Lock, Accounted, Held, Listed, Finished, Entry
  <2>2. CASE ScanSkip(t)
    BY <1>1, <2>2, NothingSkipped DEF ScanSkip, Skippable, StateAtIt
  <2>3. CASE ScanMarkReady(t)
    BY <1>1, <2>3, NothingSkipped DEF ScanMarkReady, StateAtIt
  <2>4. CASE ScanErase(t)
    BY <1>1, <2>4, NothingSkipped DEF ScanErase, StateAtIt, Finished
  <2>5. CASE ScanTake(t)
    <3>1. it \in 1 .. Len(m_fibers) /\ UNCHANGED <<m_state, submitted>>
      BY <1>1, <2>5 DEF ScanTake, Scanning
    <3>2. \A g \in Fibers : Listed(g)' <=> Listed(g) /\ g # m_fibers[it].fiber
      BY <2>5, <3>1, ErasedListed DEF ScanTake
    <3>3. \A g \in Fibers : Held(g) \/ g = m_fibers[it].fiber => Held(g)'
      BY <1>1, <2>5 DEF ScanTake, Scanning, Held
    <3> QED
      BY <3>1, <3>2, <3>3 DEF Accounted
  <2>6. CASE CountActive(t)
    BY <1>1, <2>6 DEF CountActive, Accounted, Held, Listed, Finished, Entry
  <2>7. CASE ScanNothing(t)
    BY <1>1, <2>7 DEF ScanNothing, Accounted, Held, Listed, Finished, Entry
  <2>8. CASE SetReady(t)
    BY <1>1, <2>8 DEF SetReady, Accounted, Held, Listed, Finished, Entry
  <2>9. CASE SwapIn(t)
    <3>1. \A f \in Fibers : Listed(f) \/ Held(f) => Listed(f)' \/ Held(f)'
      BY <1>1, <2>9, NoAbort DEF SwapIn, Held, Listed
    <3>2. \A f \in Fibers : m_state'[f] = m_state[f] \/ Held(f)
      BY <1>0, <1>1, <2>9, NoAbort DEF SwapIn, Held
    <3>3. UNCHANGED submitted
      BY <1>1, <2>9, NoAbort DEF SwapIn
    <3> QED
      BY <3>1, <3>2, <3>3 DEF Accounted
  <2>10. CASE MainFuncEnds(t)
    BY <1>1, <2>10 DEF MainFuncEnds, Leave, Accounted, Held, Listed, Finished, Entry
  <2>11. CASE SwapOut(t)
    BY <1>1, <2>11 DEF SwapOut, Accounted, Held, Listed, Finished, Entry
  <2>12. CASE CountInactive(t)
    BY <1>1, <2>12 DEF CountInactive, Accounted, Held, Listed, Finished, Entry
  <2>13. CASE CheckState(t)
    <3>1. UNCHANGED <<m_fibers, m_state, submitted>>
      BY <2>13 DEF CheckState
    <3>2. \A f \in Fibers : Held(f) => Held(f)' \/ m_state[f] \in Finished
      BY <1>1, <2>13 DEF CheckState, Held, HasEnded
    <3> QED
      BY <3>1, <3>2 DEF Accounted, Listed
  <2>14. CASE Reschedule(t)
    <3>1. ft[t] \in Entry /\ UNCHANGED <<m_state, submitted>>
      BY <1>1, <2>14 DEF Reschedule
    <3>2. \A g \in Fibers : Listed(g)' <=> Listed(g) \/ g = ft[t].fiber
      BY <2>14, <3>1, PushedListed DEF Reschedule
    <3>3. \A g \in Fibers : Held(g) => Held(g)' \/ g = ft[t].fiber
      BY <1>1, <2>14 DEF Reschedule, Held
    <3> QED
      BY <3>1, <3>2, <3>3 DEF Accounted
  <2>15. CASE SetHold(t)
    BY <1>1, <2>15 DEF SetHold, Accounted, Held, Listed, Finished, Entry
  <2>16. CASE Idle(t)
    BY <1>1, <2>16 DEF Idle, Accounted, Held, Listed, Finished, Entry
  <2>17. CASE ReturnFromRun(t)
    <3>1. \A f \in Fibers : m_state'[f] = m_state[f]
      BY <1>1, <2>17 DEF ReturnFromRun
    <3>2. UNCHANGED <<m_fibers, submitted>>
      BY <1>1, <2>17 DEF ReturnFromRun
    <3>3. \A f \in Fibers : Held(f) => Held(f)'
      BY <1>1, <2>17 DEF ReturnFromRun, Held
    <3> QED
      BY <3>1, <3>2, <3>3 DEF Accounted, Listed
  <2>18. CASE Yield(t)
    <3>1. \A f \in Fibers : Listed(f) \/ Held(f) => Listed(f)' \/ Held(f)'
      BY <1>1, <2>18, NoAbort DEF Yield, Leave, Held, Listed
    <3>2. \A f \in Fibers : m_state'[f] = m_state[f] \/ Held(f)
      BY <1>0, <1>1, <2>18, NoAbort DEF Yield, Leave, Held
    <3>3. UNCHANGED submitted
      BY <1>1, <2>18, NoAbort DEF Yield, Leave
    <3> QED
      BY <3>1, <3>2, <3>3 DEF Accounted
  <2>19. CASE Schedule(t)
    <3>1. PICK f \in Fibers, thread \in PinTargets \cup {NoThread} : schedule(f, thread)
      BY <2>19 DEF Schedule
    <3>2. [fiber |-> f, thread |-> thread] \in Entry
      BY DEF Entry
    <3>3. \A g \in Fibers : Listed(g)' <=> Listed(g) \/ g = f
      BY <3>1, <3>2, PushedListed DEF schedule
    <3>4. UNCHANGED <<m_state, pc, ft>> /\ submitted' = submitted \cup {f}
      BY <3>1 DEF schedule
    <3> QED
      BY <3>3, <3>4 DEF Accounted, Held
  <2> QED
    BY <1>1, <2>1, <2>2, <2>3, <2>4, <2>5, <2>6, <2>7, <2>8, <2>9, <2>10, <2>11, <2>12,
       <2>13, <2>14, <2>15, <2>16, <2>17, <2>18, <2>19 DEF RunStep
<1>2. CASE Start
  <2>1. UNCHANGED <<m_state, m_fibers, submitted>>
    BY <1>2 DEF Start
  <2>2. \A f \in Fibers : Held(f) => Held(f)'
    BY <1>2 DEF Start, Held, Threads
  <2> QED
    BY <2>1, <2>2 DEF Accounted, Listed
<1>3. CASE StopEnter
  BY <1>3 DEF StopEnter, Accounted, Held, Listed, Finished, Entry
<1>4. CASE StopCheck
  BY <1>4 DEF StopCheck, IsStoped, Accounted, Held, Listed, Finished, Entry
<1>5. CASE StopRootTerm
  BY <1>5 DEF StopRootTerm, Accounted, Held, Listed, Finished, Entry
<1>6. CASE StopFlag
  BY <1>6 DEF StopFlag, Accounted, Held, Listed, Finished, Entry
<1>7. CASE StopRoot
  <2>1. \A f \in Fibers : m_state'[f] = m_state[f]
    BY <1>7 DEF StopRoot
  <2>2. UNCHANGED <<m_fibers, submitted>>
    BY <1>7 DEF StopRoot
  <2>3. \A f \in Fibers : Held(f) => Held(f)'
    BY <1>7 DEF StopRoot, Held
  <2> QED
    BY <2>1, <2>2, <2>3 DEF Accounted, Listed
<1>8. CASE Join
  BY <1>8 DEF Join, AllExited, Accounted, Held, Listed, Finished, Entry
<1>9. CASE Destroy
  BY <1>9 DEF Destroy, Accounted, Held, Listed, Finished, Entry
<1>10. CASE UNCHANGED vars
  BY <1>10 DEF vars, Accounted, Held, Listed, Finished, Entry
<1> QED
  BY <1>1, <1>2, <1>3, <1>4, <1>5, <1>6, <1>7, <1>8, <1>9, <1>10 DEF Next, StopStep

(* The invariant holds in every reachable state.                           *)
LEMMA LostInvCorrect ==
  ASSUME CallbacksOnly PROVE Spec => []LostInv
<1>1. LostInv /\ [Next]_vars => Joined' /\ Takeable' /\ Accounted' /\ Watched'
  BY NextJoined, NextTakeable, NextAccounted, NextWatched
  DEF LostInv, SafeInv, CallbacksOnly
<1>2. Spec => []SafeInv
  BY SafeInvCorrect DEF CallbacksOnly
<1> QED
  BY <1>1, <1>2, InitLostInv, PTL DEF Spec, LostInv

(* The shutdown drops no callback: when the scheduler is destroyed the     *)
(* list is empty and every callback ever scheduled has ended or holds.     *)
THEOREM NothingLostCorrect ==
  ASSUME CallbacksOnly PROVE Spec => []NothingLost
<1>1. LostInv => NothingLost
  <2> SUFFICES ASSUME LostInv, pc[Main] \in Destroyed
               PROVE  /\ m_fibers = <<>>
                      /\ \A f \in submitted : m_state[f] \in Finished \cup {"HOLD"}
    BY DEF NothingLost
  <2>1. \A t \in Threads : pc[t] \in {"unborn"} \cup Destroyed
    BY DEF LostInv, Joined, Unborn, Threads
  <2>2. m_fibers = <<>>
    BY <2>1 DEF LostInv, Watched, BeforeRun, WillScan, RunPoints, Carrying, Destroyed, Threads
  <2>3. \A f \in submitted : ~Held(f) /\ ~Listed(f)
    BY <2>1, <2>2 DEF Held, Listed, Carrying, Destroyed
  <2> QED
    BY <2>2, <2>3 DEF LostInv, Accounted
<1> QED
  BY <1>1, LostInvCorrect, PTL

=============================================================================
