---------------------------- MODULE MCLocks_proofs ----------------------------
(***************************************************************************)
(* RWMutex and its guards exclude each other as they should, for any       *)
(* number of threads and of guards in scope, although WriteScopedLockImpl  *)
(* forgets its lock, until a thread lays a guard over one it has for       *)
(* writing; and the CASLock of the run excludes as well.                   *)
(***************************************************************************)
EXTENDS MCLocks, FiniteSetTheorems, TLAPS

-----------------------------------------------------------------------------
(* RWMutex.                                                                *)

(* The guards that have a reader in the count.                             *)
Reading == {g \in Guards : m_islocked[g] /\ g[1] # writer}

(* While the lock is held for writing there is no reader.                  *)
WriterAlone == writer # NoThread => readers = 0

(* A guard whose scope somebody is inside has the lock, for writing or as  *)
(* a reader of its own.  A thread may hold the lock without being inside   *)
(* any scope (a WriteLock that ended), never the other way round.          *)
InsideHolds ==
  \A g \in Guards : inside[g] =>
    /\ scope[g] # "none"
    /\ writer = g[1] \/ (scope[g] = "read" /\ m_islocked[g])

(* A guard that takes itself for locked is inside its scope.               *)
LockedInside == \A g \in Guards : m_islocked[g] => inside[g]

(* The thread that has the lock for writing is inside one scope at most.   *)
WriterOnce ==
  \A g, h \in Guards : inside[g] /\ inside[h] /\ g[1] = writer /\ h[1] = writer => g = h

(* Every reader that was counted is a guard's, and the other way round.    *)
Counted == IsFiniteSet(Reading) /\ readers = Cardinality(Reading)

(* What holds of the lock until guards are laid over each other.           *)
InOrder == WriterAlone /\ InsideHolds /\ LockedInside /\ WriterOnce /\ Counted

(* The inductive invariant.                                                *)
LockInv == TypeOK /\ (~overlaid => InOrder)

(* Nobody has the lock initially.                                          *)
LEMMA InitLockInv == Init => LockInv
<1> SUFFICES ASSUME Init PROVE LockInv
  OBVIOUS
<1>1. Reading = {}
  BY DEF Init, Reading
<1>2. Counted
  BY <1>1, FS_EmptySet DEF Init, Counted
<1>3. InOrder
  BY <1>2 DEF Init, InOrder, WriterAlone, InsideHolds, LockedInside, WriterOnce
<1>4. TypeOK
  <2>1. overlaid \in BOOLEAN
    BY Zenon DEF Init
  <2>2. writer \in Threads \cup {NoThread} /\ readers \in Int
    BY DEF Init
  <2>3. /\ scope \in [Guards -> {"none", "read", "write"}]
        /\ m_islocked \in [Guards -> BOOLEAN]
        /\ inside \in [Guards -> BOOLEAN]
    BY DEF Init
  <2> QED
    BY <2>1, <2>2, <2>3, Zenon DEF TypeOK
<1> QED
  BY <1>3, <1>4 DEF LockInv

(* A thread that has the lock for writing has no reader in the count.      *)
LEMMA NoReaders ==
  ASSUME TypeOK, InOrder, writer # NoThread
  PROVE  Reading = {}
  BY FS_EmptySet DEF InOrder, WriterAlone, Counted

(* Adding an element to the readers, and taking one away.                  *)
LEMMA ReaderAdded ==
  ASSUME Counted, NEW g \in Guards, g \notin Reading, Reading' = Reading \cup {g},
         readers' = readers + 1
  PROVE  Counted'
  BY FS_AddElement DEF Counted

LEMMA ReaderRemoved ==
  ASSUME Counted, NEW g \in Reading, Reading' = Reading \ {g}, readers' = readers - 1
  PROVE  Counted'
  BY FS_RemoveElement DEF Counted

(* The types, whatever is laid over what.                                  *)
LEMMA NextType ==
  ASSUME TypeOK, [Next]_vars PROVE TypeOK'
<1> DEFINE GuardType ==
             /\ writer \in Threads \cup {NoThread}
             /\ readers \in Int
             /\ scope \in [Guards -> {"none", "read", "write"}]
             /\ m_islocked \in [Guards -> BOOLEAN]
             /\ inside \in [Guards -> BOOLEAN]
<1>0. GuardType
  BY Zenon DEF TypeOK
<1> SUFFICES GuardType' /\ overlaid' \in BOOLEAN
  BY Zenon DEF TypeOK
<1> HIDE DEF GuardType
<1>1. ASSUME NEW g \in Guards, Asks(g) PROVE overlaid' \in BOOLEAN
  BY <1>1, Zenon DEF Asks
<1>2. \A g \in Guards : g[1] \in Threads
  BY DEF Guards
<1>3. ASSUME NEW g \in Guards, OpenRead(g) \/ OpenWrite(g)
      PROVE  GuardType' /\ overlaid' \in BOOLEAN
  <2>1. overlaid' \in BOOLEAN
    BY <1>1, <1>3 DEF OpenRead, OpenWrite, Open
  <2>2. writer' \in Threads \cup {NoThread} /\ readers' \in Int
    <3>1. rdlock(g[1]) \/ wrlock(g[1])
      BY <1>3 DEF OpenRead, OpenWrite
    <3>2. CASE rdlock(g[1])
      BY <1>0, <3>2 DEF GuardType, rdlock
    <3>3. CASE wrlock(g[1])
      BY <1>0, <1>2, <3>3 DEF GuardType, wrlock
    <3> QED
      BY <3>1, <3>2, <3>3
  <2>3. CASE OpenRead(g)
    BY <1>0, <2>1, <2>2, <2>3 DEF GuardType, OpenRead, Open
  <2>4. CASE OpenWrite(g)
    BY <1>0, <2>1, <2>2, <2>4 DEF GuardType, OpenWrite, Open
  <2> QED
    BY <1>3, <2>3, <2>4
<1>4. ASSUME NEW g \in Guards, Lock(g) PROVE GuardType' /\ overlaid' \in BOOLEAN
  <2>1. overlaid' \in BOOLEAN
    BY <1>1, <1>4 DEF Lock, TypeOK
  <2>2. GuardType'
    BY <1>0, <1>2, <1>4 DEF GuardType, Lock, rdlock, wrlock
  <2> QED
    BY <2>1, <2>2
<1>5. ASSUME NEW g \in Guards, Unlock(g) \/ Close(g)
      PROVE  GuardType' /\ overlaid' \in BOOLEAN
  <2>1. overlaid' \in BOOLEAN
    BY <1>5, Zenon DEF TypeOK, Unlock, Close, GuardUnlock
  <2>2. writer' \in Threads \cup {NoThread} /\ readers' \in Int
    BY <1>0, <1>5 DEF GuardType, Unlock, Close, GuardUnlock, unlock
  <2>3. GuardType'
    BY <1>0, <1>5, <2>2 DEF GuardType, Unlock, Close, GuardUnlock
  <2> QED
    BY <2>1, <2>3
<1>6. CASE UNCHANGED vars
  <2>1. overlaid' \in BOOLEAN
    BY <1>6, Zenon DEF TypeOK, vars
  <2>2. GuardType'
    BY <1>0, <1>6 DEF GuardType, vars
  <2> QED
    BY <2>1, <2>2
<1> QED
  BY <1>3, <1>4, <1>5, <1>6 DEF Next

(* A guard that calls rdlock or wrlock in order.  If its thread has the    *)
(* lock for writing, the thread is inside no other scope.                  *)
LEMMA AsksAlone ==
  ASSUME TypeOK, ~overlaid', NEW g \in Guards, Asks(g), writer = g[1],
         NEW h \in Guards, inside[h], h[1] = g[1]
  PROVE  h = g /\ ~overlaid
  BY DEF Asks, TypeOK

(* A guard that reads is locked: by the constructor or by lock().          *)
LEMMA ReadLocked ==
  ASSUME LockInv, NEW g \in Guards, ~m_islocked[g], ~overlaid',
         Asks(g), rdlock(g[1]),
         m_islocked' = [m_islocked EXCEPT ![g] = TRUE],
         inside' = [inside EXCEPT ![g] = TRUE],
         scope' = [scope EXCEPT ![g] = "read"]
  PROVE  InOrder'
<1> USE ThreadsAssumption DEF TypeOK
<1>1. TypeOK /\ InOrder /\ ~overlaid
  BY DEF LockInv, Asks
<1>2. writer' = writer /\ writer \in {g[1], NoThread}
  BY DEF rdlock
<1>3. g[1] \in Threads
  BY DEF Guards
<1>4. (WriterAlone /\ InsideHolds /\ LockedInside)'
  BY <1>1, <1>2, <1>3
  DEF InOrder, WriterAlone, InsideHolds, LockedInside, rdlock
<1>5. WriterOnce'
  BY <1>1, <1>2, <1>3, AsksAlone DEF InOrder, WriterOnce
<1>6. CASE writer = g[1]
  <2>1. Reading' = Reading /\ readers' = readers
    BY <1>1, <1>2, <1>6 DEF Reading, rdlock
  <2> QED
    BY <1>1, <1>4, <1>5, <2>1 DEF InOrder, Counted
<1>7. CASE writer = NoThread
  <2>1. readers \in Nat
    BY <1>1, FS_CardinalityType DEF InOrder, Counted
  <2>2. readers' = readers + 1
    BY <1>3, <1>7, <2>1 DEF rdlock
  <2>3. Reading' = Reading \cup {g} /\ g \notin Reading
    BY <1>1, <1>2, <1>3, <1>7 DEF Reading
  <2>4. Counted'
    BY <1>1, <2>2, <2>3, ReaderAdded DEF InOrder
  <2> QED
    BY <1>4, <1>5, <2>4 DEF InOrder
<1> QED
  BY <1>2, <1>6, <1>7

(* A guard that writes has the lock, whatever it believes.                 *)
LEMMA WriteLocked ==
  ASSUME LockInv, NEW g \in Guards, ~m_islocked[g], ~overlaid',
         Asks(g), wrlock(g[1]), NEW b \in BOOLEAN,
         m_islocked' = [m_islocked EXCEPT ![g] = b],
         inside' = [inside EXCEPT ![g] = TRUE],
         scope' = [scope EXCEPT ![g] = "write"]
  PROVE  InOrder'
<1> USE ThreadsAssumption DEF TypeOK
<1>1. TypeOK /\ InOrder /\ ~overlaid
  BY DEF LockInv, Asks
<1>2. writer' = g[1] /\ readers' = readers
  BY DEF wrlock
<1>3. g[1] \in Threads /\ \A h \in Guards : h[1] \in Threads
  BY DEF Guards
<1>4. readers = 0 /\ Reading = {}
  BY <1>1, <1>3, FS_EmptySet DEF InOrder, WriterAlone, Counted, wrlock
<1>5. \A h \in Guards : m_islocked[h] \/ inside[h] => writer = g[1] /\ h[1] = g[1]
  BY <1>1, <1>3, <1>4 DEF wrlock, Reading, InOrder, InsideHolds, LockedInside
<1>6. \A h \in Guards : inside[h] => h = g
  BY <1>1, <1>5, AsksAlone
<1>7. Reading' = {}
  BY <1>1, <1>2, <1>5 DEF Reading
<1>8. Counted'
  BY <1>2, <1>4, <1>7, FS_EmptySet DEF Counted
<1>9. (WriterAlone /\ InsideHolds /\ LockedInside /\ WriterOnce)'
  BY <1>1, <1>2, <1>3, <1>4, <1>6
  DEF InOrder, WriterAlone, InsideHolds, LockedInside, WriterOnce
<1> QED
  BY <1>8, <1>9 DEF InOrder

(* The body of unlock() of a guard, which the destructor calls too.        *)
LEMMA GuardUnlocked ==
  ASSUME LockInv, ~overlaid', NEW g \in Guards, GuardUnlock(g),
         NEW kind \in {"none", scope[g]}, scope' = [scope EXCEPT ![g] = kind]
  PROVE  InOrder'
<1> USE ThreadsAssumption DEF TypeOK, GuardUnlock
<1>1. TypeOK /\ InOrder /\ ~overlaid
  BY DEF LockInv
<1>2. g[1] \in Threads
  BY DEF Guards
<1>3. CASE ~m_islocked[g]
  <2>1. Reading' = Reading /\ UNCHANGED <<writer, readers>>
    BY <1>1, <1>3 DEF Reading
  <2> QED
    BY <1>1, <1>3, <2>1
    DEF InOrder, WriterAlone, InsideHolds, LockedInside, WriterOnce, Counted
<1>4. CASE m_islocked[g] /\ writer = g[1]
  <2>1. writer' = NoThread /\ readers' = readers
    BY <1>4 DEF unlock
  <2>2. readers = 0 /\ Reading = {}
    BY <1>1, <1>2, <1>4, NoReaders DEF InOrder, WriterAlone
  <2>3. \A h \in Guards : m_islocked[h] \/ inside[h] => h = g
    BY <1>1, <1>4, <2>2 DEF Reading, InOrder, InsideHolds, LockedInside, WriterOnce
  <2>4. Reading' = {}
    BY <1>1, <1>4, <2>3 DEF Reading
  <2>5. Counted'
    BY <2>1, <2>2, <2>4, FS_EmptySet DEF Counted
  <2> QED
    BY <1>1, <2>1, <2>3, <2>5
    DEF InOrder, WriterAlone, InsideHolds, LockedInside, WriterOnce
<1>5. CASE m_islocked[g] /\ writer # g[1]
  <2>1. writer' = writer /\ readers' = readers - 1
    BY <1>5 DEF unlock
  <2>2. g \in Reading /\ Reading' = Reading \ {g}
    BY <1>1, <1>5, <2>1 DEF Reading
  <2>3. Counted' /\ writer = NoThread
    BY <1>1, <2>1, <2>2, ReaderRemoved, NoReaders DEF InOrder
  <2> QED
    BY <1>1, <2>1, <2>3
    DEF InOrder, WriterAlone, InsideHolds, LockedInside, WriterOnce
<1> QED
  BY <1>3, <1>4, <1>5

(* Every operation of a guard keeps the invariant.                         *)
LEMMA NextLockInv ==
  ASSUME LockInv, [Next]_vars PROVE LockInv'
<1>0. TypeOK'
  BY NextType DEF LockInv
<1> SUFFICES ASSUME ~overlaid' PROVE InOrder'
  BY <1>0 DEF LockInv
<1>t. TypeOK
  BY DEF LockInv
<1>1. ASSUME NEW g \in Guards, OpenRead(g) PROVE InOrder'
  <2>1. ~overlaid /\ scope[g] = "none"
    BY <1>1, <1>t DEF OpenRead, Open, Asks, TypeOK
  <2>2. ~m_islocked[g]
    BY <2>1 DEF LockInv, InOrder, InsideHolds, LockedInside
  <2> QED
    BY <1>1, <2>2, ReadLocked DEF OpenRead, Open
<1>2. ASSUME NEW g \in Guards, OpenWrite(g) PROVE InOrder'
  <2>1. ~overlaid /\ scope[g] = "none"
    BY <1>2, <1>t DEF OpenWrite, Open, Asks, TypeOK
  <2>2. ~m_islocked[g]
    BY <2>1 DEF LockInv, InOrder, InsideHolds, LockedInside
  <2> QED
    BY <1>2, <2>2, WriteLocked DEF OpenWrite, Open
<1>3. ASSUME NEW g \in Guards, Lock(g) PROVE InOrder'
  <2>1. CASE m_islocked[g]
    <3>1. ~overlaid /\ InOrder /\ inside[g]
      BY <1>3, <2>1 DEF Lock, LockInv, InOrder, LockedInside
    <3>2. UNCHANGED vars
      BY <1>3, <2>1, <3>1, <1>t DEF Lock, vars, TypeOK
    <3> QED
      BY <3>1, <3>2 DEF vars, InOrder, WriterAlone, InsideHolds, LockedInside,
                        WriterOnce, Counted, Reading
  <2>2. CASE ~m_islocked[g] /\ scope[g] = "read"
    <3>1. scope' = [scope EXCEPT ![g] = "read"]
      BY <1>3, <2>2, <1>t DEF Lock, TypeOK
    <3> QED
      BY <1>3, <2>2, <3>1, ReadLocked DEF Lock
  <2>3. CASE ~m_islocked[g] /\ scope[g] = "write"
    <3>1. scope' = [scope EXCEPT ![g] = "write"]
      BY <1>3, <2>3, <1>t DEF Lock, TypeOK
    <3> QED
      BY <1>3, <2>3, <3>1, WriteLocked DEF Lock
  <2> QED
    BY <1>3, <2>1, <2>2, <2>3 DEF Lock
<1>4. ASSUME NEW g \in Guards, Unlock(g) PROVE InOrder'
  <2>1. scope' = [scope EXCEPT ![g] = scope[g]]
    BY <1>4, <1>t DEF Unlock, TypeOK
  <2> QED
    BY <1>4, <2>1, GuardUnlocked DEF Unlock
<1>5. ASSUME NEW g \in Guards, Close(g) PROVE InOrder'
  BY <1>5, GuardUnlocked DEF Close
<1>6. CASE UNCHANGED vars
  BY <1>6 DEF LockInv, vars, InOrder, WriterAlone, InsideHolds, LockedInside,
              WriterOnce, Counted, Reading
<1> QED
  BY <1>1, <1>2, <1>3, <1>4, <1>5, <1>6 DEF Next

(* It is an invariant.                                                     *)
THEOREM LockInvCorrect == Spec => []LockInv
<1>1. LockInv /\ [Next]_vars => LockInv'
  BY NextLockInv
<1> QED
  BY InitLockInv, <1>1, PTL DEF Spec

(* Nobody is inside any scope of the mutex while another thread is inside  *)
(* a WriteLock scope, until guards are laid over a write lock.             *)
THEOREM ExclusionCorrect == Spec => []Exclusion
<1>1. LockInv => Exclusion
  <2> SUFFICES ASSUME LockInv, ~overlaid, NEW g \in Guards, NEW h \in Guards,
                      inside[g], scope[g] = "write", inside[h]
               PROVE  h[1] = g[1]
    BY DEF Exclusion
  <2>1. TypeOK /\ InOrder /\ writer = g[1] /\ g[1] \in Threads
    BY DEF LockInv, InOrder, InsideHolds, Guards
  <2>2. Reading = {}
    BY <2>1, NoReaders, ThreadsAssumption
  <2> QED
    BY <2>1, <2>2 DEF InOrder, InsideHolds, Reading
<1> QED
  BY LockInvCorrect, <1>1, PTL

(* Every guard that will unlock has a lock of its thread's to release, its *)
(* own reader or the write lock, until then.                               *)
THEOREM NoStrayUnlockCorrect == Spec => []NoStrayUnlock
<1>1. LockInv => NoStrayUnlock
  <2> SUFFICES ASSUME LockInv, ~overlaid PROVE NoStrayUnlock
    BY DEF NoStrayUnlock
  <2>1. TypeOK /\ InOrder
    BY DEF LockInv
  <2>2. ASSUME NEW g \in Guards, NEW h \in Guards, m_islocked[g], m_islocked[h],
               writer = g[1]
        PROVE  g = h
    <3>1. Reading = {}
      BY <2>1, <2>2, NoReaders, ThreadsAssumption DEF Guards
    <3> QED
      BY <2>1, <2>2, <3>1 DEF Reading, InOrder, LockedInside, WriterOnce
  <2>3. readers = Cardinality({g \in Guards : m_islocked[g] /\ g[1] # writer})
    BY <2>1 DEF InOrder, Counted, Reading
  <2> QED
    BY <2>2, <2>3 DEF NoStrayUnlock
<1> QED
  BY LockInvCorrect, <1>1, PTL

-----------------------------------------------------------------------------
(* CASLock.                                                                *)

CasProofs == INSTANCE CASLock_proofs WITH pc <- at, m_islocked <- cas_islocked

(* Both instances name the same definitions.                               *)
LEMMA SameInit == Cas!Init => CasProofs!Init
  BY DEF Cas!Init, CasProofs!Init

(* And a step of the run is one of the CASLock, or none.                   *)
LEMMA SameStep == [LocksNext]_<<vars, casVars, part>> => [CasProofs!Next]_(CasProofs!vars)
<1>1. Cas!Next => CasProofs!Next
  BY DEF Cas!Next, CasProofs!Next, Cas!Begin, CasProofs!Begin, Cas!Acquire,
         CasProofs!Acquire, Cas!Miss, CasProofs!Miss, Cas!Reset, CasProofs!Reset,
         Cas!Unlock, CasProofs!Unlock, Cas!Close, CasProofs!Close,
         Cas!GuardUnlock, CasProofs!GuardUnlock
<1>2. UNCHANGED casVars => UNCHANGED CasProofs!vars
  BY DEF casVars, CasProofs!vars
<1> QED
  BY <1>1, <1>2 DEF LocksNext

(* At most one thread has the CASLock, for any number of threads.          *)
THEOREM LocksMutualExclusion == LocksSpec => []MutualExclusion
<1>1. LocksInit => CasProofs!FlagInv
  BY SameInit, CasProofs!InitFlagInv DEF LocksInit
<1>2. CasProofs!FlagInv /\ [LocksNext]_<<vars, casVars, part>> => CasProofs!FlagInv'
  BY SameStep, CasProofs!NextFlagInv
<1>3. CasProofs!FlagInv => MutualExclusion
  BY DEF CasProofs!FlagInv, CasProofs!MutualExclusion, Cas!MutualExclusion, MutualExclusion
<1> QED
  BY <1>1, <1>2, <1>3, PTL DEF LocksSpec

=============================================================================
