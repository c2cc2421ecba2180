-------------------------------- MODULE RWLock --------------------------------
(***************************************************************************)
(* RWMutex of ddg/mutex.{h,cc} and its scoped guards ReadScopedLockImpl    *)
(* and WriteScopedLockImpl.  A thread may have several guards of the mutex *)
(* in scope, as config.cc (37, 65, 73) and log.cc (127 and 112) do.        *)
(*                                                                         *)
(* RWMutex only forwards to a pthread_rwlock_t; the std::logic_error of    *)
(* its error branches is constructed and not thrown, so a call that fails  *)
(* with EDEADLK or EAGAIN returns as if the lock had been taken.           *)
(***************************************************************************)
EXTENDS Integers, FiniteSets

CONSTANTS
  Threads, NoThread,
  Slots,     \* the guards of the mutex a thread may have in scope at a time
  MaxStray   \* bound: how far the count of readers may have gone below zero
             \* when a guard calls rdlock or wrlock

ASSUME ThreadsAssumption == NoThread \notin Threads

Guards == Threads \X Slots

VARIABLES
  writer,     \* pthread_rwlock_t: the thread that holds it for writing
  readers,    \* pthread_rwlock_t: the count of readers
  scope,      \* the kind of each guard in scope, or "none"
  m_islocked, \* the guard's m_islocked
  inside,     \* between lock and unlock as the code around the guard reads:
              \* after the constructor or lock(), before unlock() or the end
  overlaid    \* history: a guard locked what its thread had for writing (EDEADLK)
              \* while the thread was inside the scope of another guard

vars == <<writer, readers, scope, m_islocked, inside, overlaid>>

Init ==
  /\ writer = NoThread /\ readers = 0
  /\ scope = [g \in Guards |-> "none"]
  /\ m_islocked = [g \in Guards |-> FALSE]
  /\ inside = [g \in Guards |-> FALSE]
  /\ overlaid = FALSE

-----------------------------------------------------------------------------
(* RWMutex::rdlock, wrlock, unlock on glibc's lock: the writer that asks   *)
(* again gets EDEADLK and a reader EAGAIN on a count below -1, which       *)
(* RWMutex ignores; unlock gives up the write lock if the caller is the    *)
(* writer, else it counts one reader less.                                 *)

rdlock(t) ==
  /\ writer \in {t, NoThread}
  /\ readers' = IF writer = t \/ readers < -1 THEN readers ELSE readers + 1
  /\ UNCHANGED writer

(* Faulty variant: the readers are not waited for.                         *)
wrlock_Barges(t) ==
  /\ writer \in {t, NoThread}
  /\ writer' = t /\ UNCHANGED readers

wrlock(t) ==
  /\ writer = t \/ (writer = NoThread /\ readers = 0)
  /\ writer' = t /\ UNCHANGED readers

unlock(t) ==
  IF writer = t THEN writer' = NoThread /\ UNCHANGED readers
                ELSE readers' = readers - 1 /\ UNCHANGED writer

-----------------------------------------------------------------------------
(* The guards.                                                             *)

(* What rdlock or wrlock of the guard g finds.                             *)
Asks(g) ==
  /\ readers >= -MaxStray
  /\ overlaid' = (overlaid \/ (/\ writer = g[1]
                               /\ \E h \in Guards \ {g} : h[1] = g[1] /\ inside[h]))

Open(g, kind, islocked) ==
  /\ scope[g] = "none" /\ Asks(g)
  /\ scope' = [scope EXCEPT ![g] = kind]
  /\ m_islocked' = [m_islocked EXCEPT ![g] = islocked]
  /\ inside' = [inside EXCEPT ![g] = TRUE]

(* ReadScopedLockImpl(mutex).                                              *)
OpenRead(g) == rdlock(g[1]) /\ Open(g, "read", TRUE)

(* WriteScopedLockImpl(mutex): takes the lock and sets m_islocked = false. *)
OpenWrite(g) == wrlock(g[1]) /\ Open(g, "write", FALSE)

(* lock() of either guard.                                                 *)
Lock(g) ==
  /\ \/ m_islocked[g] /\ UNCHANGED <<writer, readers, overlaid>>
     \/ ~m_islocked[g] /\ Asks(g) /\ scope[g] = "read"  /\ rdlock(g[1])
     \/ ~m_islocked[g] /\ Asks(g) /\ scope[g] = "write" /\ wrlock(g[1])
  /\ m_islocked' = [m_islocked EXCEPT ![g] = TRUE]
  /\ inside' = [inside EXCEPT ![g] = TRUE]
  /\ UNCHANGED scope

(* Faulty variant: unlock() leaves m_islocked set, so that the destructor  *)
(* unlocks again.                                                          *)
GuardUnlock_Stale(g) ==
  /\ IF m_islocked[g] THEN unlock(g[1]) ELSE UNCHANGED <<writer, readers>>
  /\ inside' = [inside EXCEPT ![g] = FALSE]
  /\ UNCHANGED <<m_islocked, overlaid>>

(* unlock() of either guard: nothing unless m_islocked.                    *)
GuardUnlock(g) ==
  /\ IF m_islocked[g] THEN unlock(g[1]) ELSE UNCHANGED <<writer, readers>>
  /\ m_islocked' = [m_islocked EXCEPT ![g] = FALSE]
  /\ inside' = [inside EXCEPT ![g] = FALSE]
  /\ UNCHANGED overlaid

Unlock(g) == scope[g] # "none" /\ GuardUnlock(g) /\ UNCHANGED scope

(* The guard's destructor calls unlock().                                  *)
Close(g) ==
  /\ scope[g] # "none"
  /\ GuardUnlock(g)
  /\ scope' = [scope EXCEPT ![g] = "none"]

Next == \E g \in Guards :
  OpenRead(g) \/ OpenWrite(g) \/ Lock(g) \/ Unlock(g) \/ Close(g)

Spec == Init /\ [][Next]_vars

-----------------------------------------------------------------------------
TypeOK ==
  /\ writer \in Threads \cup {NoThread}
  /\ readers \in Int
  /\ scope \in [Guards -> {"none", "read", "write"}]
  /\ m_islocked \in [Guards -> BOOLEAN]
  /\ inside \in [Guards -> BOOLEAN]
  /\ overlaid \in BOOLEAN

(* While one thread is inside a WriteLock scope nobody else is inside any  *)
(* scope, although guards forget that they hold the lock, threads go on    *)
(* after EDEADLK, and scopes nest.  This ends when a thread that has the   *)
(* lock for writing, perhaps by a leak, locks it again inside a scope: the *)
(* guard that is unlocked first releases it under the others.              *)
Exclusion ==
  ~overlaid =>
    \A g, h \in Guards :
      inside[g] /\ scope[g] = "write" /\ inside[h] => h[1] = g[1]

(* A guard unlocks only a lock its thread holds: pthread_rwlock_unlock by  *)
(* anybody else is undefined, and would let go of another reader's lock.   *)
(* As readers are only counted this is a matter of numbers: each guard that*)
(* will unlock has its reader in the count, or is the writer's only one.   *)
(* It holds under the same condition.                                      *)
NoStrayUnlock ==
  ~overlaid =>
    /\ readers = Cardinality({g \in Guards : m_islocked[g] /\ g[1] # writer})
    /\ \A g, h \in Guards :
         m_islocked[g] /\ m_islocked[h] /\ writer \in {g[1], h[1]} => g = h

=============================================================================
