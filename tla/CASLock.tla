-------------------------------- MODULE CASLock -------------------------------
(***************************************************************************)
(* CASLock of ddg/mutex.{h,cc}, a spin lock on an atomic flag, used        *)
(* through its guard ScopedLockImpl<CASLock>.                              *)
(***************************************************************************)
EXTENDS Naturals

CONSTANT Threads

VARIABLES
  m_flag,     \* std::atomic<bool>
  expect,     \* the local of CASLock::lock, per thread
  pc,         \* "none": no guard; "cas", "reset": in lock(); "held"; and
              \* "open": the guard is in scope but was unlocked
  m_islocked  \* the guard's m_islocked

vars == <<m_flag, expect, pc, m_islocked>>

Init ==
  /\ m_flag = FALSE
  /\ expect = [t \in Threads |-> FALSE]
  /\ pc = [t \in Threads |-> "none"]
  /\ m_islocked = [t \in Threads |-> FALSE]

(* ScopedLockImpl(mutex), or lock() on a guard that was unlocked: calls    *)
(* CASLock::lock, which starts with expect = false.                        *)
Begin(t) ==
  /\ pc[t] = "none" \/ (pc[t] = "open" /\ ~m_islocked[t])
  /\ expect' = [expect EXCEPT ![t] = FALSE]
  /\ pc' = [pc EXCEPT ![t] = "cas"]
  /\ UNCHANGED <<m_flag, m_islocked>>

(* Faulty variant: the guard forgets that it has locked.                   *)
Acquire_Forgotten(t) ==
  /\ pc[t] = "cas" /\ m_flag = expect[t]
  /\ m_flag' = TRUE
  /\ pc' = [pc EXCEPT ![t] = "held"]
  /\ UNCHANGED <<expect, m_islocked>>

(* compare_exchange_weak(expect, true) succeeds ...                        *)
Acquire(t) ==
  /\ pc[t] = "cas" /\ m_flag = expect[t]
  /\ m_flag' = TRUE
  /\ pc' = [pc EXCEPT ![t] = "held"]
  /\ m_islocked' = [m_islocked EXCEPT ![t] = TRUE]
  /\ UNCHANGED expect

(* ... or fails, perhaps spuriously, and stores the flag into expect.      *)
Miss(t) ==
  /\ pc[t] = "cas"
  /\ expect' = [expect EXCEPT ![t] = m_flag]
  /\ pc' = [pc EXCEPT ![t] = "reset"]
  /\ UNCHANGED <<m_flag, m_islocked>>

(* Faulty variant: expect keeps what compare_exchange_weak stored.         *)
Reset_Missing(t) ==
  /\ pc[t] = "reset"
  /\ pc' = [pc EXCEPT ![t] = "cas"]
  /\ UNCHANGED <<m_flag, expect, m_islocked>>

(* The body of the loop: expect = false.                                   *)
Reset(t) ==
  /\ pc[t] = "reset"
  /\ expect' = [expect EXCEPT ![t] = FALSE]
  /\ pc' = [pc EXCEPT ![t] = "cas"]
  /\ UNCHANGED <<m_flag, m_islocked>>

(* ScopedLockImpl::unlock: CASLock::unlock stores false if m_islocked.     *)
GuardUnlock(t) ==
  /\ m_flag' = (m_flag /\ ~m_islocked[t])
  /\ m_islocked' = [m_islocked EXCEPT ![t] = FALSE]

Unlock(t) ==
  /\ pc[t] \in {"held", "open"}
  /\ GuardUnlock(t)
  /\ pc' = [pc EXCEPT ![t] = "open"]
  /\ UNCHANGED expect

(* ~ScopedLockImpl.                                                        *)
Close(t) ==
  /\ pc[t] \in {"held", "open"}
  /\ GuardUnlock(t)
  /\ pc' = [pc EXCEPT ![t] = "none"]
  /\ UNCHANGED expect

Next == \E t \in Threads :
  Begin(t) \/ Acquire(t) \/ Miss(t) \/ Reset(t) \/ Unlock(t) \/ Close(t)

Spec == Init /\ [][Next]_vars

(* Threads run, scopes end, and compare_exchange_weak does not fail        *)
(* spuriously for ever.                                                    *)
Fairness ==
  /\ \A t \in Threads : WF_vars(Reset(t)) /\ WF_vars(Close(t))
  /\ SF_vars(\E t \in Threads : Acquire(t))

FairSpec == Spec /\ Fairness

-----------------------------------------------------------------------------
TypeOK ==
  /\ m_flag \in BOOLEAN
  /\ expect \in [Threads -> BOOLEAN]
  /\ pc \in [Threads -> {"none", "cas", "reset", "held", "open"}]
  /\ m_islocked \in [Threads -> BOOLEAN]

(* At most one thread has the lock, though the flag says only that some    *)
(* thread has it, and the exchange succeeds whenever the flag is equal to  *)
(* what the thread expects.                                                *)
MutualExclusion ==
  \A t, u \in Threads : pc[t] = "held" /\ pc[u] = "held" => t = u

(* When a thread spins for the lock some thread gets it; the flag is never *)
(* left set by a scope that has ended.                                     *)
LockIsTaken ==
  (\E t \in Threads : pc[t] \in {"cas", "reset"}) ~> (\E t \in Threads : pc[t] = "held")

=============================================================================
