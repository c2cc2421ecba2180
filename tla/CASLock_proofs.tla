----------------------------- MODULE CASLock_proofs ----------------------------
(***************************************************************************)
(* The spin lock excludes, for any number of threads.                      *)
(***************************************************************************)
EXTENDS CASLock, TLAPS

(* The flag is set while a thread has the lock, the thread's guard knows   *)
(* it, and no thread enters the exchange expecting a flag that is set.     *)
FlagInv ==
  /\ TypeOK
  /\ \A t \in Threads : pc[t] = "held" => m_flag
  /\ \A t \in Threads : m_islocked[t] <=> pc[t] = "held"
  /\ \A t \in Threads : pc[t] = "cas" => ~expect[t]
  /\ MutualExclusion

LEMMA InitFlagInv == Init => FlagInv
  BY DEF Init, FlagInv, TypeOK, MutualExclusion

LEMMA NextFlagInv ==
  ASSUME FlagInv, [Next]_vars PROVE FlagInv'
<1> USE DEF FlagInv, TypeOK, MutualExclusion
<1>1. ASSUME NEW t \in Threads, Begin(t) PROVE FlagInv'
  BY <1>1 DEF Begin
<1>2. ASSUME NEW t \in Threads, Acquire(t) PROVE FlagInv'
  BY <1>2 DEF Acquire
<1>3. ASSUME NEW t \in Threads, Miss(t) PROVE FlagInv'
  BY <1>3 DEF Miss
<1>4. ASSUME NEW t \in Threads, Reset(t) PROVE FlagInv'
  BY <1>4 DEF Reset
<1>5. ASSUME NEW t \in Threads, Unlock(t) \/ Close(t) PROVE FlagInv'
  <2>1. CASE m_islocked[t]
    BY <1>5, <2>1 DEF Unlock, Close, GuardUnlock
  <2>2. CASE ~m_islocked[t]
    BY <1>5, <2>2 DEF Unlock, Close, GuardUnlock
  <2> QED
    BY <2>1, <2>2
<1>6. CASE UNCHANGED vars
  BY <1>6 DEF vars
<1> QED
  BY <1>1, <1>2, <1>3, <1>4, <1>5, <1>6 DEF Next

(* At most one thread has a CASLock.                                       *)
THEOREM MutualExclusionCorrect == Spec => []MutualExclusion
<1>1. FlagInv /\ [Next]_vars => FlagInv'
  BY NextFlagInv
<1>2. FlagInv => MutualExclusion
  BY DEF FlagInv
<1> QED
  BY InitFlagInv, <1>1, <1>2, PTL DEF Spec

================================================================================
