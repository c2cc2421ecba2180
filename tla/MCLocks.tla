------------------------------- MODULE MCLocks -------------------------------
(***************************************************************************)
(* A behaviour is one of an RWMutex and its guards or of a CASLock and its *)
(* guards, as the two share no state.                                      *)
(***************************************************************************)
EXTENDS RWLock

VARIABLES
  part,   \* "rwmutex" or "caslock"
  m_flag, expect, at, cas_islocked

Cas == INSTANCE CASLock WITH pc <- at, m_islocked <- cas_islocked

casVars == <<m_flag, expect, at, cas_islocked>>

LocksInit == Init /\ Cas!Init /\ part \in {"rwmutex", "caslock"}

(* The writers of an RWMutex may wait for ever on a leaked lock or a count *)
(* of readers that went below zero.                                        *)
LocksNext ==
  /\ UNCHANGED part
  /\ \/ part = "rwmutex" /\ Next /\ UNCHANGED casVars
     \/ part = "rwmutex" /\ UNCHANGED <<vars, casVars>>
     \/ part = "caslock" /\ Cas!Next /\ UNCHANGED vars

LocksSpec ==
  /\ LocksInit /\ [][LocksNext]_<<vars, casVars, part>>
  /\ Cas!Fairness

(* CASLock::MutualExclusion: see there.                                    *)
MutualExclusion == Cas!MutualExclusion

(* CASLock::LockIsTaken: see there.                                        *)
LockIsTaken == Cas!LockIsTaken

=============================================================================
