------------------------------ MODULE MutexTest -------------------------------
(***************************************************************************)
(* tests/test_mutex.cc: kNum threads open and close a WriteLock scope of   *)
(* one RWMutex 500 times each, incrementing sum; main joins them all and   *)
(* compares sum with kNum * 500.                                           *)
(***************************************************************************)
EXTENDS RWLock

CONSTANT Rounds     \* the 500 of run()

VARIABLES i, sum    \* the loop counter of every thread, and the global

testVars == <<vars, i, sum>>

TestInit == Init /\ i = [t \in Threads |-> 0] /\ sum = 0

(* The one scope of run() is a thread's only guard.                        *)
Scopes(t) == {g \in Guards : g[1] = t}

Enter(t) ==
  /\ i[t] < Rounds /\ \E g \in Scopes(t) : OpenWrite(g)
  /\ sum' = sum + 1
  /\ UNCHANGED i

Iterate(t) ==
  /\ \E g \in Scopes(t) : Close(g)
  /\ i' = [i EXCEPT ![t] = @ + 1]
  /\ UNCHANGED sum

Finished == \A t \in Threads : i[t] = Rounds

TestNext == (\E t \in Threads : Enter(t) \/ Iterate(t)) \/ (Finished /\ UNCHANGED testVars)

(* Every thread that can go on is scheduled.                               *)
TestSpec ==
  /\ TestInit /\ [][TestNext]_testVars
  /\ \A t \in Threads : WF_testVars(Enter(t) \/ Iterate(t))

(* test_mutex.cc: main gets past its joins and the sum is the target.      *)
Passed == <>(Finished /\ sum = Rounds * Cardinality(Threads))

=============================================================================
