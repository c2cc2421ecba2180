----------------------------- MODULE MCScheduler -----------------------------
(* Instances of Scheduler for TLC: values for its constants.               *)
EXTENDS Scheduler

CONSTANTS main, w1, w2, c1, c2, f1, f2, root, nobody, none

NoPins    == {}
PinToMain == {main}

=============================================================================
