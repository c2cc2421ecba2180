------------------------------ MODULE TaskPool -------------------------------
(***************************************************************************)
(* What a scheduler promises about one task, whatever its threads do:      *)
(* a task is nowhere, waiting, or being run by somebody; it enters the     *)
(* pool only by being submitted; and once it has ended it is never run     *)
(* again, it can only be dropped.                                          *)
(***************************************************************************)
CONSTANT Tasks

VARIABLES
  place,    \* where each task is
  done      \* the tasks that have ended

vars == <<place, done>>

Place == {"out", "queued", "running"}

TypeOK == place \in [Tasks -> Place] /\ done \subseteq Tasks

Init == place = [t \in Tasks |-> "out"] /\ done = {}

Move(t, from, to) == place[t] = from /\ place' = [place EXCEPT ![t] = to]

Submit(t)  == Move(t, "out", "queued") /\ UNCHANGED done
Take(t)    == Move(t, "queued", "running") /\ t \notin done /\ UNCHANGED done
Finish(t)  == place[t] = "running" /\ t \notin done
              /\ done' = done \cup {t} /\ UNCHANGED place
Requeue(t) == Move(t, "running", "queued") /\ t \notin done /\ UNCHANGED done
Release(t) == Move(t, "running", "out") /\ UNCHANGED done
Drop(t)    == Move(t, "queued", "out") /\ t \in done /\ UNCHANGED done

Next == \E t \in Tasks :
  \/ Submit(t) \/ Take(t) \/ Finish(t) \/ Requeue(t) \/ Release(t) \/ Drop(t)

Spec == Init /\ [][Next]_vars

=============================================================================
