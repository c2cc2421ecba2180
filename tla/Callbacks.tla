------------------------------ MODULE Callbacks ------------------------------
(***************************************************************************)
(* What an IOManager promises about a callback, however it was handed      *)
(* over: it waits for its event or its time if it was given one, is put    *)
(* on the list only after that, is run by one thread, and never again.     *)
(***************************************************************************)
CONSTANT Tasks

VARIABLE place  \* where each callback is

Place == {"out", "event", "timer", "ready", "list", "thread", "ended"}

TypeOK == place \in [Tasks -> Place]

Init == place = [k \in Tasks |-> "out"]

(* The callbacks of S go from one place to another, all at once.           *)
Move(S, from, to) ==
  /\ \A k \in S : place[k] = from
  /\ place' = [k \in Tasks |-> IF k \in S THEN to ELSE place[k]]

HandOver(k)    == \E to \in {"list", "event", "timer"} : Move({k}, "out", to)
BecomeReady(k) == \E from \in {"event", "timer"} : Move({k}, from, "ready")
Enlist(S)      == Move(S, "ready", "list")
Start(k)       == Move({k}, "list", "thread")
End(k)         == Move({k}, "thread", "ended")

Next ==
  \/ \E k \in Tasks : HandOver(k) \/ BecomeReady(k) \/ Start(k) \/ End(k)
  \/ \E S \in SUBSET Tasks : Enlist(S)

Spec == Init /\ [][Next]_place

=============================================================================
