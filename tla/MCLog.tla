-------------------------------- MODULE MCLog --------------------------------
(***************************************************************************)
(* An instance of the log library for TLC: a behaviour is one of the       *)
(* loggers, or the construction of one formatter.  The two share no state  *)
(* (to Loggers a pattern is good or bad; LogPattern says which are), and   *)
(* interleaving them would only multiply the bounds.                       *)
(***************************************************************************)
EXTENDS Loggers, LogPattern

VARIABLE part

LogInit ==
  /\ Init /\ PatternInit
  /\ part \in {"loggers", "pattern"} /\ (part = "loggers" => pattern = <<>>)

(* The threads around the loggers may stop, all waiting for a lock that    *)
(* nobody releases; initPattern may not, before it returns or throws.      *)
LogNext ==
  \/ part = "loggers" /\ (Next \/ UNCHANGED vars) /\ UNCHANGED <<patternVars, part>>
  \/ part = "pattern" /\ PatternNext /\ UNCHANGED <<vars, part>>

LogSpec == LogInit /\ [][LogNext]_<<vars, patternVars, part>>

Out(formatter, file) ==
  [type |-> "stdout", level |-> UNKNOW, formatter |-> formatter, file |-> file]

A(level, formatter, appenders) ==
  [name |-> "a", level |-> level, formatter |-> formatter, appenders |-> appenders]

(* No logger; a; a with another level and a second appender that throws; a *)
(* rejected; a with an appender of no known type; a silent but for errors, *)
(* and a root; a root without appenders.                                   *)
MCDocs == {
  {},
  {A(INFO, "ok", <<Out("", "f")>>)},
  {A(ERROR, "ok", <<Out("", "g"), Out("bad", "")>>)},
  {A(ERROR, "bad", <<>>)},
  {A(INFO, "ok", <<[Out("", "") EXCEPT !.type = "unknow"]>>)},
  {A(ERROR, "", <<>>), [A(INFO, "", <<Out("", "")>>) EXCEPT !.name = "root"]},
  {[A(INFO, "", <<>>) EXCEPT !.name = "root"]}}

=============================================================================
