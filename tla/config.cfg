SPECIFICATION Spec
CONSTANTS
  t1 = t1  t2 = t2  a = a  bad = bad  text = text  int = int  float = float
  Threads = {t1, t2}
  NoThread = nobody
  Names = {a}
  BadName = bad
  Types = {int, float}
  Values = {1, 2}
  BadText = text
  Docs <- MCDocs
  MaxVars = 2
  Used = {1}
  MaxKeys = 4
  MaxStray = 0
  Threshold = 3
  NoVar = none
SYMMETRY Symmetry
CHECK_DEADLOCK FALSE
INVARIANTS
  SameVariable ListenersInformed ListenerKept TableExclusive
