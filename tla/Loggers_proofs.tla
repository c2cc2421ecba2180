--------------------------- MODULE Loggers_proofs ---------------------------
(***************************************************************************)
(* Theorems about Loggers, for any number of threads, names, documents and *)
(* loggers.                                                                *)
(***************************************************************************)
EXTENDS Loggers, TLAPS, SequenceTheorems

(* A Logger object.                                                        *)
Logger == [name : Names, level : 1 .. UNKNOW \cup {Off}, appenders : Seq(Appender),
           root : BOOLEAN]

(* The places of the listener, which only Loader runs.                     *)
ListenerPoints == {"next", "setLevel", "clear", "append", "nullAppender", "switchOff",
                   "clearGone", "delLogger"}

(* The places of a thread inside Logger::log.                              *)
LogPoints == {"getLevel", "getName", "log", "write", "unwind"}

(* The places of a thread.                                                 *)
Points ==
  {"idle", "getLogger", "make", "getRoot", "dump"} \cup LogPoints \cup ListenerPoints

(* The arguments of a call, and where it returns to.                       *)
Call == [obj : Nat, from : Nat, level : 0 .. UNKNOW, name : Names, ret : Points]

(* The place of each thread and its call.                                  *)
CallTypes == pc \in [Threads -> Points] /\ call \in [Threads -> Call]

(* The table of the manager leads to loggers that were made.               *)
TableTypes ==
  /\ loggers \in Seq(Logger) /\ Len(loggers) \in 1 .. MaxLoggers
  /\ m_loggers \in [Names -> 0 .. Len(loggers)]
  /\ got \in [Threads -> 0 .. Len(loggers)]
  /\ removed \subseteq DOMAIN loggers

(* The locks: a writer excludes readers.                                   *)
LockTypes ==
  /\ writer \in [0 .. MaxLoggers -> Threads \cup {NoThread}]
  /\ readers \in [0 .. MaxLoggers -> SUBSET Threads]
  /\ \A o \in 0 .. MaxLoggers : writer[o] # NoThread => readers[o] = {}

(* The locals of the listener.                                             *)
JobRec == [new : SUBSET Define, done : SUBSET Names, cur : SUBSET Define, next : Nat \ {0}]

(* What was loaded and what the listener is at.                            *)
ConfTypes ==
  /\ m_val \subseteq Define /\ dirty \subseteq Names /\ job \in JobRec
  /\ badDoc \in BOOLEAN /\ crashed \in BOOLEAN

(* The levels are numbers.                                                 *)
LEMMA Levels == Root \in Nat /\ INFO \in 0 .. UNKNOW /\ ERROR \in 0 .. UNKNOW
  BY DEF Root, INFO, ERROR, UNKNOW

-----------------------------------------------------------------------------
(* Types.                                                                  *)

(* The fields of a define.                                                 *)
LEMMA DefineType ==
  ASSUME NEW d \in Define
  PROVE  /\ d.name \in Names /\ d.level \in 1 .. UNKNOW /\ d.appenders \in Seq(Appender)
         /\ d.formatter \in {"", "ok", "bad"}
         /\ \A k \in DOMAIN d.appenders : d.appenders[k] \in Appender
<1>1. /\ d.name \in Names /\ d.level \in 1 .. UNKNOW /\ d.appenders \in Seq(Appender)
      /\ d.formatter \in {"", "ok", "bad"}
  BY DEF Define
<1>2. d.appenders \in Seq(Appender)
  BY <1>1
<1>3. DOMAIN d.appenders = 1 .. Len(d.appenders)
  BY <1>2
<1>4. \A k \in DOMAIN d.appenders : d.appenders[k] \in Appender
  BY <1>2, <1>3
<1> QED
  BY <1>1, <1>4

(* Defines have names.                                                     *)
LEMMA NamesType ==
  ASSUME NEW defines \in SUBSET Define PROVE NamesOf(defines) \subseteq Names
  BY DefineType DEF NamesOf

(* A job consists of sets of defines and of names, and no job of empty     *)
(* ones.                                                                   *)
LEMMA JobTypes ==
  /\ NoJob \in JobRec /\ NoJob.new = {} /\ NoJob.done = {} /\ NoJob.cur = {}
  /\ \A j \in JobRec :
       j.new \subseteq Define /\ j.done \subseteq Names /\ j.cur \subseteq Define
  BY DEF NoJob, JobRec

(* What the listener does to its locals keeps their type.                  *)
LEMMA JobSteps ==
  ASSUME NEW j \in JobRec, NEW c \in SUBSET Define, NEW n \in SUBSET Names
  PROVE  /\ [j EXCEPT !.cur = c, !.next = 1] \in JobRec
         /\ [j EXCEPT !.next = @ + 1] \in JobRec
         /\ [j EXCEPT !.done = n] \in JobRec
         /\ [j EXCEPT !.done = n, !.cur = {}] \in JobRec
         /\ [NoJob EXCEPT !.new = c] \in JobRec
<1>1. [j EXCEPT !.cur = c, !.next = 1] \in JobRec
  <2> DEFINE k == [j EXCEPT !.cur = c]
  <2>1. k \in JobRec
    BY DEF JobRec
  <2>2. [j EXCEPT !.cur = c, !.next = 1] = [k EXCEPT !.next = 1]
    OBVIOUS
  <2> HIDE DEF k
  <2>3. [k EXCEPT !.next = 1] \in JobRec
    BY <2>1 DEF JobRec
  <2> QED
    BY <2>2, <2>3
<1>2. [j EXCEPT !.next = @ + 1] \in JobRec
  BY DEF JobRec
<1>3. [j EXCEPT !.done = n] \in JobRec
  BY DEF JobRec
<1>4. [j EXCEPT !.done = n, !.cur = {}] \in JobRec
  BY DEF JobRec
<1>5. [NoJob EXCEPT !.new = c] \in JobRec
  BY JobTypes DEF JobRec
<1> QED
  BY <1>1, <1>2, <1>3, <1>4, <1>5

(* A thread that called nothing returns to the user.                       *)
LEMMA NoCallType == NoCall \in Call /\ NoCall.obj = 0 /\ NoCall.ret = "idle"
  BY LoggersAssumption DEF NoCall, Call, Points, UNKNOW

(* A call of getLogger moves only the thread that calls.                   *)
LEMMA GetCall ==
  ASSUME CallTypes, NEW t \in Threads, NEW name \in Names, NEW ret \in Points,
         CallGetLogger(t, name, ret)
  PROVE  /\ pc' = [pc EXCEPT ![t] = "getLogger"]
         /\ call' \in [Threads -> Call]
         /\ call'[t].name = name /\ call'[t].ret = ret
         /\ \A u \in Threads \ {t} : call'[u] = call[u]
<1> DEFINE c == [NoCall EXCEPT !.name = name, !.ret = ret]
<1>1. c \in Call /\ c.name = name /\ c.ret = ret
  BY NoCallType DEF Call
<1>2. call' = [call EXCEPT ![t] = c] /\ pc' = [pc EXCEPT ![t] = "getLogger"]
  BY DEF CallGetLogger, Goto
<1> HIDE DEF c
<1> QED
  BY <1>1, <1>2 DEF CallTypes

(* A call of log moves only the thread that calls; it begins with the      *)
(* level of the logger, or with the root.                                  *)
LEMMA LogCall ==
  ASSUME CallTypes, NEW t \in Threads, NEW o \in Nat, NEW level \in 0 .. UNKNOW,
         NEW ret \in Points, CallLog(t, o, level, ret)
  PROVE  /\ pc' = [pc EXCEPT ![t] = IF o = Root THEN "getRoot" ELSE "getLevel"]
         /\ call' \in [Threads -> Call]
         /\ call'[t].obj = o /\ call'[t].from = o /\ call'[t].level = level
         /\ call'[t].ret = ret
         /\ \A u \in Threads \ {t} : call'[u] = call[u]
<1> DEFINE c == [NoCall EXCEPT !.obj = o, !.from = o, !.level = level, !.ret = ret]
<1>1. c \in Call /\ c.obj = o /\ c.from = o /\ c.level = level /\ c.ret = ret
  BY NoCallType DEF Call
<1>2. /\ call' = [call EXCEPT ![t] = c]
      /\ pc' = [pc EXCEPT ![t] = IF o = Root THEN "getRoot" ELSE "getLevel"]
  BY DEF CallLog, Goto
<1> HIDE DEF c
<1> QED
  BY <1>1, <1>2 DEF CallTypes

(* A return leads to where the call came from.                             *)
LEMMA Returned ==
  ASSUME CallTypes, NEW t \in Threads, Return(t)
  PROVE  /\ pc' = [pc EXCEPT ![t] = call[t].ret]
         /\ call' \in [Threads -> Call] /\ call'[t].ret = "idle" /\ call'[t].obj = 0
         /\ \A u \in Threads \ {t} : call'[u] = call[u]
  BY NoCallType DEF Return, Goto, CallTypes

(* A call that goes on with another logger.                                *)
LEMMA ObjCall ==
  ASSUME CallTypes, NEW t \in Threads, NEW o \in Nat, call' = [call EXCEPT ![t].obj = o]
  PROVE  /\ call' \in [Threads -> Call] /\ call'[t].obj = o
         /\ call'[t].from = call[t].from /\ call'[t].level = call[t].level
         /\ call'[t].name = call[t].name /\ call'[t].ret = call[t].ret
         /\ \A u \in Threads \ {t} : call'[u] = call[u]
<1> DEFINE c == [call[t] EXCEPT !.obj = o]
<1>0. call[t] \in Call
  BY DEF CallTypes
<1>1. /\ c \in Call /\ c.obj = o /\ c.from = call[t].from /\ c.level = call[t].level
      /\ c.name = call[t].name /\ c.ret = call[t].ret
  BY <1>0 DEF Call
<1>2. call' = [call EXCEPT ![t] = c]
  OBVIOUS
<1> HIDE DEF c
<1> QED
  BY <1>1, <1>2 DEF CallTypes

(* The define at hand is one.                                              *)
LEMMA CurrentType ==
  ASSUME NEW d \in job.cur
  PROVE  Current \in job.cur
  BY DEF Current

(* No thread is in a call initially.                                       *)
LEMMA InitCallTypes == Init => CallTypes
  BY NoCallType DEF Init, CallTypes, Points

(* Every step keeps the types of the calls.                                *)
LEMMA NextCallTypes ==
  ASSUME CallTypes, TableTypes, ConfTypes, [Next]_vars PROVE CallTypes'
<1> USE LoggersAssumption
    DEF CallTypes, Points, ListenerPoints, LogPoints
<1>0. \A t \in Threads : call[t] \in Call /\ call[t].ret \in Points
  BY DEF Call
<1>1. ASSUME NEW t \in Threads, User(t) PROVE CallTypes'
  <2>1. ASSUME NEW name \in Names, CallGetLogger(t, name, "idle")
        PROVE  CallTypes'
    BY <1>1, <2>1, GetCall DEF User
  <2>2. ASSUME NEW level \in UserLevels, NEW o \in {Root, got[t]} \ {0},
               CallLog(t, o, level, "idle")
        PROVE  CallTypes'
    <3>1. o \in Nat /\ level \in 0 .. UNKNOW
      BY <2>2, LoggersAssumption DEF TableTypes, Root, DEBUG, UNKNOW
    <3> QED
      BY <1>1, <2>2, <3>1, LogCall DEF User
  <2> QED
    BY <1>1, <2>1, <2>2 DEF User
<1>2. ASSUME NEW t \in Threads, GetLoggerEnter(t) PROVE CallTypes'
  BY <1>2, Returned, <1>0 DEF GetLoggerEnter, confVars, tableVars, Goto,
     WriteLock
<1>3. ASSUME NEW t \in Threads, MakeLogger(t) PROVE CallTypes'
  BY <1>3, Returned, <1>0 DEF MakeLogger, confVars, Goto, WriteLock, NewLogger
<1>4. ASSUME NEW t \in Threads, getRoot(t) PROVE CallTypes'
  BY <1>4, <1>0 DEF getRoot, confVars, tableVars, Goto, EndReadLocks,
     ReadBriefly
<1>5. ASSUME NEW t \in Threads, getLevel(t) PROVE CallTypes'
  BY <1>5, Returned, <1>0 DEF getLevel, confVars, tableVars, Goto,
     EndReadLocks, ReadBriefly
<1>6. ASSUME NEW t \in Threads, LogEnter(t) PROVE CallTypes'
  BY <1>6, <1>0 DEF LogEnter, confVars, tableVars, Goto, ReadLock, Passes
<1>7. ASSUME NEW t \in Threads, LogWrite(t) PROVE CallTypes'
  BY <1>7, ObjCall, Levels, <1>0 DEF LogWrite, lockVars, confVars, tableVars,
     Goto
<1>8. ASSUME NEW t \in Threads, LogReturns(t) PROVE CallTypes'
  BY <1>8, Returned, <1>0 DEF LogReturns, confVars, tableVars, Goto,
     EndReadLocks
<1>9. ASSUME NEW t \in Threads, DumpEnter(t) PROVE CallTypes'
  BY <1>9, <1>0 DEF DumpEnter, confVars, tableVars, Goto, ReadLock
<1>10. ASSUME NEW t \in Threads, DumpLogger(t) PROVE CallTypes'
  <2>1. PICK o \in Nat : call' = [call EXCEPT ![t].obj = o]
    <3>1. PICK o \in {m_loggers[name] : name \in Names} : call' = [call EXCEPT ![t].obj = o]
      BY <1>10 DEF DumpLogger
    <3>2. o \in Nat
      BY DEF TableTypes
    <3> QED
      BY <3>1, <3>2
  <2> QED
    BY <1>10, <2>1, ObjCall DEF DumpLogger
<1>11. ASSUME NEW t \in Threads, DumpReturns(t) PROVE CallTypes'
  BY <1>11, Returned, <1>0 DEF DumpReturns, confVars, tableVars, Goto,
     EndReadLocks
<1>12. ASSUME NEW doc \in Docs, Load(doc) PROVE CallTypes'
  <2>1. CASE Rejected(doc)
    BY <1>12, <2>1, LogCall, Levels DEF Load, lockVars, tableVars
  <2>2. CASE ~Rejected(doc)
    BY <1>12, <2>2, LogCall, Levels DEF Load, lockVars, tableVars
  <2> QED
    BY <2>1, <2>2
<1>13. ASSUME NextDefine PROVE CallTypes'
  <2>1. PICK d \in Define : CallGetLogger(Loader, d.name, "setLevel")
    BY <1>13, JobTypes DEF NextDefine, ToDo, ConfTypes
  <2>2. d.name \in Names
    BY DEF Define
  <2> QED
    BY <2>1, <2>2, GetCall
<1>14. ASSUME SetLevel PROVE CallTypes'
  BY <1>14, <1>0 DEF SetLevel, confVars, Goto, WriteLock
<1>15. ASSUME ClearAppender PROVE CallTypes'
  BY <1>15, <1>0 DEF ClearAppender, confVars, Goto, WriteLock
<1>16. ASSUME AddAppender PROVE CallTypes'
  BY <1>16, <1>0 DEF AddAppender, WriteLock, AppendersLeft
<1>17. ASSUME NullAppender PROVE CallTypes'
  BY <1>17, <1>0 DEF NullAppender, lockVars, confVars, tableVars,
     AppendersLeft
<1>18. ASSUME BadFormatter PROVE CallTypes'
  BY <1>18, LogCall, Levels, <1>0 DEF BadFormatter, lockVars, tableVars, Goto,
     NoJob, AppendersLeft
<1>19. ASSUME DefineDone PROVE CallTypes'
  BY <1>19, <1>0 DEF DefineDone, lockVars, tableVars, Goto, AppendersLeft
<1>20. ASSUME NextGone PROVE CallTypes'
  <2>1. NamesOf(m_val) \subseteq Names
    BY NamesType DEF ConfTypes
  <2>2. PICK name \in NamesOf(m_val) : CallGetLogger(Loader, name, "switchOff")
    BY <1>20 DEF NextGone, Gone
  <2> QED
    BY <2>1, <2>2, GetCall
<1>21. ASSUME SwitchOff PROVE CallTypes'
  BY <1>21, <1>0 DEF SwitchOff, confVars, Goto, WriteLock
<1>22. ASSUME ClearGone PROVE CallTypes'
  BY <1>22, <1>0 DEF ClearGone, confVars, Goto, WriteLock
<1>23. ASSUME delLogger PROVE CallTypes'
  BY <1>23, <1>0 DEF delLogger, confVars, Goto, WriteLock
<1>24. ASSUME SetValue PROVE CallTypes'
  BY <1>24, <1>0 DEF SetValue, lockVars, tableVars, Goto, NoJob
<1>25. CASE UNCHANGED vars
  BY <1>25 DEF vars, tableVars, lockVars, confVars
<1>26. ASSUME NEW t \in Threads, getName(t) PROVE CallTypes'
  BY <1>26, <1>0 DEF getName, confVars, tableVars, Goto, EndReadLocks,
     ReadBriefly
<1>27. ASSUME InvalidType PROVE CallTypes'
  BY <1>27, LogCall, Levels, <1>0 DEF InvalidType
<1> QED
  BY <1>1, <1>2, <1>3, <1>4, <1>5, <1>6, <1>7, <1>8, <1>9, <1>10, <1>11,
     <1>12, <1>13, <1>14, <1>15, <1>16, <1>17, <1>18, <1>19, <1>20, <1>21,
     <1>22, <1>23, <1>24, <1>25, <1>26, <1>27 DEF Next, Listener

-----------------------------------------------------------------------------
(* Who is where.                                                           *)

(* The places of a thread inside getLogger.                                *)
GetPoints == {"getLogger", "make"}

(* Only Loader is in the listener, and only the listener is returned to:   *)
(* from getLogger at its two uses, and from the messages it logs.          *)
Calls ==
  /\ \A t \in Threads : pc[t] \in ListenerPoints => t = Loader /\ call[t].ret = "idle"
  /\ \A t \in Threads :
       \/ call[t].ret = "idle"
       \/ t = Loader /\ call[t].ret \in {"next", "setLevel", "nullAppender", "switchOff"}
  /\ \A t \in Threads : call[t].ret \in {"setLevel", "switchOff"} => pc[t] \in GetPoints
  /\ \A t \in Threads :
       call[t].ret \in {"next", "nullAppender"} => pc[t] \in {"getRoot"} \cup LogPoints

(* Nobody is in the listener initially.                                    *)
LEMMA InitCalls == Init => Calls
  BY NoCallType DEF Init, Calls, ListenerPoints

(* Every call is made from, and returns to, where Calls says.              *)
LEMMA NextCalls ==
  ASSUME CallTypes, CallTypes', TableTypes, ConfTypes, Calls, [Next]_vars PROVE Calls'
<1> USE LoggersAssumption
    DEF CallTypes, Calls, Points, ListenerPoints, GetPoints, LogPoints
<1>0. \A t \in Threads : call[t] \in Call /\ call[t].ret \in Points
  BY DEF Call
<1>1. ASSUME NEW t \in Threads, User(t) PROVE Calls'
  <2>1. ASSUME NEW name \in Names, CallGetLogger(t, name, "idle")
        PROVE  Calls'
    BY <1>1, <2>1, GetCall DEF User
  <2>2. ASSUME NEW level \in UserLevels, NEW o \in {Root, got[t]} \ {0},
               CallLog(t, o, level, "idle")
        PROVE  Calls'
    <3>1. o \in Nat /\ level \in 0 .. UNKNOW
      BY <2>2, LoggersAssumption DEF TableTypes, Root, DEBUG, UNKNOW
    <3> QED
      BY <1>1, <2>2, <3>1, LogCall DEF User
  <2> QED
    BY <1>1, <2>1, <2>2 DEF User
<1>2. ASSUME NEW t \in Threads, GetLoggerEnter(t) PROVE Calls'
  BY <1>2, Returned, <1>0 DEF GetLoggerEnter, Goto
<1>3. ASSUME NEW t \in Threads, MakeLogger(t) PROVE Calls'
  <2>1. Return(t) /\ pc[t] = "make"
    BY <1>3 DEF MakeLogger
  <2>2. /\ pc'[t] = call[t].ret /\ call'[t].ret = "idle"
        /\ \A u \in Threads \ {t} : pc'[u] = pc[u] /\ call'[u] = call[u]
    BY <2>1, Returned
  <2> QED
    BY <2>1, <2>2
<1>4. ASSUME NEW t \in Threads, getRoot(t) PROVE Calls'
  BY <1>4, <1>0 DEF getRoot, Goto
<1>5. ASSUME NEW t \in Threads, getLevel(t) PROVE Calls'
  BY <1>5, Returned, <1>0 DEF getLevel, Goto
<1>6. ASSUME NEW t \in Threads, LogEnter(t) PROVE Calls'
  BY <1>6, <1>0 DEF LogEnter, Goto
<1>7. ASSUME NEW t \in Threads, LogWrite(t) PROVE Calls'
  BY <1>7, ObjCall, Levels, <1>0 DEF LogWrite, Goto
<1>8. ASSUME NEW t \in Threads, LogReturns(t) PROVE Calls'
  BY <1>8, Returned, <1>0 DEF LogReturns, Goto
<1>9. ASSUME NEW t \in Threads, DumpEnter(t) PROVE Calls'
  BY <1>9, <1>0 DEF DumpEnter, Goto
<1>10. ASSUME NEW t \in Threads, DumpLogger(t) PROVE Calls'
  <2>1. PICK o \in Nat : call' = [call EXCEPT ![t].obj = o]
    <3>1. PICK o \in {m_loggers[name] : name \in Names} : call' = [call EXCEPT ![t].obj = o]
      BY <1>10 DEF DumpLogger
    <3>2. o \in Nat
      BY DEF TableTypes
    <3> QED
      BY <3>1, <3>2
  <2> QED
    BY <1>10, <2>1, ObjCall DEF DumpLogger
<1>11. ASSUME NEW t \in Threads, DumpReturns(t) PROVE Calls'
  BY <1>11, Returned, <1>0 DEF DumpReturns, Goto
<1>12. ASSUME NEW doc \in Docs, Load(doc) PROVE Calls'
  <2>1. CASE Rejected(doc)
    BY <1>12, <2>1, LogCall, Levels DEF Load, lockVars, tableVars
  <2>2. CASE ~Rejected(doc)
    BY <1>12, <2>2, LogCall, Levels DEF Load, lockVars, tableVars
  <2> QED
    BY <2>1, <2>2
<1>13. ASSUME NextDefine PROVE Calls'
  <2>1. PICK d \in ToDo : /\ job' = [job EXCEPT !.cur = {d}, !.next = 1]
                          /\ CallGetLogger(Loader, d.name, "setLevel")
    BY <1>13 DEF NextDefine
  <2>2. d \in Define /\ d \in job.new /\ d.name \in Names /\ d.name \notin job.done
    BY DefineType, JobTypes DEF ToDo, ConfTypes
  <2>3. pc' = [pc EXCEPT ![Loader] = "getLogger"] /\ call'[Loader].ret = "setLevel"
        /\ call'[Loader].name = d.name
        /\ \A u \in Threads \ {Loader} : call'[u] = call[u]
    BY <2>1, <2>2, GetCall DEF Points, ListenerPoints
  <2> QED
    BY <1>13, <2>1, <2>2, <2>3 DEF NextDefine
<1>14. ASSUME SetLevel PROVE Calls'
  BY <1>14, <1>0 DEF SetLevel, Goto
<1>15. ASSUME ClearAppender PROVE Calls'
  BY <1>15, <1>0 DEF ClearAppender, Goto
<1>16. ASSUME AddAppender PROVE Calls'
  BY <1>16, <1>0 DEF AddAppender
<1>17. ASSUME NullAppender PROVE Calls'
  BY <1>17, <1>0 DEF NullAppender
<1>18. ASSUME BadFormatter PROVE Calls'
  BY <1>18, LogCall, Levels, <1>0 DEF BadFormatter, Goto
<1>19. ASSUME DefineDone PROVE Calls'
  BY <1>19, <1>0 DEF DefineDone, Goto
<1>20. ASSUME NextGone PROVE Calls'
  <2>0. NamesOf(m_val) \subseteq Names
    BY NamesType DEF ConfTypes
  <2>1. PICK name \in Gone : /\ job' = [job EXCEPT !.done = job.done \cup {name}]
                             /\ CallGetLogger(Loader, name, "switchOff")
    BY <1>20 DEF NextGone
  <2>2. name \in Names /\ name \notin NamesOf(job.new) /\ name \notin job.done
    BY <2>0 DEF Gone
  <2>3. pc' = [pc EXCEPT ![Loader] = "getLogger"] /\ call'[Loader].ret = "switchOff"
        /\ call'[Loader].name = name
        /\ \A u \in Threads \ {Loader} : call'[u] = call[u]
    BY <2>1, <2>2, GetCall DEF Points, ListenerPoints
  <2> QED
    BY <1>20, <2>1, <2>2, <2>3 DEF NextGone
<1>21. ASSUME SwitchOff PROVE Calls'
  BY <1>21, <1>0 DEF SwitchOff, Goto
<1>22. ASSUME ClearGone PROVE Calls'
  BY <1>22, <1>0 DEF ClearGone, Goto
<1>23. ASSUME delLogger PROVE Calls'
  BY <1>23, <1>0 DEF delLogger, Goto
<1>24. ASSUME SetValue PROVE Calls'
  BY <1>24, <1>0 DEF SetValue, Goto
<1>25. CASE UNCHANGED vars
  BY <1>25 DEF vars, tableVars, lockVars, confVars
<1>26. ASSUME NEW t \in Threads, getName(t) PROVE Calls'
  BY <1>26, <1>0 DEF getName, Goto
<1>27. ASSUME InvalidType PROVE Calls'
  BY <1>27, LogCall, Levels, <1>0 DEF InvalidType
<1> QED
  BY <1>1, <1>2, <1>3, <1>4, <1>5, <1>6, <1>7, <1>8, <1>9, <1>10, <1>11,
     <1>12, <1>13, <1>14, <1>15, <1>16, <1>17, <1>18, <1>19, <1>20, <1>21,
     <1>22, <1>23, <1>24, <1>25, <1>26, <1>27 DEF Next, Listener

-----------------------------------------------------------------------------
(* The locals of the listener.                                             *)

(* How far the listener is, whatever it has called.                        *)
Stage == IF pc[Loader] \in ListenerPoints THEN pc[Loader] ELSE call[Loader].ret

(* Defines are told apart by their names alone (LogDefine::operator<).     *)
Named(defines) == \A d, e \in defines : d.name = e.name => d = e

(* The locals of the listener at each stage: the define at hand is one of  *)
(* the new ones that is not done, a name at hand is of no new define.      *)
Job ==
  /\ Stage = "idle" => job = NoJob
  /\ Stage \in {"setLevel", "clear", "append"} =>
       \E d \in job.new :
         /\ job.cur = {d} /\ d.name \notin job.done
         /\ Stage = "setLevel" /\ pc[Loader] # "setLevel" => call[Loader].name = d.name
  /\ Stage = "switchOff" /\ pc[Loader] # "switchOff" =>
       call[Loader].name \in job.done \ NamesOf(job.new)
  /\ Named(job.new)
  /\ Dangerous(job.new) \/ Stage = "nullAppender" => badDoc

(* Nothing is loaded initially.                                            *)
LEMMA InitConfTypes == Init => ConfTypes
  BY JobTypes DEF Init, ConfTypes

(* The conversion of a document keeps names: it fills in what an appender  *)
(* inherits from its define.                                               *)
LEMMA FromYamlType ==
  ASSUME NEW doc \in Docs
  PROVE  FromYaml(doc) \subseteq Define /\ Named(FromYaml(doc))
<1> DEFINE Full(d) == [d EXCEPT !.appenders = [k \in DOMAIN @ |-> Inherit(@[k], d)]]
<1>1. ASSUME NEW d \in doc PROVE Full(d) \in Define /\ Full(d).name = d.name
  <2>1. d \in Define
    BY LoggersAssumption
  <2>2. ASSUME NEW k \in DOMAIN d.appenders PROVE Inherit(d.appenders[k], d) \in Appender
    <3>1. /\ d.appenders[k] \in Appender /\ d.level \in 1 .. UNKNOW
          /\ d.formatter \in {"", "ok", "bad"}
      BY <2>1, DefineType
    <3> QED
      BY <3>1 DEF Inherit, Appender
  <2> DEFINE ap == [k \in DOMAIN d.appenders |-> Inherit(d.appenders[k], d)]
  <2>3. ap \in Seq(Appender)
    <3>1. d.appenders \in Seq(Appender)
      BY <2>1, DefineType
    <3>2. DOMAIN d.appenders = 1 .. Len(d.appenders) /\ Len(d.appenders) \in Nat
      BY <3>1
    <3> QED
      BY <2>2, <3>2
  <2>4. Full(d) = [d EXCEPT !.appenders = ap]
    OBVIOUS
  <2>5. [d EXCEPT !.appenders = ap] \in Define /\ [d EXCEPT !.appenders = ap].name = d.name
    <3> HIDE DEF ap
    <3> QED
      BY <2>1, <2>3 DEF Define
  <2> QED
    BY <2>4, <2>5
<1>2. FromYaml(doc) = {Full(d) : d \in doc}
  BY DEF FromYaml
<1>3. \A d, e \in doc : d.name = e.name => d = e
  BY LoggersAssumption
<1> HIDE DEF Full
<1> QED
  BY <1>1, <1>2, <1>3 DEF Named

(* Every step keeps the types of what was loaded.                          *)
LEMMA NextConfTypes ==
  ASSUME CallTypes, CallTypes', TableTypes, ConfTypes, Job, Calls, [Next]_vars
  PROVE  ConfTypes'
<1> USE LoggersAssumption, JobTypes DEF ConfTypes
<1>1. ASSUME NEW t \in Threads, User(t) PROVE ConfTypes'
  BY <1>1 DEF User, confVars
<1>2. ASSUME NEW t \in Threads, GetLoggerEnter(t) PROVE ConfTypes'
  BY <1>2 DEF GetLoggerEnter, confVars
<1>3. ASSUME NEW t \in Threads, MakeLogger(t) PROVE ConfTypes'
  BY <1>3 DEF MakeLogger, confVars
<1>4. ASSUME NEW t \in Threads, getRoot(t) PROVE ConfTypes'
  BY <1>4 DEF getRoot, confVars
<1>5. ASSUME NEW t \in Threads, getLevel(t) PROVE ConfTypes'
  BY <1>5 DEF getLevel, confVars
<1>6. ASSUME NEW t \in Threads, LogEnter(t) PROVE ConfTypes'
  BY <1>6 DEF LogEnter, confVars
<1>7. ASSUME NEW t \in Threads, LogWrite(t) PROVE ConfTypes'
  BY <1>7 DEF LogWrite, confVars
<1>8. ASSUME NEW t \in Threads, LogReturns(t) PROVE ConfTypes'
  BY <1>8 DEF LogReturns, confVars
<1>9. ASSUME NEW t \in Threads, DumpEnter(t) PROVE ConfTypes'
  BY <1>9 DEF DumpEnter, confVars
<1>10. ASSUME NEW t \in Threads, DumpLogger(t) PROVE ConfTypes'
  BY <1>10 DEF DumpLogger, confVars
<1>11. ASSUME NEW t \in Threads, DumpReturns(t) PROVE ConfTypes'
  BY <1>11 DEF DumpReturns, confVars
<1>12. ASSUME NEW doc \in Docs, Load(doc) PROVE ConfTypes'
  <2>1. FromYaml(doc) \subseteq Define
    BY FromYamlType
  <2>2. [NoJob EXCEPT !.new = FromYaml(doc)] \in JobRec
    BY <2>1, JobSteps
  <2> QED
    BY <1>12, <2>2 DEF Load
<1>13. ASSUME NextDefine PROVE ConfTypes'
  <2>1. PICK d \in ToDo : /\ job' = [job EXCEPT !.cur = {d}, !.next = 1]
                          /\ CallGetLogger(Loader, d.name, "setLevel")
    BY <1>13 DEF NextDefine
  <2>2. d \in Define /\ d \in job.new /\ d.name \in Names /\ d.name \notin job.done
    BY DefineType, JobTypes DEF ToDo, ConfTypes
  <2>3. pc' = [pc EXCEPT ![Loader] = "getLogger"] /\ call'[Loader].ret = "setLevel"
        /\ call'[Loader].name = d.name
        /\ \A u \in Threads \ {Loader} : call'[u] = call[u]
    BY <2>1, <2>2, GetCall DEF Points, ListenerPoints
  <2>4. {d} \in SUBSET Define
    BY <2>2
  <2>5. job' \in JobRec
    BY <2>1, <2>4, JobSteps
  <2> QED
    BY <1>13, <2>5 DEF NextDefine
<1>14. ASSUME SetLevel PROVE ConfTypes'
  BY <1>14 DEF SetLevel, confVars, Goto, WriteLock
<1>15. ASSUME ClearAppender PROVE ConfTypes'
  BY <1>15 DEF ClearAppender, confVars, Goto, WriteLock
<1>16. ASSUME AddAppender PROVE ConfTypes'
  <2>1. job' \in JobRec
    BY <1>16, JobSteps DEF AddAppender
  <2> QED
    BY <1>16, <2>1 DEF AddAppender
<1>17. ASSUME NullAppender PROVE ConfTypes'
  BY <1>17 DEF NullAppender, lockVars, confVars, tableVars, AppendersLeft
<1>18. ASSUME BadFormatter PROVE ConfTypes'
  <2>1. NamesOf(job.cur) \subseteq Names
    BY NamesType
  <2> QED
    BY <1>18, <2>1 DEF BadFormatter
<1>19. ASSUME DefineDone PROVE ConfTypes'
  <2>1. Current \in job.new /\ job.cur = {Current} /\ Current.name \notin job.done
    <3>1. \E d \in job.new : job.cur = {d} /\ d.name \notin job.done
      BY <1>19 DEF DefineDone, Job, Stage, ListenerPoints
    <3> QED
      BY <3>1 DEF Current
  <2>2. Current.name \in Names
    BY <2>1, DefineType
  <2>3. job.done \cup {Current.name} \in SUBSET Names
    BY <2>2
  <2>4. job' \in JobRec
    BY <1>19, <2>3, JobSteps DEF DefineDone
  <2> QED
    BY <1>19, <2>4 DEF DefineDone
<1>20. ASSUME NextGone PROVE ConfTypes'
  <2>0. NamesOf(m_val) \subseteq Names
    BY NamesType DEF ConfTypes
  <2>1. PICK name \in Gone : /\ job' = [job EXCEPT !.done = job.done \cup {name}]
                             /\ CallGetLogger(Loader, name, "switchOff")
    BY <1>20 DEF NextGone
  <2>2. name \in Names /\ name \notin NamesOf(job.new) /\ name \notin job.done
    BY <2>0 DEF Gone
  <2>3. pc' = [pc EXCEPT ![Loader] = "getLogger"] /\ call'[Loader].ret = "switchOff"
        /\ call'[Loader].name = name
        /\ \A u \in Threads \ {Loader} : call'[u] = call[u]
    BY <2>1, <2>2, GetCall DEF Points, ListenerPoints
  <2>4. job.done \cup {name} \in SUBSET Names
    BY <2>2
  <2>5. job' \in JobRec
    BY <2>1, <2>4, JobSteps
  <2> QED
    BY <1>20, <2>5 DEF NextGone
<1>21. ASSUME SwitchOff PROVE ConfTypes'
  BY <1>21 DEF SwitchOff, confVars, Goto, WriteLock
<1>22. ASSUME ClearGone PROVE ConfTypes'
  BY <1>22 DEF ClearGone, confVars, Goto, WriteLock
<1>23. ASSUME delLogger PROVE ConfTypes'
  BY <1>23 DEF delLogger, confVars, Goto, WriteLock
<1>24. ASSUME SetValue PROVE ConfTypes'
  BY <1>24 DEF SetValue, lockVars, tableVars, Goto, NoJob
<1>25. CASE UNCHANGED vars
  BY <1>25 DEF vars, tableVars, lockVars, confVars
<1>26. ASSUME NEW t \in Threads, getName(t) PROVE ConfTypes'
  BY <1>26 DEF getName, confVars
<1>27. ASSUME InvalidType PROVE ConfTypes'
  BY <1>27 DEF InvalidType, lockVars, tableVars, confVars
<1> QED
  BY <1>1, <1>2, <1>3, <1>4, <1>5, <1>6, <1>7, <1>8, <1>9, <1>10, <1>11,
     <1>12, <1>13, <1>14, <1>15, <1>16, <1>17, <1>18, <1>19, <1>20, <1>21,
     <1>22, <1>23, <1>24, <1>25, <1>26, <1>27 DEF Next, Listener

(* The steps that any thread makes and that change no logger and no table. *)
Quiet(t) ==
  \/ User(t) \/ GetLoggerEnter(t) \/ getRoot(t) \/ getLevel(t) \/ getName(t)
  \/ LogEnter(t) \/ LogWrite(t) \/ LogReturns(t) \/ DumpEnter(t) \/ DumpLogger(t) \/ DumpReturns(t)

(* They change no logger and no table,                                     *)
LEMMA QuietTables ==
  ASSUME NEW t \in Threads, Quiet(t)
  PROVE  UNCHANGED tableVars
  BY DEF Quiet, User, GetLoggerEnter, getRoot, getLevel, getName, LogEnter, LogWrite,
     LogReturns,
         DumpEnter, DumpLogger, DumpReturns

(* nor what was loaded,                                                    *)
LEMMA QuietConf ==
  ASSUME NEW t \in Threads, Quiet(t) \/ MakeLogger(t)
  PROVE  UNCHANGED confVars
  BY DEF Quiet, User, GetLoggerEnter, getRoot, getLevel, getName, LogEnter, LogWrite,
     LogReturns,
         DumpEnter, DumpLogger, DumpReturns, MakeLogger

(* nor the place of another thread.                                        *)
LEMMA QuietOthers ==
  ASSUME CallTypes, TableTypes, NEW t \in Threads, Quiet(t) \/ MakeLogger(t)
  PROVE  \A u \in Threads \ {t} : pc'[u] = pc[u] /\ call'[u] = call[u] /\ got'[u] = got[u]
<1> DEFINE Same == \A u \in Threads \ {t} :
                     pc'[u] = pc[u] /\ call'[u] = call[u] /\ got'[u] = got[u]
<1> USE LoggersAssumption DEF CallTypes
<1>0. got \in [Threads -> 0 .. Len(loggers)] /\ "idle" \in Points
  BY DEF TableTypes, Points
<1>1. CASE User(t)
  <2>1. ASSUME NEW name \in Names, CallGetLogger(t, name, "idle")
        PROVE  Same
    BY <1>1, <2>1, GetCall DEF User
  <2>2. ASSUME NEW level \in UserLevels, NEW o \in {Root, got[t]} \ {0},
               CallLog(t, o, level, "idle")
        PROVE  Same
    <3>1. o \in Nat /\ level \in 0 .. UNKNOW
      BY <2>2, LoggersAssumption DEF TableTypes, Root, DEBUG, UNKNOW
    <3> QED
      BY <1>1, <2>2, <3>1, LogCall DEF User
  <2> QED
    BY <1>1, <2>1, <2>2 DEF User
<1>2. CASE GetLoggerEnter(t)
  BY <1>2, Returned, <1>0 DEF GetLoggerEnter, Goto
<1>3. CASE getRoot(t) \/ getName(t)
  BY <1>3, <1>0 DEF getRoot, getName, Goto
<1>4. CASE getLevel(t)
  BY <1>4, Returned, <1>0 DEF getLevel, Goto
<1>5. CASE LogEnter(t)
  BY <1>5, <1>0 DEF LogEnter, Goto
<1>6. CASE LogWrite(t)
  BY <1>6, ObjCall, Levels, <1>0 DEF LogWrite, Goto
<1>7. CASE LogReturns(t)
  BY <1>7, Returned, <1>0 DEF LogReturns, Goto
<1>8. CASE DumpEnter(t)
  BY <1>8, <1>0 DEF DumpEnter, Goto
<1>9. CASE DumpLogger(t)
  <2>1. PICK o \in Nat : call' = [call EXCEPT ![t].obj = o]
    <3>1. PICK o \in {m_loggers[name] : name \in Names} : call' = [call EXCEPT ![t].obj = o]
      BY <1>9 DEF DumpLogger
    <3>2. o \in Nat
      BY DEF TableTypes
    <3> QED
      BY <3>1, <3>2
  <2> QED
    BY <1>9, <2>1, ObjCall, <1>0 DEF DumpLogger
<1>10. CASE DumpReturns(t)
  BY <1>10, Returned, <1>0 DEF DumpReturns, Goto
<1>11. CASE MakeLogger(t)
  BY <1>11, Returned, <1>0 DEF MakeLogger, Goto
<1> QED
  BY <1>1, <1>2, <1>3, <1>4, <1>5, <1>6, <1>7, <1>8, <1>9, <1>10, <1>11 DEF
     Quiet

(* They move the listener neither, even if Loader makes them on its        *)
(* behalf.                                                                 *)
LEMMA StageKept ==
  ASSUME CallTypes, TableTypes, Calls, NEW t \in Threads, Quiet(t) \/ MakeLogger(t)
  PROVE  /\ Stage' = Stage
         /\ \A s \in {"setLevel", "switchOff"} : Stage = s /\ pc'[Loader] # s =>
              pc[Loader] # s /\ call'[Loader].name = call[Loader].name
<1> DEFINE Kept ==
      /\ Stage' = Stage
      /\ \A s \in {"setLevel", "switchOff"} : Stage = s /\ pc'[Loader] # s =>
           pc[Loader] # s /\ call'[Loader].name = call[Loader].name
<1>0. CASE t # Loader
  BY <1>0, QuietOthers, LoggersAssumption DEF Stage
<1> SUFFICES ASSUME t = Loader PROVE Kept
  BY <1>0
<1> USE LoggersAssumption DEF CallTypes, Calls, Stage, ListenerPoints, LogPoints, GetPoints
<1>b. "idle" \in Points /\ \A u \in Threads : call[u] \in Call
  BY DEF Points
<1>1. CASE User(t)
  <2>1. ASSUME NEW name \in Names, CallGetLogger(t, name, "idle")
        PROVE  Kept
    BY <1>1, <2>1, GetCall DEF User
  <2>2. ASSUME NEW level \in UserLevels, NEW o \in {Root, got[t]} \ {0},
               CallLog(t, o, level, "idle")
        PROVE  Kept
    <3>1. o \in Nat /\ level \in 0 .. UNKNOW
      BY <2>2, LoggersAssumption DEF TableTypes, Root, DEBUG, UNKNOW
    <3> QED
      BY <1>1, <2>2, <3>1, LogCall DEF User
  <2> QED
    BY <1>1, <2>1, <2>2 DEF User
<1>2. CASE GetLoggerEnter(t)
  BY <1>2, Returned, <1>b DEF GetLoggerEnter, Goto
<1>3. CASE getRoot(t) \/ getName(t)
  BY <1>3, <1>b DEF getRoot, getName, Goto
<1>4. CASE getLevel(t)
  BY <1>4, Returned, <1>b DEF getLevel, Goto
<1>5. CASE LogEnter(t)
  BY <1>5, <1>b DEF LogEnter, Goto
<1>6. CASE LogWrite(t)
  BY <1>6, ObjCall, Levels, <1>b DEF LogWrite, Goto
<1>7. CASE LogReturns(t)
  BY <1>7, Returned, <1>b DEF LogReturns, Goto
<1>8. CASE DumpEnter(t)
  BY <1>8, <1>b DEF DumpEnter, Goto
<1>9. CASE DumpLogger(t)
  <2>1. PICK o \in Nat : call' = [call EXCEPT ![t].obj = o]
    <3>1. PICK o \in {m_loggers[name] : name \in Names} : call' = [call EXCEPT ![t].obj = o]
      BY <1>9 DEF DumpLogger
    <3>2. o \in Nat
      BY DEF TableTypes
    <3> QED
      BY <3>1, <3>2
  <2> QED
    BY <1>9, <2>1, ObjCall, <1>b DEF DumpLogger
<1>10. CASE DumpReturns(t)
  BY <1>10, Returned, <1>b DEF DumpReturns, Goto
<1>11. CASE MakeLogger(t)
  BY <1>11, Returned, <1>b DEF MakeLogger, Goto
<1> QED
  BY <1>1, <1>2, <1>3, <1>4, <1>5, <1>6, <1>7, <1>8, <1>9, <1>10, <1>11 DEF
     Quiet

(* The define at hand, as the listener reads it.                           *)
LEMMA AtHand ==
  ASSUME Job, Stage \in {"setLevel", "clear", "append"}
  PROVE  /\ Current \in job.new /\ job.cur = {Current} /\ Current.name \notin job.done
         /\ Stage = "setLevel" /\ pc[Loader] # "setLevel" => call[Loader].name = Current.name
<1>1. PICK d \in job.new :
        /\ job.cur = {d} /\ d.name \notin job.done
        /\ Stage = "setLevel" /\ pc[Loader] # "setLevel" => call[Loader].name = d.name
  BY DEF Job
<1>2. Current = d
  BY <1>1 DEF Current
<1> QED
  BY <1>1, <1>2

(* No listener runs initially.                                             *)
LEMMA InitJob == Init => Job
<1> SUFFICES ASSUME Init PROVE Job
  OBVIOUS
<1>1. job = NoJob /\ Stage = "idle"
  BY NoCallType, LoggersAssumption DEF Init, Stage, ListenerPoints
<1> QED
  BY <1>1, JobTypes DEF Job, Named, Dangerous

(* The document of an appender of no known type is a dangerous one.        *)
LEMMA InvalidIsBad == ASSUME ConfTypes, Job, InvalidType PROVE badDoc
<1>1. Stage = "append" /\ AppendersLeft /\ Current.appenders[job.next].type = "unknow"
  BY DEF InvalidType, Stage, ListenerPoints
<1>2. Current \in job.new /\ Current \in Define /\ job.next \in Nat \ {0}
  BY <1>1, AtHand DEF ConfTypes, JobRec
<1>3. job.next \in DOMAIN Current.appenders
  <2>1. Current.appenders \in Seq(Appender)
    BY <1>2, DefineType
  <2> QED
    BY <1>1, <1>2, <2>1 DEF AppendersLeft
<1> QED
  BY <1>1, <1>2, <1>3 DEF Dangerous, Job

(* The listener takes the new defines one after the other, then the names  *)
(* that are gone.                                                          *)
LEMMA NextJob ==
  ASSUME CallTypes, CallTypes', TableTypes, ConfTypes, Calls, Job, [Next]_vars
  PROVE  Job'
<1>1. ASSUME NEW t \in Threads, Quiet(t) \/ MakeLogger(t) PROVE Job'
  <2>1. UNCHANGED job /\ UNCHANGED badDoc
    BY <1>1, QuietConf DEF confVars
  <2> QED
    BY <1>1, <2>1, StageKept DEF Job, Named, Dangerous, NamesOf
<1> USE LoggersAssumption
<1>p. {"idle", "next", "setLevel", "nullAppender", "switchOff"} \subseteq Points
      /\ pc[Loader] \in Points
      /\ DOMAIN pc = Threads /\ DOMAIN call = Threads
  BY DEF Points, ListenerPoints, CallTypes
<1>2. ASSUME NEW doc \in Docs, Load(doc) PROVE Job'
  <2>1. pc[Loader] = "idle" /\ Stage = "idle" /\ job = NoJob
    <3>1. pc[Loader] = "idle"
      BY <1>2 DEF Load
    <3>2. call[Loader].ret = "idle"
      BY <3>1 DEF Calls, GetPoints, LogPoints
    <3> QED
      BY <3>1, <3>2 DEF Stage, ListenerPoints, Job
  <2>2. CASE Rejected(doc)
    <3>1. CallLog(Loader, Root, ERROR, "idle") /\ UNCHANGED job
      BY <1>2, <2>2 DEF Load
    <3>2. Stage' = "idle"
      BY <3>1, <1>p, Levels, LogCall DEF Stage, ListenerPoints
    <3> QED
      BY <2>1, <3>1, <3>2, JobTypes DEF Job, Named, Dangerous
  <2>3. CASE ~Rejected(doc)
    <3>1. /\ CallLog(Loader, Root, INFO, "next")
          /\ job' = [NoJob EXCEPT !.new = FromYaml(doc)]
          /\ badDoc' = (badDoc \/ Dangerous(FromYaml(doc)))
      BY <1>2, <2>3 DEF Load
    <3>2. Stage' = "next"
      BY <3>1, <1>p, Levels, LogCall DEF Stage, ListenerPoints
    <3>3. job'.new = FromYaml(doc)
      BY <3>1 DEF NoJob
    <3>4. Dangerous(FromYaml(doc)) => badDoc'
      BY <3>1
    <3>5. Named(FromYaml(doc))
      BY FromYamlType
    <3> QED
      BY <3>2, <3>3, <3>4, <3>5 DEF Job, Named, Dangerous
  <2> QED
    BY <2>2, <2>3
<1>3. CASE NextDefine
  <2>1. PICK d \in ToDo : /\ job' = [job EXCEPT !.cur = {d}, !.next = 1]
                          /\ CallGetLogger(Loader, d.name, "setLevel")
    BY <1>3 DEF NextDefine
  <2>2. d \in Define /\ d \in job.new /\ d.name \in Names /\ d.name \notin job.done
    BY DefineType, JobTypes DEF ToDo, ConfTypes
  <2>3. pc' = [pc EXCEPT ![Loader] = "getLogger"] /\ call'[Loader].ret = "setLevel"
        /\ call'[Loader].name = d.name
        /\ \A u \in Threads \ {Loader} : call'[u] = call[u]
    BY <2>1, <2>2, GetCall DEF Points, ListenerPoints
  <2>4. Stage' = "setLevel" /\ UNCHANGED badDoc
    BY <1>3, <2>3, <1>p DEF NextDefine, Stage, ListenerPoints
  <2>5. job'.new = job.new /\ job'.done = job.done /\ job'.cur = {d}
    BY <2>1 DEF ConfTypes, JobRec
  <2> QED
    BY <2>2, <2>3, <2>4, <2>5 DEF Job, Named, Dangerous
<1>4. CASE SetLevel
  <2>1. Stage' = "clear" /\ UNCHANGED job /\ UNCHANGED badDoc /\ pc'[Loader] = "clear"
    BY <1>4, <1>p DEF SetLevel, Stage, ListenerPoints, Goto, confVars
  <2> QED
    BY <1>4, <2>1 DEF SetLevel, Job, Stage, ListenerPoints, Named, Dangerous,
       NamesOf
<1>5. CASE ClearAppender
  <2>1. Stage' = "append" /\ UNCHANGED job /\ UNCHANGED badDoc /\ pc'[Loader] = "append"
    BY <1>5, <1>p DEF ClearAppender, Stage, ListenerPoints, Goto, confVars
  <2> QED
    BY <1>5, <2>1 DEF ClearAppender, Job, Stage, ListenerPoints, Named,
       Dangerous, NamesOf
<1>6. CASE AddAppender
  <2>1. Stage' = Stage /\ UNCHANGED <<badDoc, pc, call>>
    BY <1>6 DEF AddAppender, Stage
  <2>2. job'.new = job.new /\ job'.done = job.done /\ job'.cur = job.cur
    BY <1>6 DEF AddAppender, ConfTypes, JobRec
  <2>3. Stage = "append"
    BY <1>6 DEF AddAppender, Stage, ListenerPoints
  <2> QED
    BY <2>1, <2>2, <2>3 DEF Job, Named, Dangerous, NamesOf
<1>16. CASE InvalidType
  <2>1. Stage' = "nullAppender" /\ Stage = "append" /\ UNCHANGED <<job, badDoc>>
    BY <1>16, <1>p, Levels, LogCall DEF InvalidType, Stage, ListenerPoints, confVars
  <2>4. badDoc
    BY <1>16, InvalidIsBad
  <2> QED
    BY <2>1, <2>4 DEF Job, Named
<1>7. CASE NullAppender
  <2>1. Stage' = Stage /\ UNCHANGED <<job, badDoc, pc, call>>
    BY <1>7 DEF NullAppender, Stage, confVars
  <2> QED
    BY <2>1 DEF Job, Named, Dangerous, NamesOf
<1>8. CASE BadFormatter
  <2>1. Stage' = "idle" /\ job' = NoJob
    BY <1>8, <1>p, Levels, LogCall DEF BadFormatter, Stage, ListenerPoints
  <2> QED
    BY <2>1, JobTypes DEF Job, Named, Dangerous
<1>9. CASE DefineDone
  <2>1. Stage' = "next" /\ UNCHANGED badDoc
    BY <1>9, <1>p DEF DefineDone, Stage, ListenerPoints, Goto
  <2>2. job'.new = job.new
    BY <1>9 DEF DefineDone, ConfTypes, JobRec
  <2> QED
    BY <2>1, <2>2 DEF Job, Named, Dangerous
<1>10. CASE NextGone
  <2>0. NamesOf(m_val) \subseteq Names
    BY NamesType DEF ConfTypes
  <2>1. PICK name \in Gone : /\ job' = [job EXCEPT !.done = job.done \cup {name}]
                             /\ CallGetLogger(Loader, name, "switchOff")
    BY <1>10 DEF NextGone
  <2>2. name \in Names /\ name \notin NamesOf(job.new) /\ name \notin job.done
    BY <2>0 DEF Gone
  <2>3. pc' = [pc EXCEPT ![Loader] = "getLogger"] /\ call'[Loader].ret = "switchOff"
        /\ call'[Loader].name = name
        /\ \A u \in Threads \ {Loader} : call'[u] = call[u]
    BY <2>1, <2>2, GetCall DEF Points, ListenerPoints
  <2>4. Stage' = "switchOff" /\ UNCHANGED badDoc
    BY <1>10, <2>3, <1>p DEF NextGone, Stage, ListenerPoints
  <2>5. job'.new = job.new /\ job'.done = job.done \cup {name}
    BY <2>1 DEF ConfTypes, JobRec
  <2> QED
    BY <2>2, <2>3, <2>4, <2>5 DEF Job, Named, Dangerous, NamesOf
<1>11. CASE SwitchOff
  <2>1. Stage' = "clearGone" /\ UNCHANGED job /\ UNCHANGED badDoc /\ pc'[Loader] = "clearGone"
    BY <1>11, <1>p DEF SwitchOff, Stage, ListenerPoints, Goto, confVars
  <2> QED
    BY <1>11, <2>1 DEF SwitchOff, Job, Stage, ListenerPoints, Named,
       Dangerous, NamesOf
<1>12. CASE ClearGone
  <2>1. Stage' = "delLogger" /\ UNCHANGED job /\ UNCHANGED badDoc /\ pc'[Loader] = "delLogger"
    BY <1>12, <1>p DEF ClearGone, Stage, ListenerPoints, Goto, confVars
  <2> QED
    BY <1>12, <2>1 DEF ClearGone, Job, Stage, ListenerPoints, Named,
       Dangerous, NamesOf
<1>13. CASE delLogger
  <2>1. Stage' = "next" /\ UNCHANGED job /\ UNCHANGED badDoc /\ pc'[Loader] = "next"
    BY <1>13, <1>p DEF delLogger, Stage, ListenerPoints, Goto, confVars
  <2> QED
    BY <1>13, <2>1 DEF delLogger, Job, Stage, ListenerPoints, Named,
       Dangerous, NamesOf
<1>14. CASE SetValue
  <2>1. Stage' = "idle" /\ job' = NoJob
    BY <1>14, <1>p DEF SetValue, Stage, ListenerPoints, Goto, Calls
  <2> QED
    BY <2>1, JobTypes DEF Job, Named, Dangerous
<1>15. CASE UNCHANGED vars
  <2>1. Stage' = Stage /\ UNCHANGED <<job, badDoc, pc, call>>
    BY <1>15 DEF vars, Stage, confVars
  <2> QED
    BY <2>1 DEF Job, Named, Dangerous, NamesOf
<1> QED
  BY <1>1, <1>2, <1>3, <1>4, <1>5, <1>6, <1>7, <1>8, <1>9, <1>10, <1>11,
     <1>12, <1>13, <1>14, <1>15, <1>16 DEF Next, Listener, Quiet

-----------------------------------------------------------------------------
(* The loggers, the table, and how a step changes them.                    *)

(* The places of the listener at which it has a logger in its hands.       *)
LoggerPoints == {"setLevel", "clear", "append", "switchOff", "clearGone", "delLogger"}

(* That logger is the one the table has under the name at hand.            *)
Hands ==
  /\ pc[Loader] \in LoggerPoints \/ Stage = "nullAppender" => got[Loader] # 0
  /\ pc[Loader] \in {"setLevel", "clear", "append"} => got[Loader] = m_loggers[Current.name]
  /\ pc[Loader] \in {"switchOff", "clearGone", "delLogger"} =>
       /\ m_loggers[loggers[got[Loader]].name] = got[Loader]
       /\ loggers[got[Loader]].name \in job.done \ NamesOf(job.new)

(* A thread that logs does so through a logger that was made.              *)
Objects ==
  \A t \in Threads : pc[t] \in {"getRoot"} \cup LogPoints => call[t].obj \in DOMAIN loggers

(* The fields of a logger that was made.                                   *)
LEMMA LoggerType ==
  ASSUME TableTypes, NEW o \in DOMAIN loggers
  PROVE  /\ loggers[o] \in Logger /\ loggers[o].name \in Names
         /\ loggers[o].level \in 1 .. UNKNOW \cup {Off}
         /\ loggers[o].appenders \in Seq(Appender) /\ loggers[o].root \in BOOLEAN
<1>1. loggers[o] \in Logger
  BY DEF TableTypes
<1> QED
  BY <1>1 DEF Logger

(* The step changes no logger but o, and of o neither name nor root.       *)
Touched(o) ==
  /\ Len(loggers') = Len(loggers) /\ DOMAIN loggers' = DOMAIN loggers
  /\ loggers'[o].name = loggers[o].name /\ loggers'[o].root = loggers[o].root
  /\ \A p \in DOMAIN loggers \ {o} : loggers'[p] = loggers[p]

(* An assignment to a logger.                                              *)
LEMMA ObjectSet ==
  ASSUME TableTypes, NEW o \in DOMAIN loggers, NEW r \in Logger,
         loggers' = [loggers EXCEPT ![o] = r]
  PROVE  /\ loggers' \in Seq(Logger) /\ Len(loggers') = Len(loggers)
         /\ DOMAIN loggers' = DOMAIN loggers
         /\ loggers'[o] = r /\ \A p \in DOMAIN loggers \ {o} : loggers'[p] = loggers[p]
<1>1. loggers \in Seq(Logger)
  BY DEF TableTypes
<1>2. /\ DOMAIN loggers = 1 .. Len(loggers) /\ Len(loggers) \in Nat
      /\ loggers \in [1 .. Len(loggers) -> Logger]
  BY <1>1
<1>3. loggers' \in [1 .. Len(loggers) -> Logger] /\ DOMAIN loggers' = 1 .. Len(loggers)
  BY <1>2
<1>4. loggers' \in Seq(Logger)
  BY <1>2, <1>3
<1>5. Len(loggers') = Len(loggers)
  BY <1>2, <1>3, <1>4
<1> QED
  BY <1>2, <1>3, <1>4, <1>5

(* setLevel on a logger.                                                   *)
LEMMA LevelSet ==
  ASSUME TableTypes, NEW o \in DOMAIN loggers, NEW l \in 1 .. UNKNOW \cup {Off},
         loggers' = [loggers EXCEPT ![o].level = l]
  PROVE  /\ loggers' \in Seq(Logger) /\ Touched(o)
         /\ loggers'[o].level = l /\ loggers'[o].appenders = loggers[o].appenders
<1> DEFINE r == [loggers[o] EXCEPT !.level = l]
<1>0. loggers[o] \in Logger
  BY LoggerType
<1>1. /\ r \in Logger /\ r.level = l /\ r.appenders = loggers[o].appenders
      /\ r.name = loggers[o].name /\ r.root = loggers[o].root
  BY <1>0 DEF Logger
<1>2. loggers' = [loggers EXCEPT ![o] = r] /\ loggers \in Seq(Logger)
  BY DEF TableTypes
<1> HIDE DEF r
<1>3. /\ loggers' \in Seq(Logger) /\ Len(loggers') = Len(loggers)
      /\ DOMAIN loggers' = DOMAIN loggers
      /\ loggers'[o] = r /\ \A p \in DOMAIN loggers \ {o} : loggers'[p] = loggers[p]
  BY <1>1, <1>2, ObjectSet
<1> QED
  BY <1>1, <1>3 DEF Touched

(* clearAppender and addAppender on a logger.                              *)
LEMMA AppendersSet ==
  ASSUME TableTypes, NEW o \in DOMAIN loggers, NEW ap \in Seq(Appender),
         loggers' = [loggers EXCEPT ![o].appenders = ap]
  PROVE  /\ loggers' \in Seq(Logger) /\ Touched(o)
         /\ loggers'[o].appenders = ap /\ loggers'[o].level = loggers[o].level
<1> DEFINE r == [loggers[o] EXCEPT !.appenders = ap]
<1>0. loggers[o] \in Logger
  BY LoggerType
<1>1. /\ r \in Logger /\ r.level = loggers[o].level /\ r.appenders = ap
      /\ r.name = loggers[o].name /\ r.root = loggers[o].root
  BY <1>0 DEF Logger
<1>2. loggers' = [loggers EXCEPT ![o] = r] /\ loggers \in Seq(Logger)
  BY DEF TableTypes
<1> HIDE DEF r
<1>3. /\ loggers' \in Seq(Logger) /\ Len(loggers') = Len(loggers)
      /\ DOMAIN loggers' = DOMAIN loggers
      /\ loggers'[o] = r /\ \A p \in DOMAIN loggers \ {o} : loggers'[p] = loggers[p]
  BY <1>1, <1>2, ObjectSet
<1> QED
  BY <1>1, <1>3 DEF Touched

(* getLogger makes a logger, and enters it in the table under the name     *)
(* that was asked for.                                                     *)
LEMMA Made ==
  ASSUME CallTypes, TableTypes, NEW t \in Threads, MakeLogger(t)
  PROVE  LET n == Len(loggers) + 1 IN
         /\ pc[t] = "make" /\ n <= MaxLoggers
         /\ loggers' \in Seq(Logger) /\ Len(loggers') = n
         /\ DOMAIN loggers' = DOMAIN loggers \cup {n} /\ n \notin DOMAIN loggers
         /\ \A p \in DOMAIN loggers : loggers'[p] = loggers[p]
         /\ loggers'[n].name = call[t].name /\ loggers'[n].level = DEBUG
         /\ loggers'[n].root
         /\ call[t].name \in Names
         /\ m_loggers' = [m_loggers EXCEPT ![call[t].name] = n]
         /\ got' = [got EXCEPT ![t] = n] /\ UNCHANGED removed
         /\ WriteLock(t, n) /\ UNCHANGED readers /\ Return(t)
<1> DEFINE n == Len(loggers) + 1
<1> DEFINE r == NewLogger(call[t].name)
<1>1. call[t].name \in Names
  BY DEF CallTypes, Call
<1>2. r \in Logger /\ r.name = call[t].name /\ r.level = DEBUG /\ r.root
  BY <1>1 DEF NewLogger, Logger, DEBUG, UNKNOW
<1>3. loggers' = Append(loggers, r) /\ loggers \in Seq(Logger)
  BY DEF MakeLogger, TableTypes
<1> HIDE DEF r
<1>4. /\ loggers' \in Seq(Logger) /\ Len(loggers') = n
      /\ \A p \in 1 .. Len(loggers) : loggers'[p] = loggers[p]
      /\ loggers'[n] = r
  BY <1>2, <1>3, AppendProperties
<1>5. DOMAIN loggers = 1 .. Len(loggers) /\ DOMAIN loggers' = 1 .. n /\ Len(loggers) \in Nat
  BY <1>3, <1>4
<1> QED
  BY <1>1, <1>2, <1>4, <1>5 DEF MakeLogger

(* A thread gets a logger from the table.                                  *)
LEMMA QuietGot ==
  ASSUME NEW t \in Threads, Quiet(t)
  PROVE  \/ UNCHANGED got
         \/ /\ pc[t] = "getLogger" /\ m_loggers[call[t].name] # 0
            /\ got' = [got EXCEPT ![t] = m_loggers[call[t].name]] /\ Return(t)
  BY DEF Quiet, User, GetLoggerEnter, getRoot, getLevel, getName, LogEnter, LogWrite,
     LogReturns,
         DumpEnter, DumpLogger, DumpReturns

(* What the listener has in its hands was made.                            *)
LEMMA GotDomain ==
  ASSUME CallTypes, TableTypes, Hands, pc[Loader] \in LoggerPoints \/ Stage = "nullAppender"
  PROVE  got[Loader] \in DOMAIN loggers /\ got[Loader] \in 1 .. MaxLoggers
<1>1. got[Loader] \in 0 .. Len(loggers) /\ got[Loader] # 0
  BY LoggersAssumption DEF TableTypes, Hands
<1>2. loggers \in Seq(Logger) /\ Len(loggers) \in 1 .. MaxLoggers /\ MaxLoggers \in Nat
  BY LoggersAssumption DEF TableTypes
<1> QED
  BY <1>1, <1>2

(* Only the root is made initially.                                        *)
LEMMA InitTableTypes == Init => TableTypes
<1> SUFFICES ASSUME Init PROVE TableTypes
  OBVIOUS
<1> DEFINE r == [name |-> RootName, level |-> DEBUG, appenders |-> <<StdoutAppender>>,
                 root |-> FALSE]
<1>1. StdoutAppender \in Appender
  BY DEF StdoutAppender, Appender, DEBUG, UNKNOW
<1>2. <<StdoutAppender>> \in Seq(Appender)
  BY <1>1
<1>3. r \in Logger
  BY <1>2, LoggersAssumption DEF Logger, DEBUG, UNKNOW
<1>4. loggers = <<r>>
  BY DEF Init
<1> HIDE DEF r
<1>5. loggers \in Seq(Logger) /\ Len(loggers) = 1 /\ 1 \in 1 .. MaxLoggers
  BY <1>3, <1>4, LoggersAssumption
<1> QED
  BY <1>5 DEF Init, TableTypes, Root

(* The define at hand is one of the document.                              *)
LEMMA CurrentTypes ==
  ASSUME ConfTypes, Calls, Job, pc[Loader] \in {"setLevel", "clear", "append"}
  PROVE  /\ Current \in Define /\ Current \in job.new /\ job.cur = {Current}
         /\ Current.name \notin job.done
<1>1. Stage = pc[Loader]
  BY DEF Stage, ListenerPoints
<1> QED
  BY <1>1, AtHand, JobTypes DEF ConfTypes

(* What each step of the listener does to the logger in its hands.         *)
LEMMA ListenerTouches ==
  ASSUME CallTypes, TableTypes, ConfTypes, Calls, Job, Hands
  PROVE  LET o == got[Loader] IN
         /\ SetLevel =>
              /\ o \in DOMAIN loggers /\ loggers' \in Seq(Logger) /\ Touched(o)
              /\ loggers'[o].level = Current.level
              /\ loggers'[o].appenders = loggers[o].appenders
         /\ ClearAppender \/ ClearGone =>
              /\ o \in DOMAIN loggers /\ loggers' \in Seq(Logger) /\ Touched(o)
              /\ loggers'[o].appenders = <<>> /\ loggers'[o].level = loggers[o].level
         /\ AddAppender =>
              /\ o \in DOMAIN loggers /\ loggers' \in Seq(Logger) /\ Touched(o)
              /\ loggers'[o].level = loggers[o].level
              /\ loggers'[o].appenders =
                   Append(loggers[o].appenders, Current.appenders[job.next])
              /\ job.next \in DOMAIN Current.appenders
         /\ SwitchOff =>
              /\ o \in DOMAIN loggers /\ loggers' \in Seq(Logger) /\ Touched(o)
              /\ loggers'[o].level = Off
              /\ loggers'[o].appenders = loggers[o].appenders
<1> DEFINE o == got[Loader]
<1>1. ASSUME SetLevel
      PROVE  /\ o \in DOMAIN loggers /\ loggers' \in Seq(Logger) /\ Touched(o)
             /\ loggers'[o].level = Current.level
             /\ loggers'[o].appenders = loggers[o].appenders
  <2>1. o \in DOMAIN loggers
    BY <1>1, GotDomain DEF SetLevel, LoggerPoints
  <2>2. Current.level \in 1 .. UNKNOW
    BY <1>1, CurrentTypes, DefineType DEF SetLevel
  <2> QED
    BY <1>1, <2>1, <2>2, LevelSet DEF SetLevel
<1>2. ASSUME ClearAppender \/ ClearGone
      PROVE  /\ o \in DOMAIN loggers /\ loggers' \in Seq(Logger) /\ Touched(o)
             /\ loggers'[o].appenders = <<>> /\ loggers'[o].level = loggers[o].level
  <2>1. o \in DOMAIN loggers
    BY <1>2, GotDomain DEF ClearAppender, ClearGone, LoggerPoints
  <2>2. <<>> \in Seq(Appender)
    OBVIOUS
  <2> QED
    BY <1>2, <2>1, <2>2, AppendersSet DEF ClearAppender, ClearGone
<1>3. ASSUME AddAppender
      PROVE  /\ o \in DOMAIN loggers /\ loggers' \in Seq(Logger) /\ Touched(o)
             /\ loggers'[o].level = loggers[o].level
             /\ loggers'[o].appenders =
                  Append(loggers[o].appenders, Current.appenders[job.next])
             /\ job.next \in DOMAIN Current.appenders
  <2>0. o \in DOMAIN loggers
    BY <1>3, GotDomain DEF AddAppender, LoggerPoints
  <2>1. Current \in Define /\ job.next \in Nat \ {0} /\ job.next <= Len(Current.appenders)
    BY <1>3, CurrentTypes DEF AddAppender, AppendersLeft, ConfTypes, JobRec
  <2>2. Current.appenders \in Seq(Appender)
    BY <2>1, DefineType
  <2>3. job.next \in DOMAIN Current.appenders
    BY <2>1, <2>2
  <2>4. Current.appenders[job.next] \in Appender
    BY <2>1, <2>3, DefineType
  <2> DEFINE ap == Append(loggers[o].appenders, Current.appenders[job.next])
  <2>5. ap \in Seq(Appender)
    BY <2>0, <2>4, LoggerType
  <2>6. loggers' = [loggers EXCEPT ![o].appenders = ap]
    BY <1>3 DEF AddAppender
  <2> HIDE DEF ap
  <2>7. /\ loggers' \in Seq(Logger) /\ Touched(o)
        /\ loggers'[o].appenders = ap /\ loggers'[o].level = loggers[o].level
    BY <2>0, <2>5, <2>6, AppendersSet
  <2> QED
    BY <2>0, <2>3, <2>7 DEF ap
<1>4. ASSUME SwitchOff
      PROVE  /\ o \in DOMAIN loggers /\ loggers' \in Seq(Logger) /\ Touched(o)
             /\ loggers'[o].level = Off
             /\ loggers'[o].appenders = loggers[o].appenders
  <2>1. o \in DOMAIN loggers
    BY <1>4, GotDomain DEF SwitchOff, LoggerPoints
  <2> QED
    BY <1>4, <2>1, LevelSet DEF SwitchOff
<1> QED
  BY <1>1, <1>2, <1>3, <1>4

(* The steps of the listener that change a logger.                         *)
Setting == SetLevel \/ ClearAppender \/ AddAppender \/ SwitchOff \/ ClearGone

(* The steps of Loader that change no logger, no table and no lock.        *)
Elsewhere ==
  \/ \E doc \in Docs : Load(doc)
  \/ NextDefine \/ InvalidType \/ NullAppender \/ BadFormatter \/ DefineDone \/ NextGone
  \/ SetValue

(* There are no other steps than these and delLogger.                      *)
LEMMA Steps ==
  ASSUME [Next]_vars
  PROVE  \/ \E t \in Threads : Quiet(t) \/ MakeLogger(t)
         \/ Setting \/ Elsewhere \/ delLogger \/ UNCHANGED vars
  BY DEF Next, Listener, Quiet, Setting, Elsewhere

(* A logger is changed under its write lock, and nothing else is changed   *)
(* with it.                                                                *)
LEMMA SettingTouches ==
  ASSUME CallTypes, TableTypes, ConfTypes, Calls, Job, Hands, Setting
  PROVE  /\ got[Loader] \in DOMAIN loggers /\ loggers' \in Seq(Logger)
         /\ Touched(got[Loader])
         /\ UNCHANGED <<m_loggers, removed, got, call, m_val, dirty, badDoc, crashed>>
         /\ pc[Loader] \in LoggerPoints
         /\ WriteLock(Loader, got[Loader]) /\ UNCHANGED readers
         /\ pc' = pc \/ pc' = [pc EXCEPT ![Loader] = "clear"]
                     \/ pc' = [pc EXCEPT ![Loader] = "append"]
                     \/ pc' = [pc EXCEPT ![Loader] = "clearGone"]
                     \/ pc' = [pc EXCEPT ![Loader] = "delLogger"]
<1>1. /\ got[Loader] \in DOMAIN loggers /\ loggers' \in Seq(Logger)
      /\ Touched(got[Loader])
  BY ListenerTouches DEF Setting
<1> QED
  BY <1>1 DEF Setting, SetLevel, ClearAppender, AddAppender, SwitchOff,
     ClearGone,
              LoggerPoints, Goto, confVars

(* Elsewhere changes no logger, no table and no lock.                      *)
LEMMA ElsewhereQuiet ==
  ASSUME Elsewhere
  PROVE  UNCHANGED <<loggers, m_loggers, removed, got, writer, readers>>
  BY DEF Elsewhere, Load, NextDefine, InvalidType, NullAppender, BadFormatter,
     DefineDone, NextGone, SetValue, tableVars, lockVars

(* Every step keeps the types of loggers and table.                        *)
LEMMA NextTableTypes ==
  ASSUME CallTypes, TableTypes, ConfTypes, Calls, Job, Hands, [Next]_vars
  PROVE  TableTypes'
<1>1. ASSUME NEW t \in Threads, Quiet(t) PROVE TableTypes'
  <2>1. call[t].name \in Names
    BY <1>1 DEF CallTypes, Call
  <2> QED
    BY <1>1, <2>1, QuietTables, QuietGot DEF TableTypes, tableVars
<1>2. ASSUME NEW t \in Threads, MakeLogger(t) PROVE TableTypes'
  <2> DEFINE n == Len(loggers) + 1
  <2>1. /\ loggers' \in Seq(Logger) /\ Len(loggers') = n /\ n <= MaxLoggers
        /\ DOMAIN loggers' = DOMAIN loggers \cup {n}
    BY <1>2, Made
  <2>2. Len(loggers) \in 1 .. MaxLoggers /\ MaxLoggers \in Nat
    BY LoggersAssumption DEF TableTypes
  <2>3. m_loggers' = [m_loggers EXCEPT ![call[t].name] = n] /\ got' = [got EXCEPT ![t] = n]
    BY <1>2, Made
  <2>4. m_loggers' \in [Names -> 0 .. n] /\ got' \in [Threads -> 0 .. n]
    <3>1. 0 .. Len(loggers) \subseteq 0 .. n /\ n \in 0 .. n
      BY <2>2
    <3> HIDE DEF n
    <3> QED
      BY <2>3, <3>1 DEF TableTypes
  <2>5. removed' \subseteq DOMAIN loggers'
    BY <1>2, <2>1, Made DEF TableTypes
  <2> QED
    BY <2>1, <2>2, <2>4, <2>5 DEF TableTypes
<1>3. CASE Setting
  BY <1>3, SettingTouches DEF TableTypes, Touched
<1>4. CASE Elsewhere
  BY <1>4, ElsewhereQuiet DEF TableTypes
<1>5. CASE delLogger
  <2>1. UNCHANGED <<loggers, got>> /\ loggers[got[Loader]].name \in Names
    BY <1>5, GotDomain, LoggerType DEF delLogger, LoggerPoints
  <2>2. m_loggers' \in [Names -> 0 .. Len(loggers)]
    BY <1>5, <2>1 DEF delLogger, TableTypes
  <2>3. m_loggers[loggers[got[Loader]].name] \in 0 .. Len(loggers)
    BY <2>1 DEF TableTypes
  <2>4. removed' \subseteq DOMAIN loggers
    BY <1>5, <2>3 DEF delLogger, TableTypes
  <2> QED
    BY <2>1, <2>2, <2>4 DEF TableTypes
<1>6. CASE UNCHANGED vars
  BY <1>6 DEF vars, tableVars, TableTypes
<1> QED
  BY <1>1, <1>2, <1>3, <1>4, <1>5, <1>6, Steps

-----------------------------------------------------------------------------
(* The locks.                                                              *)

(* The step takes or releases locks of t only.                             *)
Own(t) ==
  /\ LockTypes'
  /\ \A o \in 0 .. MaxLoggers, u \in Threads \ {t} :
       (writer'[o] = u <=> writer[o] = u) /\ (u \in readers'[o] <=> u \in readers[o])

(* What the guards of a thread do to the locks is its own.                 *)
LEMMA LocksMove ==
  ASSUME LockTypes, NEW t \in Threads
  PROVE  /\ UNCHANGED lockVars => Own(t)
         /\ \A o : WriteLock(t, o) /\ UNCHANGED readers => Own(t)
         /\ \A o : ReadLock(t, o) /\ UNCHANGED writer => Own(t)
         /\ \A os : EndReadLocks(t, os) => Own(t)
<1>0. t # NoThread /\ NoThread \notin Threads
  BY LoggersAssumption
<1>1. ASSUME UNCHANGED lockVars PROVE Own(t)
  BY <1>1 DEF lockVars, Own, LockTypes
<1>2. ASSUME NEW o, WriteLock(t, o), UNCHANGED readers PROVE Own(t)
  BY <1>0, <1>2 DEF WriteLock, Own, LockTypes
<1>3. ASSUME NEW o, ReadLock(t, o), UNCHANGED writer PROVE Own(t)
  BY <1>0, <1>3 DEF ReadLock, Own, LockTypes
<1>4. ASSUME NEW os, EndReadLocks(t, os) PROVE Own(t)
  BY <1>0, <1>4 DEF EndReadLocks, Own, LockTypes
<1> QED
  BY <1>1, <1>2, <1>3, <1>4

(* No thread touches the locks another one holds.                          *)
LEMMA QuietOwn ==
  ASSUME LockTypes, NEW t \in Threads, Quiet(t) \/ MakeLogger(t)
  PROVE  Own(t)
  BY LocksMove DEF Quiet, User, GetLoggerEnter, MakeLogger, getRoot, getLevel, getName,
      LogEnter,
     LogWrite, LogReturns, DumpEnter, DumpLogger, DumpReturns, ReadBriefly

(* Nor does the listener.                                                  *)
LEMMA LoaderOwn ==
  ASSUME LockTypes, Setting \/ Elsewhere \/ delLogger
  PROVE  Own(Loader)
<1>1. CASE Elsewhere
  BY <1>1, ElsewhereQuiet, LocksMove, LoggersAssumption DEF lockVars
<1> QED
  BY <1>1, LocksMove, LoggersAssumption
     DEF Setting, SetLevel, ClearAppender, AddAppender, SwitchOff,
        ClearGone, delLogger

(* No lock is taken initially.                                             *)
LEMMA InitLockTypes == Init => LockTypes
  BY LoggersAssumption DEF Init, LockTypes

(* Every step keeps the types of the locks.                                *)
LEMMA NextLockTypes ==
  ASSUME LockTypes, [Next]_vars PROVE LockTypes'
<1>1. CASE UNCHANGED vars
  BY <1>1 DEF vars, lockVars, LockTypes
<1> QED
  BY <1>1, Steps, QuietOwn, LoaderOwn DEF Own

-----------------------------------------------------------------------------
(* Where threads go, and the loggers they log through.                     *)

(* Where a step that changes no logger, or makes one, leads its thread,    *)
(* and what it has checked on the way.                                     *)
Moves(t) ==
  LET o == call[t].obj IN
  /\ pc[t] \notin ListenerPoints
  /\ \/ pc'[t] \in {"getLogger", "dump", "idle", "next", "nullAppender"} /\ UNCHANGED got
     \/ /\ pc[t] = "getLogger" /\ pc'[t] = "make"
        /\ m_loggers[call[t].name] = 0 /\ WriteLock(t, 0) /\ UNCHANGED <<call, got>>
     \/ /\ pc[t] \in GetPoints /\ pc'[t] = call[t].ret
        /\ got' = [got EXCEPT ![t] = m_loggers'[call[t].name]]
        /\ m_loggers'[call[t].name] # 0
     \/ /\ pc'[t] \in ({"getRoot"} \cup LogPoints) \ {"write"} /\ UNCHANGED got
        /\ \/ call'[t].obj \in {Root, got[t]} \ {0}
           \/ call'[t].obj = o /\ pc[t] \in {"getRoot"} \cup LogPoints
        /\ pc'[t] \in {"getRoot", "getLevel"} => pc[t] = "idle" \/ getRoot(t)
     \/ /\ pc[t] = "log" /\ pc'[t] = "write" /\ UNCHANGED <<call, got>>
        /\ ReadLock(t, o) /\ UNCHANGED writer /\ loggers[o].level <= call[t].level
     \/ pc[t] = "write" /\ pc'[t] = "write" /\ UNCHANGED <<call, got, lockVars>>

(* Those steps lead there.                                                 *)
LEMMA QuietMoves ==
  ASSUME CallTypes, TableTypes, Calls, NEW t \in Threads, Quiet(t) \/ MakeLogger(t)
  PROVE  Moves(t)
<1> USE LoggersAssumption DEF CallTypes, Calls, ListenerPoints, LogPoints, GetPoints
<1>0. /\ "idle" \in Points /\ call[t] \in Call /\ call[t].ret \in Points
      /\ call[t].name \in Names /\ Root # 0 /\ t \in DOMAIN pc /\ t \in DOMAIN call
      /\ call[t].level \in Int
  BY DEF Points, Call, Root, UNKNOW
<1>1. CASE User(t)
  <2>1. ASSUME NEW name \in Names, CallGetLogger(t, name, "idle")
        PROVE  Moves(t)
    BY <1>1, <2>1, GetCall DEF User, Moves
  <2>2. ASSUME NEW level \in UserLevels, NEW o \in {Root, got[t]} \ {0},
               CallLog(t, o, level, "idle")
        PROVE  Moves(t)
    <3>1. o \in Nat /\ level \in 0 .. UNKNOW
      BY <2>2, LoggersAssumption DEF TableTypes, Root, DEBUG, UNKNOW
    <3> QED
      BY <1>1, <2>2, <3>1, LogCall DEF User, Moves
  <2> QED
    BY <1>1, <2>1, <2>2 DEF User
<1>2. CASE GetLoggerEnter(t)
  BY <1>2, Returned, <1>0 DEF GetLoggerEnter, confVars, tableVars, Goto, Moves
<1>3. CASE getRoot(t) \/ getName(t)
  BY <1>3, <1>0 DEF getRoot, getName, confVars, tableVars, Goto, Moves
<1>4. CASE getLevel(t)
  BY <1>4, Returned, <1>0 DEF getLevel, confVars, tableVars, Goto, Moves
<1>5. CASE LogEnter(t)
  BY <1>5, <1>0 DEF LogEnter, confVars, tableVars, Goto, Passes, Moves
<1>6. CASE LogWrite(t)
  BY <1>6, ObjCall, Levels, <1>0 DEF LogWrite, lockVars, confVars, tableVars,
     Goto, Moves
<1>7. CASE LogReturns(t)
  BY <1>7, Returned, <1>0 DEF LogReturns, confVars, tableVars, Goto, Moves
<1>8. CASE DumpEnter(t)
  BY <1>8, <1>0 DEF DumpEnter, confVars, tableVars, Goto, Moves
<1>9. CASE DumpLogger(t)
  <2>1. PICK o \in Nat : call' = [call EXCEPT ![t].obj = o]
    <3>1. PICK o \in {m_loggers[name] : name \in Names} : call' = [call EXCEPT ![t].obj = o]
      BY <1>9 DEF DumpLogger
    <3>2. o \in Nat
      BY DEF TableTypes
    <3> QED
      BY <3>1, <3>2
  <2> QED
    BY <1>9, <2>1, ObjCall, <1>0 DEF DumpLogger, confVars, tableVars, Moves
<1>10. CASE DumpReturns(t)
  BY <1>10, Returned, <1>0 DEF DumpReturns, confVars, tableVars, Goto, Moves
<1>11. CASE MakeLogger(t)
  <2>1. /\ m_loggers' = [m_loggers EXCEPT ![call[t].name] = Len(loggers) + 1]
        /\ got' = [got EXCEPT ![t] = Len(loggers) + 1] /\ Return(t) /\ pc[t] = "make"
    BY <1>11, Made
  <2>2. m_loggers'[call[t].name] = Len(loggers) + 1 /\ Len(loggers) + 1 # 0
    BY <1>0, <2>1 DEF TableTypes
  <2>3. pc'[t] = call[t].ret
    BY <1>0, <2>1, Returned
  <2>4. got' = [got EXCEPT ![t] = m_loggers'[call[t].name]]
    BY <2>1, <2>2
  <2> QED
    BY <2>1, <2>2, <2>3, <2>4 DEF Moves
<1> QED
  BY <1>1, <1>2, <1>3, <1>4, <1>5, <1>6, <1>7, <1>8, <1>9, <1>10, <1>11 DEF
     Quiet

(* Where the other steps of Loader lead.                                   *)
LEMMA LoaderCalls ==
  ASSUME CallTypes, Calls, Job, ConfTypes, Elsewhere
  PROVE  /\ \A u \in Threads \ {Loader} : pc'[u] = pc[u] /\ call'[u] = call[u]
         /\ pc'[Loader] \in {"idle", "next", "nullAppender", "getLogger", "getRoot"}
         /\ pc'[Loader] = "getRoot" => call'[Loader].obj = Root
<1> USE LoggersAssumption DEF CallTypes
<1>0. {"idle", "next", "setLevel", "nullAppender", "switchOff"} \subseteq Points
      /\ Loader \in Threads
  BY DEF Points, ListenerPoints
<1>1. CASE \E doc \in Docs : Load(doc)
  BY <1>0, <1>1, LogCall, Levels DEF Load
<1>2. CASE NextDefine
  <2>1. \A d \in ToDo : d.name \in Names
    BY DefineType, JobTypes DEF ToDo, ConfTypes
  <2> QED
    BY <1>0, <1>2, <2>1, GetCall DEF NextDefine
<1>3. CASE NullAppender
  BY <1>0, <1>3 DEF NullAppender
<1>4. CASE InvalidType \/ BadFormatter
  BY <1>0, <1>4, LogCall, Levels DEF InvalidType, BadFormatter
<1>5. CASE DefineDone
  BY <1>0, <1>5 DEF DefineDone, Goto
<1>6. CASE NextGone
  <2>1. Gone \subseteq Names
    BY NamesType DEF Gone, ConfTypes
  <2> QED
    BY <1>0, <1>6, <2>1, GetCall DEF NextGone
<1>7. CASE SetValue
  BY <1>0, <1>7 DEF SetValue, Goto
<1> QED
  BY <1>1, <1>2, <1>3, <1>4, <1>5, <1>6, <1>7 DEF Elsewhere

(* How the steps of Loader move the listener on.                           *)
LEMMA LoaderStages ==
  ASSUME CallTypes, Calls, ConfTypes
  PROVE  /\ (\E doc \in Docs : Load(doc)) => Stage' \in {"idle", "next"}
         /\ NextDefine => Stage' = "setLevel" /\ Stage = "next"
         /\ BadFormatter => Stage' = "idle"
         /\ DefineDone => Stage' = "next" /\ Stage = "append"
         /\ NextGone => Stage' = "switchOff" /\ Stage = "next"
         /\ SetValue => Stage' = "idle" /\ Stage = "next"
         /\ delLogger => Stage' = "next" /\ Stage = "delLogger"
         /\ SetLevel => Stage' = "clear" /\ Stage = "setLevel"
         /\ ClearAppender => Stage' = "append" /\ Stage = "clear"
         /\ AddAppender => Stage' = "append" /\ Stage = "append"
         /\ InvalidType => Stage' = "nullAppender" /\ Stage = "append"
         /\ NullAppender => Stage' = "nullAppender" /\ Stage = "nullAppender"
         /\ SwitchOff => Stage' = "clearGone" /\ Stage = "switchOff"
         /\ ClearGone => Stage' = "delLogger" /\ Stage = "clearGone"
<1> USE LoggersAssumption DEF CallTypes, Stage, ListenerPoints
<1>0. {"idle", "next", "setLevel", "nullAppender", "switchOff"} \subseteq Points
      /\ Loader \in Threads
  BY DEF Points
<1>1. ASSUME \E doc \in Docs : Load(doc) PROVE Stage' \in {"idle", "next"}
  BY <1>0, <1>1, LogCall, Levels DEF Load
<1>2. ASSUME NextDefine PROVE Stage' = "setLevel" /\ Stage = "next"
  <2>1. \A d \in ToDo : d.name \in Names
    BY DefineType, JobTypes DEF ToDo, ConfTypes
  <2> QED
    BY <1>0, <1>2, <2>1, GetCall DEF NextDefine
<1>3. ASSUME BadFormatter PROVE Stage' = "idle"
  BY <1>0, <1>3, LogCall, Levels DEF BadFormatter
<1>7. ASSUME InvalidType PROVE Stage' = "nullAppender" /\ Stage = "append"
  BY <1>0, <1>7, LogCall, Levels DEF InvalidType
<1>4. ASSUME NextGone PROVE Stage' = "switchOff" /\ Stage = "next"
  <2>1. Gone \subseteq Names
    BY NamesType DEF Gone, ConfTypes
  <2> QED
    BY <1>0, <1>4, <2>1, GetCall DEF NextGone
<1>5. ASSUME SetValue PROVE Stage' = "idle" /\ Stage = "next"
  BY <1>0, <1>5 DEF SetValue, Goto, Calls
<1>6. /\ DefineDone => Stage' = "next" /\ Stage = "append"
      /\ delLogger => Stage' = "next" /\ Stage = "delLogger"
      /\ SetLevel => Stage' = "clear" /\ Stage = "setLevel"
      /\ ClearAppender => Stage' = "append" /\ Stage = "clear"
      /\ AddAppender => Stage' = "append" /\ Stage = "append"
      /\ NullAppender => Stage' = "nullAppender" /\ Stage = "nullAppender"
      /\ SwitchOff => Stage' = "clearGone" /\ Stage = "switchOff"
      /\ ClearGone => Stage' = "delLogger" /\ Stage = "clearGone"
  BY <1>0 DEF DefineDone, delLogger, SetLevel, ClearAppender, AddAppender,
     NullAppender, SwitchOff, ClearGone, Goto
<1> QED
  BY <1>1, <1>2, <1>3, <1>4, <1>5, <1>6, <1>7

(* Nobody logs initially.                                                  *)
LEMMA InitObjects == Init => Objects
  BY DEF Init, Objects, LogPoints

(* A thread logs through the root or through a logger it got.              *)
LEMMA NextObjects ==
  ASSUME CallTypes, TableTypes, ConfTypes, Calls, Job, Hands, Objects, [Next]_vars
  PROVE  Objects'
<1> USE LoggersAssumption DEF Objects
<1>0. Root \in DOMAIN loggers /\ (\A t \in Threads : got[t] # 0 => got[t] \in DOMAIN loggers)
  <2>1. loggers \in Seq(Logger) /\ Len(loggers) \in Nat /\ Len(loggers) >= 1
    BY DEF TableTypes
  <2>2. \A t \in Threads : got[t] \in 0 .. Len(loggers)
    BY DEF TableTypes
  <2> QED
    BY <2>1, <2>2 DEF Root
<1>1. ASSUME NEW t \in Threads, Quiet(t) \/ MakeLogger(t) PROVE Objects'
  <2>1. DOMAIN loggers \subseteq DOMAIN loggers'
    BY <1>1, QuietTables, Made DEF tableVars
  <2>2. \A u \in Threads \ {t} : pc'[u] = pc[u] /\ call'[u] = call[u]
    BY <1>1, QuietOthers
  <2>3. pc'[t] \in {"getRoot"} \cup LogPoints => call'[t].obj \in DOMAIN loggers
    BY <1>0, <1>1, QuietMoves DEF Moves, LogPoints, Calls
  <2> QED
    BY <2>1, <2>2, <2>3
<1>2. CASE Setting
  <2>1. DOMAIN loggers' = DOMAIN loggers /\ UNCHANGED call
    BY <1>2, SettingTouches DEF Touched
  <2>2. \A t \in Threads : pc'[t] \in {"getRoot"} \cup LogPoints => pc'[t] = pc[t]
    BY <1>2, SettingTouches DEF LogPoints, CallTypes
  <2> QED
    BY <2>1, <2>2
<1>3. CASE Elsewhere
  <2>1. UNCHANGED loggers
    BY <1>3, ElsewhereQuiet
  <2> QED
    BY <1>0, <1>3, <2>1, LoaderCalls DEF LogPoints
<1>4. CASE delLogger
  BY <1>4 DEF delLogger, Goto, CallTypes, LogPoints
<1>5. CASE UNCHANGED vars
  BY <1>5 DEF vars, tableVars
<1> QED
  BY <1>1, <1>2, <1>3, <1>4, <1>5, Steps

-----------------------------------------------------------------------------
(* One logger for each name.                                               *)

(* Table and loggers agree: the table has each logger that is not removed  *)
(* under its name, and nothing else. All but the root have a root.         *)
Filed ==
  /\ loggers[Root].name = RootName
  /\ \A name \in Names : m_loggers[name] # 0 =>
       loggers[m_loggers[name]].name = name /\ m_loggers[name] \notin removed
  /\ \A o \in DOMAIN loggers \ removed : m_loggers[loggers[o].name] = o
  /\ \A o \in DOMAIN loggers \ {Root} : loggers[o].root

(* A thread about to make a logger has the lock of the manager, and the    *)
(* name is still free.                                                     *)
Making == \A t \in Threads : pc[t] = "make" => writer[0] = t /\ m_loggers[call[t].name] = 0

(* What the table leads to, and its names.                                 *)
LEMMA Filing ==
  ASSUME TableTypes
  PROVE  /\ Root \in DOMAIN loggers /\ 0 \notin DOMAIN loggers
         /\ \A name \in Names : m_loggers[name] # 0 => m_loggers[name] \in DOMAIN loggers
         /\ \A o \in DOMAIN loggers : loggers[o].name \in Names /\ o \in Nat
<1>1. loggers \in Seq(Logger) /\ Len(loggers) \in Nat /\ Len(loggers) >= 1
  BY LoggersAssumption DEF TableTypes
<1>2. DOMAIN loggers = 1 .. Len(loggers)
  BY <1>1
<1>3. \A name \in Names : m_loggers[name] \in 0 .. Len(loggers)
  BY DEF TableTypes
<1>4. \A o \in DOMAIN loggers : loggers[o].name \in Names
  BY LoggerType
<1> QED
  BY <1>1, <1>2, <1>3, <1>4 DEF Root

(* Only the root is filed initially.                                       *)
LEMMA InitFiled == Init => Filed /\ Making
<1> SUFFICES ASSUME Init PROVE Filed /\ Making
  OBVIOUS
<1>1. DOMAIN loggers = {1} /\ loggers[1].name = RootName
  BY DEF Init
<1>2. m_loggers[RootName] = 1 /\ \A name \in Names \ {RootName} : m_loggers[name] = 0
  BY LoggersAssumption DEF Init, Root
<1> QED
  BY <1>1, <1>2 DEF Init, Filed, Making, Root

(* No other thread makes a logger while one holds the lock of the manager, *)
(* because that lock excludes writers.                                     *)
LEMMA NextMaking ==
  ASSUME CallTypes, TableTypes, LockTypes, ConfTypes, Calls, Job, Hands, Filed, Making,
         [Next]_vars
  PROVE  Making'
<1> USE LoggersAssumption DEF Making
<1>0. 0 \in 0 .. MaxLoggers
  BY LoggersAssumption
<1>1. ASSUME NEW t \in Threads, Quiet(t) PROVE Making'
  <2>1. UNCHANGED m_loggers
    BY <1>1, QuietTables DEF tableVars
  <2>2. ASSUME NEW u \in Threads \ {t}, pc'[u] = "make"
        PROVE  writer'[0] = u /\ m_loggers'[call'[u].name] = 0
    BY <1>0, <1>1, <2>1, <2>2, QuietOthers, QuietOwn DEF Own
  <2>3. ASSUME pc'[t] = "make"
        PROVE  writer'[0] = t /\ m_loggers'[call'[t].name] = 0
    <3>1. m_loggers[call[t].name] = 0 /\ WriteLock(t, 0) /\ UNCHANGED call
      BY <1>1, <2>3, QuietMoves DEF Moves, Calls, LogPoints
    <3> QED
      BY <1>0, <2>1, <3>1 DEF WriteLock, LockTypes
  <2> QED
    BY <2>2, <2>3
<1>2. ASSUME NEW t \in Threads, MakeLogger(t) PROVE Making'
  <2>1. writer[0] = t /\ pc'[t] # "make"
    BY <1>2, Returned DEF MakeLogger, Calls, CallTypes
  <2>2. \A u \in Threads \ {t} : pc'[u] # "make"
    BY <1>2, <2>1, QuietOthers
  <2> QED
    BY <2>1, <2>2
<1>3. CASE Setting
  <2>1. UNCHANGED <<m_loggers, call>>
    BY <1>3, SettingTouches
  <2>2. \A u \in Threads : pc'[u] = "make" => pc[u] = "make" /\ u # Loader
    BY <1>3, SettingTouches DEF CallTypes, LoggerPoints
  <2> QED
    BY <1>0, <1>3, <2>1, <2>2, LoaderOwn DEF Own
<1>4. CASE Elsewhere
  <2>1. UNCHANGED <<m_loggers, writer>>
    BY <1>4, ElsewhereQuiet
  <2> QED
    BY <1>4, <2>1, LoaderCalls
<1>5. CASE delLogger
  <2>1. writer[0] \in {Loader, NoThread} /\ pc[Loader] # "make" /\ pc'[Loader] # "make"
        /\ \A u \in Threads \ {Loader} : pc'[u] = pc[u]
    BY <1>5 DEF delLogger, WriteLock, Goto, CallTypes
  <2> QED
    BY <2>1
<1>6. CASE UNCHANGED vars
  BY <1>6 DEF vars, tableVars, lockVars
<1> QED
  BY <1>1, <1>2, <1>3, <1>4, <1>5, <1>6, Steps

(* Loggers are filed when they are made, and removed from where they were  *)
(* filed.                                                                  *)
LEMMA NextFiled ==
  ASSUME CallTypes, TableTypes, TableTypes', ConfTypes, Calls, Job, Hands, Filed, Making,
         [Next]_vars
  PROVE  Filed'
<1> USE LoggersAssumption
<1>1. ASSUME NEW t \in Threads, Quiet(t) PROVE Filed'
  BY <1>1, QuietTables DEF tableVars, Filed
<1>2. ASSUME NEW t \in Threads, MakeLogger(t) PROVE Filed'
  <2> DEFINE n == Len(loggers) + 1
             name == call[t].name
  <2>1. /\ DOMAIN loggers' = DOMAIN loggers \cup {n} /\ n \notin DOMAIN loggers
        /\ \A p \in DOMAIN loggers : loggers'[p] = loggers[p]
        /\ loggers'[n].name = name /\ loggers'[n].root /\ name \in Names
        /\ m_loggers' = [m_loggers EXCEPT ![name] = n] /\ UNCHANGED removed
    BY <1>2, Made
  <2>2. m_loggers[name] = 0
    BY <1>2 DEF Making, MakeLogger
  <2>3. DOMAIN m_loggers = Names /\ removed \subseteq DOMAIN loggers
    BY DEF TableTypes
  <2> HIDE DEF n, name
  <2>4. loggers'[Root].name = RootName
    BY <2>1, Filing DEF Filed
  <2>5. \A x \in Names : m_loggers'[x] # 0 =>
          loggers'[m_loggers'[x]].name = x /\ m_loggers'[x] \notin removed'
    BY <2>1, <2>3, Filing DEF Filed
  <2>6. \A o \in DOMAIN loggers' \ removed' : m_loggers'[loggers'[o].name] = o
    BY <2>1, <2>2, <2>3, Filing DEF Filed
  <2>7. \A o \in DOMAIN loggers' \ {Root} : loggers'[o].root
    BY <2>1 DEF Filed
  <2> QED
    BY <2>4, <2>5, <2>6, <2>7 DEF Filed
<1>3. CASE Setting
  <2>1. /\ Touched(got[Loader]) /\ got[Loader] \in DOMAIN loggers
        /\ UNCHANGED <<m_loggers, removed>>
    BY <1>3, SettingTouches
  <2>2. \A o \in DOMAIN loggers :
          loggers'[o].name = loggers[o].name /\ loggers'[o].root = loggers[o].root
    BY <2>1 DEF Touched
  <2> QED
    BY <2>1, <2>2, Filing DEF Filed, Touched
<1>4. CASE Elsewhere
  BY <1>4, ElsewhereQuiet DEF Filed
<1>5. CASE delLogger
  <2> DEFINE o == got[Loader]
             name == loggers[o].name
  <2>1. o \in DOMAIN loggers /\ m_loggers[name] = o /\ name \in Names
    BY <1>5, GotDomain, LoggerType DEF delLogger, LoggerPoints, Hands
  <2>2. /\ UNCHANGED loggers /\ removed' = removed \cup ({o} \ {0})
        /\ m_loggers' = [m_loggers EXCEPT ![name] = 0]
    BY <1>5, <2>1 DEF delLogger
  <2>3. DOMAIN m_loggers = Names /\ o # 0
    BY <2>1, Filing DEF TableTypes
  <2> HIDE DEF o
  <2>4. \A x \in Names : m_loggers'[x] # 0 =>
          loggers'[m_loggers'[x]].name = x /\ m_loggers'[x] \notin removed'
    BY <2>1, <2>2, <2>3 DEF Filed
  <2>5. \A p \in DOMAIN loggers' \ removed' : m_loggers'[loggers'[p].name] = p
    BY <2>1, <2>2, <2>3, Filing DEF Filed
  <2> QED
    BY <2>2, <2>4, <2>5 DEF Filed
<1>6. CASE UNCHANGED vars
  BY <1>6 DEF vars, tableVars, Filed
<1> QED
  BY <1>1, <1>2, <1>3, <1>4, <1>5, <1>6, Steps

(* The listener has nothing in its hands initially.                        *)
LEMMA InitHands == Init => Hands
  BY LoggersAssumption, NoCallType DEF Init, Hands, LoggerPoints, Stage, ListenerPoints

(* The listener keeps the logger it got until it is done with it.          *)
LEMMA NextHands ==
  ASSUME CallTypes, TableTypes, ConfTypes, Calls, Job, Hands, Filed, Filed', Making,
         [Next]_vars
  PROVE  Hands'
<1> USE LoggersAssumption
<1>1. ASSUME NEW t \in Threads, Quiet(t) \/ MakeLogger(t) PROVE Hands'
  <2>1. UNCHANGED job
    BY <1>1, QuietConf DEF confVars
  <2>2. UNCHANGED Current /\ job'.done = job.done /\ NamesOf(job'.new) = NamesOf(job.new)
    BY <2>1 DEF Current, NamesOf
  <2>6. Stage' = "nullAppender" => got'[Loader] # 0
    <3> SUFFICES ASSUME Stage' = "nullAppender" PROVE got'[Loader] # 0
      OBVIOUS
    <3>1. Stage = "nullAppender" /\ got[Loader] # 0
      BY <1>1, StageKept DEF Hands
    <3>2. CASE t # Loader
      BY <1>1, <3>1, <3>2, QuietOthers
    <3>3. CASE t = Loader
      <4>1. pc[Loader] \notin ListenerPoints
        BY <1>1, <3>3, QuietMoves DEF Moves
      <4>2. pc[Loader] \in {"getRoot"} \cup LogPoints
        BY <3>1, <4>1 DEF Stage, Calls
      <4> QED
        BY <1>1, <3>1, <3>3, <4>2, QuietMoves DEF Moves, LogPoints, GetPoints
    <3> QED
      BY <3>2, <3>3
  <2>3. CASE pc[Loader] \in LoggerPoints
    <3>1. t # Loader
      BY <1>1, <2>3, QuietMoves DEF Moves, LoggerPoints, ListenerPoints
    <3>2. pc'[Loader] = pc[Loader] /\ got'[Loader] = got[Loader]
      BY <1>1, <3>1, QuietOthers
    <3>3. got[Loader] \in DOMAIN loggers /\ loggers'[got[Loader]] = loggers[got[Loader]]
      BY <1>1, <2>3, GotDomain, QuietTables, Made DEF tableVars
    <3>4. \A x \in Names : m_loggers[x] = got[Loader] => m_loggers'[x] = m_loggers[x]
      <4>1. CASE Quiet(t)
        BY <4>1, QuietTables DEF tableVars
      <4>2. CASE MakeLogger(t)
        <5>1. m_loggers[call[t].name] = 0
          BY <4>2 DEF Making, MakeLogger
        <5> QED
          BY <2>3, <4>2, <5>1, Made DEF Hands, TableTypes
      <4> QED
        BY <1>1, <4>1, <4>2
    <3>5. pc[Loader] \in {"setLevel", "clear", "append"} => Current.name \in Names
      BY CurrentTypes, DefineType
    <3>6. loggers[got[Loader]].name \in Names
      BY <3>3, LoggerType
    <3> QED
      BY <2>2, <2>6, <3>2, <3>3, <3>4, <3>5, <3>6 DEF Hands
  <2>4. CASE pc[Loader] \notin LoggerPoints /\ pc'[Loader] \in LoggerPoints
    <3>1. t = Loader
      BY <1>1, <2>4, QuietOthers
    <3>2. /\ pc[Loader] \in GetPoints /\ pc'[Loader] = call[Loader].ret
          /\ got' = [got EXCEPT ![t] = m_loggers'[call[t].name]]
          /\ m_loggers'[call[t].name] # 0
      BY <1>1, <2>4, <3>1, QuietMoves DEF Moves, LoggerPoints, LogPoints
    <3>3. got'[Loader] = m_loggers'[call[Loader].name] /\ got'[Loader] # 0
      BY <3>1, <3>2 DEF TableTypes
    <3>4. Stage = pc'[Loader] /\ Stage \in {"setLevel", "switchOff"}
      BY <2>4, <3>2 DEF Stage, GetPoints, ListenerPoints, Calls, LoggerPoints
    <3>5. call[Loader].name \in Names
      BY DEF CallTypes, Call
    <3>6. loggers'[got'[Loader]].name = call[Loader].name
      BY <3>3, <3>5 DEF Filed
    <3>7. CASE Stage = "setLevel"
      <4>1. Current.name = call[Loader].name
        BY <2>4, <3>7, AtHand DEF LoggerPoints
      <4> QED
        BY <2>2, <2>6, <3>3, <3>4, <3>7, <4>1 DEF Hands
    <3>8. CASE Stage = "switchOff"
      <4>1. call[Loader].name \in job.done \ NamesOf(job.new)
        BY <2>4, <3>8 DEF Job, LoggerPoints
      <4> QED
        BY <2>2, <2>6, <3>3, <3>4, <3>6, <3>8, <4>1 DEF Hands
    <3> QED
      BY <3>4, <3>7, <3>8
  <2>5. CASE pc'[Loader] \notin LoggerPoints
    BY <2>5, <2>6 DEF Hands, LoggerPoints
  <2> QED
    BY <2>3, <2>4, <2>5
<1>2. CASE Setting
  <2>1. /\ Touched(got[Loader]) /\ got[Loader] \in DOMAIN loggers
        /\ UNCHANGED <<m_loggers, got>> /\ pc[Loader] \in LoggerPoints
    BY <1>2, SettingTouches
  <2>2. job'.cur = job.cur /\ job'.done = job.done /\ job'.new = job.new
    BY <1>2 DEF Setting, SetLevel, ClearAppender, AddAppender, SwitchOff,
       ClearGone,
                confVars, ConfTypes, JobRec
  <2>3. UNCHANGED Current /\ NamesOf(job'.new) = NamesOf(job.new)
    BY <2>2 DEF Current, NamesOf
  <2>4. \/ /\ pc[Loader] \in {"setLevel", "clear", "append"}
           /\ pc'[Loader] \in {"setLevel", "clear", "append"}
        \/ /\ pc[Loader] \in {"switchOff", "clearGone", "delLogger"}
           /\ pc'[Loader] \in {"switchOff", "clearGone", "delLogger"}
    BY <1>2 DEF Setting, SetLevel, ClearAppender, AddAppender, SwitchOff,
       ClearGone,
                Goto, CallTypes
  <2>5. loggers'[got[Loader]].name = loggers[got[Loader]].name
    BY <2>1 DEF Touched
  <2>6. Stage' # "nullAppender"
    BY <2>4 DEF Stage, ListenerPoints
  <2> QED
    BY <2>1, <2>2, <2>3, <2>4, <2>5, <2>6 DEF Hands
<1>3. CASE Elsewhere
  <2>1. pc'[Loader] \notin LoggerPoints
    BY <1>3, LoaderCalls DEF LoggerPoints
  <2>2. Stage' = "nullAppender" => Stage \in {"append", "nullAppender"}
    BY <1>3, LoaderStages DEF Elsewhere
  <2>3. Stage' = "nullAppender" => InvalidType \/ NullAppender
    BY <1>3, LoaderStages DEF Elsewhere
  <2>4. Stage' = "nullAppender" => got[Loader] # 0
    BY <2>3 DEF InvalidType, NullAppender, Hands, LoggerPoints, Stage, ListenerPoints
  <2> QED
    BY <1>3, <2>1, <2>4, ElsewhereQuiet DEF Hands, LoggerPoints
<1>4. CASE delLogger
  <2>1. Stage' = "next" /\ pc'[Loader] = "next"
    BY <1>4, LoaderStages DEF delLogger, Goto, CallTypes
  <2> QED
    BY <2>1 DEF Hands, LoggerPoints
<1>5. CASE UNCHANGED vars
  BY <1>5 DEF vars, tableVars, confVars, Hands, Current, NamesOf, Stage
<1> QED
  BY <1>1, <1>2, <1>3, <1>4, <1>5, Steps

-----------------------------------------------------------------------------
(* Nobody writes through a logger being configured, or removed.            *)

(* Between its steps the listener keeps the lock of the logger that        *)
(* setLevel leaked, and a thread that writes has that lock too, and a      *)
(* level that passes.                                                      *)
Holding ==
  /\ Configuring \/ pc[Loader] = "delLogger" => writer[got[Loader]] = Loader
  /\ \A t \in Threads : pc[t] = "write" =>
       LET o == call[t].obj IN
       /\ t \in readers[o] \/ writer[o] = t
       /\ loggers[o].level <= call[t].level

(* No lock is needed initially.                                            *)
LEMMA InitHolding == Init => Holding
  BY LoggersAssumption DEF Init, Holding, Configuring

(* A lock for each logger.                                                 *)
LEMMA Bounded ==
  ASSUME TableTypes
  PROVE  DOMAIN loggers \subseteq 0 .. MaxLoggers
<1>1. loggers \in Seq(Logger) /\ Len(loggers) \in 1 .. MaxLoggers /\ MaxLoggers \in Nat
  BY LoggersAssumption DEF TableTypes
<1> QED
  BY <1>1

(* The lock that a WriteLock leaks protects the steps between two of its   *)
(* scopes.                                                                 *)
LEMMA NextHolding ==
  ASSUME CallTypes, TableTypes, LockTypes, ConfTypes, Calls, Job, Hands, Objects, Holding,
         [Next]_vars
  PROVE  Holding'
<1> DEFINE Taken(t) == LET o == call[t].obj IN
                       /\ t \in readers[o] \/ writer[o] = t
                       /\ loggers[o].level <= call[t].level
<1> USE LoggersAssumption
<1>0. /\ \A t \in Threads : pc[t] = "write" =>
           call[t].obj \in DOMAIN loggers /\ call[t].obj \in 0 .. MaxLoggers /\ Taken(t)
      /\ pc[Loader] \in LoggerPoints \/ Stage = "nullAppender" =>
           got[Loader] \in DOMAIN loggers /\ got[Loader] \in 0 .. MaxLoggers
  BY Bounded, GotDomain DEF Objects, LogPoints, Holding
<1>c. Configuring \/ pc[Loader] = "delLogger" =>
        /\ pc[Loader] \in LoggerPoints \/ Stage = "nullAppender"
        /\ writer[got[Loader]] = Loader
  BY DEF Configuring, LoggerPoints, Stage, ListenerPoints, Holding
<1>1. ASSUME NEW t \in Threads, Quiet(t) \/ MakeLogger(t) PROVE Holding'
  <2>1. Own(t)
    BY <1>1, QuietOwn
  <2>2. \A o \in DOMAIN loggers : loggers'[o] = loggers[o]
    BY <1>1, QuietTables, Made DEF tableVars
  <2>3. ASSUME Configuring' \/ pc'[Loader] = "delLogger"
        PROVE  writer'[got'[Loader]] = Loader
    <3>1. CASE t # Loader
      <4>1. /\ pc'[Loader] = pc[Loader] /\ got'[Loader] = got[Loader]
            /\ call'[Loader] = call[Loader]
        BY <1>1, <3>1, QuietOthers
      <4> QED
        BY <1>0, <1>c, <2>1, <2>3, <3>1, <4>1 DEF Own, Configuring
    <3>2. CASE t = Loader
      <4>1. pc'[Loader] \notin {"clear", "append", "clearGone", "delLogger"}
        <5> SUFFICES ASSUME pc'[Loader] \in {"clear", "append", "clearGone", "delLogger"}
                     PROVE  FALSE
          OBVIOUS
        <5> QED
          BY <1>1, <3>2, QuietMoves DEF Moves, LogPoints, Calls
      <4>2. Stage' = "nullAppender" /\ pc'[Loader] \in {"getRoot", "getLevel"}
        BY <2>3, <4>1 DEF Configuring, Stage, ListenerPoints
      <4>3. Stage = "nullAppender" /\ pc[Loader] \notin ListenerPoints
        BY <1>1, <3>2, <4>2, StageKept, QuietMoves DEF Moves
      <4>4. call[Loader].ret = "nullAppender" /\ pc[Loader] \in {"getRoot"} \cup LogPoints
        BY <4>3 DEF Stage, Calls
      <4>5. getRoot(Loader) /\ UNCHANGED got
        BY <1>1, <3>2, <4>2, <4>4, QuietMoves DEF Moves, LogPoints, GetPoints
      <4>6. writer[got[Loader]] = Loader /\ got[Loader] \in 0 .. MaxLoggers /\ got[Loader] # 0
        BY <1>0, <1>c, <4>3, <4>4, <4>5 DEF Configuring, getRoot, Hands
      <4> QED
        BY <4>5, <4>6 DEF getRoot, ReadBriefly, EndReadLocks, LockTypes
    <3> QED
      BY <3>1, <3>2
  <2>4. ASSUME NEW u \in Threads \ {t}, pc'[u] = "write" PROVE Taken(u)'
    <3>1. pc[u] = "write" /\ call'[u] = call[u]
      BY <1>1, <2>4, QuietOthers
    <3> QED
      BY <1>0, <2>1, <2>2, <3>1 DEF Own
  <2>5. ASSUME pc'[t] = "write" PROVE Taken(t)'
    <3>1. \/ /\ pc[t] = "log" /\ call' = call /\ ReadLock(t, call[t].obj)
             /\ UNCHANGED writer /\ loggers[call[t].obj].level <= call[t].level
          \/ pc[t] = "write" /\ call' = call /\ UNCHANGED lockVars
      BY <1>1, <2>5, QuietMoves DEF Moves, LogPoints, Calls
    <3>2. call[t].obj \in DOMAIN loggers /\ call[t].obj \in 0 .. MaxLoggers
      BY <3>1, Bounded DEF Objects, LogPoints
    <3> QED
      BY <1>0, <2>2, <3>1, <3>2 DEF ReadLock, LockTypes, lockVars
  <2> QED
    BY <2>3, <2>4, <2>5 DEF Holding
<1>2. CASE Setting
  <2>1. /\ Touched(got[Loader]) /\ UNCHANGED <<got, call>> /\ pc[Loader] \in LoggerPoints
        /\ WriteLock(Loader, got[Loader]) /\ UNCHANGED readers
    BY <1>2, SettingTouches
  <2>2. writer'[got[Loader]] = Loader
    BY <1>0, <2>1 DEF WriteLock, LockTypes
  <2>3. ASSUME NEW t \in Threads, pc'[t] = "write" PROVE Taken(t)'
    <3>1. pc[t] = "write" /\ t # Loader
      BY <1>2, <2>3, SettingTouches DEF CallTypes, LoggerPoints
    <3>2. call[t].obj # got[Loader]
      BY <1>0, <2>1, <3>1 DEF WriteLock, LockTypes
    <3> QED
      BY <1>0, <1>2, <2>1, <3>1, <3>2, LoaderOwn DEF Own, Touched
  <2> QED
    BY <2>1, <2>2, <2>3 DEF Holding
<1>3. CASE Elsewhere
  <2>1. UNCHANGED <<loggers, writer, readers, got>>
    BY <1>3, ElsewhereQuiet
  <2>2. ASSUME Configuring' \/ pc'[Loader] = "delLogger"
        PROVE  pc[Loader] = "append"
    <3>1. pc'[Loader] = "getRoot" /\ call'[Loader].ret = "nullAppender"
      BY <1>3, <2>2, LoaderCalls DEF Configuring
    <3>2. Stage' = "nullAppender"
      BY <3>1 DEF Stage, ListenerPoints
    <3>3. InvalidType \/ NullAppender
      BY <1>3, <3>2, LoaderStages DEF Elsewhere
    <3> QED
      BY <3>1, <3>3 DEF InvalidType, NullAppender
  <2>3. \A t \in Threads : pc'[t] = "write" =>
          t # Loader /\ pc[t] = "write" /\ call'[t] = call[t]
    BY <1>3, LoaderCalls
  <2> QED
    BY <1>c, <2>1, <2>2, <2>3 DEF Holding, Configuring
<1>4. CASE delLogger
  <2>1. UNCHANGED <<loggers, readers, call>> /\ pc' = [pc EXCEPT ![Loader] = "next"]
    BY <1>4 DEF delLogger, Goto
  <2>2. \A t \in Threads : pc'[t] = "write" => pc[t] = "write" /\ t # Loader
    BY <2>1 DEF CallTypes
  <2>3. pc'[Loader] = "next"
    BY <2>1 DEF CallTypes
  <2> QED
    BY <1>0, <1>4, <2>1, <2>2, <2>3, LoaderOwn DEF Own, Holding, Configuring
<1>5. CASE UNCHANGED vars
  BY <1>5 DEF vars, tableVars, lockVars, Holding, Configuring
<1> QED
  BY <1>1, <1>2, <1>3, <1>4, <1>5, Steps

(* The removed loggers, and the one the listener is about to remove, are   *)
(* off, and no others.                                                     *)
Removal ==
  /\ \A o \in removed : loggers[o].level = Off
  /\ \A o \in DOMAIN loggers : loggers[o].level = Off =>
       o \in removed \/ (pc[Loader] \in {"clearGone", "delLogger"} /\ got[Loader] = o)
  /\ pc[Loader] \in {"clearGone", "delLogger"} => loggers[got[Loader]].level = Off

(* Nothing is removed initially.                                           *)
LEMMA InitRemoval == Init => Removal
<1> SUFFICES ASSUME Init PROVE Removal
  OBVIOUS
<1>1. DOMAIN loggers = {1} /\ loggers[1].level = DEBUG /\ removed = {}
  BY DEF Init
<1>2. pc[Loader] = "idle" /\ DEBUG # Off
  BY LoggersAssumption DEF Init, DEBUG, Off
<1> QED
  BY <1>1, <1>2 DEF Removal

(* A logger is switched off before it is removed, and nothing switches it  *)
(* on again, because the table no longer has it.                           *)
LEMMA NextRemoval ==
  ASSUME CallTypes, TableTypes, ConfTypes, Calls, Job, Hands, Filed, Removal, [Next]_vars
  PROVE  Removal'
<1> USE LoggersAssumption
<1>0. /\ pc[Loader] \in LoggerPoints =>
           got[Loader] \in DOMAIN loggers /\ got[Loader] # 0
      /\ removed \subseteq DOMAIN loggers /\ DEBUG # Off
  BY GotDomain, Filing DEF TableTypes, DEBUG, Off
<1>1. ASSUME NEW t \in Threads, Quiet(t) \/ MakeLogger(t) PROVE Removal'
  <2>1. /\ \A o \in DOMAIN loggers : loggers'[o] = loggers[o]
        /\ \A o \in DOMAIN loggers' : o \in DOMAIN loggers \/ loggers'[o].level = DEBUG
        /\ UNCHANGED removed
    BY <1>1, QuietTables, Made DEF tableVars
  <2>2. pc[Loader] \in LoggerPoints => pc'[Loader] = pc[Loader] /\ got'[Loader] = got[Loader]
    <3>1. pc[Loader] \in LoggerPoints => t # Loader
      BY <1>1, QuietMoves DEF Moves, LoggerPoints, ListenerPoints
    <3> QED
      BY <1>1, <3>1, QuietOthers
  <2>3. pc'[Loader] \in {"clearGone", "delLogger"} => pc[Loader] = pc'[Loader]
    <3>1. t = Loader => pc'[Loader] \notin {"clearGone", "delLogger"}
      <4> SUFFICES ASSUME t = Loader PROVE pc'[Loader] \notin {"clearGone", "delLogger"}
        OBVIOUS
      <4> QED
        BY <1>1, QuietMoves DEF Moves, LogPoints, Calls
    <3> QED
      BY <1>1, <3>1, QuietOthers
  <2> QED
    BY <1>0, <2>1, <2>2, <2>3 DEF Removal, LoggerPoints
<1>2. CASE Setting
  <2>0. /\ Touched(got[Loader]) /\ UNCHANGED <<removed, got>> /\ pc[Loader] \in LoggerPoints
        /\ got[Loader] \in DOMAIN loggers
    BY <1>2, SettingTouches
  <2>1. CASE SetLevel
    <3>1. Current \in Define /\ Current.name \in Names /\ Current.level \in 1 .. UNKNOW
      BY <2>1, CurrentTypes, DefineType DEF SetLevel
    <3>2. got[Loader] \notin removed
      BY <2>0, <2>1, <1>0, <3>1 DEF SetLevel, Hands, Filed
    <3>3. loggers'[got[Loader]].level # Off
      BY <2>1, <3>1, ListenerTouches DEF Off, UNKNOW
    <3>4. pc[Loader] = "setLevel" /\ pc'[Loader] = "clear"
      BY <2>1 DEF SetLevel, Goto, CallTypes
    <3> QED
      BY <1>0, <2>0, <3>2, <3>3, <3>4 DEF Removal, Touched
  <2>2. CASE ClearAppender
    <3>1. loggers'[got[Loader]].level = loggers[got[Loader]].level
      BY <2>2, ListenerTouches
    <3>2. pc[Loader] = "clear" /\ pc'[Loader] = "append"
      BY <2>2 DEF ClearAppender, Goto, CallTypes
    <3> QED
      BY <1>0, <2>0, <3>1, <3>2 DEF Removal, Touched
  <2>3. CASE AddAppender
    <3>1. loggers'[got[Loader]].level = loggers[got[Loader]].level
      BY <2>3, ListenerTouches
    <3>2. pc[Loader] = "append" /\ pc'[Loader] = "append"
      BY <2>3 DEF AddAppender
    <3> QED
      BY <1>0, <2>0, <3>1, <3>2 DEF Removal, Touched
  <2>4. CASE SwitchOff
    <3>1. loggers'[got[Loader]].level = Off
      BY <2>4, ListenerTouches
    <3>2. pc[Loader] = "switchOff" /\ pc'[Loader] = "clearGone"
      BY <2>4 DEF SwitchOff, Goto, CallTypes
    <3> QED
      BY <1>0, <2>0, <3>1, <3>2 DEF Removal, Touched
  <2>5. CASE ClearGone
    <3>1. loggers'[got[Loader]].level = loggers[got[Loader]].level
      BY <2>5, ListenerTouches
    <3>2. pc[Loader] = "clearGone" /\ pc'[Loader] = "delLogger"
      BY <2>5 DEF ClearGone, Goto, CallTypes
    <3> QED
      BY <1>0, <2>0, <3>1, <3>2 DEF Removal, Touched
  <2> QED
    BY <1>2, <2>1, <2>2, <2>3, <2>4, <2>5 DEF Setting
<1>3. CASE Elsewhere
  <2>1. UNCHANGED <<loggers, removed, got>>
    BY <1>3, ElsewhereQuiet
  <2>2. pc[Loader] \notin {"clearGone", "delLogger"}
    BY <1>3 DEF Elsewhere, Load, NextDefine, InvalidType, NullAppender, BadFormatter,
       DefineDone, NextGone,
                SetValue
  <2>3. pc'[Loader] \notin {"clearGone", "delLogger"}
    BY <1>3, LoaderCalls
  <2> QED
    BY <2>1, <2>2, <2>3 DEF Removal
<1>4. CASE delLogger
  <2>1. UNCHANGED <<loggers, got>> /\ pc[Loader] = "delLogger" /\ pc'[Loader] = "next"
    BY <1>4 DEF delLogger, Goto, CallTypes
  <2>2. removed' = removed \cup {got[Loader]}
    BY <1>0, <1>4 DEF delLogger, Hands, LoggerPoints
  <2> QED
    BY <2>1, <2>2 DEF Removal
<1>5. CASE UNCHANGED vars
  BY <1>5 DEF vars, tableVars, Removal
<1> QED
  BY <1>1, <1>2, <1>3, <1>4, <1>5, Steps

-----------------------------------------------------------------------------
(* The appenders a logger gets.                                            *)

(* A prefix that gets the next element is a prefix.                        *)
LEMMA Extended ==
  ASSUME NEW S, NEW ap \in Seq(S), NEW cs \in Seq(S), NEW n \in DOMAIN cs,
         Len(ap) = n - 1, \A k \in DOMAIN ap : ap[k] = cs[k]
  PROVE  /\ Len(Append(ap, cs[n])) = n /\ n <= Len(cs)
         /\ \A k \in DOMAIN Append(ap, cs[n]) : Append(ap, cs[n])[k] = cs[k]
<1>1. n \in 1 .. Len(cs) /\ Len(cs) \in Nat
  OBVIOUS
<1>2. PICK c \in S : c = cs[n]
  BY <1>1
<1>3. Len(ap) \in Nat /\ Len(ap) + 1 = n /\ \A k \in 1 .. Len(ap) : ap[k] = cs[k]
  BY <1>1
<1>4. /\ Append(ap, c) \in Seq(S) /\ Len(Append(ap, c)) = Len(ap) + 1
      /\ \A k \in 1 .. Len(ap) : Append(ap, c)[k] = ap[k]
      /\ Append(ap, c)[Len(ap) + 1] = c
  BY AppendProperties
<1>5. DOMAIN Append(ap, c) = 1 .. n
  BY <1>1, <1>3, <1>4
<1>6. ASSUME NEW k \in 1 .. n PROVE Append(ap, c)[k] = cs[k]
  BY <1>1, <1>2, <1>3, <1>4
<1> QED
  BY <1>1, <1>2, <1>3, <1>4, <1>5, <1>6

(* The logger at hand has the level of its define and the appenders before *)
(* the next.                                                               *)
Prefix ==
  /\ Stage \in {"setLevel", "clear"} => job.next = 1
  /\ pc[Loader] \in {"clear", "append"} => loggers[got[Loader]].level = Current.level
  /\ pc[Loader] = "append" =>
       LET ap == loggers[got[Loader]].appenders IN
       /\ Len(ap) = job.next - 1 /\ Len(ap) <= Len(Current.appenders)
       /\ \A k \in DOMAIN ap : ap[k] = Current.appenders[k]

(* No logger is at hand initially.                                         *)
LEMMA InitPrefix == Init => Prefix
  BY NoCallType, LoggersAssumption DEF Init, Prefix, Stage, ListenerPoints

(* Appenders are added in the order of the define.                         *)
LEMMA NextPrefix ==
  ASSUME CallTypes, TableTypes, ConfTypes, Calls, Job, Hands, Prefix, [Next]_vars
  PROVE  Prefix'
<1> USE LoggersAssumption
<1> DEFINE Done == LET ap == loggers[got[Loader]].appenders IN
                   /\ Len(ap) = job.next - 1 /\ Len(ap) <= Len(Current.appenders)
                   /\ \A k \in DOMAIN ap : ap[k] = Current.appenders[k]
<1>0. Loader \in DOMAIN pc
  BY DEF CallTypes
<1>1. ASSUME NEW t \in Threads, Quiet(t) \/ MakeLogger(t) PROVE Prefix'
  <2>1. UNCHANGED job /\ Stage' = Stage
    BY <1>1, QuietConf, StageKept DEF confVars
  <2>2. UNCHANGED Current
    BY <2>1 DEF Current
  <2>3. pc'[Loader] \in {"clear", "append"} =>
          /\ pc'[Loader] = pc[Loader] /\ got'[Loader] = got[Loader]
          /\ loggers'[got[Loader]] = loggers[got[Loader]]
    <3>1. t = Loader => pc'[Loader] \notin {"clear", "append"}
      <4> SUFFICES ASSUME t = Loader PROVE pc'[Loader] \notin {"clear", "append"}
        OBVIOUS
      <4> QED
        BY <1>1, QuietMoves DEF Moves, LogPoints, Calls
    <3>2. t # Loader => pc'[Loader] = pc[Loader] /\ got'[Loader] = got[Loader]
      BY <1>1, QuietOthers
    <3>3. \A o \in DOMAIN loggers : loggers'[o] = loggers[o]
      BY <1>1, QuietTables, Made DEF tableVars
    <3> QED
      BY <3>1, <3>2, <3>3, GotDomain DEF LoggerPoints
  <2> QED
    BY <2>1, <2>2, <2>3 DEF Prefix
<1>2. CASE SetLevel
  <2>1. /\ UNCHANGED <<job, got>> /\ pc'[Loader] = "clear"
        /\ Stage' = "clear" /\ Stage = "setLevel"
    BY <1>0, <1>2, LoaderStages DEF SetLevel, confVars, Goto
  <2>2. UNCHANGED Current
    BY <2>1 DEF Current
  <2>3. loggers'[got[Loader]].level = Current.level
    BY <1>2, ListenerTouches
  <2> QED
    BY <2>1, <2>2, <2>3 DEF Prefix
<1>3. CASE ClearAppender
  <2>1. /\ UNCHANGED <<job, got>> /\ pc'[Loader] = "append" /\ pc[Loader] = "clear"
        /\ Stage' = "append" /\ Stage = "clear"
    BY <1>0, <1>3, LoaderStages DEF ClearAppender, confVars, Goto
  <2>2. UNCHANGED Current
    BY <2>1 DEF Current
  <2>3. /\ loggers'[got[Loader]].level = loggers[got[Loader]].level
        /\ loggers'[got[Loader]].appenders = <<>>
    BY <1>3, ListenerTouches
  <2>4. Current.appenders \in Seq(Appender)
    BY <2>1, CurrentTypes, DefineType
  <2>5. Done'
    BY <2>1, <2>2, <2>3, <2>4 DEF Prefix
  <2> QED
    BY <2>1, <2>2, <2>3, <2>5 DEF Prefix
<1>4. CASE AddAppender
  <2> DEFINE ap == loggers[got[Loader]].appenders
             n == job.next
             cs == Current.appenders
  <2>1. /\ UNCHANGED <<got, pc>> /\ pc[Loader] = "append" /\ Stage' = "append"
        /\ job' = [job EXCEPT !.next = job.next + 1]
    BY <1>4, LoaderStages DEF AddAppender
  <2>2. job'.cur = job.cur /\ job'.next = n + 1 /\ n \in Nat \ {0}
    BY <2>1 DEF ConfTypes, JobRec
  <2>3. UNCHANGED Current
    BY <2>2 DEF Current
  <2>4. /\ loggers'[got[Loader]].level = loggers[got[Loader]].level
        /\ loggers'[got[Loader]].appenders = Append(ap, cs[n])
        /\ n \in DOMAIN cs
    BY <1>4, ListenerTouches
  <2>5. cs \in Seq(Appender) /\ ap \in Seq(Appender)
    BY <2>1, CurrentTypes, DefineType, GotDomain, LoggerType DEF LoggerPoints
  <2>6. Len(ap) = n - 1 /\ \A k \in DOMAIN ap : ap[k] = cs[k]
    BY <2>1 DEF Prefix
  <2> HIDE DEF ap, n, cs
  <2>7. n = (n + 1) - 1
    BY <2>2
  <2>8. /\ Len(Append(ap, cs[n])) = n /\ n <= Len(cs)
        /\ \A k \in DOMAIN Append(ap, cs[n]) : Append(ap, cs[n])[k] = cs[k]
    BY <2>4, <2>5, <2>6, Extended
  <2>9. Done'
    BY <2>1, <2>2, <2>3, <2>4, <2>7, <2>8 DEF cs
  <2> QED
    BY <2>1, <2>3, <2>4, <2>9 DEF Prefix
<1>5. CASE SwitchOff \/ ClearGone \/ delLogger
  <2>1. /\ Stage' \notin {"setLevel", "clear"} /\ pc'[Loader] \notin {"clear", "append"}
    BY <1>0, <1>5, LoaderStages DEF SwitchOff, ClearGone, delLogger, Goto
  <2> QED
    BY <2>1 DEF Prefix
<1>6. CASE Elsewhere
  <2>1. CASE NullAppender
    <3>1. UNCHANGED <<loggers, job, pc, call, got>>
      BY <2>1 DEF NullAppender, tableVars, confVars
    <3>2. UNCHANGED Current
      BY <3>1 DEF Current
    <3>3. UNCHANGED Stage
      BY <3>1 DEF Stage
    <3> QED
      BY <3>1, <3>2, <3>3 DEF Prefix
  <2>2. CASE NextDefine
    <3>1. job'.next = 1
      BY <2>2 DEF NextDefine, ConfTypes, JobRec
    <3>2. pc'[Loader] \notin {"clear", "append"}
      BY <1>6, <2>2, LoaderCalls DEF NextDefine, NullAppender
    <3> QED
      BY <3>1, <3>2 DEF Prefix
  <2>3. CASE ~NullAppender /\ ~NextDefine
    <3>1. pc'[Loader] \notin {"clear", "append"}
      BY <1>6, <2>3, LoaderCalls
    <3>2. Stage' \notin {"setLevel", "clear"}
      BY <1>6, <2>3, LoaderStages DEF Elsewhere
    <3> QED
      BY <3>1, <3>2 DEF Prefix
  <2> QED
    BY <2>1, <2>2, <2>3
<1>7. CASE UNCHANGED vars
  BY <1>7 DEF vars, tableVars, confVars, Prefix, Current, Stage
<1> QED
  BY <1>1, <1>2, <1>3, <1>4, <1>5, <1>6, <1>7, Steps DEF Setting

-----------------------------------------------------------------------------
(* Null pointers.                                                          *)

(* The root has an appender unless a dangerous document was loaded, or it  *)
(* is off, or just being configured: a message is then not handed from     *)
(* root to root.                                                           *)
RootSounds ==
  /\ loggers[Root].appenders = <<>> =>
       \/ badDoc \/ loggers[Root].level = Off
       \/ pc[Loader] = "append" /\ got[Loader] = Root
  /\ CrashOnlyOnBadDoc

(* The root has an appender initially.                                     *)
LEMMA InitRootSounds == Init => RootSounds
  BY DEF Init, RootSounds, CrashOnlyOnBadDoc, Root

(* A root that is configured by a document that is not dangerous gets an   *)
(* appender, and nobody logs through it before.                            *)
LEMMA NextRootSounds ==
  ASSUME CallTypes, TableTypes, LockTypes, ConfTypes, Calls, Job, Hands, Objects, Filed,
         Holding, Removal, Prefix, RootSounds, [Next]_vars
  PROVE  RootSounds'
<1> USE LoggersAssumption
<1> DEFINE Heard == loggers[Root].appenders = <<>> =>
                      \/ badDoc \/ loggers[Root].level = Off
                      \/ pc[Loader] = "append" /\ got[Loader] = Root
<1>0. Loader \in DOMAIN pc /\ Root \in DOMAIN loggers
  BY Filing DEF CallTypes
<1>b. badDoc \in BOOLEAN /\ crashed \in BOOLEAN
  BY DEF ConfTypes
<1>1. ASSUME NEW t \in Threads, Quiet(t) \/ MakeLogger(t) PROVE RootSounds'
  <2>1. loggers'[Root] = loggers[Root] /\ UNCHANGED badDoc
    BY <1>0, <1>1, QuietTables, QuietConf, Made DEF tableVars, confVars
  <2>2. pc[Loader] = "append" => pc'[Loader] = pc[Loader] /\ got'[Loader] = got[Loader]
    <3>1. pc[Loader] = "append" => t # Loader
      BY <1>1, QuietMoves DEF Moves, ListenerPoints
    <3> QED
      BY <1>1, <3>1, QuietOthers
  <2>3. Heard'
    BY <2>1, <2>2 DEF RootSounds
  <2>4. CASE ~crashed' \/ crashed
    BY <2>1, <2>3, <2>4 DEF RootSounds, CrashOnlyOnBadDoc
  <2>5. CASE crashed' /\ ~crashed
    <3>1. LogWrite(t)
      BY <1>1, <2>5 DEF Quiet, User, GetLoggerEnter, MakeLogger, getRoot,
         getLevel, getName, LogEnter,
         LogReturns, DumpEnter, DumpLogger, DumpReturns
    <3>2. LET o == call[t].obj IN
          pc[t] = "write" /\ loggers[o].appenders = <<>> /\ ~loggers[o].root
      BY <2>5, <3>1 DEF LogWrite
    <3>3. call[t].obj \in DOMAIN loggers /\ call[t].obj = Root
      BY <3>2 DEF Objects, LogPoints, Filed
    <3>4. loggers[Root].level # Off
      <4>1. loggers[Root].level <= call[t].level
        BY <3>2, <3>3 DEF Holding
      <4>2. call[t].level \in 0 .. UNKNOW
        BY DEF CallTypes, Call
      <4> QED
        BY <4>1, <4>2 DEF Off, UNKNOW
    <3>5. ~(pc[Loader] = "append" /\ got[Loader] = Root)
      <4> SUFFICES ASSUME pc[Loader] = "append", got[Loader] = Root PROVE FALSE
        OBVIOUS
      <4>1. writer[Root] = Loader /\ Root \in 0 .. MaxLoggers
        BY Bounded, <1>0 DEF Holding, Configuring
      <4>2. t \in readers[Root] \/ writer[Root] = t
        BY <3>2, <3>3 DEF Holding
      <4> QED
        BY <3>2, <4>1, <4>2 DEF LockTypes
    <3> QED
      BY <2>1, <2>3, <3>2, <3>3, <3>4, <3>5 DEF RootSounds, CrashOnlyOnBadDoc
  <2> QED
    BY <1>b, <2>4, <2>5
<1>2. CASE Setting
  <2>0. /\ Touched(got[Loader]) /\ UNCHANGED <<got, badDoc, crashed>>
        /\ pc[Loader] \in LoggerPoints
    BY <1>2, SettingTouches
  <2>1. CASE got[Loader] # Root
    <3>1. loggers'[Root] = loggers[Root]
      BY <1>0, <2>0, <2>1 DEF Touched
    <3> QED
      BY <2>0, <2>1, <3>1 DEF RootSounds, CrashOnlyOnBadDoc
  <2>2. CASE got[Loader] = Root
    <3>1. CASE SetLevel
      <4>1. Current.name \in Names
        BY <3>1, CurrentTypes, DefineType DEF SetLevel
      <4>2. Root \notin removed
        BY <2>2, <3>1, <4>1, Filing DEF SetLevel, Hands, Filed, LoggerPoints
      <4>3. loggers[Root].level # Off /\ pc[Loader] # "append"
        BY <1>0, <3>1, <4>2 DEF Removal, SetLevel
      <4>4. loggers'[Root].appenders = loggers[Root].appenders
        BY <2>2, <3>1, ListenerTouches
      <4> QED
        BY <2>0, <4>3, <4>4 DEF RootSounds, CrashOnlyOnBadDoc
    <3>2. CASE ClearAppender
      <4>1. pc'[Loader] = "append"
        BY <1>0, <3>2 DEF ClearAppender, Goto
      <4> QED
        BY <2>0, <2>2, <4>1 DEF RootSounds, CrashOnlyOnBadDoc
    <3>3. CASE AddAppender
      <4>1. pc'[Loader] = "append"
        BY <3>3 DEF AddAppender
      <4> QED
        BY <2>0, <2>2, <4>1 DEF RootSounds, CrashOnlyOnBadDoc
    <3>4. CASE SwitchOff
      <4>1. loggers'[Root].level = Off
        BY <2>2, <3>4, ListenerTouches
      <4> QED
        BY <2>0, <4>1 DEF RootSounds, CrashOnlyOnBadDoc
    <3>5. CASE ClearGone
      <4>1. loggers'[Root].level = Off
        BY <2>2, <3>5, ListenerTouches DEF Removal, ClearGone
      <4> QED
        BY <2>0, <4>1 DEF RootSounds, CrashOnlyOnBadDoc
    <3> QED
      BY <1>2, <3>1, <3>2, <3>3, <3>4, <3>5 DEF Setting
  <2> QED
    BY <2>1, <2>2
<1>3. CASE Elsewhere
  <2>0. UNCHANGED <<loggers, got>>
    BY <1>3, ElsewhereQuiet
  <2>1. badDoc => badDoc'
    BY <1>3 DEF Elsewhere, Load, NextDefine, InvalidType, NullAppender, BadFormatter,
       DefineDone, NextGone,
                SetValue, confVars
  <2>2. CASE InvalidType
    <3>1. badDoc /\ UNCHANGED crashed
      BY <2>2, InvalidIsBad DEF InvalidType
    <3> QED
      BY <2>0, <2>1, <3>1 DEF RootSounds, CrashOnlyOnBadDoc
  <2>6. CASE NullAppender
    <3>1. badDoc
      BY <2>6 DEF NullAppender, Job, Stage, ListenerPoints
    <3> QED
      BY <2>0, <2>1, <3>1 DEF RootSounds, CrashOnlyOnBadDoc
  <2>3. CASE pc[Loader] = "append" /\ got[Loader] = Root /\ (DefineDone \/ BadFormatter)
    <3>0. UNCHANGED <<crashed, badDoc>>
      BY <2>3 DEF DefineDone, BadFormatter
    <3>1. ASSUME loggers[Root].appenders = <<>> PROVE badDoc
      <4>1. Current \in job.new /\ Current \in Define
        BY <2>3, CurrentTypes
      <4>2. Current.name = RootName
        <5>1. Current.name \in Names /\ m_loggers[Current.name] = Root
          BY <2>3, <4>1, DefineType DEF Hands
        <5> QED
          BY <5>1 DEF Filed, Root
      <4>3. Current.appenders \in Seq(Appender)
        BY <4>1, DefineType
      <4>4. job.next = 1
        BY <2>3, <3>1 DEF Prefix, ConfTypes, JobRec
      <4>5. CASE DefineDone
        <5>1. ~(1 <= Len(Current.appenders))
          BY <4>4, <4>5 DEF DefineDone, AppendersLeft
        <5>2. Current.appenders = <<>>
          <6>1. Len(Current.appenders) \in Nat
            BY <4>3
          <6> QED
            BY <4>3, <5>1, <6>1
        <5> QED
          BY <4>1, <4>2, <5>2 DEF Dangerous, Job
      <4>6. CASE BadFormatter
        BY <4>1, <4>2, <4>4, <4>6 DEF BadFormatter, Dangerous, Job
      <4> QED
        BY <2>3, <4>5, <4>6
    <3> QED
      BY <2>0, <3>0, <3>1 DEF RootSounds, CrashOnlyOnBadDoc
  <2>4. CASE ~NullAppender /\ ~(pc[Loader] = "append" /\ got[Loader] = Root)
    <3>1. UNCHANGED crashed
      BY <1>3, <2>4 DEF Elsewhere, Load, NextDefine, InvalidType, BadFormatter,
         DefineDone, NextGone, SetValue
    <3> QED
      BY <2>0, <2>1, <2>4, <3>1 DEF RootSounds, CrashOnlyOnBadDoc
  <2>5. pc[Loader] = "append" => InvalidType \/ DefineDone \/ BadFormatter
    BY <1>3 DEF Elsewhere, Load, NextDefine, NullAppender, NextGone, SetValue
  <2> QED
    BY <2>2, <2>3, <2>4, <2>5, <2>6
<1>4. CASE delLogger
  <2>1. UNCHANGED <<loggers, badDoc, crashed>> /\ pc[Loader] = "delLogger"
    BY <1>4 DEF delLogger, confVars
  <2> QED
    BY <2>1 DEF RootSounds, CrashOnlyOnBadDoc
<1>5. CASE UNCHANGED vars
  BY <1>5 DEF vars, tableVars, confVars, RootSounds, CrashOnlyOnBadDoc
<1> QED
  BY <1>1, <1>2, <1>3, <1>4, <1>5, Steps

-----------------------------------------------------------------------------
(* What the listener has applied.                                          *)

(* The logger of a define is as the define says.                           *)
AsConfigured(d) ==
  /\ m_loggers[d.name] # 0
  /\ LET l == loggers[m_loggers[d.name]] IN
     /\ l.level = d.level /\ Len(l.appenders) = Len(d.appenders)
     /\ \A k \in DOMAIN l.appenders : SameAppender(l.appenders[k], d.appenders[k])

(* All defines of the value are applied but those the listener has redone  *)
(* or is at, now or when it threw; what it has done is applied.            *)
Configured ==
  /\ \A d \in m_val : d.name \in dirty \cup job.done \cup NamesOf(job.cur) \/ AsConfigured(d)
  /\ \A d \in job.new : d.name \in job.done => AsConfigured(d)
  /\ Stage \notin {"setLevel", "clear", "append", "nullAppender"} => job.cur = {}

(* Nothing is configured initially.                                        *)
LEMMA InitConfigured == Init => Configured
  BY JobTypes DEF Init, Configured

(* A define that compares equal needs not be applied again.                *)
LEMMA SameConfigured ==
  ASSUME TableTypes, NEW d \in Define, NEW e \in Define, SameDefine(d, e), AsConfigured(e)
  PROVE  AsConfigured(d)
<1> DEFINE l == loggers[m_loggers[d.name]]
<1>1. /\ d.name = e.name /\ d.level = e.level
      /\ Len(d.appenders) = Len(e.appenders)
      /\ \A k \in DOMAIN d.appenders : SameAppender(d.appenders[k], e.appenders[k])
  BY DEF SameDefine
<1>2. /\ m_loggers[d.name] # 0 /\ l.level = e.level /\ Len(l.appenders) = Len(e.appenders)
      /\ \A k \in DOMAIN l.appenders : SameAppender(l.appenders[k], e.appenders[k])
  BY <1>1 DEF AsConfigured
<1>3. d.appenders \in Seq(Appender) /\ d.name \in Names
  BY DefineType
<1>4. l.appenders \in Seq(Appender)
  BY <1>2, <1>3, Filing, LoggerType
<1> HIDE DEF l
<1>5. DOMAIN l.appenders = DOMAIN d.appenders
  <2>1. DOMAIN d.appenders = 1 .. Len(d.appenders)
    BY <1>3
  <2>2. DOMAIN l.appenders = 1 .. Len(l.appenders)
    BY <1>4
  <2> QED
    BY <1>1, <1>2, <2>1, <2>2
<1> QED
  BY <1>1, <1>2, <1>5 DEF AsConfigured, SameAppender, l

(* A step that leaves the logger alone keeps it as configured.             *)
LEMMA KeptConfigured ==
  ASSUME TableTypes, NEW d \in Define, AsConfigured(d),
         \A o \in DOMAIN loggers : o = m_loggers[d.name] => loggers'[o] = loggers[o],
         m_loggers'[d.name] = m_loggers[d.name]
  PROVE  AsConfigured(d)'
<1>1. d.name \in Names
  BY DefineType
<1>2. m_loggers[d.name] \in DOMAIN loggers
  BY <1>1, Filing DEF AsConfigured
<1> QED
  BY <1>2 DEF AsConfigured

(* After the last appender the logger is as its define says.               *)
LEMMA DefineConfigured ==
  ASSUME CallTypes, TableTypes, ConfTypes, Calls, Job, Hands, Prefix,
         pc[Loader] = "append", ~AppendersLeft
  PROVE  AsConfigured(Current)
<1> DEFINE ap == loggers[got[Loader]].appenders
           cs == Current.appenders
<1>1. Current \in Define /\ job.next \in Nat \ {0}
  BY CurrentTypes DEF ConfTypes, JobRec
<1>2. cs \in Seq(Appender) /\ ap \in Seq(Appender)
  BY <1>1, DefineType, GotDomain, LoggerType DEF LoggerPoints
<1>3. /\ m_loggers[Current.name] = got[Loader] /\ got[Loader] # 0
      /\ loggers[got[Loader]].level = Current.level
      /\ Len(ap) = job.next - 1 /\ Len(ap) <= Len(cs)
      /\ \A k \in DOMAIN ap : ap[k] = cs[k]
  BY DEF Hands, Prefix, LoggerPoints
<1>4. ~(job.next <= Len(cs))
  BY DEF AppendersLeft
<1> HIDE DEF ap, cs
<1>5. Len(cs) \in Nat /\ Len(ap) \in Nat
  BY <1>2
<1>6. Len(ap) = Len(cs)
  BY <1>1, <1>3, <1>4, <1>5
<1> QED
  BY <1>3, <1>6 DEF AsConfigured, SameAppender, ap, cs

(* The listener applies every define that is new or differs, and what it   *)
(* applied nobody changes but the listener.                                *)
LEMMA NextConfigured ==
  ASSUME CallTypes, TableTypes, ConfTypes, Calls, Job, Hands, Filed, Making, Prefix,
         Configured, [Next]_vars
  PROVE  Configured'
<1> USE LoggersAssumption
<1>0. /\ m_val \subseteq Define /\ job \in JobRec /\ job.new \subseteq Define
      /\ job.cur \subseteq Define /\ job.done \subseteq Names
  BY DEF ConfTypes, JobRec
<1>1. ASSUME NEW t \in Threads, Quiet(t) \/ MakeLogger(t) PROVE Configured'
  <2>1. UNCHANGED <<m_val, job, dirty>> /\ Stage' = Stage
    BY <1>1, QuietConf, StageKept DEF confVars
  <2>2. \A o \in DOMAIN loggers : loggers'[o] = loggers[o]
    BY <1>1, QuietTables, Made DEF tableVars
  <2>3. \A x \in Names : m_loggers[x] # 0 => m_loggers'[x] = m_loggers[x]
    <3>1. CASE Quiet(t)
      BY <3>1, QuietTables DEF tableVars
    <3>2. CASE MakeLogger(t)
      <4>1. m_loggers[call[t].name] = 0
        BY <3>2 DEF Making, MakeLogger
      <4> QED
        BY <3>2, <4>1, Made DEF TableTypes
    <3> QED
      BY <1>1, <3>1, <3>2
  <2>4. ASSUME NEW d \in Define, AsConfigured(d) PROVE AsConfigured(d)'
    <3>1. d.name \in Names /\ m_loggers[d.name] # 0
      BY <2>4, DefineType DEF AsConfigured
    <3> QED
      BY <2>2, <2>3, <2>4, <3>1, KeptConfigured
  <2>5. NamesOf(job'.cur) = NamesOf(job.cur)
    BY <2>1 DEF NamesOf
  <2> QED
    BY <1>0, <2>1, <2>4, <2>5 DEF Configured
<1>2. ASSUME Setting \/ delLogger PROVE Configured'
  <2> DEFINE x == loggers[got[Loader]].name
  <2>1. /\ got[Loader] \in DOMAIN loggers /\ got[Loader] # 0 /\ x \in Names
        /\ m_loggers[x] = got[Loader]
    <3>1. got[Loader] \in DOMAIN loggers
      BY <1>2, GotDomain, SettingTouches DEF delLogger, LoggerPoints
    <3>2. got[Loader] # 0 /\ x \in Names
      BY <3>1, LoggerType, Filing
    <3>3. pc[Loader] \in LoggerPoints
      BY <1>2, SettingTouches DEF delLogger, LoggerPoints
    <3>4. CASE pc[Loader] \in {"setLevel", "clear", "append"}
      <4>1. Current.name \in Names
        BY <3>4, CurrentTypes, DefineType
      <4> QED
        BY <3>1, <3>2, <3>4, <4>1 DEF Hands, Filed
    <3>5. CASE pc[Loader] \in {"switchOff", "clearGone", "delLogger"}
      BY <3>1, <3>2, <3>5 DEF Hands
    <3> QED
      BY <3>3, <3>4, <3>5 DEF LoggerPoints
  <2>2. UNCHANGED <<m_val, dirty>> /\ job'.new = job.new /\ job'.done = job.done
        /\ job'.cur = job.cur
    BY <1>2 DEF Setting, SetLevel, ClearAppender, AddAppender, SwitchOff,
       ClearGone,
                delLogger, confVars, ConfTypes, JobRec
  <2>3. ASSUME NEW d \in Define, AsConfigured(d), d.name # x PROVE AsConfigured(d)'
    <3>1. d.name \in Names /\ m_loggers[d.name] # 0
      BY <2>3, DefineType DEF AsConfigured
    <3>2. m_loggers[d.name] # got[Loader]
      BY <2>3, <3>1 DEF Filed
    <3>3. \A o \in DOMAIN loggers \ {got[Loader]} : loggers'[o] = loggers[o]
      BY <1>2, SettingTouches DEF Touched, delLogger
    <3>4. m_loggers'[d.name] = m_loggers[d.name]
      <4>1. CASE Setting
        BY <4>1, SettingTouches
      <4>2. CASE delLogger
        <5>1. m_loggers' = [m_loggers EXCEPT ![x] = 0]
          BY <4>2 DEF delLogger
        <5> HIDE DEF x
        <5> QED
          BY <2>3, <3>1, <5>1 DEF TableTypes
      <4> QED
        BY <1>2, <4>1, <4>2
    <3> QED
      BY <2>3, <3>2, <3>3, <3>4, KeptConfigured
  <2>4. /\ x \in job.done \/ x \in NamesOf(job.cur)
        /\ \A d \in job.new : d.name \in job.done => d.name # x
    <3>1. CASE pc[Loader] \in {"setLevel", "clear", "append"}
      <4>1. /\ Current \in Define /\ Current \in job.new /\ job.cur = {Current}
            /\ Current.name \notin job.done
        BY <3>1, CurrentTypes
      <4>2. x = Current.name
        <5>1. Current.name \in Names /\ m_loggers[Current.name] = got[Loader]
          BY <3>1, <4>1, DefineType DEF Hands
        <5> QED
          BY <2>1, <5>1 DEF Filed
      <4> QED
        BY <4>1, <4>2 DEF NamesOf
    <3>2. CASE pc[Loader] \in {"switchOff", "clearGone", "delLogger"}
      BY <3>2 DEF Hands, NamesOf
    <3>3. pc[Loader] \in LoggerPoints
      BY <1>2, SettingTouches DEF delLogger, LoggerPoints
    <3> QED
      BY <3>1, <3>2, <3>3 DEF LoggerPoints
  <2>5. Stage' \notin {"setLevel", "clear", "append", "nullAppender"} =>
          Stage \notin {"setLevel", "clear", "append", "nullAppender"}
    BY <1>2, LoaderStages DEF Setting
  <2>6. NamesOf(job'.cur) = NamesOf(job.cur)
    BY <2>2 DEF NamesOf
  <2> HIDE DEF x
  <2> QED
    BY <1>0, <2>2, <2>3, <2>4, <2>5, <2>6 DEF Configured
<1>3. CASE Elsewhere
  <2>1. UNCHANGED <<loggers, m_loggers>>
    BY <1>3, ElsewhereQuiet
  <2>2. \A d : AsConfigured(d) => AsConfigured(d)'
    BY <2>1 DEF AsConfigured
  <2>3. ASSUME NEW doc \in Docs, Load(doc) PROVE Configured'
    <3>1. Stage = "idle"
      BY <2>3 DEF Load, Stage, ListenerPoints, Calls, GetPoints, LogPoints
    <3>2. job = NoJob
      BY <3>1 DEF Job
    <3>3. UNCHANGED <<m_val, dirty>> /\ job'.done = {} /\ job'.cur = {}
      BY <2>3, <3>2, JobTypes DEF Load, NoJob
    <3> QED
      BY <2>2, <3>2, <3>3, JobTypes DEF Configured, NamesOf
  <2>4. CASE NextDefine
    <3>1. UNCHANGED <<m_val, dirty>> /\ Stage = "next" /\ Stage' = "setLevel"
      BY <2>4, LoaderStages DEF NextDefine
    <3>2. job'.done = job.done /\ job'.new = job.new /\ job.cur = {}
      BY <1>0, <2>4, <3>1 DEF NextDefine, Configured, JobRec
    <3> QED
      BY <2>2, <3>1, <3>2 DEF Configured, NamesOf
  <2>5. CASE NullAppender
    <3>1. UNCHANGED <<m_val, dirty, job, pc, call>>
      BY <2>5 DEF NullAppender, confVars
    <3>2. UNCHANGED Stage
      BY <3>1 DEF Stage
    <3> QED
      BY <2>2, <3>1, <3>2 DEF Configured, NamesOf
  <2>10. CASE InvalidType
    <3>1. UNCHANGED <<m_val, dirty, job>> /\ Stage' = "nullAppender"
      BY <2>10, LoaderStages DEF InvalidType, confVars
    <3> QED
      BY <2>2, <3>1 DEF Configured, NamesOf
  <2>6. CASE BadFormatter
    <3>1. /\ UNCHANGED m_val /\ job' = NoJob
          /\ dirty' = dirty \cup job.done \cup NamesOf(job.cur)
      BY <2>6 DEF BadFormatter
    <3> QED
      BY <2>2, <3>1, JobTypes DEF Configured, NamesOf
  <2>7. CASE DefineDone
    <3>1. /\ UNCHANGED <<m_val, dirty>> /\ job'.done = job.done \cup {Current.name}
          /\ job'.cur = {} /\ job'.new = job.new
      BY <1>0, <2>7 DEF DefineDone, JobRec
    <3>2. job.cur = {Current} /\ Current \in job.new /\ AsConfigured(Current)
      BY <2>7, CurrentTypes, DefineConfigured DEF DefineDone
    <3>3. \A d \in job.new : d.name = Current.name => d = Current
      BY <3>2 DEF Job, Named
    <3>4. NamesOf(job.cur) = {Current.name} /\ NamesOf({}) = {}
      BY <3>2 DEF NamesOf
    <3>5. \A d \in job.new : d.name \in job'.done => AsConfigured(d)'
      BY <2>2, <3>1, <3>2, <3>3 DEF Configured
    <3>6. \A d \in m_val : d.name \in dirty \cup job'.done \/ AsConfigured(d)'
      BY <2>2, <3>1, <3>4 DEF Configured
    <3> QED
      BY <3>1, <3>5, <3>6 DEF Configured
  <2>8. CASE NextGone
    <3>1. PICK x \in Gone : job' = [job EXCEPT !.done = job.done \cup {x}]
      BY <2>8 DEF NextGone
    <3>2. /\ job'.done = job.done \cup {x} /\ job'.cur = job.cur /\ job'.new = job.new
          /\ UNCHANGED <<m_val, dirty>> /\ Stage = "next"
      BY <1>0, <2>8, <3>1, LoaderStages DEF NextGone, JobRec
    <3>3. x \notin NamesOf(job.new) /\ job.cur = {}
      BY <3>2 DEF Gone, Configured
    <3> QED
      BY <2>2, <3>2, <3>3 DEF Configured, NamesOf
  <2>9. CASE SetValue
    <3>1. /\ m_val' = job.new /\ dirty' = dirty \ job.done /\ job' = NoJob /\ ToDo = {}
          /\ Stage = "next"
      BY <2>9, LoaderStages DEF SetValue
    <3>2. ASSUME NEW d \in job.new PROVE d.name \in dirty' \/ AsConfigured(d)'
      <4>1. CASE d.name \in job.done
        BY <2>2, <4>1 DEF Configured
      <4>2. CASE d.name \notin job.done
        <5>1. PICK e \in m_val : SameDefine(d, e)
          BY <3>1, <4>2 DEF ToDo, Among
        <5>2. d.name = e.name /\ d \in Define /\ e \in Define /\ job.cur = {}
          BY <1>0, <3>1, <5>1 DEF SameDefine, Configured
        <5>3. e.name \in dirty \/ AsConfigured(e)
          BY <4>2, <5>2 DEF Configured, NamesOf
        <5> QED
          BY <2>2, <3>1, <4>2, <5>1, <5>2, <5>3, SameConfigured
      <4> QED
        BY <4>1, <4>2
    <3> QED
      BY <3>1, <3>2, JobTypes DEF Configured
  <2> QED
    BY <1>3, <2>3, <2>4, <2>5, <2>6, <2>7, <2>8, <2>9, <2>10 DEF Elsewhere
<1>4. CASE UNCHANGED vars
  <2>1. UNCHANGED <<loggers, m_loggers, m_val, dirty, job, pc, call>>
    BY <1>4 DEF vars, tableVars, confVars
  <2> QED
    BY <2>1 DEF Configured, AsConfigured, Stage, NamesOf
<1> QED
  BY <1>1, <1>2, <1>3, <1>4, Steps

-----------------------------------------------------------------------------
(* The inductive invariant and the theorems.                               *)

(* All types.                                                              *)
Types == CallTypes /\ TableTypes /\ LockTypes /\ ConfTypes

(* The invariant.                                                          *)
Inv ==
  /\ Types /\ Calls /\ Job /\ Objects /\ Hands /\ Filed /\ Making
  /\ Holding /\ Removal /\ Prefix /\ RootSounds /\ Configured

(* It holds initially.                                                     *)
LEMMA InitInv == Init => Inv
  BY InitCallTypes, InitTableTypes, InitLockTypes, InitConfTypes, InitCalls,
     InitJob,
     InitObjects, InitHands, InitFiled, InitHolding, InitRemoval, InitPrefix,
     InitRootSounds, InitConfigured
  DEF Inv, Types

(* Every step keeps it.                                                    *)
LEMMA NextInv == Inv /\ [Next]_vars => Inv'
<1> SUFFICES ASSUME Inv, [Next]_vars PROVE Inv'
  OBVIOUS
<1> USE DEF Inv, Types
<1>1. CallTypes'
  BY NextCallTypes
<1>2. Calls' /\ ConfTypes' /\ TableTypes' /\ LockTypes'
  BY <1>1, NextCalls, NextConfTypes, NextTableTypes, NextLockTypes
<1>3. Job' /\ Objects'
  BY <1>1, NextJob, NextObjects
<1>4. Filed' /\ Making'
  BY <1>2, NextFiled, NextMaking
<1>5. Hands'
  BY <1>4, NextHands
<1>6. Holding' /\ Removal' /\ Prefix'
  BY NextHolding, NextRemoval, NextPrefix
<1>7. RootSounds' /\ Configured'
  BY NextRootSounds, NextConfigured
<1> QED
  BY <1>1, <1>2, <1>3, <1>4, <1>5, <1>6, <1>7

(* It is an invariant.                                                     *)
LEMMA InvCorrect == Spec => []Inv
  BY InitInv, NextInv, PTL DEF Spec

(* The types.                                                              *)
THEOREM TypeCorrect == Spec => []TypeOK
<1>1. Inv => TypeOK
  <2> SUFFICES ASSUME Inv PROVE TypeOK
    OBVIOUS
  <2>1. TableTypes /\ LockTypes /\ ConfTypes
    BY DEF Inv, Types
  <2> QED
    BY <2>1, LoggerType DEF TypeOK, TableTypes, LockTypes, ConfTypes
<1> QED
  BY <1>1, InvCorrect, PTL

(* Threads that ask getLogger for one name share one logger, unless        *)
(* delLogger took it out in between: two threads that find the name free   *)
(* do not both make a logger for it.                                       *)
THEOREM SameLoggerCorrect == Spec => []SameLogger
<1>1. Inv => SameLogger
  BY DEF Inv, Filed, SameLogger
<1> QED
  BY <1>1, InvCorrect, PTL

(* No thread writes through a logger between the setLevel and the last     *)
(* addAppender of the listener, or the message about an appender of no     *)
(* known type, or between setLevel and clearAppender of a logger that is   *)
(* gone.                                                                   *)
THEOREM NoHalfConfiguredCorrect == Spec => []NoHalfConfigured
<1>1. Inv => NoHalfConfigured
  <2> SUFFICES ASSUME Inv, Configuring,
                      NEW t \in Threads, pc[t] = "write", call[t].obj = got[Loader]
               PROVE  FALSE
    BY DEF NoHalfConfigured
  <2>0. pc[Loader] \in LoggerPoints \/ Stage = "nullAppender"
    BY DEF Configuring, LoggerPoints, Stage, ListenerPoints
  <2>1. writer[got[Loader]] = Loader /\ got[Loader] \in 0 .. MaxLoggers
    BY <2>0, GotDomain, Bounded DEF Inv, Types, Holding
  <2>2. t \in readers[got[Loader]] \/ writer[got[Loader]] = t
    BY DEF Inv, Holding
  <2>3. t # Loader
    BY DEF Configuring
  <2> QED
    BY <2>1, <2>2, <2>3, LoggersAssumption DEF Inv, Types, LockTypes
<1> QED
  BY <1>1, InvCorrect, PTL

(* Nothing is written through a removed logger, even by a thread that got  *)
(* it, and read its level, before delLogger.                               *)
THEOREM RemovedSilentCorrect == Spec => []RemovedSilent
<1>1. Inv => RemovedSilent
  <2> SUFFICES ASSUME Inv, NEW t \in Threads, pc[t] = "write", call[t].obj \in removed
               PROVE  FALSE
    BY DEF RemovedSilent
  <2>1. Off <= call[t].level
    BY DEF Inv, Holding, Removal
  <2>2. call[t].level \in 0 .. UNKNOW
    BY DEF Inv, Types, CallTypes, Call
  <2> QED
    BY <2>1, <2>2 DEF Off, UNKNOW
<1> QED
  BY <1>1, InvCorrect, PTL

(* Between two loads each logger that is configured is as configured,      *)
(* unless a listener that threw changed it.                                *)
THEOREM AppliedCorrect == Spec => []Applied
<1>1. Inv => Applied
  <2> SUFFICES ASSUME Inv, pc[Loader] = "idle" PROVE Applied
    BY DEF Applied
  <2>1. Stage = "idle"
    BY LoggersAssumption DEF Inv, Calls, Stage, ListenerPoints, GetPoints,
       LogPoints
  <2>2. job.done = {} /\ job.cur = {}
    BY <2>1, JobTypes DEF Inv, Job
  <2> QED
    BY <2>2 DEF Inv, Configured, AsConfigured, Applied, NamesOf
<1> QED
  BY <1>1, InvCorrect, PTL

(* A null pointer is followed only after a document with an appender of an *)
(* unknown type, or with a root that gets no appender.                     *)
THEOREM CrashOnlyOnBadDocCorrect == Spec => []CrashOnlyOnBadDoc
<1>1. Inv => CrashOnlyOnBadDoc
  BY DEF Inv, RootSounds
<1> QED
  BY <1>1, InvCorrect, PTL

=============================================================================
