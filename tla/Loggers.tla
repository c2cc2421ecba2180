------------------------------- MODULE Loggers -------------------------------
(***************************************************************************)
(* Loggers, their manager, and the listener that configures them from the  *)
(* variable "logs" (ddg/log.{h,cc}).  Any thread gets loggers, logs and    *)
(* dumps; one, Loader, also loads documents: setValue leaks the lock of    *)
(* the variable, so no second thread could.                                *)
(*                                                                         *)
(* All locks are RWMutexes with the guards of ddg/mutex.h: a WriteLock is  *)
(* not released at the end of its scope, and the owner's next guard of any *)
(* kind goes through with EDEADLK; the end of a ReadLock then releases it. *)
(* Lock 0 is the manager's, lock i that of logger i; logger 1 is the root. *)
(* A text is abstracted to "" (none), "ok" or "bad" (initPattern throws);  *)
(* what is written, and where, is left out.                                *)
(***************************************************************************)
EXTENDS Integers, Sequences, FiniteSets

CONSTANTS
  Threads, Loader, NoThread,
  Names, RootName,
  Docs,        \* documents: sets of raw log defines
  UserLevels,  \* levels the application logs at
  MaxLoggers   \* bound: Logger objects made

DEBUG == 1
INFO == 2
ERROR == 4
UNKNOW == 6
Off == 100     \* the level of a removed logger
Root == 1

Appender == [type : {"stdout", "file", "unknow"}, level : 1..UNKNOW,
             formatter : {"", "ok", "bad"}, file : {"", "f", "g"}]
Define == [name : Names, level : 1..UNKNOW, formatter : {"", "ok", "bad"},
           appenders : Seq(Appender)]

ASSUME LoggersAssumption ==
  /\ Loader \in Threads /\ NoThread \notin Threads /\ RootName \in Names
  /\ \A doc \in Docs : doc \subseteq Define /\ \A d, e \in doc : d.name = e.name => d = e
  /\ UserLevels \subseteq DEBUG..5 /\ MaxLoggers \in Nat \ {0}

VARIABLES
  loggers,    \* the Logger objects: m_name, m_level, m_appenders, and whether
              \* m_root is set
  m_loggers,  \* the manager's table: name -> logger, or 0
  writer, readers,  \* of each lock
  pc, call,   \* where each thread is, and the arguments of its call
  got,        \* the logger each thread got last from getLogger, or 0
  m_val,      \* the value of "logs": a set of defines
  job,        \* the listener: new_defines, the names done, the define or the
              \* name at hand, and its next appender
  removed,    \* history: loggers that delLogger took out
  dirty,      \* history: names a listener that threw has configured
  badDoc,     \* history: a document was loaded that may crash, see Dangerous
  crashed     \* a null pointer was followed

lockVars == <<writer, readers>>
confVars == <<m_val, job, dirty, badDoc>>
tableVars == <<loggers, m_loggers, removed>>
vars == <<tableVars, lockVars, pc, call, got, confVars, crashed>>

NoCall == [obj |-> 0, from |-> 0, level |-> 0, name |-> RootName, ret |-> "idle"]
NoJob == [new |-> {}, done |-> {}, cur |-> {}, next |-> 1]

(* What LoggerManager's constructor leaves behind.                         *)
StdoutAppender == [type |-> "stdout", level |-> DEBUG, formatter |-> "", file |-> ""]

Init ==
  /\ loggers = <<[name |-> RootName, level |-> DEBUG, appenders |-> <<StdoutAppender>>,
                  root |-> FALSE]>>
  /\ m_loggers = [name \in Names |-> IF name = RootName THEN Root ELSE 0]
  /\ writer = [o \in 0..MaxLoggers |-> NoThread]
  /\ readers = [o \in 0..MaxLoggers |-> {}]
  /\ pc = [t \in Threads |-> "idle"] /\ call = [t \in Threads |-> NoCall]
  /\ got = [t \in Threads |-> 0]
  /\ m_val = {} /\ job = NoJob
  /\ removed = {} /\ dirty = {} /\ badDoc = FALSE /\ crashed = FALSE

Goto(t, l) == pc' = [pc EXCEPT ![t] = l]
Return(t) == Goto(t, call[t].ret) /\ call' = [call EXCEPT ![t] = NoCall]

-----------------------------------------------------------------------------
(* The guards                                                              *)

(* Faulty variant: other threads are not waited for.                       *)
WriteLock_Open(t, o) == writer' = [writer EXCEPT ![o] = t]

(* Faulty variant: the guard releases the lock, as a guard should.         *)
WriteLock_Scoped(t, o) ==
  /\ writer[o] \in {t, NoThread} /\ readers[o] = {}
  /\ UNCHANGED writer

WriteLock(t, o) ==
  /\ writer[o] = t \/ (writer[o] = NoThread /\ readers[o] = {})
  /\ writer' = [writer EXCEPT ![o] = t]

ReadLock(t, o) ==
  /\ writer[o] \in {t, NoThread}
  /\ readers' = [readers EXCEPT ![o] = IF writer[o] = t THEN @ ELSE @ \cup {t}]

EndReadLocks(t, os) ==
  /\ writer' = [o \in DOMAIN writer |->
                  IF o \in os /\ writer[o] = t THEN NoThread ELSE writer[o]]
  /\ readers' = [o \in DOMAIN readers |->
                   IF o \in os /\ writer[o] # t THEN readers[o] \ {t} ELSE readers[o]]

(* A ReadLock around the return of a member.                               *)
ReadBriefly(t, o) == writer[o] \in {t, NoThread} /\ EndReadLocks(t, {o})

-----------------------------------------------------------------------------
(* LoggerManager::getLogger.  Its lock is taken once for the whole call.   *)

CallGetLogger(t, name, ret) ==
  /\ call' = [call EXCEPT ![t] = [NoCall EXCEPT !.name = name, !.ret = ret]]
  /\ Goto(t, "getLogger")

GetLoggerEnter(t) ==
  /\ pc[t] = "getLogger" /\ WriteLock(t, 0)
  /\ LET o == m_loggers[call[t].name] IN
     IF o # 0 THEN got' = [got EXCEPT ![t] = o] /\ Return(t)
     ELSE Goto(t, "make") /\ UNCHANGED <<got, call>>
  /\ UNCHANGED <<tableVars, readers, confVars, crashed>>

(* Faulty variant: m_root is not set.                                      *)
NewLogger_Rootless(name) ==
  [name |-> name, level |-> DEBUG, appenders |-> <<>>, root |-> FALSE]

(* Logger(name) and setRoot                                                *)
NewLogger(name) == [name |-> name, level |-> DEBUG, appenders |-> <<>>, root |-> TRUE]

(* setRoot leaks the lock of the new logger.                               *)
MakeLogger(t) ==
  LET o == Len(loggers) + 1 IN
  /\ pc[t] = "make" /\ o <= MaxLoggers
  /\ loggers' = Append(loggers, NewLogger(call[t].name))
  /\ WriteLock(t, o)
  /\ m_loggers' = [m_loggers EXCEPT ![call[t].name] = o]
  /\ got' = [got EXCEPT ![t] = o]
  /\ Return(t)
  /\ UNCHANGED <<removed, readers, confVars, crashed>>

-----------------------------------------------------------------------------
(* DDG_LOG_LEVEL(logger, level): getLevel, and at the end of the statement *)
(* log().  The root is asked of the manager first.                         *)

CallLog(t, o, level, ret) ==
  /\ call' = [call EXCEPT ![t] =
                [NoCall EXCEPT !.obj = o, !.from = o, !.level = level, !.ret = ret]]
  /\ Goto(t, IF o = Root THEN "getRoot" ELSE "getLevel")

getRoot(t) ==
  /\ pc[t] = "getRoot" /\ ReadBriefly(t, 0)
  /\ Goto(t, "getLevel")
  /\ UNCHANGED <<tableVars, call, got, confVars, crashed>>

getLevel(t) ==
  LET o == call[t].obj IN
  /\ pc[t] = "getLevel" /\ ReadBriefly(t, o)
  /\ IF loggers[o].level <= call[t].level
     THEN Goto(t, IF call[t].ret = "nullAppender" THEN "getName" ELSE "log") /\ UNCHANGED call
     ELSE Return(t)
  /\ UNCHANGED <<tableVars, got, confVars, crashed>>

(* The text of one message names the logger that is being configured: the  *)
(* end of getName's ReadLock releases its leaked WriteLock.                *)
getName(t) ==
  /\ pc[t] = "getName" /\ ReadBriefly(t, got[t])
  /\ Goto(t, "log")
  /\ UNCHANGED <<tableVars, call, got, confVars, crashed>>

(* Faulty variant: the level is not looked at again under the lock.        *)
Passes_Unchecked(level, o) == TRUE

Passes(level, o) == level >= loggers[o].level

LogEnter(t) ==
  /\ pc[t] = "log" /\ ReadLock(t, call[t].obj)
  /\ Goto(t, IF Passes(call[t].level, call[t].obj) THEN "write" ELSE "unwind")
  /\ UNCHANGED <<tableVars, writer, call, got, confVars, crashed>>

(* To the appenders, or to m_root while the lock is held.                  *)
LogWrite(t) ==
  LET o == call[t].obj IN
  /\ pc[t] = "write"
  /\ IF loggers[o].appenders # <<>> THEN Goto(t, "unwind") /\ UNCHANGED <<call, crashed>>
     ELSE IF loggers[o].root
     THEN call' = [call EXCEPT ![t].obj = Root] /\ Goto(t, "log") /\ UNCHANGED crashed
     ELSE crashed' = TRUE /\ UNCHANGED <<pc, call>>
  /\ UNCHANGED <<tableVars, lockVars, got, confVars>>

LogReturns(t) ==
  /\ pc[t] = "unwind" /\ EndReadLocks(t, {call[t].obj, call[t].from})
  /\ Return(t)
  /\ UNCHANGED <<tableVars, got, confVars, crashed>>

-----------------------------------------------------------------------------
(* LoggerManager::toYamlString, with toYamlString of each logger.          *)

DumpEnter(t) ==
  /\ pc[t] = "idle" /\ ReadLock(t, 0)
  /\ Goto(t, "dump")
  /\ UNCHANGED <<tableVars, writer, call, got, confVars, crashed>>

(* call[t].obj: the loggers up to it are written.                          *)
DumpLogger(t) ==
  LET rest == {o \in {m_loggers[name] : name \in Names} : o > call[t].obj} IN
  /\ pc[t] = "dump"
  /\ \E o \in rest :
       /\ \A p \in rest : o <= p
       /\ ReadBriefly(t, o)
       /\ call' = [call EXCEPT ![t].obj = o]
  /\ UNCHANGED <<tableVars, pc, got, confVars, crashed>>

DumpReturns(t) ==
  /\ pc[t] = "dump" /\ \A name \in Names : m_loggers[name] <= call[t].obj
  /\ EndReadLocks(t, {0})
  /\ Return(t)
  /\ UNCHANGED <<tableVars, got, confVars, crashed>>

-----------------------------------------------------------------------------
(* The conversion of a document: a bad formatter of a logger rejects it,   *)
(* one of an appender does not; appenders inherit formatter and level.     *)

Rejected(doc) == \E d \in doc : d.formatter = "bad"

Inherit(a, d) ==
  [a EXCEPT !.formatter = IF @ = "" THEN d.formatter ELSE @,
            !.level = IF @ = UNKNOW THEN d.level ELSE @]

FromYaml(doc) ==
  {[d EXCEPT !.appenders = [k \in DOMAIN @ |-> Inherit(@[k], d)]] : d \in doc}

(* operator== compares the file of one side with itself.                   *)
SameAppender(a, b) == a.type = b.type /\ a.level = b.level /\ a.formatter = b.formatter

SameDefine(d, e) ==
  /\ d.name = e.name /\ d.level = e.level /\ d.formatter = e.formatter
  /\ Len(d.appenders) = Len(e.appenders)
  /\ \A k \in DOMAIN d.appenders : SameAppender(d.appenders[k], e.appenders[k])

Among(d, defines) == \E e \in defines : SameDefine(d, e)
NamesOf(defines) == {d.name : d \in defines}

(* Documents after which a null pointer may be followed: an appender of a  *)
(* type that is not known, or a root logger left without an appender.      *)
Dangerous(defines) ==
  \E d \in defines :
    \/ \E k \in DOMAIN d.appenders : d.appenders[k].type = "unknow"
    \/ d.name = RootName /\ (d.appenders = <<>> \/ d.appenders[1].formatter = "bad")

(* fromString: rejected, unchanged, or on to the listener, which announces *)
(* itself.  An exception is caught and logged as an error.                 *)
Load(doc) ==
  LET new == FromYaml(doc) IN
  /\ pc[Loader] = "idle"
  /\ badDoc' = (badDoc \/ (~Rejected(doc) /\ Dangerous(new)))
  /\ \/ /\ Rejected(doc)
        /\ CallLog(Loader, Root, ERROR, "idle") /\ UNCHANGED job
     \/ /\ ~Rejected(doc)
        /\ NamesOf(new) # NamesOf(m_val) \/ \E d \in new : ~Among(d, m_val)
        /\ job' = [NoJob EXCEPT !.new = new]
        /\ CallLog(Loader, Root, INFO, "next")
  /\ UNCHANGED <<tableVars, lockVars, got, m_val, dirty, crashed>>

-----------------------------------------------------------------------------
(* The listener: first what is new or changed, then what is gone.          *)

ToDo == {d \in job.new : d.name \notin job.done /\ ~Among(d, m_val)}
Gone == (NamesOf(m_val) \ NamesOf(job.new)) \ job.done

NextDefine ==
  /\ pc[Loader] = "next"
  /\ \E d \in ToDo :
       /\ job' = [job EXCEPT !.cur = {d}, !.next = 1]
       /\ CallGetLogger(Loader, d.name, "setLevel")
  /\ UNCHANGED <<tableVars, lockVars, got, m_val, dirty, badDoc, crashed>>

Current == CHOOSE d \in job.cur : TRUE

SetLevel ==
  /\ pc[Loader] = "setLevel" /\ WriteLock(Loader, got[Loader])
  /\ loggers' = [loggers EXCEPT ![got[Loader]].level = Current.level]
  /\ Goto(Loader, "clear")
  /\ UNCHANGED <<m_loggers, removed, readers, call, got, confVars, crashed>>

(* Faulty variant: the appenders there were stay.                          *)
ClearAppender_Missing ==
  /\ pc[Loader] = "clear" /\ WriteLock(Loader, got[Loader])
  /\ Goto(Loader, "append")
  /\ UNCHANGED <<tableVars, readers, call, got, confVars, crashed>>

(* setFormatter gives the appenders the formatter the logger already had;  *)
(* they are cleared next.                                                  *)
ClearAppender ==
  /\ pc[Loader] = "clear" /\ WriteLock(Loader, got[Loader])
  /\ loggers' = [loggers EXCEPT ![got[Loader]].appenders = <<>>]
  /\ Goto(Loader, "append")
  /\ UNCHANGED <<m_loggers, removed, readers, call, got, confVars, crashed>>

AppendersLeft == job.next <= Len(Current.appenders)

AddAppender ==
  LET a == Current.appenders[job.next] IN
  /\ pc[Loader] = "append" /\ AppendersLeft
  /\ a.type # "unknow" /\ a.formatter # "bad"
  /\ WriteLock(Loader, got[Loader])
  /\ loggers' = [loggers EXCEPT ![got[Loader]].appenders = Append(@, a)]
  /\ job' = [job EXCEPT !.next = @ + 1]
  /\ UNCHANGED <<m_loggers, removed, readers, pc, call, got, m_val, dirty, badDoc,
                 crashed>>

(* The switch has no case for the type of the appender: a message to the   *)
(* root says so, and then the null appender is used.                       *)
InvalidType ==
  /\ pc[Loader] = "append" /\ AppendersLeft
  /\ Current.appenders[job.next].type = "unknow"
  /\ CallLog(Loader, Root, INFO, "nullAppender")
  /\ UNCHANGED <<tableVars, lockVars, got, confVars, crashed>>

NullAppender ==
  /\ pc[Loader] = "nullAppender"
  /\ crashed' = TRUE
  /\ UNCHANGED <<tableVars, lockVars, pc, call, got, confVars>>

(* The formatter of an appender throws: out of the listener and setValue,  *)
(* into fromString's catch.                                                *)
BadFormatter ==
  /\ pc[Loader] = "append" /\ AppendersLeft
  /\ Current.appenders[job.next].type # "unknow"
  /\ Current.appenders[job.next].formatter = "bad"
  /\ dirty' = dirty \cup job.done \cup NamesOf(job.cur)
  /\ job' = NoJob
  /\ CallLog(Loader, Root, ERROR, "idle")
  /\ UNCHANGED <<tableVars, lockVars, got, m_val, badDoc, crashed>>

DefineDone ==
  /\ pc[Loader] = "append" /\ ~AppendersLeft
  /\ job' = [job EXCEPT !.done = @ \cup {Current.name}, !.cur = {}]
  /\ Goto(Loader, "next")
  /\ UNCHANGED <<tableVars, lockVars, call, got, m_val, dirty, badDoc, crashed>>

NextGone ==
  /\ pc[Loader] = "next" /\ ToDo = {}
  /\ \E name \in Gone :
       /\ job' = [job EXCEPT !.done = @ \cup {name}]
       /\ CallGetLogger(Loader, name, "switchOff")
  /\ UNCHANGED <<tableVars, lockVars, got, m_val, dirty, badDoc, crashed>>

SwitchOff ==
  /\ pc[Loader] = "switchOff" /\ WriteLock(Loader, got[Loader])
  /\ loggers' = [loggers EXCEPT ![got[Loader]].level = Off]
  /\ Goto(Loader, "clearGone")
  /\ UNCHANGED <<m_loggers, removed, readers, call, got, confVars, crashed>>

ClearGone ==
  /\ pc[Loader] = "clearGone" /\ WriteLock(Loader, got[Loader])
  /\ loggers' = [loggers EXCEPT ![got[Loader]].appenders = <<>>]
  /\ Goto(Loader, "delLogger")
  /\ UNCHANGED <<m_loggers, removed, readers, call, got, confVars, crashed>>

delLogger ==
  LET name == loggers[got[Loader]].name IN
  /\ pc[Loader] = "delLogger" /\ WriteLock(Loader, 0)
  /\ removed' = removed \cup ({m_loggers[name]} \ {0})
  /\ m_loggers' = [m_loggers EXCEPT ![name] = 0]
  /\ Goto(Loader, "next")
  /\ UNCHANGED <<loggers, readers, call, got, confVars, crashed>>

(* The listener returns and setValue assigns.                              *)
SetValue ==
  /\ pc[Loader] = "next" /\ ToDo = {} /\ Gone = {}
  /\ m_val' = job.new /\ dirty' = dirty \ job.done
  /\ job' = NoJob
  /\ Goto(Loader, "idle")
  /\ UNCHANGED <<tableVars, lockVars, call, got, badDoc, crashed>>

-----------------------------------------------------------------------------
User(t) ==
  /\ pc[t] = "idle"
  /\ \/ \E name \in Names : CallGetLogger(t, name, "idle")
     \/ \E level \in UserLevels, o \in {Root, got[t]} \ {0} : CallLog(t, o, level, "idle")
  /\ UNCHANGED <<tableVars, lockVars, got, confVars, crashed>>

Listener ==
  \/ NextDefine \/ SetLevel \/ ClearAppender \/ AddAppender \/ InvalidType
  \/ NullAppender \/ BadFormatter \/ DefineDone \/ NextGone \/ SwitchOff \/ ClearGone \/ delLogger
  \/ SetValue

Next ==
  /\ ~crashed
  /\ \/ \E t \in Threads :
          \/ User(t) \/ GetLoggerEnter(t) \/ MakeLogger(t)
          \/ getRoot(t) \/ getLevel(t) \/ getName(t) \/ LogEnter(t) \/ LogWrite(t) \/ LogReturns(t)
          \/ DumpEnter(t) \/ DumpLogger(t) \/ DumpReturns(t)
     \/ \E doc \in Docs : Load(doc)
     \/ Listener

Spec == Init /\ [][Next]_vars

-----------------------------------------------------------------------------
TypeOK ==
  /\ \A o \in DOMAIN loggers :
       /\ loggers[o].name \in Names /\ loggers[o].level \in 1..UNKNOW \cup {Off}
       /\ loggers[o].appenders \in Seq(Appender) /\ loggers[o].root \in BOOLEAN
  /\ m_loggers \in [Names -> 0..Len(loggers)]
  /\ writer \in [0..MaxLoggers -> Threads \cup {NoThread}]
  /\ readers \in [0..MaxLoggers -> SUBSET Threads]
  /\ \A o \in 0..MaxLoggers : writer[o] # NoThread => readers[o] = {}
  /\ got \in [Threads -> 0..Len(loggers)]
  /\ m_val \subseteq Define /\ removed \subseteq DOMAIN loggers /\ dirty \subseteq Names

(* Threads that ask for one name share one logger, unless it was removed   *)
(* in between.                                                             *)
SameLogger ==
  \A o, p \in DOMAIN loggers \ removed : loggers[o].name = loggers[p].name => o = p

(* The listener has set the level of a logger and has yet to give it its   *)
(* appenders, or to take it out of the table.  An appender of unknown type *)
(* ends this early: the message about it asks the logger for its name,     *)
(* which releases the logger, and others see it half configured until the  *)
(* null pointer ends the process.                                          *)
Configuring ==
  \/ pc[Loader] \in {"clear", "append", "clearGone"}
  \/ call[Loader].ret = "nullAppender" /\ pc[Loader] \in {"getRoot", "getLevel"}

(* No thread writes through a logger that the listener is in the middle of *)
(* configuring: its level would be new and its appenders gone, and the     *)
(* message would go to the root.                                           *)
NoHalfConfigured ==
  Configuring => \A t \in Threads : pc[t] = "write" => call[t].obj # got[Loader]

(* Nothing is written through a removed logger, even by a thread that had  *)
(* the logger, and had asked for its level, before it was removed.         *)
RemovedSilent == \A t \in Threads : pc[t] = "write" => call[t].obj \notin removed

(* Between two loads each logger that is configured is as configured,      *)
(* unless a listener that threw changed it: loading the old document again *)
(* does not repair that one, because the value of "logs" is still the same.*)
Applied ==
  pc[Loader] = "idle" =>
    \A d \in m_val :
      \/ d.name \in dirty
      \/ /\ m_loggers[d.name] # 0
         /\ LET l == loggers[m_loggers[d.name]] IN
            /\ l.level = d.level /\ Len(l.appenders) = Len(d.appenders)
            /\ \A k \in DOMAIN l.appenders : SameAppender(l.appenders[k], d.appenders[k])

(* A null pointer is followed only after a document with an appender of an *)
(* unknown type, or with a root logger that gets no appender.              *)
CrashOnlyOnBadDoc == crashed => badDoc

=============================================================================
