-------------------------------- MODULE Config --------------------------------
(***************************************************************************)
(* The configuration library, ddg/config.{h,cc}: the table of variables    *)
(* under one RWMutex, each variable with its own, listeners, and loading.  *)
(*                                                                         *)
(* The guards are those of ddg/mutex.h: a WriteLock is not released at the *)
(* end of its scope, a ReadLock is; the lock is glibc's.  Its reader count *)
(* is a number here, because LoadFromYaml nests guards of one thread, and  *)
(* an unlock by a thread that holds nothing takes the count below zero.    *)
(***************************************************************************)
EXTENDS Integers, SequencesExt, TLC

CONSTANTS
  Threads, NoThread,
  Names,      \* names made of kValidSet
  BadName,    \* a name that is not, such as one with a capital letter
  Types, Values,
  BadText,    \* YAML text that does not convert to any type
  Docs,       \* YAML documents: their nodes in preorder, see below
  MaxVars,    \* bound: variables made
  Used,       \* bound: the variables the application goes on to use
  MaxKeys,    \* bound: listeners of all variables together
  MaxStray,   \* bound: how far the reader count may have gone below zero
              \* when a reading operation begins
  Threshold,  \* func_id_threshold
  NoVar       \* a null ConfigVarBase::ptr

(* A node: its full name, its depth (children of the root have 1), and its *)
(* text.  The root itself, depth 0 with an empty name, is not in the list. *)
Node == [name : Names \cup {BadName}, depth : Nat \ {0}, text : Values \cup {BadText}]

ASSUME ConfigAssumption ==
  /\ NoThread \notin Threads /\ BadName \notin Names
  /\ Docs \subseteq Seq(Node) /\ MaxVars \in Nat /\ MaxKeys \in Nat /\ MaxStray \in Nat
  /\ Threshold \in Nat \ {0} /\ NoVar \notin 1..MaxVars

VARIABLES
  s_datas,   \* name -> index of the variable in the table, or NoVar
  objs,      \* the ConfigVar objects made so far: name and type
  m_val, s_func_id, m_cbs,  \* of each of them; m_cbs: the keys
  lock,      \* Config::GetMutex(): [writer, readers]
  owner,     \* m_rwmutex of each variable: who has not released it
  pc,        \* where each thread is
  doc, pos, depth, nodes,  \* LoadFromYaml: the document, the next node, the
                           \* guards of ListAllMember that are open, all_nodes
  target,    \* the variable and value of a setValue under way
  told,      \* history: the value all listeners of each were last called with
  strayed,   \* history: some unlock found nothing to unlock
  leaky      \* history: some load began with the write lock not released

objVars  == <<objs, m_val, s_func_id, m_cbs, told>>
loadVars == <<doc, pos, depth, nodes>>
vars == <<s_datas, objVars, lock, owner, pc, loadVars, target, strayed, leaky>>

NoTarget == [var |-> NoVar, val |-> BadText, ret |-> "user"]

Init ==
  /\ s_datas = [name \in Names |-> NoVar]
  /\ objs = <<>> /\ m_val = <<>> /\ s_func_id = <<>> /\ m_cbs = <<>>
  /\ told = <<>>
  /\ lock = [writer |-> NoThread, readers |-> 0] /\ owner = <<>>
  /\ pc = [t \in Threads |-> "user"]
  /\ doc = [t \in Threads |-> <<>>] /\ pos = [t \in Threads |-> 1]
  /\ depth = [t \in Threads |-> 0] /\ nodes = [t \in Threads |-> <<>>]
  /\ target = [t \in Threads |-> NoTarget]
  /\ strayed = FALSE /\ leaky = FALSE

Goto(t, l) == pc' = [pc EXCEPT ![t] = l]

-----------------------------------------------------------------------------
(* glibc's pthread_rwlock_t.  rdlock returns without the lock to the       *)
(* writer (EDEADLK) and on a count below -1 (EAGAIN); RWMutex ignores it.  *)
rdlock(t) ==
  /\ lock.writer \in {t, NoThread}
  /\ lock' = IF lock.writer = t \/ lock.readers < -1 THEN lock
             ELSE [lock EXCEPT !.readers = @ + 1]

(* Faulty variant: the readers are not waited for.                         *)
wrlock_Barges(t) ==
  /\ lock.writer \in {t, NoThread}
  /\ lock' = [lock EXCEPT !.writer = t]

wrlock(t) ==
  /\ lock.writer = t \/ (lock.writer = NoThread /\ lock.readers = 0)
  /\ lock' = [lock EXCEPT !.writer = t]

unlock(t) ==
  /\ lock' = IF lock.writer = t THEN [lock EXCEPT !.writer = NoThread]
             ELSE [lock EXCEPT !.readers = @ - 1]
  /\ strayed' = (strayed \/ (lock.writer # t /\ lock.readers <= 0))

(* Faulty variant: the lock of a variable does not exclude.                *)
VarWrite_Open(t, v) == owner' = [owner EXCEPT ![v] = t]

(* The lock of a variable: no code nests guards of it.                     *)
VarWrite(t, v) ==
  /\ owner[v] \in {t, NoThread}
  /\ owner' = [owner EXCEPT ![v] = t]

VarRead(t, v) ==
  /\ owner[v] \in {t, NoThread}
  /\ owner' = [owner EXCEPT ![v] = NoThread]

-----------------------------------------------------------------------------
(* Config::Lookup(name, default_value)                                     *)

LookupEnter(t) ==
  /\ pc[t] = "user" /\ wrlock(t)
  /\ Goto(t, "insert")
  /\ UNCHANGED <<s_datas, objVars, owner, loadVars, target, strayed, leaky>>

(* Faulty variant: a variable of another type is replaced.                 *)
Insert_Replaces(name, v) == [s_datas EXCEPT ![name] = v]

(* insert() does nothing when the name is there.                           *)
Insert(name, v) ==
  IF s_datas[name] = NoVar THEN [s_datas EXCEPT ![name] = v] ELSE s_datas

Exists(name, type) == s_datas[name] # NoVar /\ objs[s_datas[name]].type = type

(* Return the variable if it has the type (or throw for a bad name), or    *)
(* make a new one; with the wrong type the new one is not in the table.    *)
LookupReturns(t) ==
  /\ pc[t] = "insert"
  /\ \/ UNCHANGED <<s_datas, objVars, owner>>
     \/ \E name \in Names, type \in Types, val \in Values :
          /\ ~Exists(name, type) /\ Len(objs) < MaxVars
          /\ objs' = Append(objs, [name |-> name, type |-> type])
          /\ m_val' = Append(m_val, val)
          /\ s_func_id' = Append(s_func_id, 0)
          /\ m_cbs' = Append(m_cbs, {}) /\ told' = Append(told, val)
          /\ owner' = Append(owner, NoThread)
          /\ s_datas' = Insert(name, Len(objs) + 1)
  /\ Goto(t, "user")
  /\ UNCHANGED <<lock, loadVars, target, strayed, leaky>>

(* Config::Lookup(name), LookupBase and Visit: find under a ReadLock.      *)
FindEnter(t) ==
  /\ pc[t] = "user" /\ rdlock(t) /\ lock.readers >= -MaxStray
  /\ Goto(t, "find")
  /\ UNCHANGED <<s_datas, objVars, owner, loadVars, target, strayed, leaky>>

FindReturns(t) ==
  /\ pc[t] = "find" /\ unlock(t)
  /\ Goto(t, "user")
  /\ UNCHANGED <<s_datas, objVars, owner, loadVars, target, leaky>>

-----------------------------------------------------------------------------
(* ConfigVar: listeners                                                    *)

Room == FoldSeq(LAMBDA keys, n : n + Cardinality(keys), 0, m_cbs) < MaxKeys

Add(v, key) == m_cbs' = [m_cbs EXCEPT ![v] = @ \cup {key}]

(* The first free key up to s_func_id, or the next one.                    *)
FreeKey(v) ==
  LET free == (0..s_func_id[v]) \ m_cbs[v] IN
  IF free = {} THEN s_func_id[v] + 1 ELSE CHOOSE k \in free : \A l \in free : k <= l

addListener(t, v) ==
  /\ pc[t] = "user" /\ VarWrite(t, v) /\ Room
  /\ Add(v, FreeKey(v))
  /\ s_func_id' = [s_func_id EXCEPT ![v] = IF FreeKey(v) > @ THEN @ + 1 ELSE @]
  /\ UNCHANGED <<s_datas, objs, m_val, told, lock, pc, loadVars, target,
                 strayed, leaky>>

funcIdGrowthValid(v, key) ==
  IF s_func_id[v] < Threshold THEN key < s_func_id[v] * 2
  ELSE key < (s_func_id[v] + 3 * Threshold) \div 4 + s_func_id[v]

(* Faulty variant: s_func_id is left behind.                               *)
GrownTo_Missing(v, key) == s_func_id[v]

GrownTo(v, key) == IF key > s_func_id[v] THEN key ELSE s_func_id[v]

(* With a key; an invalid one is refused with an exception, but the lock   *)
(* of the variable has been taken.                                         *)
addListenerAt(t, v, key) ==
  /\ pc[t] = "user" /\ VarWrite(t, v) /\ (funcIdGrowthValid(v, key) => Room)
  /\ IF funcIdGrowthValid(v, key)
     THEN /\ Add(v, key)
          /\ s_func_id' = [s_func_id EXCEPT ![v] = GrownTo(v, key)]
     ELSE UNCHANGED <<m_cbs, s_func_id>>
  /\ UNCHANGED <<s_datas, objs, m_val, told, lock, pc, loadVars, target,
                 strayed, leaky>>

clearListener(t, v) ==
  /\ pc[t] = "user" /\ VarWrite(t, v)
  /\ m_cbs' = [m_cbs EXCEPT ![v] = {}]
  /\ UNCHANGED <<s_datas, objs, m_val, s_func_id, told, lock, pc, loadVars,
                 target, strayed, leaky>>

(* getListener, getName and getDescription: a ReadLock.                    *)
getListener(t, v) ==
  /\ pc[t] = "user" /\ VarRead(t, v)
  /\ UNCHANGED <<s_datas, objVars, lock, pc, loadVars, target, strayed, leaky>>

-----------------------------------------------------------------------------
(* ConfigVar::setValue, called by the application or by fromString.        *)

setValue(t, v, val, ret) ==
  /\ target' = [target EXCEPT ![t] = [var |-> v, val |-> val, ret |-> ret]]
  /\ Goto(t, "set")

SetByUser(t, v, val) ==
  /\ pc[t] = "user" /\ setValue(t, v, val, "user")
  /\ UNCHANGED <<s_datas, objVars, lock, owner, loadVars, strayed, leaky>>

SetReturns(t) == Goto(t, target[t].ret) /\ target' = [target EXCEPT ![t] = NoTarget]

(* Nothing happens if the value is the same; else the listeners are called *)
(* until one throws.  fromString catches the exception, setValue does not. *)
(* The calls are one step: no listener asks for the name or the listeners  *)
(* of its own variable, as the end of that ReadLock would release the lock *)
(* in the middle of setValue.                                              *)
Notify(t) ==
  LET v == target[t].var IN
  /\ pc[t] = "set" /\ VarWrite(t, v)
  /\ \/ m_val[v] = target[t].val /\ SetReturns(t) /\ UNCHANGED told
     \/ /\ m_val[v] # target[t].val /\ m_cbs[v] # {}
        /\ SetReturns(t) /\ UNCHANGED told
     \/ /\ m_val[v] # target[t].val
        /\ told' = [told EXCEPT ![v] = target[t].val]
        /\ Goto(t, "assign") /\ UNCHANGED target
  /\ UNCHANGED <<s_datas, objs, m_val, s_func_id, m_cbs, lock, loadVars, strayed,
                 leaky>>

(* m_val = v.                                                              *)
Assign(t) ==
  LET v == target[t].var IN
  /\ pc[t] = "assign"
  /\ m_val' = [m_val EXCEPT ![v] = target[t].val]
  /\ SetReturns(t)
  /\ UNCHANGED <<s_datas, objs, s_func_id, m_cbs, told, lock, owner, loadVars,
                 strayed, leaky>>

-----------------------------------------------------------------------------
(* Config::LoadFromYaml, first ListAllMember("", root, all_nodes): one     *)
(* guard per level of the recursion.                                       *)

LoadEnter(t, d) ==
  /\ pc[t] = "user" /\ rdlock(t) /\ lock.readers >= -MaxStray
  /\ leaky' = (leaky \/ lock.writer = t)
  /\ doc' = [doc EXCEPT ![t] = d] /\ pos' = [pos EXCEPT ![t] = 1]
  /\ depth' = [depth EXCEPT ![t] = 1] /\ nodes' = [nodes EXCEPT ![t] = <<>>]
  /\ Goto(t, "list")
  /\ UNCHANGED <<s_datas, objVars, owner, target, strayed>>

Here(t) == doc[t][pos[t]]

(* The first node behind pos[t] that is not below it.                      *)
BehindSubtree(t) ==
  LET later == {j \in pos[t] + 1..Len(doc[t]) : doc[t][j].depth <= Here(t).depth} IN
  IF later = {} THEN Len(doc[t]) + 1 ELSE CHOOSE j \in later : \A l \in later : j <= l

(* Go down into a child; one with an invalid name returns at once, and its *)
(* children are not visited.                                               *)
ListMember(t) ==
  /\ pc[t] = "list" /\ pos[t] <= Len(doc[t]) /\ Here(t).depth = depth[t]
  /\ rdlock(t)
  /\ depth' = [depth EXCEPT ![t] = @ + 1]
  /\ IF Here(t).name = BadName
     THEN pos' = [pos EXCEPT ![t] = BehindSubtree(t)] /\ UNCHANGED nodes
     ELSE /\ pos' = [pos EXCEPT ![t] = @ + 1]
          /\ nodes' = [nodes EXCEPT ![t] = Append(@, Here(t))]
  /\ UNCHANGED <<s_datas, objVars, owner, pc, doc, target, strayed, leaky>>

(* Return to the parent, and from the root to LoadFromYaml.                *)
ListReturns(t) ==
  /\ pc[t] = "list" /\ depth[t] > 0
  /\ pos[t] <= Len(doc[t]) => Here(t).depth < depth[t]
  /\ unlock(t)
  /\ depth' = [depth EXCEPT ![t] = @ - 1]
  /\ UNCHANGED <<s_datas, objVars, owner, pc, doc, pos, nodes, target, leaky>>

LoadLocks(t) ==
  /\ pc[t] = "list" /\ depth[t] = 0 /\ rdlock(t)
  /\ pos' = [pos EXCEPT ![t] = 1]
  /\ Goto(t, "load")
  /\ UNCHANGED <<s_datas, objVars, owner, doc, depth, nodes, target, strayed, leaky>>

(* LookupBase(key), under a guard of its own.                              *)
LoadFind(t) ==
  /\ pc[t] = "load" /\ pos[t] <= Len(nodes[t]) /\ rdlock(t)
  /\ Goto(t, "loadFind")
  /\ UNCHANGED <<s_datas, objVars, owner, loadVars, target, strayed, leaky>>

(* fromString: a text that does not convert throws, and it is caught.      *)
LoadNode(t) ==
  LET node == nodes[t][pos[t]] IN
  /\ pc[t] = "loadFind" /\ unlock(t)
  /\ pos' = [pos EXCEPT ![t] = @ + 1]
  /\ IF s_datas[node.name] = NoVar \/ node.text = BadText
     THEN Goto(t, "load") /\ UNCHANGED target
     ELSE setValue(t, s_datas[node.name], node.text, "load")
  /\ UNCHANGED <<s_datas, objVars, owner, doc, depth, nodes, leaky>>

LoadReturns(t) ==
  /\ pc[t] = "load" /\ pos[t] > Len(nodes[t]) /\ unlock(t)
  /\ doc' = [doc EXCEPT ![t] = <<>>] /\ nodes' = [nodes EXCEPT ![t] = <<>>]
  /\ pos' = [pos EXCEPT ![t] = 1]
  /\ Goto(t, "user")
  /\ UNCHANGED <<s_datas, objVars, owner, depth, target, leaky>>

Next == \E t \in Threads :
  \/ LookupEnter(t) \/ LookupReturns(t) \/ FindEnter(t) \/ FindReturns(t)
  \/ \E v \in DOMAIN objs \cap Used :
       \/ addListener(t, v) \/ clearListener(t, v) \/ getListener(t, v)
       \/ \E key \in 0..MaxKeys + 1 : addListenerAt(t, v, key)
       \/ \E val \in Values : SetByUser(t, v, val)
  \/ Notify(t) \/ Assign(t)
  \/ \E d \in Docs : LoadEnter(t, d)
  \/ ListMember(t) \/ ListReturns(t)
  \/ LoadLocks(t) \/ LoadFind(t) \/ LoadNode(t) \/ LoadReturns(t)

Spec == Init /\ [][Next]_vars

-----------------------------------------------------------------------------
TypeOK ==
  /\ s_datas \in [Names -> 1..Len(objs) \cup {NoVar}]
  /\ \A v \in DOMAIN objs :
       /\ objs[v] \in [name : Names, type : Types]
       /\ m_val[v] \in Values /\ s_func_id[v] \in Nat
       /\ m_cbs[v] \subseteq 0..s_func_id[v] /\ told[v] \in Values
       /\ owner[v] \in Threads \cup {NoThread}
  /\ lock \in [writer : Threads \cup {NoThread}, readers : Int]
  /\ pc \in [Threads -> {"user", "insert", "find", "set", "assign", "list", "load", "loadFind"}]

(* The first variable made for a name is the one in the table for good, and*)
(* all lookups of the name with its type get it; only a lookup with        *)
(* another type gets one that nobody else has.                             *)
SameVariable ==
  \A v \in DOMAIN objs :
    LET known == s_datas[objs[v].name] IN
    known # NoVar /\ known <= v /\ (known = v \/ objs[known].type # objs[v].type)

(* The value the listeners were all called with last is the variable's:    *)
(* the calls and the assignments of several threads do not mix, and a      *)
(* listener that throws leaves the value as it was.                        *)
ListenersInformed ==
  \A v \in DOMAIN objs :
    told[v] = m_val[v] \/ \E t \in Threads : pc[t] = "assign" /\ target[t].var = v

(* addListener(cb) always finds a key that is free: a listener is never    *)
(* dropped by insert() because of keys others have chosen.                 *)
ListenerKept == \A v \in DOMAIN objs : FreeKey(v) \notin m_cbs[v]

(* Nobody reads the table while a Lookup may insert, no two of them are in *)
(* it, and every unlock finds a lock to release, although the write lock   *)
(* is leaked and EDEADLK is ignored, as long as no thread has loaded a     *)
(* document while it had the leaked lock: then the unlocks of its nested   *)
(* guards take what others hold, or take the count of readers below zero,  *)
(* and every later Lookup with a default value waits for good.             *)
TableExclusive ==
  ~leaky =>
    /\ ~strayed
    /\ \A t, u \in Threads : pc[t] = "insert" /\ pc[u] \in {"insert", "find", "loadFind"}
                             => t = u

=============================================================================
