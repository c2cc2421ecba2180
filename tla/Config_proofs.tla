--------------------------- MODULE Config_proofs ----------------------------
(***************************************************************************)
(* Theorems about Config, for any number of threads, names, types,         *)
(* documents and variables.                                                *)
(***************************************************************************)
EXTENDS Config, TLAPS, FiniteSetTheorems, SequenceTheorems, WellFoundedInduction

(* The places of a thread.                                                 *)
Points == {"user", "insert", "find", "set", "assign", "list", "load", "loadFind"}

(* What ListAllMember collects: nodes with a valid name.                   *)
Found == [name : Names, depth : Nat \ {0}, text : Values \cup {BadText}]

(* The table leads to variables that were made.                            *)
TableTypes ==
  /\ objs \in Seq([name : Names, type : Types])
  /\ s_datas \in [Names -> 1 .. Len(objs) \cup {NoVar}]

(* There is a value, a history, a counter of keys, a set of keys and a     *)
(* lock for each variable.                                                 *)
VarTypes ==
  /\ m_val \in Seq(Values) /\ Len(m_val) = Len(objs)
  /\ told \in Seq(Values) /\ Len(told) = Len(objs)
  /\ s_func_id \in Seq(Nat) /\ Len(s_func_id) = Len(objs)
  /\ m_cbs \in Seq(SUBSET Nat) /\ Len(m_cbs) = Len(objs)
  /\ owner \in Seq(Threads \cup {NoThread}) /\ Len(owner) = Len(objs)

(* The place of each thread, and the locals of its LoadFromYaml.           *)
LoadTypes ==
  /\ pc \in [Threads -> Points]
  /\ doc \in [Threads -> Seq(Node)] /\ nodes \in [Threads -> Seq(Found)]
  /\ pos \in [Threads -> Nat \ {0}] /\ depth \in [Threads -> Nat]
  /\ \A t \in Threads : pc[t] = "loadFind" => pos[t] <= Len(nodes[t])

(* The lock of the table; its number of readers may be negative.           *)
LockTypes ==
  /\ lock \in [writer : Threads \cup {NoThread}, readers : Int]
  /\ strayed \in BOOLEAN /\ leaky \in BOOLEAN

(* A setValue under way is about a variable that was made and a value of   *)
(* it.                                                                     *)
TargetTypes ==
  /\ target \in [Threads -> [var : Nat \cup {NoVar}, val : Values \cup {BadText},
                             ret : {"user", "load"}]]
  /\ \A t \in Threads : pc[t] \in {"set", "assign"} =>
       target[t].var \in DOMAIN objs /\ target[t].val \in Values

(* A set of natural numbers that is not empty has a least element: the     *)
(* loops that search for one end with it.                                  *)
LEMMA Least ==
  ASSUME NEW S \in SUBSET Nat, S # {}
  PROVE  \E m \in S : \A n \in S : m <= n
<1> DEFINE R == {p \in Nat \X Nat : p[1] < p[2]}
<1>1. IsWellFoundedOn(R, Nat)
  BY NatLessThanWellFounded DEF OpToRel
<1> HIDE DEF R
<1>2. PICK m \in S : \A n \in S : ~ (<<n, m>> \in R)
  BY <1>1, WFMin
<1>3. ASSUME NEW n \in S PROVE m <= n
  <2>1. ~ (<<n, m>> \in R)
    BY <1>2
  <2> QED
    BY <2>1 DEF R
<1> QED
  BY <1>3

-----------------------------------------------------------------------------
(* Types.                                                                  *)

(* Nothing is made initially.                                              *)
LEMMA InitTableTypes == Init => TableTypes
  BY DEF Init, TableTypes

(* Only Lookup makes variables.                                            *)
LEMMA NextTableTypes ==
  ASSUME TableTypes, [Next]_vars PROVE TableTypes'
<1> USE ConfigAssumption DEF TableTypes
<1>1. ASSUME NEW t \in Threads, LookupEnter(t)
      PROVE  TableTypes'
  BY <1>1 DEF LookupEnter, objVars, loadVars, Goto
<1>2. ASSUME NEW t \in Threads, LookupReturns(t)
      PROVE  TableTypes'
  <2> SUFFICES ASSUME ~UNCHANGED <<s_datas, objVars, owner>> PROVE TableTypes'
    BY <1>2 DEF LookupReturns, objVars, loadVars, Goto
  <2>1. PICK name \in Names, type \in Types, val \in Values :
          /\ ~Exists(name, type) /\ Len(objs) < MaxVars
          /\ objs' = Append(objs, [name |-> name, type |-> type])
          /\ m_val' = Append(m_val, val)
          /\ s_func_id' = Append(s_func_id, 0)
          /\ m_cbs' = Append(m_cbs, {}) /\ told' = Append(told, val)
          /\ owner' = Append(owner, NoThread)
          /\ s_datas' = Insert(name, Len(objs) + 1)
    BY <1>2 DEF LookupReturns
  <2>2. /\ objs' \in Seq([name : Names, type : Types]) /\ Len(objs') = Len(objs) + 1
    BY <2>1, AppendProperties
  <2>3. s_datas' \in [Names -> 1 .. Len(objs') \cup {NoVar}]
    BY <2>1, <2>2 DEF Insert
  <2> QED
    BY <2>2, <2>3
<1>3. ASSUME NEW t \in Threads, FindEnter(t)
      PROVE  TableTypes'
  BY <1>3 DEF FindEnter, objVars, loadVars, Goto
<1>4. ASSUME NEW t \in Threads, FindReturns(t)
      PROVE  TableTypes'
  BY <1>4 DEF FindReturns, objVars, loadVars, Goto
<1>5. ASSUME NEW t \in Threads, NEW v \in DOMAIN objs, addListener(t, v)
      PROVE  TableTypes'
  BY <1>5 DEF addListener, loadVars, Add
<1>6. ASSUME NEW t \in Threads, NEW v \in DOMAIN objs, clearListener(t, v)
      PROVE  TableTypes'
  BY <1>6 DEF clearListener, loadVars
<1>7. ASSUME NEW t \in Threads, NEW v \in DOMAIN objs, getListener(t, v)
      PROVE  TableTypes'
  BY <1>7 DEF getListener, objVars, loadVars, VarRead
<1>8. ASSUME NEW t \in Threads, NEW v \in DOMAIN objs,
             NEW key \in 0 .. MaxKeys + 1, addListenerAt(t, v, key)
      PROVE  TableTypes'
  BY <1>8 DEF addListenerAt, loadVars, Add
<1>9. ASSUME NEW t \in Threads, NEW v \in DOMAIN objs,
             NEW val \in Values, SetByUser(t, v, val)
      PROVE  TableTypes'
  BY <1>9 DEF SetByUser, objVars, loadVars, Goto, setValue
<1>10. ASSUME NEW t \in Threads, Notify(t)
      PROVE  TableTypes'
  BY <1>10 DEF Notify, loadVars, Goto, SetReturns, NoTarget
<1>11. ASSUME NEW t \in Threads, Assign(t)
      PROVE  TableTypes'
  BY <1>11 DEF Assign, loadVars, Goto, SetReturns, NoTarget
<1>12. ASSUME NEW t \in Threads, NEW d \in Docs, LoadEnter(t, d)
      PROVE  TableTypes'
  BY <1>12 DEF LoadEnter, objVars, Goto
<1>13. ASSUME NEW t \in Threads, ListMember(t)
      PROVE  TableTypes'
  BY <1>13 DEF ListMember, objVars, Here, BehindSubtree
<1>14. ASSUME NEW t \in Threads, ListReturns(t)
      PROVE  TableTypes'
  BY <1>14 DEF ListReturns, objVars, Here
<1>15. ASSUME NEW t \in Threads, LoadLocks(t)
      PROVE  TableTypes'
  BY <1>15 DEF LoadLocks, objVars, Goto
<1>16. ASSUME NEW t \in Threads, LoadFind(t)
      PROVE  TableTypes'
  BY <1>16 DEF LoadFind, objVars, loadVars, Goto
<1>17. ASSUME NEW t \in Threads, LoadNode(t)
      PROVE  TableTypes'
  BY <1>17 DEF LoadNode, objVars, Goto, setValue
<1>18. ASSUME NEW t \in Threads, LoadReturns(t)
      PROVE  TableTypes'
  BY <1>18 DEF LoadReturns, objVars, Goto
<1>19. ASSUME UNCHANGED vars PROVE TableTypes'
  BY <1>19 DEF vars, objVars, loadVars
<1> QED
  BY <1>1, <1>2, <1>3, <1>4, <1>5, <1>6, <1>7, <1>8, <1>9, <1>10, <1>11,
     <1>12, <1>13, <1>14, <1>15, <1>16, <1>17, <1>18, <1>19 DEF Next

(* Nothing is made initially.                                              *)
LEMMA InitVarTypes == Init => VarTypes
  BY DEF Init, VarTypes

(* The search for a free key ends at the key behind s_func_id, or before.  *)
LEMMA FreeKeyType ==
  ASSUME VarTypes, NEW v \in DOMAIN objs
  PROVE  FreeKey(v) \in Nat /\ FreeKey(v) <= s_func_id[v] + 1
<1>1. s_func_id[v] \in Nat
  BY DEF VarTypes
<1> DEFINE free == (0 .. s_func_id[v]) \ m_cbs[v]
<1>2. CASE free = {}
  BY <1>1, <1>2 DEF FreeKey
<1>3. CASE free # {}
  <2>1. free \in SUBSET Nat
    BY <1>1
  <2>2. \E k \in free : \A l \in free : k <= l
    BY <1>3, <2>1, Least
  <2> QED
    BY <1>1, <1>3, <2>2 DEF FreeKey
<1> QED
  BY <1>2, <1>3

(* Every step keeps the types of the variables.                            *)
LEMMA NextVarTypes ==
  ASSUME TableTypes, VarTypes, TargetTypes, [Next]_vars PROVE VarTypes'
<1> USE ConfigAssumption DEF TableTypes, VarTypes, TargetTypes
<1>1. ASSUME NEW t \in Threads, LookupEnter(t)
      PROVE  VarTypes'
  BY <1>1, FreeKeyType, ExceptSeq DEF LookupEnter, objVars, loadVars, Goto
<1>2. ASSUME NEW t \in Threads, LookupReturns(t)
      PROVE  VarTypes'
  <2> SUFFICES ASSUME ~UNCHANGED <<s_datas, objVars, owner>> PROVE VarTypes'
    BY <1>2 DEF LookupReturns, objVars, loadVars, Goto
  <2>1. PICK name \in Names, type \in Types, val \in Values :
          /\ ~Exists(name, type) /\ Len(objs) < MaxVars
          /\ objs' = Append(objs, [name |-> name, type |-> type])
          /\ m_val' = Append(m_val, val)
          /\ s_func_id' = Append(s_func_id, 0)
          /\ m_cbs' = Append(m_cbs, {}) /\ told' = Append(told, val)
          /\ owner' = Append(owner, NoThread)
          /\ s_datas' = Insert(name, Len(objs) + 1)
    BY <1>2 DEF LookupReturns
  <2>2. Len(objs') = Len(objs) + 1
    BY <2>1, AppendProperties
  <2>3. m_val' \in Seq(Values) /\ Len(m_val') = Len(objs')
    BY <2>1, <2>2, AppendProperties
  <2>4. told' \in Seq(Values) /\ Len(told') = Len(objs')
    BY <2>1, <2>2, AppendProperties
  <2>5. s_func_id' \in Seq(Nat) /\ Len(s_func_id') = Len(objs')
    BY <2>1, <2>2, AppendProperties
  <2>6. m_cbs' \in Seq(SUBSET Nat) /\ Len(m_cbs') = Len(objs')
    BY <2>1, <2>2, AppendProperties
  <2>7. owner' \in Seq(Threads \cup {NoThread}) /\ Len(owner') = Len(objs')
    BY <2>1, <2>2, AppendProperties
  <2> QED
    BY <2>3, <2>4, <2>5, <2>6, <2>7
<1>3. ASSUME NEW t \in Threads, FindEnter(t)
      PROVE  VarTypes'
  BY <1>3, FreeKeyType, ExceptSeq DEF FindEnter, objVars, loadVars, Goto
<1>4. ASSUME NEW t \in Threads, FindReturns(t)
      PROVE  VarTypes'
  BY <1>4, FreeKeyType, ExceptSeq DEF FindReturns, objVars, loadVars, Goto
<1>5. ASSUME NEW t \in Threads, NEW v \in DOMAIN objs, addListener(t, v)
      PROVE  VarTypes'
  BY <1>5, FreeKeyType, ExceptSeq DEF addListener, loadVars, VarWrite, Add,
     GrownTo
<1>6. ASSUME NEW t \in Threads, NEW v \in DOMAIN objs, clearListener(t, v)
      PROVE  VarTypes'
  BY <1>6, FreeKeyType, ExceptSeq DEF clearListener, loadVars, VarWrite
<1>7. ASSUME NEW t \in Threads, NEW v \in DOMAIN objs, getListener(t, v)
      PROVE  VarTypes'
  BY <1>7, FreeKeyType, ExceptSeq DEF getListener, objVars, loadVars, VarRead
<1>8. ASSUME NEW t \in Threads, NEW v \in DOMAIN objs,
             NEW key \in 0 .. MaxKeys + 1, addListenerAt(t, v, key)
      PROVE  VarTypes'
  <2>1. owner' \in Seq(Threads \cup {NoThread}) /\ Len(owner') = Len(objs)
    BY <1>8, ExceptSeq DEF addListenerAt, VarWrite
  <2>2. CASE funcIdGrowthValid(v, key)
    <3>1. key \in Nat /\ m_cbs[v] \cup {key} \in SUBSET Nat
      BY ConfigAssumption
    <3>5. m_cbs' = [m_cbs EXCEPT ![v] = m_cbs[v] \cup {key}]
      BY <1>8, <2>2 DEF addListenerAt, Add
    <3>2. m_cbs' \in Seq(SUBSET Nat) /\ Len(m_cbs') = Len(objs)
      BY <3>1, <3>5, ExceptSeq
    <3>3. GrownTo(v, key) \in Nat
      BY <3>1 DEF GrownTo
    <3>4. s_func_id' \in Seq(Nat) /\ Len(s_func_id') = Len(objs)
      BY <1>8, <2>2, <3>3, ExceptSeq, SMTT(30) DEF addListenerAt
    <3> QED
      BY <1>8, <2>1, <3>2, <3>4 DEF addListenerAt
  <2>3. CASE ~funcIdGrowthValid(v, key)
    BY <1>8, <2>1, <2>3 DEF addListenerAt
  <2> QED
    BY <2>2, <2>3
<1>9. ASSUME NEW t \in Threads, NEW v \in DOMAIN objs,
             NEW val \in Values, SetByUser(t, v, val)
      PROVE  VarTypes'
  BY <1>9, FreeKeyType, ExceptSeq DEF SetByUser, objVars, loadVars, Goto,
     setValue
<1>10. ASSUME NEW t \in Threads, Notify(t)
      PROVE  VarTypes'
  <2>1. target[t].var \in DOMAIN objs /\ target[t].val \in Values
    BY <1>10 DEF Notify
  <2>2. owner' \in Seq(Threads \cup {NoThread}) /\ Len(owner') = Len(objs)
    BY <1>10, <2>1, ExceptSeq DEF Notify, VarWrite
  <2>3. told' \in Seq(Values) /\ Len(told') = Len(objs)
    <3>1. told' = told \/ told' = [told EXCEPT ![target[t].var] = target[t].val]
      BY <1>10 DEF Notify
    <3> QED
      BY <2>1, <3>1, ExceptSeq
  <2> QED
    BY <1>10, <2>2, <2>3 DEF Notify
<1>11. ASSUME NEW t \in Threads, Assign(t)
      PROVE  VarTypes'
  BY <1>11, FreeKeyType, ExceptSeq DEF Assign, loadVars, Goto, SetReturns,
     NoTarget
<1>12. ASSUME NEW t \in Threads, NEW d \in Docs, LoadEnter(t, d)
      PROVE  VarTypes'
  BY <1>12, FreeKeyType, ExceptSeq DEF LoadEnter, objVars, Goto
<1>13. ASSUME NEW t \in Threads, ListMember(t)
      PROVE  VarTypes'
  BY <1>13, FreeKeyType, ExceptSeq DEF ListMember, objVars, Here,
     BehindSubtree
<1>14. ASSUME NEW t \in Threads, ListReturns(t)
      PROVE  VarTypes'
  BY <1>14, FreeKeyType, ExceptSeq DEF ListReturns, objVars, Here
<1>15. ASSUME NEW t \in Threads, LoadLocks(t)
      PROVE  VarTypes'
  BY <1>15, FreeKeyType, ExceptSeq DEF LoadLocks, objVars, Goto
<1>16. ASSUME NEW t \in Threads, LoadFind(t)
      PROVE  VarTypes'
  BY <1>16, FreeKeyType, ExceptSeq DEF LoadFind, objVars, loadVars, Goto
<1>17. ASSUME NEW t \in Threads, LoadNode(t)
      PROVE  VarTypes'
  BY <1>17, FreeKeyType, ExceptSeq DEF LoadNode, objVars, Goto, setValue
<1>18. ASSUME NEW t \in Threads, LoadReturns(t)
      PROVE  VarTypes'
  BY <1>18, FreeKeyType, ExceptSeq DEF LoadReturns, objVars, Goto
<1>19. ASSUME UNCHANGED vars PROVE VarTypes'
  BY <1>19 DEF vars, objVars, loadVars
<1> QED
  BY <1>1, <1>2, <1>3, <1>4, <1>5, <1>6, <1>7, <1>8, <1>9, <1>10, <1>11,
     <1>12, <1>13, <1>14, <1>15, <1>16, <1>17, <1>18, <1>19 DEF Next

(* The table is not locked initially.                                      *)
LEMMA InitLockTypes == Init => LockTypes
<1> SUFFICES ASSUME Init PROVE LockTypes
  OBVIOUS
<1>1. strayed \in BOOLEAN /\ leaky \in BOOLEAN
  BY DEF Init
<1>2. lock \in [writer : Threads \cup {NoThread}, readers : Int]
  BY DEF Init
<1> QED
  BY <1>1, <1>2 DEF LockTypes

(* The two steps of setValue, and its return, move nothing else.           *)
LEMMA SetSteps ==
  ASSUME NEW t \in Threads, Notify(t) \/ Assign(t)
  PROVE  /\ \/ target' = target /\ pc' = [pc EXCEPT ![t] = "assign"]
            \/ /\ target' = [target EXCEPT ![t] = NoTarget]
               /\ pc' = [pc EXCEPT ![t] = target[t].ret]
         /\ pc[t] \in {"set", "assign"}
         /\ UNCHANGED <<s_datas, objs, loadVars, strayed, leaky, lock, m_cbs, s_func_id>>
  BY DEF Notify, Assign, SetReturns, Goto

(* pthread_rwlock_t keeps its type.                                        *)
LEMMA LockSteps ==
  ASSUME LockTypes, NEW t \in Threads
  PROVE  /\ rdlock(t) => lock' \in [writer : Threads \cup {NoThread}, readers : Int]
         /\ wrlock(t) => lock' \in [writer : Threads \cup {NoThread}, readers : Int]
         /\ unlock(t) => /\ lock' \in [writer : Threads \cup {NoThread}, readers : Int]
                         /\ strayed' \in BOOLEAN
<1>1. rdlock(t) => lock' \in [writer : Threads \cup {NoThread}, readers : Int]
  BY DEF LockTypes, rdlock
<1>2. wrlock(t) => lock' \in [writer : Threads \cup {NoThread}, readers : Int]
  BY DEF LockTypes, wrlock
<1>3. unlock(t) => lock' \in [writer : Threads \cup {NoThread}, readers : Int]
  BY DEF LockTypes, unlock
<1>4. unlock(t) => strayed' \in BOOLEAN
  BY DEF LockTypes, unlock
<1> QED
  BY <1>1, <1>2, <1>3, <1>4

(* Every step keeps the type of the lock.                                  *)
LEMMA NextLockTypes ==
  ASSUME LockTypes, [Next]_vars PROVE LockTypes'
<1>1. ASSUME NEW t \in Threads, LookupEnter(t)
      PROVE  LockTypes'
  <2>1. lock' \in [writer : Threads \cup {NoThread}, readers : Int]
    BY <1>1, LockSteps DEF LookupEnter, LockTypes
  <2>2. strayed' \in BOOLEAN /\ leaky' \in BOOLEAN
    BY <1>1, LockSteps DEF LookupEnter, LockTypes
  <2> QED
    BY <2>1, <2>2 DEF LockTypes
<1>2. ASSUME NEW t \in Threads, LookupReturns(t)
      PROVE  LockTypes'
  BY <1>2 DEF LookupReturns, LockTypes
<1>3. ASSUME NEW t \in Threads, FindEnter(t)
      PROVE  LockTypes'
  <2>1. lock' \in [writer : Threads \cup {NoThread}, readers : Int]
    BY <1>3, LockSteps DEF FindEnter, LockTypes
  <2>2. strayed' \in BOOLEAN /\ leaky' \in BOOLEAN
    BY <1>3, LockSteps DEF FindEnter, LockTypes
  <2> QED
    BY <2>1, <2>2 DEF LockTypes
<1>4. ASSUME NEW t \in Threads, FindReturns(t)
      PROVE  LockTypes'
  <2>1. lock' \in [writer : Threads \cup {NoThread}, readers : Int]
    BY <1>4, LockSteps DEF FindReturns, LockTypes
  <2>2. strayed' \in BOOLEAN /\ leaky' \in BOOLEAN
    BY <1>4, LockSteps DEF FindReturns, LockTypes
  <2> QED
    BY <2>1, <2>2 DEF LockTypes
<1>5. ASSUME NEW t \in Threads, NEW v \in DOMAIN objs, addListener(t, v)
      PROVE  LockTypes'
  BY <1>5 DEF addListener, LockTypes
<1>6. ASSUME NEW t \in Threads, NEW v \in DOMAIN objs, clearListener(t, v)
      PROVE  LockTypes'
  BY <1>6 DEF clearListener, LockTypes
<1>7. ASSUME NEW t \in Threads, NEW v \in DOMAIN objs, getListener(t, v)
      PROVE  LockTypes'
  BY <1>7 DEF getListener, LockTypes
<1>8. ASSUME NEW t \in Threads, NEW v \in DOMAIN objs,
             NEW key \in 0 .. MaxKeys + 1, addListenerAt(t, v, key)
      PROVE  LockTypes'
  BY <1>8 DEF addListenerAt, LockTypes
<1>9. ASSUME NEW t \in Threads, NEW v \in DOMAIN objs,
             NEW val \in Values, SetByUser(t, v, val)
      PROVE  LockTypes'
  BY <1>9 DEF SetByUser, LockTypes
<1>10. ASSUME NEW t \in Threads, Notify(t)
      PROVE  LockTypes'
  BY <1>10 DEF Notify, LockTypes
<1>11. ASSUME NEW t \in Threads, Assign(t)
      PROVE  LockTypes'
  BY <1>11 DEF Assign, LockTypes
<1>12. ASSUME NEW t \in Threads, NEW d \in Docs, LoadEnter(t, d)
      PROVE  LockTypes'
  <2>1. lock' \in [writer : Threads \cup {NoThread}, readers : Int]
    BY <1>12, LockSteps DEF LoadEnter, LockTypes
  <2>2. strayed' \in BOOLEAN /\ leaky' \in BOOLEAN
    BY <1>12, LockSteps DEF LoadEnter, LockTypes
  <2> QED
    BY <2>1, <2>2 DEF LockTypes
<1>13. ASSUME NEW t \in Threads, ListMember(t)
      PROVE  LockTypes'
  <2>1. lock' \in [writer : Threads \cup {NoThread}, readers : Int]
    BY <1>13, LockSteps DEF ListMember, LockTypes
  <2>2. strayed' \in BOOLEAN /\ leaky' \in BOOLEAN
    BY <1>13, LockSteps DEF ListMember, LockTypes
  <2> QED
    BY <2>1, <2>2 DEF LockTypes
<1>14. ASSUME NEW t \in Threads, ListReturns(t)
      PROVE  LockTypes'
  <2>1. lock' \in [writer : Threads \cup {NoThread}, readers : Int]
    BY <1>14, LockSteps DEF ListReturns, LockTypes
  <2>2. strayed' \in BOOLEAN /\ leaky' \in BOOLEAN
    BY <1>14, LockSteps DEF ListReturns, LockTypes
  <2> QED
    BY <2>1, <2>2 DEF LockTypes
<1>15. ASSUME NEW t \in Threads, LoadLocks(t)
      PROVE  LockTypes'
  <2>1. lock' \in [writer : Threads \cup {NoThread}, readers : Int]
    BY <1>15, LockSteps DEF LoadLocks, LockTypes
  <2>2. strayed' \in BOOLEAN /\ leaky' \in BOOLEAN
    BY <1>15, LockSteps DEF LoadLocks, LockTypes
  <2> QED
    BY <2>1, <2>2 DEF LockTypes
<1>16. ASSUME NEW t \in Threads, LoadFind(t)
      PROVE  LockTypes'
  <2>1. lock' \in [writer : Threads \cup {NoThread}, readers : Int]
    BY <1>16, LockSteps DEF LoadFind, LockTypes
  <2>2. strayed' \in BOOLEAN /\ leaky' \in BOOLEAN
    BY <1>16, LockSteps DEF LoadFind, LockTypes
  <2> QED
    BY <2>1, <2>2 DEF LockTypes
<1>17. ASSUME NEW t \in Threads, LoadNode(t)
      PROVE  LockTypes'
  <2>1. lock' \in [writer : Threads \cup {NoThread}, readers : Int]
    BY <1>17, LockSteps DEF LoadNode, LockTypes
  <2>2. strayed' \in BOOLEAN /\ leaky' \in BOOLEAN
    BY <1>17, LockSteps DEF LoadNode, LockTypes
  <2> QED
    BY <2>1, <2>2 DEF LockTypes
<1>18. ASSUME NEW t \in Threads, LoadReturns(t)
      PROVE  LockTypes'
  <2>1. lock' \in [writer : Threads \cup {NoThread}, readers : Int]
    BY <1>18, LockSteps DEF LoadReturns, LockTypes
  <2>2. strayed' \in BOOLEAN /\ leaky' \in BOOLEAN
    BY <1>18, LockSteps DEF LoadReturns, LockTypes
  <2> QED
    BY <2>1, <2>2 DEF LockTypes
<1>19. ASSUME UNCHANGED vars PROVE LockTypes'
  BY <1>19 DEF vars, LockTypes
<1> QED
  BY <1>1, <1>2, <1>3, <1>4, <1>5, <1>6, <1>7, <1>8, <1>9, <1>10, <1>11,
     <1>12, <1>13, <1>14, <1>15, <1>16, <1>17, <1>18, <1>19 DEF Next

(* No load is under way initially.                                         *)
LEMMA InitLoadTypes == Init => LoadTypes
  BY DEF Init, LoadTypes, Points

(* The node behind a subtree has a position.                               *)
LEMMA BehindType ==
  ASSUME NEW t \in Threads, LoadTypes
  PROVE  BehindSubtree(t) \in Nat \ {0}
<1> DEFINE later == {j \in pos[t] + 1 .. Len(doc[t]) : doc[t][j].depth <= Here(t).depth}
<1>1. pos[t] \in Nat \ {0} /\ Len(doc[t]) \in Nat
  BY DEF LoadTypes
<1>2. later \in SUBSET (Nat \ {0})
  BY <1>1
<1>3. CASE later = {}
  BY <1>1, <1>3 DEF BehindSubtree
<1>4. CASE later # {}
  <2>1. \E j \in later : \A l \in later : j <= l
    BY <1>2, <1>4, Least
  <2> QED
    BY <1>2, <1>4, <2>1 DEF BehindSubtree
<1> QED
  BY <1>3, <1>4

(* Every step keeps the types of the locals.                               *)
LEMMA NextLoadTypes ==
  ASSUME LoadTypes, TargetTypes, [Next]_vars PROVE LoadTypes'
<1> USE ConfigAssumption DEF LoadTypes, Points
<1>1. ASSUME NEW t \in Threads, LookupEnter(t)
      PROVE  LoadTypes'
  BY <1>1 DEF LookupEnter, objVars, loadVars, Goto
<1>2. ASSUME NEW t \in Threads, LookupReturns(t)
      PROVE  LoadTypes'
  BY <1>2 DEF LookupReturns, objVars, loadVars, Goto, Insert, Exists
<1>3. ASSUME NEW t \in Threads, FindEnter(t)
      PROVE  LoadTypes'
  BY <1>3 DEF FindEnter, objVars, loadVars, Goto
<1>4. ASSUME NEW t \in Threads, FindReturns(t)
      PROVE  LoadTypes'
  BY <1>4 DEF FindReturns, objVars, loadVars, Goto
<1>5. ASSUME NEW t \in Threads, NEW v \in DOMAIN objs, addListener(t, v)
      PROVE  LoadTypes'
  BY <1>5 DEF addListener, loadVars, VarWrite, Add
<1>6. ASSUME NEW t \in Threads, NEW v \in DOMAIN objs, clearListener(t, v)
      PROVE  LoadTypes'
  BY <1>6 DEF clearListener, loadVars, VarWrite
<1>7. ASSUME NEW t \in Threads, NEW v \in DOMAIN objs, getListener(t, v)
      PROVE  LoadTypes'
  BY <1>7 DEF getListener, objVars, loadVars, VarRead
<1>8. ASSUME NEW t \in Threads, NEW v \in DOMAIN objs,
             NEW key \in 0 .. MaxKeys + 1, addListenerAt(t, v, key)
      PROVE  LoadTypes'
  BY <1>8 DEF addListenerAt, loadVars, VarWrite, Add
<1>9. ASSUME NEW t \in Threads, NEW v \in DOMAIN objs,
             NEW val \in Values, SetByUser(t, v, val)
      PROVE  LoadTypes'
  BY <1>9 DEF SetByUser, objVars, loadVars, Goto, setValue
<1>10. ASSUME NEW t \in Threads, Notify(t)
      PROVE  LoadTypes'
  <2>1. target[t].ret \in {"user", "load"}
    BY DEF TargetTypes
  <2> QED
    BY <1>10, <2>1, SetSteps, ZenonT(60) DEF loadVars
<1>11. ASSUME NEW t \in Threads, Assign(t)
      PROVE  LoadTypes'
  <2>1. target[t].ret \in {"user", "load"}
    BY DEF TargetTypes
  <2> QED
    BY <1>11, <2>1, SetSteps, ZenonT(60) DEF loadVars
<1>12. ASSUME NEW t \in Threads, NEW d \in Docs, LoadEnter(t, d)
      PROVE  LoadTypes'
  BY <1>12 DEF LoadEnter, objVars, Goto
<1>13. ASSUME NEW t \in Threads, ListMember(t)
      PROVE  LoadTypes'
  <2>1. pos[t] \in 1 .. Len(doc[t]) /\ Here(t) \in Node
    BY <1>13 DEF ListMember, Here
  <2>2. pos' \in [Threads -> Nat \ {0}] /\ depth' \in [Threads -> Nat]
    <3>1. BehindSubtree(t) \in Nat \ {0}
      BY BehindType
    <3>2. pos[t] + 1 \in Nat \ {0} /\ depth[t] + 1 \in Nat
      OBVIOUS
    <3> QED
      BY <1>13, <3>1, <3>2, ZenonT(60) DEF ListMember
  <2>3. nodes' \in [Threads -> Seq(Found)]
    <3>1. CASE Here(t).name = BadName
      BY <1>13, <3>1 DEF ListMember
    <3>2. CASE Here(t).name # BadName
      <4>1. Here(t) \in Found
        BY <2>1, <3>2 DEF Node, Found
      <4>2. Append(nodes[t], Here(t)) \in Seq(Found)
        BY <4>1
      <4> QED
        BY <1>13, <3>2, <4>2 DEF ListMember
    <3> QED
      BY <3>1, <3>2
  <2> QED
    BY <1>13, <2>2, <2>3 DEF ListMember
<1>14. ASSUME NEW t \in Threads, ListReturns(t)
      PROVE  LoadTypes'
  BY <1>14 DEF ListReturns, objVars, Here
<1>15. ASSUME NEW t \in Threads, LoadLocks(t)
      PROVE  LoadTypes'
  BY <1>15 DEF LoadLocks, objVars, Goto
<1>16. ASSUME NEW t \in Threads, LoadFind(t)
      PROVE  LoadTypes'
  BY <1>16 DEF LoadFind, objVars, loadVars, Goto
<1>17. ASSUME NEW t \in Threads, LoadNode(t)
      PROVE  LoadTypes'
  <2>1. pc' = [pc EXCEPT ![t] = "load"] \/ pc' = [pc EXCEPT ![t] = "set"]
    BY <1>17 DEF LoadNode, Goto, setValue
  <2>2. pc' \in [Threads -> Points] /\ pc'[t] # "loadFind"
    BY <2>1
  <2>3. pos' \in [Threads -> Nat \ {0}]
    BY <1>17 DEF LoadNode
  <2>4. \A u \in Threads \ {t} : pc'[u] = pc[u] /\ pos'[u] = pos[u]
    BY <1>17, <2>1 DEF LoadNode
  <2> QED
    BY <1>17, <2>2, <2>3, <2>4 DEF LoadNode
<1>18. ASSUME NEW t \in Threads, LoadReturns(t)
      PROVE  LoadTypes'
  BY <1>18 DEF LoadReturns, objVars, Goto
<1>19. ASSUME UNCHANGED vars PROVE LoadTypes'
  BY <1>19 DEF vars, objVars, loadVars
<1> QED
  BY <1>1, <1>2, <1>3, <1>4, <1>5, <1>6, <1>7, <1>8, <1>9, <1>10, <1>11,
     <1>12, <1>13, <1>14, <1>15, <1>16, <1>17, <1>18, <1>19 DEF Next

(* No setValue is under way initially.                                     *)
LEMMA InitTargetTypes == Init => TargetTypes
  BY DEF Init, TargetTypes, NoTarget

(* fromString calls setValue for a variable of the table and a text that   *)
(* converts.                                                               *)
LEMMA NextTargetTypes ==
  ASSUME TableTypes, LoadTypes, TargetTypes, [Next]_vars PROVE TargetTypes'
<1> USE ConfigAssumption DEF TableTypes, LoadTypes, Points, TargetTypes
<1>1. ASSUME NEW t \in Threads, LookupEnter(t)
      PROVE  TargetTypes'
  BY <1>1 DEF LookupEnter, objVars, loadVars, Goto
<1>2. ASSUME NEW t \in Threads, LookupReturns(t)
      PROVE  TargetTypes'
  <2>1. DOMAIN objs \subseteq DOMAIN objs'
    <3> SUFFICES ASSUME ~UNCHANGED <<s_datas, objVars, owner>>
                 PROVE  DOMAIN objs \subseteq DOMAIN objs'
      BY <1>2 DEF LookupReturns, objVars
    <3>1. PICK name \in Names, type \in Types, val \in Values :
            /\ ~Exists(name, type) /\ Len(objs) < MaxVars
            /\ objs' = Append(objs, [name |-> name, type |-> type])
            /\ m_val' = Append(m_val, val)
            /\ s_func_id' = Append(s_func_id, 0)
            /\ m_cbs' = Append(m_cbs, {}) /\ told' = Append(told, val)
            /\ owner' = Append(owner, NoThread)
            /\ s_datas' = Insert(name, Len(objs) + 1)
      BY <1>2 DEF LookupReturns
    <3> QED
      BY <3>1, AppendProperties
  <2> QED
    BY <1>2, <2>1 DEF LookupReturns, Goto
<1>3. ASSUME NEW t \in Threads, FindEnter(t)
      PROVE  TargetTypes'
  BY <1>3 DEF FindEnter, objVars, loadVars, Goto
<1>4. ASSUME NEW t \in Threads, FindReturns(t)
      PROVE  TargetTypes'
  BY <1>4 DEF FindReturns, objVars, loadVars, Goto
<1>5. ASSUME NEW t \in Threads, NEW v \in DOMAIN objs, addListener(t, v)
      PROVE  TargetTypes'
  BY <1>5 DEF addListener, loadVars, VarWrite, Add
<1>6. ASSUME NEW t \in Threads, NEW v \in DOMAIN objs, clearListener(t, v)
      PROVE  TargetTypes'
  BY <1>6 DEF clearListener, loadVars, VarWrite
<1>7. ASSUME NEW t \in Threads, NEW v \in DOMAIN objs, getListener(t, v)
      PROVE  TargetTypes'
  BY <1>7 DEF getListener, objVars, loadVars, VarRead
<1>8. ASSUME NEW t \in Threads, NEW v \in DOMAIN objs,
             NEW key \in 0 .. MaxKeys + 1, addListenerAt(t, v, key)
      PROVE  TargetTypes'
  BY <1>8 DEF addListenerAt, loadVars, VarWrite, Add
<1>9. ASSUME NEW t \in Threads, NEW v \in DOMAIN objs,
             NEW val \in Values, SetByUser(t, v, val)
      PROVE  TargetTypes'
  BY <1>9 DEF SetByUser, objVars, loadVars, Goto, setValue
<1>10. ASSUME NEW t \in Threads, Notify(t)
      PROVE  TargetTypes'
  <2>1. NoTarget \in [var : Nat \cup {NoVar}, val : Values \cup {BadText}, ret : {"user", "load"}]
    BY DEF NoTarget
  <2>2. target' = target \/ target' = [target EXCEPT ![t] = NoTarget]
    BY <1>10, SetSteps
  <2>3. target' \in [Threads -> [var : Nat \cup {NoVar}, val : Values \cup {BadText},
                                 ret : {"user", "load"}]]
    BY <2>1, <2>2
  <2>4. target[t].ret \notin {"set", "assign"}
    OBVIOUS
  <2> QED
    BY <1>10, <2>3, <2>4, SetSteps, ZenonT(60)
<1>11. ASSUME NEW t \in Threads, Assign(t)
      PROVE  TargetTypes'
  BY <1>11 DEF Assign, loadVars, Goto, SetReturns, NoTarget
<1>12. ASSUME NEW t \in Threads, NEW d \in Docs, LoadEnter(t, d)
      PROVE  TargetTypes'
  BY <1>12 DEF LoadEnter, objVars, Goto
<1>13. ASSUME NEW t \in Threads, ListMember(t)
      PROVE  TargetTypes'
  BY <1>13 DEF ListMember, objVars, Here, BehindSubtree
<1>14. ASSUME NEW t \in Threads, ListReturns(t)
      PROVE  TargetTypes'
  BY <1>14 DEF ListReturns, objVars, Here
<1>15. ASSUME NEW t \in Threads, LoadLocks(t)
      PROVE  TargetTypes'
  BY <1>15 DEF LoadLocks, objVars, Goto
<1>16. ASSUME NEW t \in Threads, LoadFind(t)
      PROVE  TargetTypes'
  BY <1>16 DEF LoadFind, objVars, loadVars, Goto
<1>17. ASSUME NEW t \in Threads, LoadNode(t)
      PROVE  TargetTypes'
  <2>1. nodes[t][pos[t]] \in Found
    BY <1>17 DEF LoadNode
  <2>2. \/ target' = target /\ pc' = [pc EXCEPT ![t] = "load"]
        \/ /\ s_datas[nodes[t][pos[t]].name] # NoVar /\ nodes[t][pos[t]].text # BadText
           /\ target' = [target EXCEPT ![t] = [var |-> s_datas[nodes[t][pos[t]].name],
                                 val |-> nodes[t][pos[t]].text, ret |-> "load"]]
           /\ pc' = [pc EXCEPT ![t] = "set"]
    BY <1>17 DEF LoadNode, Goto, setValue
  <2>3. objs' = objs
    BY <1>17 DEF LoadNode, objVars
  <2>4. CASE target' = target /\ pc' = [pc EXCEPT ![t] = "load"]
    BY <2>3, <2>4
  <2>5. CASE /\ s_datas[nodes[t][pos[t]].name] # NoVar /\ nodes[t][pos[t]].text # BadText
             /\ target' = [target EXCEPT ![t] = [var |-> s_datas[nodes[t][pos[t]].name],
                                   val |-> nodes[t][pos[t]].text, ret |-> "load"]]
             /\ pc' = [pc EXCEPT ![t] = "set"]
    <3> DEFINE var == s_datas[nodes[t][pos[t]].name]  val == nodes[t][pos[t]].text
    <3>1. var \in DOMAIN objs /\ val \in Values /\ var \in Nat
      BY <2>1, <2>5 DEF Found
    <3> QED
      BY <2>3, <2>5, <3>1
  <2> QED
    BY <2>2, <2>4, <2>5
<1>18. ASSUME NEW t \in Threads, LoadReturns(t)
      PROVE  TargetTypes'
  BY <1>18 DEF LoadReturns, objVars, Goto
<1>19. ASSUME UNCHANGED vars PROVE TargetTypes'
  BY <1>19 DEF vars, objVars, loadVars
<1> QED
  BY <1>1, <1>2, <1>3, <1>4, <1>5, <1>6, <1>7, <1>8, <1>9, <1>10, <1>11,
     <1>12, <1>13, <1>14, <1>15, <1>16, <1>17, <1>18, <1>19 DEF Next

-----------------------------------------------------------------------------
(* The variables and their listeners.                                      *)

(* The name of a variable is in the table.                                 *)
LEMMA KnownNames ==
  ASSUME TableTypes, SameVariable, NEW v \in DOMAIN objs
  PROVE  s_datas[objs[v].name] \in DOMAIN objs
<1>1. objs[v].name \in Names
  <2> DEFINE S == [name : Names, type : Types]
  <2>1. objs \in Seq(S) /\ v \in 1 .. Len(objs)
    BY DEF TableTypes
  <2> HIDE DEF S
  <2>2. objs[v] \in S
    BY <2>1, ElementOfSeq
  <2> QED
    BY <2>2 DEF S
<1>2. s_datas[objs[v].name] \in 1 .. Len(objs) \cup {NoVar}
  BY <1>1 DEF TableTypes
<1>3. s_datas[objs[v].name] # NoVar
  BY DEF SameVariable
<1> QED
  BY <1>2, <1>3 DEF TableTypes

(* insert() does not replace, and Lookup returns what it finds if the type *)
(* agrees.                                                                 *)
LEMMA NextSameVariable ==
  ASSUME TableTypes, SameVariable, [Next]_vars PROVE SameVariable'
<1> USE ConfigAssumption DEF TableTypes, SameVariable
<1>1. ASSUME NEW t \in Threads, LookupEnter(t)
      PROVE  SameVariable'
  BY <1>1 DEF LookupEnter, objVars, loadVars
<1>2. ASSUME NEW t \in Threads, LookupReturns(t)
      PROVE  SameVariable'
  <2> SUFFICES ASSUME ~UNCHANGED <<s_datas, objVars, owner>> PROVE SameVariable'
    BY <1>2 DEF LookupReturns, objVars, loadVars, Goto
  <2>1. PICK name \in Names, type \in Types, val \in Values :
          /\ ~Exists(name, type) /\ Len(objs) < MaxVars
          /\ objs' = Append(objs, [name |-> name, type |-> type])
          /\ m_val' = Append(m_val, val)
          /\ s_func_id' = Append(s_func_id, 0)
          /\ m_cbs' = Append(m_cbs, {}) /\ told' = Append(told, val)
          /\ owner' = Append(owner, NoThread)
          /\ s_datas' = Insert(name, Len(objs) + 1)
    BY <1>2 DEF LookupReturns
  <2>2. /\ Len(objs') = Len(objs) + 1 /\ objs'[Len(objs) + 1] = [name |-> name, type |-> type]
        /\ \A v \in DOMAIN objs : objs'[v] = objs[v]
    BY <2>1, AppendProperties
  <2>3. DOMAIN objs' = DOMAIN objs \cup {Len(objs) + 1}
    BY <2>1, <2>2, AppendProperties
  <2>4. ASSUME NEW v \in DOMAIN objs
        PROVE  LET known == s_datas'[objs'[v].name] IN
               known # NoVar /\ known <= v /\ (known = v \/ objs'[known].type # objs'[v].type)
    <3>1. s_datas'[objs[v].name] = s_datas[objs[v].name]
      BY <2>1 DEF Insert
    <3>2. s_datas[objs[v].name] \in DOMAIN objs
      BY KnownNames
    <3> QED
      BY <2>2, <3>1, <3>2
  <2>5. LET known == s_datas'[name]  n == Len(objs) + 1 IN
        known # NoVar /\ known <= n /\ (known = n \/ objs'[known].type # type)
    <3>1. CASE s_datas[name] = NoVar
      BY <2>1, <3>1 DEF Insert
    <3>2. CASE s_datas[name] # NoVar
      <4>1. s_datas'[name] = s_datas[name] /\ s_datas[name] \in DOMAIN objs
        BY <2>1, <3>2 DEF Insert
      <4>2. objs[s_datas[name]].type # type
        BY <2>1, <3>2 DEF Exists
      <4> QED
        BY <2>2, <3>2, <4>1, <4>2
    <3> QED
      BY <3>1, <3>2
  <2>6. /\ objs'[Len(objs) + 1].name = name /\ objs'[Len(objs) + 1].type = type
    BY <2>2
  <2> HIDE DEF TableTypes
  <2> QED
    BY <2>3, <2>4, <2>5, <2>6
<1>3. ASSUME NEW t \in Threads, FindEnter(t)
      PROVE  SameVariable'
  BY <1>3 DEF FindEnter, objVars, loadVars
<1>4. ASSUME NEW t \in Threads, FindReturns(t)
      PROVE  SameVariable'
  BY <1>4 DEF FindReturns, objVars, loadVars
<1>5. ASSUME NEW t \in Threads, NEW v \in DOMAIN objs, addListener(t, v)
      PROVE  SameVariable'
  BY <1>5 DEF addListener, loadVars
<1>6. ASSUME NEW t \in Threads, NEW v \in DOMAIN objs, clearListener(t, v)
      PROVE  SameVariable'
  BY <1>6 DEF clearListener, loadVars
<1>7. ASSUME NEW t \in Threads, NEW v \in DOMAIN objs, getListener(t, v)
      PROVE  SameVariable'
  BY <1>7 DEF getListener, objVars, loadVars
<1>8. ASSUME NEW t \in Threads, NEW v \in DOMAIN objs,
             NEW key \in 0 .. MaxKeys + 1, addListenerAt(t, v, key)
      PROVE  SameVariable'
  BY <1>8 DEF addListenerAt, loadVars
<1>9. ASSUME NEW t \in Threads, NEW v \in DOMAIN objs,
             NEW val \in Values, SetByUser(t, v, val)
      PROVE  SameVariable'
  BY <1>9 DEF SetByUser, objVars, loadVars
<1>10. ASSUME NEW t \in Threads, Notify(t)
      PROVE  SameVariable'
  BY <1>10 DEF Notify, loadVars
<1>11. ASSUME NEW t \in Threads, Assign(t)
      PROVE  SameVariable'
  BY <1>11 DEF Assign, loadVars
<1>12. ASSUME NEW t \in Threads, NEW d \in Docs, LoadEnter(t, d)
      PROVE  SameVariable'
  BY <1>12 DEF LoadEnter, objVars
<1>13. ASSUME NEW t \in Threads, ListMember(t)
      PROVE  SameVariable'
  BY <1>13 DEF ListMember, objVars
<1>14. ASSUME NEW t \in Threads, ListReturns(t)
      PROVE  SameVariable'
  BY <1>14 DEF ListReturns, objVars
<1>15. ASSUME NEW t \in Threads, LoadLocks(t)
      PROVE  SameVariable'
  BY <1>15 DEF LoadLocks, objVars
<1>16. ASSUME NEW t \in Threads, LoadFind(t)
      PROVE  SameVariable'
  BY <1>16 DEF LoadFind, objVars, loadVars
<1>17. ASSUME NEW t \in Threads, LoadNode(t)
      PROVE  SameVariable'
  BY <1>17 DEF LoadNode, objVars
<1>18. ASSUME NEW t \in Threads, LoadReturns(t)
      PROVE  SameVariable'
  BY <1>18 DEF LoadReturns, objVars
<1>19. ASSUME UNCHANGED vars PROVE SameVariable'
  BY <1>19 DEF vars, objVars, loadVars
<1> QED
  BY <1>1, <1>2, <1>3, <1>4, <1>5, <1>6, <1>7, <1>8, <1>9, <1>10, <1>11,
     <1>12, <1>13, <1>14, <1>15, <1>16, <1>17, <1>18, <1>19 DEF Next

(* The vectors of the model have the same indexes.                         *)
LEMMA Domains ==
  ASSUME TableTypes, VarTypes
  PROVE  /\ DOMAIN objs = 1 .. Len(objs) /\ DOMAIN m_val = 1 .. Len(objs)
         /\ DOMAIN told = 1 .. Len(objs) /\ DOMAIN owner = 1 .. Len(objs)
  BY DEF TableTypes, VarTypes

(* Where setValue leads, for every thread.                                 *)
LEMMA SetMoves ==
  ASSUME LoadTypes, TargetTypes, NEW t \in Threads, Notify(t) \/ Assign(t)
  PROVE  /\ \A u \in Threads \ {t} : pc'[u] = pc[u] /\ target'[u] = target[u]
         /\ \/ target' = target /\ pc'[t] = "assign"
            \/ pc'[t] \in {"user", "load"}
<1>1. target[t].ret \in {"user", "load"} /\ pc \in [Threads -> Points]
  BY DEF LoadTypes, TargetTypes
<1>2. \A u \in Threads : target \in [Threads -> {target[w] : w \in Threads}]
  BY DEF TargetTypes
<1> QED
  BY <1>1, <1>2, SetSteps

(* The keys of a variable are not above its s_func_id.                     *)
Keys == \A v \in DOMAIN objs : m_cbs[v] \subseteq 0 .. s_func_id[v]

(* s_func_id grows with the key that is added.                             *)
LEMMA NextKeys ==
  ASSUME TableTypes, VarTypes, Keys, [Next]_vars PROVE Keys'
<1> USE ConfigAssumption DEF TableTypes, VarTypes, Keys
<1>1. ASSUME NEW t \in Threads, LookupEnter(t)
      PROVE  Keys'
  BY <1>1 DEF LookupEnter, objVars, loadVars, Goto
<1>2. ASSUME NEW t \in Threads, LookupReturns(t)
      PROVE  Keys'
  <2> SUFFICES ASSUME ~UNCHANGED <<s_datas, objVars, owner>> PROVE Keys'
    BY <1>2 DEF LookupReturns, objVars, loadVars, Goto
  <2>1. PICK name \in Names, type \in Types, val \in Values :
          /\ ~Exists(name, type) /\ Len(objs) < MaxVars
          /\ objs' = Append(objs, [name |-> name, type |-> type])
          /\ m_val' = Append(m_val, val)
          /\ s_func_id' = Append(s_func_id, 0)
          /\ m_cbs' = Append(m_cbs, {}) /\ told' = Append(told, val)
          /\ owner' = Append(owner, NoThread)
          /\ s_datas' = Insert(name, Len(objs) + 1)
    BY <1>2 DEF LookupReturns
  <2>2. DOMAIN objs' = DOMAIN objs \cup {Len(objs) + 1}
    BY <2>1, AppendProperties
  <2>3. /\ m_cbs'[Len(objs) + 1] = {}
        /\ \A v \in DOMAIN objs : m_cbs'[v] = m_cbs[v] /\ s_func_id'[v] = s_func_id[v]
    BY <2>1, AppendProperties
  <2> QED
    BY <2>2, <2>3
<1>3. ASSUME NEW t \in Threads, FindEnter(t)
      PROVE  Keys'
  BY <1>3 DEF FindEnter, objVars, loadVars, Goto
<1>4. ASSUME NEW t \in Threads, FindReturns(t)
      PROVE  Keys'
  BY <1>4 DEF FindReturns, objVars, loadVars, Goto
<1>5. ASSUME NEW t \in Threads, NEW v \in DOMAIN objs, addListener(t, v)
      PROVE  Keys'
  <2> DEFINE n == IF FreeKey(v) > s_func_id[v] THEN s_func_id[v] + 1 ELSE s_func_id[v]
  <2>1. FreeKey(v) \in 0 .. s_func_id[v] + 1 /\ s_func_id[v] \in Nat
    BY FreeKeyType DEF VarTypes
  <2>2. n \in Nat /\ FreeKey(v) \in 0 .. n /\ s_func_id[v] <= n
    BY <2>1
  <2>3. /\ s_func_id' = [s_func_id EXCEPT ![v] = n]
        /\ m_cbs' = [m_cbs EXCEPT ![v] = @ \cup {FreeKey(v)}]
        /\ UNCHANGED objs
    BY <1>5 DEF addListener, Add
  <2> HIDE DEF n
  <2> QED
    BY <2>2, <2>3
<1>6. ASSUME NEW t \in Threads, NEW v \in DOMAIN objs, clearListener(t, v)
      PROVE  Keys'
  BY <1>6 DEF clearListener, loadVars
<1>7. ASSUME NEW t \in Threads, NEW v \in DOMAIN objs, getListener(t, v)
      PROVE  Keys'
  BY <1>7 DEF getListener, objVars, loadVars
<1>8. ASSUME NEW t \in Threads, NEW v \in DOMAIN objs,
             NEW key \in 0 .. MaxKeys + 1, addListenerAt(t, v, key)
      PROVE  Keys'
  <2>1. CASE funcIdGrowthValid(v, key)
    <3>1. m_cbs' = [m_cbs EXCEPT ![v] = m_cbs[v] \cup {key}]
      BY <1>8, <2>1 DEF addListenerAt, Add
    <3>2. s_func_id' = [s_func_id EXCEPT ![v] = GrownTo(v, key)]
      BY <1>8, <2>1 DEF addListenerAt
    <3>3. GrownTo(v, key) \in Nat /\ key \in 0 .. GrownTo(v, key) /\ s_func_id[v] <= GrownTo(v, key)
      BY DEF GrownTo
    <3>4. objs' = objs
      BY <1>8 DEF addListenerAt
    <3> QED
      BY <3>1, <3>2, <3>3, <3>4
  <2>2. CASE ~funcIdGrowthValid(v, key)
    BY <1>8, <2>2 DEF addListenerAt
  <2> QED
    BY <2>1, <2>2
<1>9. ASSUME NEW t \in Threads, NEW v \in DOMAIN objs,
             NEW val \in Values, SetByUser(t, v, val)
      PROVE  Keys'
  BY <1>9 DEF SetByUser, objVars, loadVars, Goto, setValue
<1>10. ASSUME NEW t \in Threads, Notify(t)
      PROVE  Keys'
  BY <1>10 DEF Notify, loadVars, Goto, SetReturns, NoTarget
<1>11. ASSUME NEW t \in Threads, Assign(t)
      PROVE  Keys'
  BY <1>11 DEF Assign, loadVars, Goto, SetReturns, NoTarget
<1>12. ASSUME NEW t \in Threads, NEW d \in Docs, LoadEnter(t, d)
      PROVE  Keys'
  BY <1>12 DEF LoadEnter, objVars, Goto
<1>13. ASSUME NEW t \in Threads, ListMember(t)
      PROVE  Keys'
  BY <1>13 DEF ListMember, objVars, Here, BehindSubtree
<1>14. ASSUME NEW t \in Threads, ListReturns(t)
      PROVE  Keys'
  BY <1>14 DEF ListReturns, objVars, Here
<1>15. ASSUME NEW t \in Threads, LoadLocks(t)
      PROVE  Keys'
  BY <1>15 DEF LoadLocks, objVars, Goto
<1>16. ASSUME NEW t \in Threads, LoadFind(t)
      PROVE  Keys'
  BY <1>16 DEF LoadFind, objVars, loadVars, Goto
<1>17. ASSUME NEW t \in Threads, LoadNode(t)
      PROVE  Keys'
  BY <1>17 DEF LoadNode, objVars, Goto, setValue
<1>18. ASSUME NEW t \in Threads, LoadReturns(t)
      PROVE  Keys'
  BY <1>18 DEF LoadReturns, objVars, Goto
<1>19. ASSUME UNCHANGED vars PROVE Keys'
  BY <1>19 DEF vars, objVars, loadVars
<1> QED
  BY <1>1, <1>2, <1>3, <1>4, <1>5, <1>6, <1>7, <1>8, <1>9, <1>10, <1>11,
     <1>12, <1>13, <1>14, <1>15, <1>16, <1>17, <1>18, <1>19 DEF Next

(* If no key is above s_func_id, the next one is free.                     *)
LEMMA KeysKeep == TableTypes /\ VarTypes /\ Keys => ListenerKept
<1> SUFFICES ASSUME TableTypes, VarTypes, Keys, NEW v \in DOMAIN objs
             PROVE  FreeKey(v) \notin m_cbs[v]
  BY DEF ListenerKept
<1>1. s_func_id[v] \in Nat /\ m_cbs[v] \subseteq 0 .. s_func_id[v]
  BY DEF TableTypes, VarTypes, Keys
<1> DEFINE free == (0 .. s_func_id[v]) \ m_cbs[v]
<1>2. CASE free = {}
  BY <1>1, <1>2 DEF FreeKey
<1>3. CASE free # {}
  <2>1. free \in SUBSET Nat
    BY <1>1
  <2>2. \E k \in free : \A l \in free : k <= l
    BY <1>3, <2>1, Least
  <2>3. FreeKey(v) \in free
    BY <1>3, <2>2 DEF FreeKey
  <2> QED
    BY <2>3
<1> QED
  BY <1>2, <1>3

(* Between the calls of the listeners and the assignment a thread keeps    *)
(* the lock of the variable.                                               *)
Told ==
  /\ ListenersInformed
  /\ \A t \in Threads : pc[t] = "assign" =>
       owner[target[t].var] = t /\ told[target[t].var] = target[t].val

(* Only the owner of the lock changes a value or calls listeners.          *)
LEMMA NextTold ==
  ASSUME TableTypes, VarTypes, LoadTypes, TargetTypes, Told, [Next]_vars PROVE Told'
<1> USE ConfigAssumption DEF TableTypes, VarTypes, LoadTypes, Points,
   TargetTypes, Told, ListenersInformed
<1>1. ASSUME NEW t \in Threads, LookupEnter(t)
      PROVE  Told'
  BY <1>1 DEF LookupEnter, objVars, loadVars, Goto
<1>2. ASSUME NEW t \in Threads, LookupReturns(t)
      PROVE  Told'
  <2>1. target' = target /\ pc' = [pc EXCEPT ![t] = "user"] /\ pc[t] = "insert"
    BY <1>2 DEF LookupReturns, loadVars, Goto
  <2>2. CASE ~UNCHANGED <<s_datas, objVars, owner>>
    <3>1. PICK name \in Names, type \in Types, val \in Values :
            /\ ~Exists(name, type) /\ Len(objs) < MaxVars
            /\ objs' = Append(objs, [name |-> name, type |-> type])
            /\ m_val' = Append(m_val, val)
            /\ s_func_id' = Append(s_func_id, 0)
            /\ m_cbs' = Append(m_cbs, {}) /\ told' = Append(told, val)
            /\ owner' = Append(owner, NoThread)
            /\ s_datas' = Insert(name, Len(objs) + 1)
      BY <1>2, <2>2 DEF LookupReturns
    <3>2. DOMAIN objs' = DOMAIN objs \cup {Len(objs) + 1}
      BY <3>1, AppendProperties, SMTT(30)
    <3>3. m_val'[Len(objs) + 1] = val /\ \A v \in DOMAIN objs : m_val'[v] = m_val[v]
      BY <3>1, AppendProperties
    <3>4. told'[Len(objs) + 1] = val /\ \A v \in DOMAIN objs : told'[v] = told[v]
      BY <3>1, AppendProperties
    <3>5. \A v \in DOMAIN objs : owner'[v] = owner[v]
      BY <3>1, AppendProperties
    <3>6. \A u \in Threads : pc'[u] = "assign" <=> pc[u] = "assign"
      BY <2>1
    <3>7. ListenersInformed'
      BY <2>1, <3>2, <3>3, <3>4, <3>6
    <3>8. ASSUME NEW u \in Threads, pc'[u] = "assign"
          PROVE  owner'[target'[u].var] = u /\ told'[target'[u].var] = target'[u].val
      <4>1. pc[u] = "assign" /\ target[u].var \in DOMAIN objs
        BY <3>6, <3>8
      <4> HIDE DEF TableTypes, VarTypes, LoadTypes, TargetTypes
      <4> QED
        BY <2>1, <3>4, <3>5, <4>1
    <3> QED
      BY <3>7, <3>8
  <2>3. CASE UNCHANGED <<s_datas, objVars, owner>>
    BY <2>1, <2>3 DEF objVars
  <2> QED
    BY <2>2, <2>3
<1>3. ASSUME NEW t \in Threads, FindEnter(t)
      PROVE  Told'
  BY <1>3 DEF FindEnter, objVars, loadVars, Goto
<1>4. ASSUME NEW t \in Threads, FindReturns(t)
      PROVE  Told'
  BY <1>4 DEF FindReturns, objVars, loadVars, Goto
<1>5. ASSUME NEW t \in Threads, NEW v \in DOMAIN objs, addListener(t, v)
      PROVE  Told'
  BY <1>5, SMTT(30) DEF addListener, loadVars, VarWrite, Add
<1>6. ASSUME NEW t \in Threads, NEW v \in DOMAIN objs, clearListener(t, v)
      PROVE  Told'
  BY <1>6, SMTT(30) DEF clearListener, loadVars, VarWrite
<1>7. ASSUME NEW t \in Threads, NEW v \in DOMAIN objs, getListener(t, v)
      PROVE  Told'
  BY <1>7, SMTT(30) DEF getListener, objVars, loadVars, VarRead
<1>8. ASSUME NEW t \in Threads, NEW v \in DOMAIN objs,
             NEW key \in 0 .. MaxKeys + 1, addListenerAt(t, v, key)
      PROVE  Told'
  BY <1>8, SMTT(30) DEF addListenerAt, loadVars, VarWrite, Add
<1>9. ASSUME NEW t \in Threads, NEW v \in DOMAIN objs,
             NEW val \in Values, SetByUser(t, v, val)
      PROVE  Told'
  BY <1>9, SMTT(30) DEF SetByUser, objVars, loadVars, Goto, setValue
<1>10. ASSUME NEW t \in Threads, Notify(t)
      PROVE  Told'
  <2> DEFINE v == target[t].var
  <2>1. v \in DOMAIN objs /\ pc[t] = "set" /\ owner[v] \in {t, NoThread}
    BY <1>10 DEF Notify, VarWrite
  <2>2. owner' = [owner EXCEPT ![v] = t] /\ m_val' = m_val /\ objs' = objs
    BY <1>10 DEF Notify, VarWrite
  <2>3. \A u \in Threads : pc[u] = "assign" => target[u].var \in DOMAIN objs /\ target[u].var # v
    BY <2>1
  <2>4. /\ \A u \in Threads \ {t} : pc'[u] = pc[u] /\ target'[u] = target[u]
        /\ \/ target' = target /\ pc'[t] = "assign"
           \/ pc'[t] \in {"user", "load"}
    BY <1>10, SetMoves
  <2>5. CASE told' = told /\ pc'[t] # "assign"
    <3> HIDE DEF TableTypes, VarTypes, LoadTypes, TargetTypes, v
    <3> QED
      BY <2>1, <2>2, <2>3, <2>4, <2>5, Domains
  <2>6. CASE told' = [told EXCEPT ![v] = target[t].val] /\ pc'[t] = "assign" /\ target' = target
    <3>1. target'[t].var = v /\ target'[t].val = target[t].val
      BY <2>6
    <3> HIDE DEF TableTypes, VarTypes, LoadTypes, TargetTypes, v
    <3>2. told'[v] = target[t].val /\ owner'[v] = t
      BY <2>1, <2>2, <2>6, Domains
    <3>3. \A w \in DOMAIN objs \ {v} : told'[w] = told[w] /\ owner'[w] = owner[w]
      BY <2>1, <2>2, <2>6, Domains
    <3> QED
      BY <2>1, <2>2, <2>3, <2>4, <2>6, <3>1, <3>2, <3>3
  <2>7. \/ told' = told /\ pc'[t] # "assign"
        \/ told' = [told EXCEPT ![v] = target[t].val] /\ pc'[t] = "assign" /\ target' = target
    <3>1. target[t].ret # "assign"
      OBVIOUS
    <3> QED
      BY <1>10, <3>1 DEF Notify, SetReturns, Goto
  <2> QED
    BY <2>5, <2>6, <2>7
<1>11. ASSUME NEW t \in Threads, Assign(t)
      PROVE  Told'
  <2> DEFINE v == target[t].var
  <2>1. v \in DOMAIN objs /\ pc[t] = "assign" /\ owner[v] = t /\ told[v] = target[t].val
    BY <1>11 DEF Assign
  <2>2. m_val' = [m_val EXCEPT ![v] = target[t].val] /\ UNCHANGED <<owner, objs, told>>
    BY <1>11 DEF Assign
  <2>3. /\ \A u \in Threads \ {t} : pc'[u] = pc[u] /\ target'[u] = target[u]
        /\ pc'[t] # "assign"
    <3>1. target[t].ret # "assign" /\ pc' = [pc EXCEPT ![t] = target[t].ret]
      BY <1>11 DEF Assign, SetReturns, Goto
    <3> QED
      BY <1>11, <3>1, SetMoves, SMTT(30)
  <2> HIDE DEF TableTypes, VarTypes, LoadTypes, TargetTypes, v
  <2>4. m_val'[v] = target[t].val /\ \A w \in DOMAIN objs \ {v} : m_val'[w] = m_val[w]
    BY <2>1, <2>2, Domains
  <2> QED
    BY <2>1, <2>2, <2>3, <2>4 DEF v
<1>12. ASSUME NEW t \in Threads, NEW d \in Docs, LoadEnter(t, d)
      PROVE  Told'
  BY <1>12 DEF LoadEnter, objVars, Goto
<1>13. ASSUME NEW t \in Threads, ListMember(t)
      PROVE  Told'
  BY <1>13 DEF ListMember, objVars, Here, BehindSubtree
<1>14. ASSUME NEW t \in Threads, ListReturns(t)
      PROVE  Told'
  BY <1>14 DEF ListReturns, objVars, Here
<1>15. ASSUME NEW t \in Threads, LoadLocks(t)
      PROVE  Told'
  BY <1>15 DEF LoadLocks, objVars, Goto
<1>16. ASSUME NEW t \in Threads, LoadFind(t)
      PROVE  Told'
  BY <1>16 DEF LoadFind, objVars, loadVars, Goto
<1>17. ASSUME NEW t \in Threads, LoadNode(t)
      PROVE  Told'
  <2>1. pc[t] = "loadFind" /\ pc'[t] # "assign"
    BY <1>17 DEF LoadNode, Goto, setValue
  <2>2. UNCHANGED <<objs, m_val, told, owner>>
    BY <1>17 DEF LoadNode, objVars
  <2>3. \A u \in Threads \ {t} : pc'[u] = pc[u] /\ target'[u] = target[u]
    BY <1>17 DEF LoadNode, Goto, setValue
  <2> HIDE DEF TableTypes, VarTypes, LoadTypes, TargetTypes
  <2> QED
    BY <2>1, <2>2, <2>3
<1>18. ASSUME NEW t \in Threads, LoadReturns(t)
      PROVE  Told'
  BY <1>18 DEF LoadReturns, objVars, Goto
<1>19. ASSUME UNCHANGED vars PROVE Told'
  BY <1>19 DEF vars, objVars, loadVars
<1> QED
  BY <1>1, <1>2, <1>3, <1>4, <1>5, <1>6, <1>7, <1>8, <1>9, <1>10, <1>11,
     <1>12, <1>13, <1>14, <1>15, <1>16, <1>17, <1>18, <1>19 DEF Next

-----------------------------------------------------------------------------
(* The lock of the table.                                                  *)

(* The read locks of the table the thread still has to release.            *)
Guards(t) ==
  IF pc[t] = "find" THEN IF lock.writer = t THEN 0 ELSE 1
  ELSE IF pc[t] = "list" THEN depth[t]
  ELSE IF pc[t] = "load" THEN 1
  ELSE IF pc[t] = "loadFind" THEN 2
  ELSE IF pc[t] \in {"set", "assign"} /\ target[t].ret = "load" THEN 1
  ELSE 0

(* All of them, numbered: the count of readers is its cardinality.         *)
Held == {g \in Threads \X (Nat \ {0}) : g[2] <= Guards(g[1])}

(* The thread is inside LoadFromYaml.                                      *)
Loading(t) ==
  \/ pc[t] \in {"list", "load", "loadFind"}
  \/ pc[t] \in {"set", "assign"} /\ target[t].ret = "load"

(* What holds as long as nobody loaded with the leaked lock: the count is  *)
(* exact, a writer excludes readers, and no unlock found nothing.          *)
Locked ==
  /\ IsFiniteSet(Held) /\ lock.readers = Cardinality(Held)
  /\ lock.writer # NoThread => Held = {}
  /\ \A t \in Threads : pc[t] = "insert" => lock.writer = t
  /\ \A t \in Threads : lock.writer = t => ~Loading(t)
  /\ ~strayed

(* Locked is lost only with such a load.                                   *)
Exclusive == ~leaky => Locked

(* A thread holds a number of read locks.                                  *)
LEMMA GuardsType ==
  ASSUME LoadTypes, NEW t \in Threads
  PROVE  Guards(t) \in Nat
  BY DEF LoadTypes, Guards

(* If nothing is held no thread holds anything.                            *)
LEMMA NobodyHolds ==
  ASSUME LoadTypes, Held = {}, NEW t \in Threads
  PROVE  Guards(t) = 0
<1>1. Guards(t) \in Nat
  BY GuardsType
<1>2. CASE Guards(t) # 0
  <2>1. <<t, Guards(t)>> \in Held
    BY <1>1, <1>2 DEF Held
  <2> QED
    BY <2>1
<1> QED
  BY <1>2

(* One more, or one less, read lock of one thread is one more, or one      *)
(* less, of all.                                                           *)
LEMMA HeldMoves ==
  ASSUME LoadTypes, LoadTypes', NEW t \in Threads,
         \A u \in Threads \ {t} : Guards(u)' = Guards(u)
  PROVE  /\ Guards(t)' = Guards(t) => Held' = Held
         /\ Guards(t)' = Guards(t) + 1 =>
              /\ <<t, Guards(t) + 1>> \notin Held
              /\ Held' = Held \cup {<<t, Guards(t) + 1>>}
         /\ Guards(t) > 0 /\ Guards(t)' = Guards(t) - 1 =>
              /\ <<t, Guards(t)>> \in Held
              /\ Held' = Held \ {<<t, Guards(t)>>}
<1>1. \A u \in Threads : Guards(u) \in Nat
  BY GuardsType
<1>5. \A u \in Threads : Guards(u)' \in Nat
  BY DEF LoadTypes, Guards
<1>2. ASSUME Guards(t)' = Guards(t)
      PROVE  Held' = Held
  <2>1. Held \subseteq Held'
    BY <1>1, <1>2, <1>5 DEF Held
  <2>2. Held' \subseteq Held
    BY <1>1, <1>2, <1>5 DEF Held
  <2> QED
    BY <2>1, <2>2
<1>3. ASSUME Guards(t)' = Guards(t) + 1
      PROVE  /\ <<t, Guards(t) + 1>> \notin Held
             /\ Held' = Held \cup {<<t, Guards(t) + 1>>}
  BY <1>1, <1>3, <1>5 DEF Held
<1>4. ASSUME Guards(t) > 0, Guards(t)' = Guards(t) - 1
      PROVE  /\ <<t, Guards(t)>> \in Held
             /\ Held' = Held \ {<<t, Guards(t)>>}
  BY <1>1, <1>4, <1>5 DEF Held
<1> QED
  BY <1>2, <1>3, <1>4

(* The step moves no other thread.                                         *)
Only(t) ==
  \A u \in Threads \ {t} :
    pc'[u] = pc[u] /\ target'[u] = target[u] /\ depth'[u] = depth[u]

(* A lock operation of one thread does not change what another holds.      *)
LEMMA OthersGuards ==
  ASSUME NEW t \in Threads, LockTypes, Only(t), NEW u \in Threads \ {t},
         lock' = lock \/ rdlock(t) \/ wrlock(t) \/ unlock(t)
  PROVE  /\ Guards(u)' = Guards(u) /\ (Loading(u)' <=> Loading(u))
         /\ pc'[u] = "insert" <=> pc[u] = "insert"
         /\ lock'.writer = u <=> lock.writer = u
<1>1. pc'[u] = pc[u] /\ target'[u] = target[u] /\ depth'[u] = depth[u]
  BY DEF Only
<1>2. lock'.writer = u <=> lock.writer = u
  BY ConfigAssumption DEF LockTypes, rdlock, wrlock, unlock
<1> QED
  BY <1>1, <1>2 DEF Guards, Loading

(* A step that leaves the lock alone.                                      *)
LEMMA QuietLocked ==
  ASSUME LoadTypes, LoadTypes', LockTypes, Locked, NEW t \in Threads, Only(t),
         lock' = lock, strayed' = strayed, Guards(t)' = Guards(t),
         pc'[t] = "insert" => pc[t] = "insert", Loading(t)' => Loading(t)
  PROVE  Locked'
<1>1. Held' = Held
  BY HeldMoves, OthersGuards
<1>2. \A u \in Threads : /\ pc'[u] = "insert" => pc[u] = "insert"
                         /\ Loading(u)' => Loading(u)
  BY OthersGuards
<1> QED
  BY <1>1, <1>2 DEF Locked

(* A read lock by a thread that does not have the leaked write lock.       *)
LEMMA ReadLocked ==
  ASSUME LoadTypes, LoadTypes', LockTypes, Locked, NEW t \in Threads, Only(t),
         rdlock(t), strayed' = strayed, lock.writer # t, Guards(t)' = Guards(t) + 1,
         pc'[t] # "insert"
  PROVE  Locked'
<1>1. lock.writer = NoThread /\ lock.readers \in Nat
  BY FS_CardinalityType DEF rdlock, Locked
<1>2. lock'.writer = NoThread /\ lock'.readers = lock.readers + 1
  BY <1>1 DEF rdlock, LockTypes
<1>3. /\ <<t, Guards(t) + 1>> \notin Held
      /\ Held' = Held \cup {<<t, Guards(t) + 1>>}
  BY HeldMoves, OthersGuards
<1>4. IsFiniteSet(Held') /\ Cardinality(Held') = Cardinality(Held) + 1
  BY <1>3, FS_AddElement DEF Locked
<1>5. \A u \in Threads : pc'[u] # "insert"
  BY <1>1, OthersGuards, ConfigAssumption DEF Locked
<1> QED
  BY <1>2, <1>4, <1>5, ConfigAssumption DEF Locked

(* The end of such a read lock.                                            *)
LEMMA UnlockLocked ==
  ASSUME LoadTypes, LoadTypes', LockTypes, Locked, NEW t \in Threads, Only(t),
         unlock(t), lock.writer # t, Guards(t) > 0, Guards(t)' = Guards(t) - 1,
         pc'[t] # "insert"
  PROVE  Locked'
<1>1. /\ <<t, Guards(t)>> \in Held
      /\ Held' = Held \ {<<t, Guards(t)>>}
  BY HeldMoves, OthersGuards
<1>2. IsFiniteSet(Held') /\ Cardinality(Held') = Cardinality(Held) - 1
  BY <1>1, FS_RemoveElement DEF Locked
<1>3. lock.writer = NoThread /\ lock.readers > 0
  <2>1. Cardinality(Held) \in Nat /\ Cardinality(Held) # 0
    BY <1>1, FS_CardinalityType, FS_EmptySet DEF Locked
  <2> QED
    BY <1>1, <2>1 DEF Locked
<1>4. lock'.writer = NoThread /\ lock'.readers = lock.readers - 1 /\ strayed' = strayed
  BY <1>3 DEF unlock, LockTypes
<1>5. \A u \in Threads : pc'[u] # "insert"
  BY <1>3, OthersGuards, ConfigAssumption DEF Locked
<1> QED
  BY <1>2, <1>4, <1>5, ConfigAssumption DEF Locked

(* The end of a ReadLock that went through with EDEADLK: it releases the   *)
(* leaked write lock.                                                      *)
LEMMA FreeLocked ==
  ASSUME LoadTypes, LoadTypes', LockTypes, Locked, NEW t \in Threads, Only(t),
         unlock(t), lock.writer = t, Guards(t)' = Guards(t), pc'[t] # "insert"
  PROVE  Locked'
<1>1. Held' = Held
  BY HeldMoves, OthersGuards
<1>2. lock'.writer = NoThread /\ lock'.readers = lock.readers /\ strayed' = strayed
  BY DEF unlock, LockTypes, Locked
<1>3. \A u \in Threads : pc'[u] # "insert"
  BY OthersGuards DEF Locked
<1> QED
  BY <1>1, <1>2, <1>3, ConfigAssumption DEF Locked

(* A write lock: nobody reads.                                             *)
LEMMA WriteLocked ==
  ASSUME LoadTypes, LoadTypes', LockTypes, Locked, NEW t \in Threads, Only(t),
         wrlock(t), strayed' = strayed, Guards(t)' = Guards(t), ~Loading(t)'
  PROVE  Locked'
<1>1. Held' = Held
  BY HeldMoves, OthersGuards
<1>2. Held = {}
  <2>1. CASE lock.writer = t
    BY <2>1, ConfigAssumption DEF Locked
  <2>2. CASE lock.readers = 0
    BY <2>2, FS_EmptySet DEF Locked
  <2> QED
    BY <2>1, <2>2 DEF wrlock
<1>3. lock'.writer = t /\ lock'.readers = lock.readers
  BY DEF wrlock, LockTypes
<1>4. \A u \in Threads \ {t} : pc'[u] # "insert"
  BY OthersGuards, ConfigAssumption DEF Locked, wrlock
<1> QED
  BY <1>1, <1>2, <1>3, <1>4 DEF Locked

(* Every step that is not such a load keeps the lock consistent.           *)
LEMMA NextLocked ==
  ASSUME LoadTypes, LoadTypes', TargetTypes, LockTypes, Locked, ~leaky', [Next]_vars
  PROVE  Locked'
<1> USE ConfigAssumption DEF Points
<1>1. ASSUME NEW t \in Threads, LookupEnter(t)
      PROVE  Locked'
  <2>1. Only(t)
    BY <1>1 DEF LookupEnter, objVars, loadVars, Goto, Only, LoadTypes,
       TargetTypes
  <2>2. /\ wrlock(t) /\ strayed' = strayed /\ Guards(t)' = Guards(t) /\ ~Loading(t)'
    BY <1>1 DEF LookupEnter, objVars, loadVars, Goto, Guards, Loading,
       LoadTypes
  <2> QED
    BY <2>1, <2>2, WriteLocked
<1>2. ASSUME NEW t \in Threads, LookupReturns(t)
      PROVE  Locked'
  <2>1. Only(t)
    BY <1>2 DEF LookupReturns, objVars, loadVars, Goto, Only, LoadTypes,
       TargetTypes
  <2>2. /\ lock' = lock /\ strayed' = strayed /\ Guards(t)' = Guards(t)
        /\ pc'[t] = "insert" => pc[t] = "insert"
        /\ Loading(t)' => Loading(t)
    BY <1>2 DEF LookupReturns, objVars, loadVars, Goto, Guards, Loading,
       LoadTypes, TargetTypes
  <2> QED
    BY <2>1, <2>2, QuietLocked
<1>3. ASSUME NEW t \in Threads, FindEnter(t)
      PROVE  Locked'
  <2>1. Only(t)
    BY <1>3 DEF FindEnter, objVars, loadVars, Goto, Only, LoadTypes,
       TargetTypes
  <2>2. CASE lock.writer = t
    <3>1. /\ lock' = lock /\ strayed' = strayed /\ Guards(t)' = Guards(t)
          /\ pc'[t] # "insert" /\ ~Loading(t)'
      BY <1>3, <2>2 DEF FindEnter, objVars, loadVars, Goto, Guards, Loading,
         LoadTypes, rdlock
    <3> QED
      BY <2>1, <3>1, QuietLocked
  <2>3. CASE lock.writer # t
    <3>1. /\ rdlock(t) /\ strayed' = strayed /\ Guards(t)' = Guards(t) + 1
          /\ pc'[t] # "insert"
      BY <1>3, <2>3 DEF FindEnter, objVars, loadVars, Goto, Guards, LoadTypes,
         LockTypes, rdlock
    <3> QED
      BY <2>1, <2>3, <3>1, ReadLocked
  <2> QED
    BY <2>2, <2>3
<1>4. ASSUME NEW t \in Threads, FindReturns(t)
      PROVE  Locked'
  <2>1. Only(t)
    BY <1>4 DEF FindReturns, objVars, loadVars, Goto, Only, LoadTypes,
       TargetTypes
  <2>2. CASE lock.writer = t
    <3>1. /\ unlock(t) /\ Guards(t)' = Guards(t) /\ pc'[t] # "insert"
      BY <1>4, <2>2 DEF FindReturns, objVars, loadVars, Goto, Guards,
         LoadTypes
    <3> QED
      BY <2>1, <2>2, <3>1, FreeLocked
  <2>3. CASE lock.writer # t
    <3>1. /\ unlock(t) /\ Guards(t) > 0 /\ Guards(t)' = Guards(t) - 1 /\ pc'[t] # "insert"
      BY <1>4, <2>3 DEF FindReturns, objVars, loadVars, Goto, Guards,
         LoadTypes
    <3> QED
      BY <2>1, <2>3, <3>1, UnlockLocked
  <2> QED
    BY <2>2, <2>3
<1>5. ASSUME NEW t \in Threads, NEW v \in DOMAIN objs, addListener(t, v)
      PROVE  Locked'
  <2>1. Only(t)
    BY <1>5 DEF addListener, loadVars, Only, LoadTypes, TargetTypes
  <2>2. /\ lock' = lock /\ strayed' = strayed /\ Guards(t)' = Guards(t)
        /\ pc'[t] = "insert" => pc[t] = "insert"
        /\ Loading(t)' => Loading(t)
    BY <1>5 DEF addListener, loadVars, Guards, Loading, LoadTypes, TargetTypes
  <2> QED
    BY <2>1, <2>2, QuietLocked
<1>6. ASSUME NEW t \in Threads, NEW v \in DOMAIN objs, clearListener(t, v)
      PROVE  Locked'
  <2>1. Only(t)
    BY <1>6 DEF clearListener, loadVars, Only, LoadTypes, TargetTypes
  <2>2. /\ lock' = lock /\ strayed' = strayed /\ Guards(t)' = Guards(t)
        /\ pc'[t] = "insert" => pc[t] = "insert"
        /\ Loading(t)' => Loading(t)
    BY <1>6 DEF clearListener, loadVars, Guards, Loading, LoadTypes,
       TargetTypes
  <2> QED
    BY <2>1, <2>2, QuietLocked
<1>7. ASSUME NEW t \in Threads, NEW v \in DOMAIN objs, getListener(t, v)
      PROVE  Locked'
  <2>1. Only(t)
    BY <1>7 DEF getListener, objVars, loadVars, Only, LoadTypes, TargetTypes
  <2>2. /\ lock' = lock /\ strayed' = strayed /\ Guards(t)' = Guards(t)
        /\ pc'[t] = "insert" => pc[t] = "insert"
        /\ Loading(t)' => Loading(t)
    BY <1>7 DEF getListener, objVars, loadVars, Guards, Loading, LoadTypes,
       TargetTypes
  <2> QED
    BY <2>1, <2>2, QuietLocked
<1>8. ASSUME NEW t \in Threads, NEW v \in DOMAIN objs,
             NEW key \in 0 .. MaxKeys + 1, addListenerAt(t, v, key)
      PROVE  Locked'
  <2>1. Only(t)
    BY <1>8 DEF addListenerAt, loadVars, Only, LoadTypes, TargetTypes
  <2>2. /\ lock' = lock /\ strayed' = strayed /\ Guards(t)' = Guards(t)
        /\ pc'[t] = "insert" => pc[t] = "insert"
        /\ Loading(t)' => Loading(t)
    BY <1>8 DEF addListenerAt, loadVars, Guards, Loading, LoadTypes,
       TargetTypes
  <2> QED
    BY <2>1, <2>2, QuietLocked
<1>9. ASSUME NEW t \in Threads, NEW v \in DOMAIN objs,
             NEW val \in Values, SetByUser(t, v, val)
      PROVE  Locked'
  <2>1. Only(t)
    BY <1>9 DEF SetByUser, objVars, loadVars, Goto, setValue, Only, LoadTypes,
       TargetTypes
  <2>2. /\ lock' = lock /\ strayed' = strayed /\ Guards(t)' = Guards(t)
        /\ pc'[t] = "insert" => pc[t] = "insert"
        /\ Loading(t)' => Loading(t)
    BY <1>9 DEF SetByUser, objVars, loadVars, Goto, setValue, Guards, Loading,
       LoadTypes, TargetTypes
  <2> QED
    BY <2>1, <2>2, QuietLocked
<1>10. ASSUME NEW t \in Threads, Notify(t)
      PROVE  Locked'
  <2>1. /\ Only(t) /\ lock' = lock /\ strayed' = strayed
        /\ pc[t] \in {"set", "assign"} /\ depth' = depth
        /\ \/ target' = target /\ pc'[t] = "assign"
           \/ pc'[t] = target[t].ret /\ target[t].ret \in {"user", "load"}
    <3>1. target[t].ret \in {"user", "load"} /\ target \in [Threads -> {target[u] : u \in Threads}]
      BY DEF TargetTypes
    <3>2. \/ target' = target /\ pc' = [pc EXCEPT ![t] = "assign"]
          \/ target' = [target EXCEPT ![t] = NoTarget] /\ pc' = [pc EXCEPT ![t] = target[t].ret]
      BY <1>10, SetSteps
    <3> QED
      BY <1>10, <3>1, <3>2, SetSteps DEF Only, LoadTypes, loadVars
  <2>2. /\ Guards(t)' = Guards(t) /\ (Loading(t)' => Loading(t)) /\ pc'[t] # "insert"
    BY <2>1 DEF Guards, Loading
  <2> QED
    BY <2>1, <2>2, QuietLocked
<1>11. ASSUME NEW t \in Threads, Assign(t)
      PROVE  Locked'
  <2>1. /\ Only(t) /\ lock' = lock /\ strayed' = strayed
        /\ pc[t] \in {"set", "assign"} /\ depth' = depth
        /\ \/ target' = target /\ pc'[t] = "assign"
           \/ pc'[t] = target[t].ret /\ target[t].ret \in {"user", "load"}
    <3>1. target[t].ret \in {"user", "load"} /\ target \in [Threads -> {target[u] : u \in Threads}]
      BY DEF TargetTypes
    <3>2. \/ target' = target /\ pc' = [pc EXCEPT ![t] = "assign"]
          \/ target' = [target EXCEPT ![t] = NoTarget] /\ pc' = [pc EXCEPT ![t] = target[t].ret]
      BY <1>11, SetSteps
    <3> QED
      BY <1>11, <3>1, <3>2, SetSteps DEF Only, LoadTypes, loadVars
  <2>2. /\ Guards(t)' = Guards(t) /\ (Loading(t)' => Loading(t)) /\ pc'[t] # "insert"
    BY <2>1 DEF Guards, Loading
  <2> QED
    BY <2>1, <2>2, QuietLocked
<1>12. ASSUME NEW t \in Threads, NEW d \in Docs, LoadEnter(t, d)
      PROVE  Locked'
  <2>1. Only(t)
    BY <1>12 DEF LoadEnter, objVars, Goto, Only, LoadTypes, TargetTypes
  <2>2. lock.writer # t
    BY <1>12 DEF LoadEnter
  <2>3. /\ rdlock(t) /\ strayed' = strayed /\ Guards(t)' = Guards(t) + 1
        /\ pc'[t] # "insert"
    BY <1>12, <2>2 DEF LoadEnter, objVars, Goto, Guards, LoadTypes, LockTypes,
       rdlock
  <2> QED
    BY <2>1, <2>2, <2>3, ReadLocked
<1>13. ASSUME NEW t \in Threads, ListMember(t)
      PROVE  Locked'
  <2>1. Only(t)
    BY <1>13 DEF ListMember, objVars, Only, LoadTypes, TargetTypes
  <2>2. lock.writer # t
    BY <1>13 DEF ListMember, Locked, Loading
  <2>3. /\ rdlock(t) /\ strayed' = strayed /\ Guards(t)' = Guards(t) + 1
        /\ pc'[t] # "insert"
    BY <1>13, <2>2 DEF ListMember, objVars, Guards, LoadTypes, LockTypes,
       rdlock
  <2> QED
    BY <2>1, <2>2, <2>3, ReadLocked
<1>14. ASSUME NEW t \in Threads, ListReturns(t)
      PROVE  Locked'
  <2>1. Only(t)
    BY <1>14 DEF ListReturns, objVars, Only, LoadTypes, TargetTypes
  <2>2. lock.writer # t
    BY <1>14 DEF ListReturns, objVars, Locked, Loading
  <2>3. /\ unlock(t) /\ Guards(t) > 0 /\ Guards(t)' = Guards(t) - 1
        /\ pc'[t] # "insert"
    BY <1>14, <2>2 DEF ListReturns, objVars, Guards, LoadTypes
  <2> QED
    BY <2>1, <2>2, <2>3, UnlockLocked
<1>15. ASSUME NEW t \in Threads, LoadLocks(t)
      PROVE  Locked'
  <2>1. Only(t)
    BY <1>15 DEF LoadLocks, objVars, Goto, Only, LoadTypes, TargetTypes
  <2>2. lock.writer # t
    BY <1>15 DEF LoadLocks, Locked, Loading
  <2>3. /\ rdlock(t) /\ strayed' = strayed /\ Guards(t)' = Guards(t) + 1
        /\ pc'[t] # "insert"
    BY <1>15, <2>2 DEF LoadLocks, objVars, Goto, Guards, LoadTypes, LockTypes,
       rdlock
  <2> QED
    BY <2>1, <2>2, <2>3, ReadLocked
<1>16. ASSUME NEW t \in Threads, LoadFind(t)
      PROVE  Locked'
  <2>1. Only(t)
    BY <1>16 DEF LoadFind, objVars, loadVars, Goto, Only, LoadTypes,
       TargetTypes
  <2>2. lock.writer # t
    BY <1>16 DEF LoadFind, Locked, Loading
  <2>3. /\ rdlock(t) /\ strayed' = strayed /\ Guards(t)' = Guards(t) + 1
        /\ pc'[t] # "insert"
    BY <1>16, <2>2 DEF LoadFind, objVars, loadVars, Goto, Guards, LoadTypes,
       LockTypes, rdlock
  <2> QED
    BY <2>1, <2>2, <2>3, ReadLocked
<1>17. ASSUME NEW t \in Threads, LoadNode(t)
      PROVE  Locked'
  <2>1. Only(t)
    BY <1>17 DEF LoadNode, objVars, Goto, setValue, Only, LoadTypes,
       TargetTypes
  <2>2. pc[t] = "loadFind" /\ unlock(t) /\ lock.writer # t /\ Guards(t) = 2
    BY <1>17 DEF LoadNode, Locked, Loading, Guards
  <2>3. \/ pc'[t] = "load"
        \/ pc'[t] = "set" /\ target'[t].ret = "load"
    <3>1. \/ pc' = [pc EXCEPT ![t] = "load"]
          \/ /\ pc' = [pc EXCEPT ![t] = "set"]
             /\ \E v, x : target' = [target EXCEPT ![t] = [var |-> v, val |-> x, ret |-> "load"]]
      BY <1>17 DEF LoadNode, Goto, setValue
    <3> QED
      BY <3>1 DEF LoadTypes, TargetTypes
  <2>4. Guards(t)' = 1 /\ pc'[t] # "insert"
    BY <2>3 DEF Guards
  <2> QED
    BY <2>1, <2>2, <2>4, UnlockLocked
<1>18. ASSUME NEW t \in Threads, LoadReturns(t)
      PROVE  Locked'
  <2>1. Only(t)
    BY <1>18 DEF LoadReturns, objVars, Goto, Only, LoadTypes, TargetTypes
  <2>2. lock.writer # t
    BY <1>18 DEF LoadReturns, objVars, Goto, Locked, Loading
  <2>3. /\ unlock(t) /\ Guards(t) > 0 /\ Guards(t)' = Guards(t) - 1
        /\ pc'[t] # "insert"
    BY <1>18, <2>2 DEF LoadReturns, objVars, Goto, Guards, LoadTypes
  <2> QED
    BY <2>1, <2>2, <2>3, UnlockLocked
<1>19. ASSUME UNCHANGED vars PROVE Locked'
  <2>1. UNCHANGED <<lock, strayed, pc, target, depth>>
    BY <1>19 DEF vars, loadVars
  <2>2. Held' = Held /\ \A u \in Threads : Loading(u)' = Loading(u)
    BY <2>1 DEF Held, Guards, Loading
  <2> QED
    BY <2>1, <2>2 DEF Locked
<1> QED
  BY <1>1, <1>2, <1>3, <1>4, <1>5, <1>6, <1>7, <1>8, <1>9, <1>10, <1>11,
     <1>12, <1>13, <1>14, <1>15, <1>16, <1>17, <1>18, <1>19 DEF Next

(* leaky is never reset.                                                   *)
LEMMA NextExclusive ==
  ASSUME LoadTypes, LoadTypes', TargetTypes, LockTypes, Exclusive, [Next]_vars
  PROVE  Exclusive'
<1>1. leaky => leaky'
  <2>1. ASSUME NEW t \in Threads, LookupEnter(t)
        PROVE  leaky => leaky'
    BY <2>1 DEF LookupEnter
  <2>2. ASSUME NEW t \in Threads, LookupReturns(t)
        PROVE  leaky => leaky'
    BY <2>2 DEF LookupReturns
  <2>3. ASSUME NEW t \in Threads, FindEnter(t)
        PROVE  leaky => leaky'
    BY <2>3 DEF FindEnter
  <2>4. ASSUME NEW t \in Threads, FindReturns(t)
        PROVE  leaky => leaky'
    BY <2>4 DEF FindReturns
  <2>5. ASSUME NEW t \in Threads, NEW v \in DOMAIN objs, addListener(t, v)
        PROVE  leaky => leaky'
    BY <2>5 DEF addListener
  <2>6. ASSUME NEW t \in Threads, NEW v \in DOMAIN objs, clearListener(t, v)
        PROVE  leaky => leaky'
    BY <2>6 DEF clearListener
  <2>7. ASSUME NEW t \in Threads, NEW v \in DOMAIN objs, getListener(t, v)
        PROVE  leaky => leaky'
    BY <2>7 DEF getListener
  <2>8. ASSUME NEW t \in Threads, NEW v \in DOMAIN objs,
               NEW key \in 0 .. MaxKeys + 1, addListenerAt(t, v, key)
        PROVE  leaky => leaky'
    BY <2>8 DEF addListenerAt
  <2>9. ASSUME NEW t \in Threads, NEW v \in DOMAIN objs, NEW val \in Values, SetByUser(t, v, val)
        PROVE  leaky => leaky'
    BY <2>9 DEF SetByUser
  <2>10. ASSUME NEW t \in Threads, Notify(t)
        PROVE  leaky => leaky'
    BY <2>10 DEF Notify
  <2>11. ASSUME NEW t \in Threads, Assign(t)
        PROVE  leaky => leaky'
    BY <2>11 DEF Assign
  <2>12. ASSUME NEW t \in Threads, NEW d \in Docs, LoadEnter(t, d)
        PROVE  leaky => leaky'
    BY <2>12 DEF LoadEnter
  <2>13. ASSUME NEW t \in Threads, ListMember(t)
        PROVE  leaky => leaky'
    BY <2>13 DEF ListMember
  <2>14. ASSUME NEW t \in Threads, ListReturns(t)
        PROVE  leaky => leaky'
    BY <2>14 DEF ListReturns
  <2>15. ASSUME NEW t \in Threads, LoadLocks(t)
        PROVE  leaky => leaky'
    BY <2>15 DEF LoadLocks
  <2>16. ASSUME NEW t \in Threads, LoadFind(t)
        PROVE  leaky => leaky'
    BY <2>16 DEF LoadFind
  <2>17. ASSUME NEW t \in Threads, LoadNode(t)
        PROVE  leaky => leaky'
    BY <2>17 DEF LoadNode
  <2>18. ASSUME NEW t \in Threads, LoadReturns(t)
        PROVE  leaky => leaky'
    BY <2>18 DEF LoadReturns
  <2>19. ASSUME UNCHANGED vars PROVE leaky => leaky'
    BY <2>19 DEF vars
  <2> QED
    BY <2>1, <2>2, <2>3, <2>4, <2>5, <2>6, <2>7, <2>8, <2>9, <2>10, <2>11,
       <2>12, <2>13, <2>14, <2>15, <2>16, <2>17, <2>18, <2>19 DEF Next
<1> QED
  BY <1>1, NextLocked DEF Exclusive

(* A consistent lock excludes.                                             *)
LEMMA LockedExcludes ==
  ASSUME LoadTypes, Exclusive
  PROVE  TableExclusive
<1> SUFFICES ASSUME ~leaky, NEW t \in Threads, NEW u \in Threads, t # u,
             pc[t] = "insert",
                    pc[u] \in {"insert", "find", "loadFind"}
             PROVE  FALSE
  BY DEF TableExclusive, Exclusive, Locked
<1>1. lock.writer = t /\ Held = {}
  BY ConfigAssumption DEF Exclusive, Locked
<1>2. pc[u] \in {"find", "loadFind"}
  BY <1>1 DEF Exclusive, Locked
<1>3. Guards(u) > 0
  BY <1>1, <1>2 DEF Guards
<1> QED
  BY <1>1, <1>3, NobodyHolds

-----------------------------------------------------------------------------
(* The invariant and the theorems.                                         *)

(* The inductive invariant.                                                *)
Inv ==
  /\ TableTypes /\ VarTypes /\ LoadTypes /\ TargetTypes /\ LockTypes
  /\ SameVariable /\ Keys /\ Told /\ Exclusive

(* The invariant holds initially.                                          *)
LEMMA InitInv == Init => Inv
<1> SUFFICES ASSUME Init PROVE Inv
  OBVIOUS
<1>1. SameVariable /\ Keys /\ Told
  BY DEF Init, SameVariable, Keys, Told, ListenersInformed
<1>2. Exclusive
  <2>1. Held = {}
    BY DEF Init, Held, Guards
  <2> QED
    BY <2>1, FS_EmptySet, ConfigAssumption DEF Init, Exclusive, Locked
<1> QED
  BY <1>1, <1>2, InitTableTypes, InitVarTypes, InitLoadTypes, InitTargetTypes,
     InitLockTypes DEF Inv

(* Every step keeps the invariant.                                         *)
LEMMA NextInv == Inv /\ [Next]_vars => Inv'
<1> SUFFICES ASSUME Inv, [Next]_vars PROVE Inv'
  OBVIOUS
<1>1. TableTypes' /\ VarTypes' /\ LoadTypes' /\ TargetTypes' /\ LockTypes'
  BY NextTableTypes, NextVarTypes, NextLoadTypes, NextTargetTypes,
     NextLockTypes DEF Inv
<1>2. SameVariable' /\ Keys' /\ Told'
  BY NextSameVariable, NextKeys, NextTold DEF Inv
<1>3. Exclusive'
  BY <1>1, NextExclusive DEF Inv
<1> QED
  BY <1>1, <1>2, <1>3 DEF Inv

(* The invariant holds in every reachable state.                           *)
LEMMA InvCorrect == Spec => []Inv
  BY InitInv, NextInv, PTL DEF Spec

(* Every variable keeps its type, and no key is above s_func_id.           *)
THEOREM TypeCorrect == Spec => []TypeOK
<1>1. Inv => TypeOK
  <2> SUFFICES ASSUME Inv PROVE TypeOK
    OBVIOUS
  <2>1. ASSUME NEW v \in DOMAIN objs
        PROVE  /\ objs[v] \in [name : Names, type : Types]
               /\ m_val[v] \in Values /\ s_func_id[v] \in Nat
               /\ m_cbs[v] \subseteq 0..s_func_id[v] /\ told[v] \in Values
               /\ owner[v] \in Threads \cup {NoThread}
    <3>1. v \in 1 .. Len(objs)
      BY DEF Inv, TableTypes
    <3>2. objs[v] \in [name : Names, type : Types]
      <4> DEFINE S == [name : Names, type : Types]
      <4>1. objs \in Seq(S)
        BY DEF Inv, TableTypes
      <4> HIDE DEF S
      <4>2. objs[v] \in S
        BY <3>1, <4>1, ElementOfSeq
      <4> QED
        BY <4>2 DEF S
    <3>3. /\ m_val[v] \in Values /\ s_func_id[v] \in Nat /\ told[v] \in Values
          /\ owner[v] \in Threads \cup {NoThread}
      BY <3>1, ElementOfSeq DEF Inv, VarTypes
    <3> QED
      BY <3>2, <3>3 DEF Inv, Keys
  <2>2. /\ s_datas \in [Names -> 1..Len(objs) \cup {NoVar}]
        /\ lock \in [writer : Threads \cup {NoThread}, readers : Int]
        /\ pc \in [Threads -> Points]
    BY DEF Inv, TableTypes, LockTypes, LoadTypes
  <2> QED
    BY <2>1, <2>2 DEF TypeOK, Points
<1> QED
  BY <1>1, InvCorrect, PTL

(* The first variable made for a name is the one in the table for good;    *)
(* another is made only for another type.                                  *)
THEOREM SameVariableCorrect == Spec => []SameVariable
<1>1. Inv => SameVariable
  BY DEF Inv
<1> QED
  BY <1>1, InvCorrect, PTL

(* addListener(cb) always finds a free key, whatever keys were chosen by   *)
(* hand and however often listeners are cleared.                           *)
THEOREM ListenerKeptCorrect == Spec => []ListenerKept
<1>1. Inv => ListenerKept
  BY KeysKeep DEF Inv
<1> QED
  BY <1>1, InvCorrect, PTL

(* The value the listeners were last called with is the value of the       *)
(* variable, or about to be assigned by a thread that has the lock.        *)
THEOREM ListenersInformedCorrect == Spec => []ListenersInformed
<1>1. Inv => ListenersInformed
  BY DEF Inv, Told
<1> QED
  BY <1>1, InvCorrect, PTL

(* The table is never read while it is changed and every unlock finds its  *)
(* lock, as long as no thread loads a document with the leaked write lock. *)
THEOREM TableExclusiveCorrect == Spec => []TableExclusive
<1>1. Inv => TableExclusive
  BY LockedExcludes DEF Inv
<1> QED
  BY <1>1, InvCorrect, PTL

=============================================================================
